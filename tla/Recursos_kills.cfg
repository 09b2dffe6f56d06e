SPECIFICATION Spec
CONSTANTS
    a = a
    b = b
    c = c
    r1 = r1
    Procesos = {a, b, c}
    NombresRecurso = {r1}
    Instancias <- UnaUnidad
    Nadie = Nadie
    MaxUnidades = 2
    ConReloj = TRUE
    MataEn = {"READY", "EXEC", "IO", "ESPERA"}
    Desconecta = TRUE
INVARIANTS
    SinDuplicados
    Cuadra
    NadieEsperaEnVano
    NoCae
SYMMETRY Simetria
CHECK_DEADLOCK FALSE
