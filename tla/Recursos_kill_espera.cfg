SPECIFICATION Spec
CONSTANTS
    a = a
    b = b
    c = c
    r1 = r1
    Procesos = {a, b, c}
    NombresRecurso = {r1}
    Instancias <- UnaUnidad
    Nadie = Nadie
    MaxUnidades = 1
    ConReloj = FALSE
    MataEn = {"ESPERA"}
    Desconecta = FALSE
INVARIANTS
    Exclusion
CHECK_DEADLOCK FALSE
