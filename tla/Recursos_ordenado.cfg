SPECIFICATION SpecJusta
CONSTANTS
    a = a
    b = b
    c = c
    r1 = r1
    Procesos = {a, b, c}
    NombresRecurso = {r1}
    Instancias <- UnaUnidad
    Nadie = Nadie
    MaxUnidades = 1
    ConReloj = TRUE
    MataEn = {"READY"}
    Desconecta = FALSE
INVARIANTS
    UnLugar
PROPERTIES
    ImplementaSemaforo
    EsperaTermina
CHECK_DEADLOCK FALSE
