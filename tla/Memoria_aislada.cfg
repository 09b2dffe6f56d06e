CONSTANTS
    Pids = {1, 2}
    Nadie = Nadie
    TamPagina = 2
    Entradas = 2
    AlgoritmoTLB = "LRU"
    CantMarcos = 3
    Valores = {0, 1}
    Textos <- Registros
    Tamanios = {2, 5}
    TamsLectura = {4}
    Recrece = FALSE
SPECIFICATION Spec
CHECK_DEADLOCK FALSE
INVARIANTS
    MarcosDeUno
    TraduccionVigente
PROPERTIES
    ImplementaEspacios
