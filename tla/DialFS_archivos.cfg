CONSTANTS
    Nombres = {a, b, c}
    Ninguno = Ninguno
    TamBloque = 2
    CantBloques = 5
    Valores = {0, 1}
    Copias = {"adelante"}
    Tamanios = {3, 5}
    Datos <- MisDatos
SYMMETRY Simetria
SPECIFICATION Spec
CHECK_DEADLOCK FALSE
INVARIANTS
    BloquesDeUno
    CompactaEnOrden
    CaidaDelimitada
PROPERTIES
    SoloCompactarPierde
    ImplementaArchivos
