SPECIFICATION SpecJusta
CONSTANTS
    p1 = p1
    p2 = p2
    Pids = {p1, p2}
    Nadie = Nadie
    c1 = c1
    c2 = c2
    c3 = c3
    Conexiones = {c1, c2, c3}
    Nombre <- NombresDados
    Desconectables = {c1}
    Matables = {p1, p2}
INVARIANTS
    SolicitudPrimera
    NadieDuerme
    CaidaConCausa
    NombreUnico
PROPERTIES
    ServidaAntesDeSeguir
    SolicitudTermina
CHECK_DEADLOCK FALSE
