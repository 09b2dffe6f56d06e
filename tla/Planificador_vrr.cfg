SPECIFICATION SpecJusta
CONSTANTS
    MaxProcesos = 2
    Algoritmo = "VRR"
    Interfaces = {io1}
    InterfacesFS = {}
    Desconectables = {}
    Quantum = 2
    Multiprog = 2
    Grados = {}
    MaxBajadores = 0
    Matables = {0}
    UsaPausas = FALSE
INVARIANTS
    TypeOK
    UnSoloLugar
    CPUCoherente
    CondenadoNoSigue
    PrioridadConResto
    ColasCubiertas
PROPERTIES
    PedidoTermina
    CondenadoTermina
    ReadyEjecuta
CHECK_DEADLOCK FALSE
