SPECIFICATION SpecJusta
CONSTANTS
    Byte = 4
    Palabra = 2
    p0 = p0
    p1 = p1
    Pids = {p0, p1}
    Nadie = Nadie
    Programas <- Pseudocodigos
    Celdas = 4
    Algoritmo = "VRR"
    Quantum = 4
    Retardo = 2
    Matables = {p1}
    MaxEnVuelo = 2
    MaxGasto = 3
INVARIANTS
    QuantumCobrado
    Dialogo
    DesalojoJustificado
PROPERTIES
    ImplementaMaquina
    SueltaLaCPU
CHECK_DEADLOCK FALSE
