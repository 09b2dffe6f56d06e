SPECIFICATION Spec
CONSTANTS
    MaxProcesos = 2
    Algoritmo = "RR"
    Interfaces = {io1}
    InterfacesFS = {}
    Desconectables = {io1}
    Quantum = 1
    Multiprog = 1
    Grados = {1, 2}
    MaxBajadores = 1
    Matables = {0, 1}
    UsaPausas = TRUE
INVARIANTS
    GradoCuadra
    BuscaConTodoDetenido
CHECK_DEADLOCK FALSE
