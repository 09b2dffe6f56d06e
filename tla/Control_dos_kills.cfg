SPECIFICATION SpecJusta
CONSTANTS
    Finalizadores = {k1, k2}
    HilosIO = {io1}
    MaxPendientes = 1
    EnSerie = FALSE
    UsaPausas = FALSE
PROPERTIES
    TodoKillTermina
CHECK_DEADLOCK FALSE
