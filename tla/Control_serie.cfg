SPECIFICATION SpecJusta
CONSTANTS
    Finalizadores = {k1, k2}
    HilosIO = {io1, io2}
    MaxPendientes = 2
    EnSerie = TRUE
    UsaPausas = TRUE
INVARIANTS
    BanderaDiceLaVerdad
PROPERTIES
    BusquedaEsExclusiva
    MataYReanuda
