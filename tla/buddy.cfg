SPECIFICATION FairSpec
CONSTANTS
    d1 = d1
    d2 = d2
    d3 = d3
    d4 = d4
    NULL = NULL
    NIVELES = 3
    POT <- Potencias
    MIN_PART_LEN = 2
    TAMS = {1, 3, 5, 9}
    REEMPLAZOS = {"FIFO", "LRU"}
    DIRS <- Direcciones4
\* The Broker dies with a message larger than the memory.
CHECK_DEADLOCK FALSE
INVARIANTS
    TypeOK
    Teselado
    SinBuddiesLibres
    OrdenSonLosVivos
    SinCaida
PROPERTIES
    DivideDondeBusca
    EsUnAlmacen
    PedidoSeAtiende
