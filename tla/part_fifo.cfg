SPECIFICATION FairSpec
CONSTANTS
    d1 = d1
    d2 = d2
    d3 = d3
    d4 = d4
    d5 = d5
    NULL = NULL
    FIFO = TRUE
    FIRST_FIT = TRUE
    FRECUENCIA = 1
    TAMS = {2, 3, 5}
    MEM_SIZE = 7
    MIN_PART_LEN = 2
    MAX_RELOJ = 0
    DIRS <- Direcciones4
INVARIANTS
    TypeOK
    Teselado
    MemoriaPropia
    ColaSonLosVivos
    SinLibresContiguas
    SinCaida
PROPERTIES
    CompactaEnUnHueco
    EsUnAlmacen
    PedidoSeAtiende
