SPECIFICATION Spec
CONSTANTS
    d1 = d1
    d2 = d2
    d3 = d3
    d4 = d4
    d5 = d5
    NULL = NULL
    FIFO = TRUE
    FIRST_FIT = TRUE
    FRECUENCIA = 10
    TAMS = {2, 5, 6}
    MEM_SIZE = 11
    MIN_PART_LEN = 2
    MAX_RELOJ = 0
    DIRS <- Direcciones5
CHECK_DEADLOCK FALSE
SYMMETRY Simetria
INVARIANT
    MemoriaPropia
