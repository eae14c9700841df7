SPECIFICATION Spec
CONSTANTS
    d1 = d1
    d2 = d2
    d3 = d3
    d4 = d4
    d5 = d5
    NULL = NULL
    FIFO = TRUE
    FIRST_FIT = TRUE
    FRECUENCIA <- SinFrecuencia
    TAMS = {2, 3, 6}
    MEM_SIZE = 8
    MIN_PART_LEN = 2
    MAX_RELOJ = 0
    DIRS <- Direcciones4
CHECK_DEADLOCK FALSE
SYMMETRY Simetria
INVARIANT
    SinCaida
