SPECIFICATION Spec
CONSTANTS
    d1 = d1
    d2 = d2
    d3 = d3
    d4 = d4
    d5 = d5
    NULL = NULL
    FIFO = FALSE
    FIRST_FIT = FALSE
    FRECUENCIA <- SinFrecuencia
    TAMS = {2, 3, 6}
    MEM_SIZE = 7
    MIN_PART_LEN = 2
    MAX_RELOJ = 7
    DIRS <- Direcciones4
\* The clock is bounded, and the Broker may die without a victim.
CHECK_DEADLOCK FALSE
SYMMETRY Simetria
INVARIANTS
    Teselado
    MemoriaPropia
