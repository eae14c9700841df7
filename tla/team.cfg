SPECIFICATION FairSpec
CONSTANTS
    t1 = t1
    t2 = t2
    t3 = t3
    a = a
    b = b
    c = c
    NULL = NULL
    ENTRENADORES = {t1, t2}
    ESPECIES = {a, b}
    OBJETIVOS <- DosCruzados
    STOCK <- SinStock
    POSICION <- DosCerca
    ESTIMACION = 2
    ALPHA = 0
    QUANTUM = 1
    ALGORITMOS = {"FIFO", "SJF_SD"}
    MENSAJES <- UnoDeCada
    CICLOS = 1
    FALLAS <- NadaFalla
CHECK_DEADLOCK FALSE
INVARIANTS
    TypeOK
    UnoEnExec
    CadaUnoEnUnaLista
PROPERTIES
    SinEsperaEterna
    TodosTerminan
