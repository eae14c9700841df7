SPECIFICATION Spec
CONSTANTS
    t1 = t1
    t2 = t2
    t3 = t3
    a = a
    b = b
    c = c
    NULL = NULL
    ENTRENADORES = {t1, t2, t3}
    ESPECIES = {a, b, c}
    OBJETIVOS <- TresEnCirculo
    STOCK <- SinStock
    POSICION <- TresCerca
    ESTIMACION = 2
    ALPHA = 0
    QUANTUM = 1
    ALGORITMOS = {"SJF_SD"}
    MENSAJES <- UnoParaCada
    CICLOS = 1
    FALLAS <- NadaFalla
CHECK_DEADLOCK FALSE
INVARIANT
    NadieEnDosCanjes
