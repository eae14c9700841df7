SPECIFICATION Spec
CONSTANTS
    t1 = t1
    t2 = t2
    t3 = t3
    a = a
    b = b
    c = c
    NULL = NULL
    ENTRENADORES = {t1, t2}
    ESPECIES = {a, b}
    OBJETIVOS <- DosYUno
    STOCK <- SinStock
    POSICION <- DosLugares
    ESTIMACION = 2
    ALPHA = 1
    QUANTUM = 1
    ALGORITMOS = {"RR", "SJF_SD", "SJF_CD"}
    MENSAJES <- TresPokemons
    CICLOS = 1
    FALLAS <- FallaUna
CHECK_DEADLOCK FALSE
INVARIANTS
    Conservacion
    SinExceso
    CatchEsperado
    CaidaConocida
