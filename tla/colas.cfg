SPECIFICATION FairSpec
CONSTANTS
    p1 = p1
    p2 = p2
    s1 = s1
    s2 = s2
    q1 = q1
    q2 = q2
    NULL = NULL
    PUBS = {p1}
    QUEUES = {q1, q2}
    CONEXIONES <- UnaCadaUno
    CAPACIDAD = 1
    MAX_MSGS = 2
    MAX_CORTES = 1
\* It ends when MAX_MSGS messages were published and everything was read.
CHECK_DEADLOCK FALSE
INVARIANTS
    TypeOK
    NadieSePierde
    SoloSuscriptos
    SinReenvioEspurio
PROPERTY
    EntregaEventual
