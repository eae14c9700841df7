SPECIFICATION FairSpec
CONSTANTS
    a = a
    b = b
    p = p
    q = q
    FIN = FIN
    NULL = NULL
    MENSAJES <- Todos
    ESCENARIOS <- Todas
    ESPECIES = {a, b}
    LUGARES = {p, q}
    BLOCK_SIZE = 2
    BLOCKS = 4
CONSTRAINT Acotado
CHECK_DEADLOCK FALSE
INVARIANTS
    TypeOK
    TablaFiel
    BitmapFiel
    ContenidoExacto
PROPERTIES
    EsUnMundo
    TodosResponden
