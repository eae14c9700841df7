---------------------------- MODULE Entrenadores ----------------------------
(***************************************************************************)
(* The data of Team/team.c and Team/teamStructures.h: what a trainer is    *)
(* (struct tEntrenador), what it needs and what it has to spare, how far it*)
(* is, and in which order the planners take the trainers in Ready. Team    *)
(* adds the lists, the semaphores and the threads.                         *)
(*                                                                         *)
(* A dictionary from species to a count is a function in which a species   *)
(* that is not a key counts 0: no code here keeps a key with a 0.          *)
(***************************************************************************)
EXTENDS Integers, Sequences, FiniteSets, Functions

CONSTANTS
    ENTRENADORES,   \* the trainers, one thread each
    ESPECIES,       \* the species of pokemon
    OBJETIVOS,      \* objetivos_entrenadores: how many of each species, by trainer
    STOCK,          \* pokemon_entrenadores: what each trainer has at the start
    POSICION,       \* posiciones_entrenadores: <<x, y>> of each trainer
    ESTIMACION,     \* estimacion_inicial
    ALPHA,          \* alpha: 0 or 1, so that the estimates stay integers
    QUANTUM,        \* quantum, in cycles
    ALGORITMOS,     \* the values of algoritmo_planificacion to consider
    NULL            \* nobody, nothing

Dicc == [ESPECIES -> Nat]
PUNTOS == Int \X Int
Planificadores == {"FIFO", "RR", "SJF_SD", "SJF_CD"}

ASSUME EntrenadoresAssumption ==
    /\ IsFiniteSet(ENTRENADORES) /\ IsFiniteSet(ESPECIES)
    /\ OBJETIVOS \in [ENTRENADORES -> Dicc]
    /\ STOCK \in [ENTRENADORES -> Dicc]
    /\ POSICION \in [ENTRENADORES -> PUNTOS]
    /\ NULL \notin ENTRENADORES \union ESPECIES
ASSUME PlanificadorAssumption ==
    /\ ALGORITMOS \subseteq Planificadores
    /\ ALPHA \in {0, 1} /\ ESTIMACION \in Nat /\ QUANTUM \in Nat \ {0}

Suma(d) == FoldFunction(+, 0, d)

EntrenadorNuevo(t) ==
    [estado |-> "NEW", razon |-> NULL, mov |-> "CATCH",
     especie |-> NULL, lugar |-> POSICION[t], socio |-> NULL,
     pos |-> POSICION[t], stock |-> STOCK[t],
     acum |-> 0, ultima |-> 0, estimado |-> ESTIMACION,
     calcular |-> TRUE, vengo |-> FALSE, desalojar |-> FALSE]

Entrenador ==
    [estado : {"NEW", "READY", "EXEC", "BLOCK", "FINISH"},
     razon : {NULL, "SIN_ESPACIO", "DEADLOCK", "ESPERANDO_CATCH", "ESPERANDO_POKEMON"},
     mov : {"CATCH", "RESOLUCION_DEADLOCK"},
     especie : ESPECIES \union {NULL}, lugar : PUNTOS,
     socio : ENTRENADORES \union {NULL}, pos : PUNTOS, stock : Dicc,
     acum : Nat, ultima : Nat, estimado : Nat,
     calcular : BOOLEAN, vengo : BOOLEAN, desalojar : BOOLEAN]

-----------------------------------------------------------------------------
\* Objectives and stock.

\* objetivo_global as initialize_structures leaves it: its keys are the species
\* somebody wants or has, its values what is wanted less what is had.
EspeciesGlobales ==
    {e \in ESPECIES : \E t \in ENTRENADORES : OBJETIVOS[t][e] + STOCK[t][e] > 0}
GlobalInicial ==
    [e \in EspeciesGlobales |->
        Suma([t \in ENTRENADORES |-> OBJETIVOS[t][e]])
        - Suma([t \in ENTRENADORES |-> STOCK[t][e]])]

CantObjetivos(t) == Suma(OBJETIVOS[t])
CantStock(x) == Suma(x.stock)

\* One more, one less of a species in a dictionary.
Mas(d, e) == [d EXCEPT ![e] = @ + 1]
Menos(d, e) == [d EXCEPT ![e] = @ - 1]

\* A species of which one more was caught leaves the dictionary when its need was
\* one or less.
Descontado(g, e) ==
    IF g[e] > 1 THEN [g EXCEPT ![e] = @ - 1]
    ELSE [f \in DOMAIN g \ {e} |-> g[f]]

ObjetivosCumplidos(t, x) ==
    \A e \in ESPECIES : OBJETIVOS[t][e] > 0 => x.stock[e] = OBJETIVOS[t][e]

Necesita(t, x) == {e \in ESPECIES : x.stock[e] < OBJETIVOS[t][e]}
Sobran(t, x) == {e \in ESPECIES : x.stock[e] > OBJETIVOS[t][e]}

Abs(n) == IF n < 0 THEN -n ELSE n
\* Mutant of Distancia: no absolute value.
DistanciaConSigno(p, q) == p[1] - q[1] + p[2] - q[2]
Distancia(p, q) == Abs(p[1] - q[1]) + Abs(p[2] - q[2])

\* The trainers of c that algoritmo_de_cercania may send to p: the nearest ones,
\* and among those at the same distance one in NEW if there is one.
MasCercanos(c, p, ent) ==
    LET lejos(t) == Distancia(ent[t].pos, p)
        cerca == {t \in c : \A u \in c : lejos(t) <= lejos(u)}
        nuevos == {t \in cerca : ent[t].estado = "NEW"}
    IN IF nuevos # {} THEN nuevos ELSE cerca

-----------------------------------------------------------------------------
\* The order of Ready. llegada lists the trainers with a tiempo_llegada, in order.

EsSJF(alg) == alg \in {"SJF_SD", "SJF_CD"}

\* A new estimate only for a trainer that comes from BLOCK or NEW.
ConEstimado(x) ==
    IF x.calcular
    THEN [x EXCEPT !.estimado = ALPHA * x.ultima + (1 - ALPHA) * @, !.calcular = FALSE]
    ELSE x

Antes(llegada, t, u) ==
    \E i, j \in DOMAIN llegada : i < j /\ llegada[i] = t /\ llegada[j] = u
SinHora(llegada, t) == \A i \in DOMAIN llegada : llegada[i] # t

\* Whom the planner's sort tells apart by the estimate; the others it orders by
\* their tiempo_llegada.
MenorEstimado(alg, R, ent) ==
    IF EsSJF(alg)
    THEN {t \in R : \A u \in R : ent[t].estimado <= ent[u].estimado}
    ELSE R
Empatan(alg, t, u, ent) == EsSJF(alg) => ent[t].estimado = ent[u].estimado

\* The sort reads the tiempo_llegada of a trainer that has none: a pointer nobody
\* has set yet, or a struct nobody has filled.
ComparaSinHora(alg, llegada, R, ent) ==
    \E t, u \in R : t # u /\ Empatan(alg, t, u, ent) /\ SinHora(llegada, t)

\* The trainers the sort of R may leave first. It has no defined order when it
\* compares a tiempo_llegada that is not there.
Primeros(alg, llegada, R, ent) ==
    LET M == MenorEstimado(alg, R, ent)
    IN IF ComparaSinHora(alg, llegada, R, ent) THEN M
       ELSE {t \in M : \A u \in M \ {t} : Antes(llegada, t, u)}

QuantumCumplido(alg, x) == alg = "RR" /\ x.acum = QUANTUM
Desalojado(alg, x) == alg = "SJF_CD" /\ x.desalojar
\* sjf_cd_planner: what is left to the trainer in Exec against what is left to the
\* one in Ready.
Desaloja(x, y) == x.estimado - x.acum > y.estimado - y.acum
=============================================================================
