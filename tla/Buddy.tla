-------------------------------- MODULE Buddy --------------------------------
(***************************************************************************)
(* The buddy system of the Broker (ALGORITMO_MEMORIA=BS):                  *)
(* asignar_particion_buddy, buddy_dividir_raiz, buddy_liberar_particion and*)
(* buddy_mergear of Broker/broker.c.                                       *)
(*                                                                         *)
(* ARBOL_BUDDY is given by its leaves: a node is a level and a base, and a *)
(* level l has the size 2^l, so the leaves say which nodes were divided. A *)
(* request holds M_PROCESO; a division and a merge are a step each, because*)
(* mandar_mensaje walks PARTICIONES without its mutex (action Usar).       *)
(***************************************************************************)
EXTENDS Integers, FiniteSets, SequencesExt

CONSTANTS
    NIVELES,        \* log2 of TAMANO_MEMORIA
    POT,            \* pow(2, potencia)
    MIN_PART_LEN,   \* TAMANO_MINIMO_PARTICION
    TAMS,           \* sizes of the messages that arrive
    DIRS,           \* addresses malloc gives to mensaje structs
    REEMPLAZOS,     \* the values of ALGORITMO_REEMPLAZO to consider
    NULL            \* no message

ASSUME PotAssumption ==
    /\ NIVELES \in Nat
    /\ POT \in [0 .. NIVELES -> Nat \ {0}]
    /\ POT[0] = 1
    /\ \A l \in 1 .. NIVELES : POT[l] = 2 * POT[l - 1]

MEM_SIZE == POT[NIVELES]

ASSUME TamsAssumption ==
    TAMS \subseteq Nat \ {0} /\ MIN_PART_LEN \in 1 .. MEM_SIZE
ASSUME BuddyAssumption ==
    NULL \notin DIRS /\ REEMPLAZOS \subseteq {"FIFO", "LRU"}

VARIABLES
    hojas,      \* the leaves of ARBOL_BUDDY, by the base of their partition
    reemplazo,  \* ALGORITMO_REEMPLAZO, read from the file when it starts
    orden,      \* the occupied leaves in the order they are evicted in: FIFO,
                \* PARTICIONES_QUEUE; LRU, by ultimo_uso (unix_epoch gives
                \* nanoseconds, so no two are equal)
    vivos,      \* the messages in MENSAJES
    pedido,     \* the request in progress: address of the new mensaje, level
    raiz,       \* the node where the search of the request starts
    pc,         \* where the request is
    nodo        \* the argument of buddy_mergear: the base of a leaf

vars == <<hojas, reemplazo, orden, vivos, pedido, raiz, pc, nodo>>

Hoja == [nivel : 0 .. NIVELES, libre : BOOLEAN,
         mensaje : DIRS \union {NULL}]

Nueva(l) == [nivel |-> l, libre |-> TRUE, mensaje |-> NULL]

ARBOL == [base |-> 0, nivel |-> NIVELES]    \* the root of the tree

SinPedido == [dir |-> NULL, nivel |-> 0]

Init ==
    /\ hojas = [b \in {0} |-> Nueva(NIVELES)]
    /\ reemplazo \in REEMPLAZOS
    /\ orden = << >>
    /\ vivos = {}
    /\ pedido = SinPedido
    /\ raiz = ARBOL
    /\ pc = "ocioso"
    /\ nodo = 0

-----------------------------------------------------------------------------
Tam(b) == POT[hojas[b].nivel]

Libres == {b \in DOMAIN hojas : hojas[b].libre}
Ocupadas == DOMAIN hojas \ Libres

Bajo(b, n) == n.base <= b /\ b < n.base + POT[n.nivel]

(* The free leaves of level l under the node n.                            *)
DeNivel(l, n) == {b \in Libres : hojas[b].nivel = l /\ Bajo(b, n)}

(* buscar_nodo_tam walks the tree from left to right.                      *)
PrimeraDe(B, b) == b \in B /\ \A a \in B : b <= a

(* The smallest power of two where t bytes and the minimum fit; one level  *)
(* more than the tree has for a message larger than the memory.            *)
Nivel(t) == CHOOSE l \in 0 .. NIVELES + 1 :
    /\ l = NIVELES + 1 \/ (POT[l] >= t /\ POT[l] >= MIN_PART_LEN)
    /\ \A k \in 0 .. l - 1 : POT[k] < t \/ POT[k] < MIN_PART_LEN

DondeEsta(d) == CHOOSE b \in Ocupadas : hojas[b].mensaje = d

-----------------------------------------------------------------------------
(* A message of size t arrives.                                            *)
Pedir(d, t) ==
    /\ pc = "ocioso"
    /\ d \notin vivos
    /\ pedido' = [dir |-> d, nivel |-> Nivel(t)]
    /\ raiz' = ARBOL
    /\ pc' = "buscar"
    /\ UNCHANGED <<hojas, reemplazo, orden, vivos, nodo>>

(* Mutant of Sirve: it does not ask for a free leaf.                       *)
SirveOcupada(b) ==
    PrimeraDe({a \in DOMAIN hojas : /\ hojas[a].nivel = pedido.nivel
                                    /\ Bajo(a, raiz)}, b)

(* b is the leaf where the search from raiz ends.                          *)
Sirve(b) == PrimeraDe(DeNivel(pedido.nivel, raiz), b)

(* Caso lindo: there is a free leaf of the size.                           *)
Asignar ==
    \E b \in DOMAIN hojas :
      /\ pc = "buscar"
      /\ Sirve(b)
      /\ hojas' = [hojas EXCEPT ![b].libre = FALSE, ![b].mensaje = pedido.dir]
      /\ orden' = Append(orden, b)
      /\ vivos' = vivos \union {pedido.dir}
      /\ pedido' = SinPedido
      /\ pc' = "ocioso"
      /\ UNCHANGED <<reemplazo, raiz, nodo>>

(* Mutants of ADividir: the search stops at the double; it takes the last  *)
(* leaf of the size.                                                       *)
ADividirDoble(b) == PrimeraDe(DeNivel(pedido.nivel + 1, ARBOL), b)
ADividirUltima(b) ==
    /\ b \in Libres /\ hojas[b].nivel > pedido.nivel
    /\ \A a \in Libres : hojas[a].nivel > pedido.nivel =>
         \/ hojas[b].nivel < hojas[a].nivel
         \/ hojas[b].nivel = hojas[a].nivel /\ a <= b

(* b is the leaf to divide: the first one, in the whole tree, of the       *)
(* smallest size above the one wanted.                                     *)
ADividir(b) ==
    \E l \in pedido.nivel + 1 .. NIVELES :
      /\ PrimeraDe(DeNivel(l, ARBOL), b)
      /\ \A k \in pedido.nivel + 1 .. l - 1 : DeNivel(k, ARBOL) = {}

(* Mutant of Dividida: the right half starts at the base of the left one.  *)
DivididaMal(b, l) ==
    [a \in DOMAIN hojas |-> IF a = b THEN Nueva(l) ELSE hojas[a]]

(* The leaves after b is divided into two of level l.                      *)
Dividida(b, l) ==
    [a \in DOMAIN hojas \union {b + POT[l]} |->
        IF a \in {b, b + POT[l]} THEN Nueva(l) ELSE hojas[a]]

(* Caso feo: buddy_dividir_raiz, and the search starts again from the left *)
(* child.                                                                  *)
Dividir ==
    \E b \in DOMAIN hojas :
      /\ pc = "buscar"
      /\ DeNivel(pedido.nivel, raiz) = {}
      /\ ADividir(b)
      /\ hojas' = Dividida(b, hojas[b].nivel - 1)
      /\ raiz' = [base |-> b, nivel |-> hojas[b].nivel - 1]
      /\ UNCHANGED <<reemplazo, orden, vivos, pedido, pc, nodo>>

NoHayLugar ==
    /\ DeNivel(pedido.nivel, raiz) = {}
    /\ \A b \in DOMAIN hojas : ~ADividir(b)

(* Mutant of Victima: the wrong end of the queue.                          *)
UltimaVictima(v) == v = Last(orden)

(* get_fifo or get_lru: v is the victim.                                   *)
Victima(v) == v = Head(orden)

(* algoritmo_de_reemplazo and buddy_liberar_particion.                     *)
Desalojar ==
    \E v \in DOMAIN hojas :
      /\ pc = "buscar"
      /\ NoHayLugar
      /\ orden # << >> /\ Victima(v)
      /\ vivos' = vivos \ {hojas[v].mensaje}
      /\ hojas' = [hojas EXCEPT ![v].libre = TRUE]
      /\ orden' = Tail(orden)
      /\ nodo' = v
      /\ pc' = "mergear"
      /\ UNCHANGED <<reemplazo, pedido, raiz>>

(* There is nothing to evict: list_get gives NULL, or get_lru a pointer it *)
(* never set, and the Broker dies.                                         *)
DesalojarSinVictima ==
    /\ pc = "buscar"
    /\ NoHayLugar
    /\ orden = << >>
    /\ pc' = "caido"
    /\ UNCHANGED <<hojas, reemplazo, orden, vivos, pedido, raiz, nodo>>

-----------------------------------------------------------------------------
(* The other child of the parent of b.                                     *)
Companiero(b) ==
    IF (b \div Tam(b)) % 2 = 0 THEN b + Tam(b) ELSE b - Tam(b)

(* Mutant of PuedeMergear: only a left child looks for its buddy.          *)
PuedeMergearIzquierdo(b) ==
    /\ hojas[b].nivel # NIVELES
    /\ b + Tam(b) = Companiero(b)
    /\ Companiero(b) \in Libres
    /\ hojas[Companiero(b)].nivel = hojas[b].nivel

(* buddy_mergear goes on: b is not the root, its buddy is a free leaf.     *)
PuedeMergear(b) ==
    /\ hojas[b].nivel # NIVELES
    /\ Companiero(b) \in Libres
    /\ hojas[Companiero(b)].nivel = hojas[b].nivel

Menor(a, b) == IF a < b THEN a ELSE b

(* The children go and the parent is a leaf again.                         *)
MergearPar ==
    /\ pc = "mergear"
    /\ PuedeMergear(nodo)
    /\ LET izq == Menor(nodo, Companiero(nodo))
           l == hojas[nodo].nivel + 1
       IN /\ hojas' = [a \in DOMAIN hojas \ ({nodo, Companiero(nodo)} \ {izq}) |->
                         IF a = izq THEN Nueva(l) ELSE hojas[a]]
          /\ nodo' = izq
    /\ UNCHANGED <<reemplazo, orden, vivos, pedido, raiz, pc>>

(* buddy_mergear returns and the request searches again.                   *)
MergearFin ==
    /\ pc = "mergear"
    /\ ~PuedeMergear(nodo)
    /\ pc' = "buscar"
    /\ UNCHANGED <<hojas, reemplazo, orden, vivos, pedido, raiz, nodo>>

(* Mutant of AlFinal: the leaf is not taken out of its old place.          *)
OtraVezAlFinal(k) == Append(orden, orden[k])

(* The k-th leaf becomes the last one to be evicted.                       *)
AlFinal(k) == Append(RemoveAt(orden, k), orden[k])

(* mandar_mensaje sent d: the first partition that points to it, which may *)
(* be a free one that still points there, is the last one used.            *)
Usar(d) ==
    /\ reemplazo = "LRU"
    /\ pc # "caido"
    /\ d \in vivos
    /\ \E k \in DOMAIN orden :
         /\ PrimeraDe({a \in DOMAIN hojas : hojas[a].mensaje = d}, orden[k])
         /\ orden' = AlFinal(k)
    /\ UNCHANGED <<hojas, reemplazo, vivos, pedido, raiz, pc, nodo>>

-----------------------------------------------------------------------------
Asignador ==
    \/ Asignar \/ Dividir
    \/ Desalojar \/ DesalojarSinVictima
    \/ MergearPar \/ MergearFin

Next ==
    \/ \E d \in DIRS, t \in TAMS : Pedir(d, t)
    \/ Asignador
    \/ \E d \in DIRS : Usar(d)

Spec == Init /\ [][Next]_vars

(* The thread inside the allocator waits for nobody.                       *)
FairSpec == Spec /\ WF_vars(Asignador)

-----------------------------------------------------------------------------
(* The memory in use, as the rest of the Broker sees it.                   *)
Lugar == [d \in {hojas[b].mensaje : b \in Ocupadas} |->
            [base |-> DondeEsta(d), tam |-> Tam(DondeEsta(d))]]

(* The promise of the memory to the rest of the Broker.                    *)
A == INSTANCE Almacen WITH lugar <- Lugar
EsUnAlmacen == A!AlmacenSpec

(* Every variable has its type.                                            *)
TypeOK ==
    /\ DOMAIN hojas \subseteq Nat
    /\ hojas \in [DOMAIN hojas -> Hoja]
    /\ reemplazo \in REEMPLAZOS
    /\ orden \in Seq(DOMAIN hojas)
    /\ vivos \subseteq DIRS
    /\ pedido \in [dir : DIRS \union {NULL}, nivel : 0 .. NIVELES + 1]
    /\ raiz \in [base : Nat, nivel : 0 .. NIVELES]
    /\ pc \in {"ocioso", "buscar", "mergear", "caido"}
    /\ nodo \in Nat

(* Every byte of the memory belongs to exactly one leaf of the tree,       *)
(* whatever was divided, freed and merged so far.                          *)
CubreLaMemoria ==
    \A x \in 0 .. MEM_SIZE - 1 :
      \E b \in DOMAIN hojas : b <= x /\ x < b + Tam(b)

SinSolapes ==
    \A a, b \in DOMAIN hojas : a < b => a + Tam(a) <= b

DentroDeLaMemoria == \A b \in DOMAIN hojas : b + Tam(b) <= MEM_SIZE

Teselado == CubreLaMemoria /\ SinSolapes /\ DentroDeLaMemoria

(* When no request is in progress, no two free leaves have the same parent:*)
(* merging climbs as far as it can and a division leaves no free pair.     *)
SinBuddiesLibres ==
    pc = "ocioso" => \A a, b \in Libres :
        a # b /\ hojas[a].nivel = hojas[b].nivel =>
            a \div (2 * Tam(a)) # b \div (2 * Tam(a))

(* What can be evicted are exactly the cached messages, once each: the     *)
(* order of eviction holds every occupied leaf once, and each of them holds*)
(* a message of its own.                                                   *)
OrdenSonLosVivos ==
    /\ \A k \in DOMAIN orden : orden[k] \in Ocupadas
    /\ \A b \in Ocupadas : \E k \in DOMAIN orden : orden[k] = b
    /\ \A j, k \in DOMAIN orden : j # k => orden[j] # orden[k]
    /\ {hojas[b].mensaje : b \in Ocupadas} = vivos
    /\ \A a, b \in Ocupadas : a # b => hojas[a].mensaje # hojas[b].mensaje

Entra == pedido.nivel <= NIVELES

(* Only a message larger than the memory finds the Broker without a victim *)
(* and kills it.                                                           *)
SinCaida == pc = "caido" => ~Entra

(* Once a request divided a leaf it goes on inside it: although the next   *)
(* leaf to divide is looked for in the whole tree, it is the left child of *)
(* the last division, and nothing is evicted any more.                     *)
DivideDondeBusca ==
    [][/\ Dividir /\ raiz # ARBOL => /\ raiz'.base = raiz.base
                                     /\ raiz'.nivel = raiz.nivel - 1
       /\ Desalojar => raiz = ARBOL]_vars

(* Every message that fits in the memory ends up stored: searches,         *)
(* divisions, evictions and merges end.                                    *)
PedidoSeAtiende == (pc = "buscar" /\ Entra) ~> (pc = "ocioso")
=============================================================================
