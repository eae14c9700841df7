----------------------------- MODULE Particiones -----------------------------
(***************************************************************************)
(* The dynamic partitions of the Broker (ALGORITMO_MEMORIA=PARTICIONES):   *)
(* asignar_particion, algoritmo_de_reemplazo, mergear_particiones_libres   *)
(* and compactar_particiones of Broker/broker.c.                           *)
(*                                                                         *)
(* Requests are serialised by M_PROCESO, so one request is in progress at  *)
(* a time; every iteration of the loops of the allocator is a step, because*)
(* mandar_mensaje walks and updates PARTICIONES without M_PARTICIONES while*)
(* another thread is inside the allocator (action Usar).                   *)
(*                                                                         *)
(* A cached message is named by the address of its mensaje struct: that is *)
(* what a partition stores, and malloc may hand the address of a destroyed *)
(* message to a new one while free partitions still point to it.           *)
(***************************************************************************)
EXTENDS Integers, FiniteSets, SequencesExt

CONSTANTS
    MEM_SIZE,       \* TAMANO_MEMORIA
    MIN_PART_LEN,   \* TAMANO_MINIMO_PARTICION
    TAMS,           \* sizes of the messages that arrive
    DIRS,           \* addresses malloc gives to mensaje structs
    FIFO,           \* TRUE: ALGORITMO_REEMPLAZO=FIFO, FALSE: LRU
    FIRST_FIT,      \* TRUE: ALGORITMO_PARTICION_LIBRE=FF, FALSE: BF
    FRECUENCIA,     \* FRECUENCIA_COMPACTACION
    MAX_RELOJ,      \* bound: readings of the clock that LRU compares
    NULL            \* no message

ASSUME MemoriaAssumption ==
    /\ MEM_SIZE \in Nat /\ MIN_PART_LEN \in 1 .. MEM_SIZE
    /\ TAMS \subseteq 1 .. MEM_SIZE
ASSUME DirsAssumption == NULL \notin DIRS
ASSUME AlgoritmosAssumption ==
    /\ FIFO \in BOOLEAN /\ FIRST_FIT \in BOOLEAN
    /\ FRECUENCIA \in Nat \union {-1} /\ MAX_RELOJ \in Nat

VARIABLES
    part,       \* PARTICIONES, sorted by base
    cola,       \* PARTICIONES_QUEUE: the messages of the queued partitions
    intentos,   \* INTENTOS
    vivos,      \* the messages in MENSAJES
    reloj,      \* unix_epoch
    pedido,     \* the request in progress: address of the new mensaje, size
    pc,         \* where the request is
    volver,     \* where to go on when mergear_particiones_libres returns
    i,          \* index of mergear_particiones_libres
    c           \* index of compactar_particiones

vars == <<part, cola, intentos, vivos, reloj, pedido, pc, volver, i, c>>

Particion == [base : Int, tam : Int, libre : BOOLEAN,
              mensaje : DIRS \union {NULL}, uso : Nat]

SinPedido == [dir |-> NULL, tam |-> 0]

Init ==
    /\ part = << [base |-> 0, tam |-> MEM_SIZE, libre |-> TRUE,
                  mensaje |-> NULL, uso |-> 0] >>
    /\ cola = << >>
    /\ intentos = 0
    /\ vivos = {}
    /\ reloj = 0
    /\ pedido = SinPedido
    /\ pc = "ocioso" /\ volver = "ocioso"
    /\ i = 1 /\ c = 1

-----------------------------------------------------------------------------
(* Helpers on the table of partitions.                                     *)

Libres == {k \in DOMAIN part : part[k].libre}
Ocupadas == DOMAIN part \ Libres

Ordenada(s) == \A j, k \in DOMAIN s : j < k => s[j].base <= s[k].base

(* ordenar_particiones when every partition but the z-th is in order: the  *)
(* z-th goes where its base belongs, and list_sort may leave equal bases in*)
(* any order.                                                              *)
Ordenar(s, z) ==
    {t \in {InsertAt(RemoveAt(s, z), k, s[z]) : k \in DOMAIN s} : Ordenada(t)}

(* Mutant of Candidatas: the search forgets to compare the sizes.          *)
CandidatasSinTam(tam) == {k \in Libres : part[k].tam >= MIN_PART_LEN}

(* Mutant of Candidatas: the search forgets to look at libre.              *)
CandidatasOcupadas(tam) ==
    {k \in DOMAIN part : tam <= part[k].tam /\ part[k].tam >= MIN_PART_LEN}

(* The free partitions that first_fit_search and best_fit_search accept.   *)
Candidatas(tam) ==
    {k \in Libres : tam <= part[k].tam /\ part[k].tam >= MIN_PART_LEN}

(* buscar_particion_libre: the first candidate, or the first of the        *)
(* tightest ones.                                                          *)
Encontrada(k, tam) ==
    /\ k \in Candidatas(tam)
    /\ \A j \in Candidatas(tam) :
         IF FIRST_FIT THEN k <= j
         ELSE \/ part[k].tam < part[j].tam
              \/ part[k].tam = part[j].tam /\ k <= j

(* The partition that holds a queued message.                              *)
DondeEsta(d) == CHOOSE k \in Ocupadas : part[k].mensaje = d

(* get_fifo or get_lru: v is the victim.                                   *)
Victima(v) ==
    /\ v \in Ocupadas
    /\ IF FIFO THEN cola # << >> /\ v = DondeEsta(Head(cola))
       ELSE \A k \in Ocupadas : \/ part[v].uso < part[k].uso
                                \/ part[v].uso = part[k].uso /\ v <= k

(* Mutant of QuitarVictima: the wrong end of the queue.                    *)
QuitarUltima(b) == Front(cola)

(* quitarVictimaFIFO: drops the first queued partition with that base.     *)
QuitarVictima(b) ==
    LET k == CHOOSE k \in DOMAIN cola :
               /\ part[DondeEsta(cola[k])].base = b
               /\ \A j \in 1 .. k - 1 : part[DondeEsta(cola[j])].base # b
    IN  RemoveAt(cola, k)

(* unix_epoch has nanosecond resolution: two readings differ. Only get_lru *)
(* compares them, so the clock runs in LRU configurations only.            *)
LeerReloj ==
    IF FIFO THEN UNCHANGED reloj
    ELSE reloj < MAX_RELOJ /\ reloj' = reloj + 1

Encolar(d) == cola' = IF FIFO THEN Append(cola, d) ELSE cola

-----------------------------------------------------------------------------
(* A message of size t arrives: incoming takes M_PROCESO and mensaje_create*)
(* allocates the struct before it looks for memory.                        *)
Pedir(d, t) ==
    /\ pc = "ocioso"
    /\ d \notin vivos
    /\ pedido' = [dir |-> d, tam |-> t]
    /\ pc' = "buscar"
    /\ UNCHANGED <<part, cola, intentos, vivos, reloj, volver, i, c>>

(* The free partition has exactly the size that was asked for.             *)
AsignarExacta ==
    \E k \in DOMAIN part :
      /\ pc = "buscar"
      /\ Encontrada(k, pedido.tam)
      /\ part[k].tam = pedido.tam
      /\ LeerReloj
      /\ part' = [part EXCEPT ![k].libre = FALSE, ![k].uso = reloj',
                              ![k].mensaje = pedido.dir]
      /\ Encolar(pedido.dir)
      /\ vivos' = vivos \union {pedido.dir}
      /\ pedido' = SinPedido
      /\ pc' = "ocioso"
      /\ UNCHANGED <<intentos, volver, i, c>>

Reserva(tam) == IF tam >= MIN_PART_LEN THEN tam ELSE MIN_PART_LEN

(* The free partition is larger: a new one takes its start, the rest stays *)
(* free, and the table is sorted and then merged.                          *)
AsignarPartiendo ==
    \E k \in DOMAIN part :
      /\ pc = "buscar"
      /\ Encontrada(k, pedido.tam)
      /\ part[k].tam # pedido.tam
      /\ LeerReloj
      /\ LET r == Reserva(pedido.tam)
             nueva == [base |-> part[k].base, tam |-> r, libre |-> FALSE,
                       mensaje |-> pedido.dir, uso |-> reloj']
             resto == [part[k] EXCEPT !.base = @ + r, !.tam = @ - r]
         IN part' \in Ordenar(InsertAt([part EXCEPT ![k] = resto], k, nueva),
                              k + 1)
      /\ Encolar(pedido.dir)
      /\ vivos' = vivos \union {pedido.dir}
      /\ pedido' = SinPedido
      /\ pc' = "mergear" /\ volver' = "ocioso" /\ i' = 1
      /\ UNCHANGED <<intentos, c>>

(* Mutants of TocaCompactar: one failed search too late; INTENTOS ignored. *)
TocaCompactarTarde == intentos > FRECUENCIA /\ FRECUENCIA # -1
TocaCompactarSiempre == FRECUENCIA # -1

(* The test that chooses between compacting and evicting.                  *)
TocaCompactar == intentos >= FRECUENCIA /\ FRECUENCIA # -1

(* algoritmo_de_reemplazo after a failed search: the victim's message is   *)
(* destroyed and every partition with its base becomes free. INTENTOS only *)
(* matters when the frequency is not -1, so it stays put in that case.     *)
Desalojar ==
    \E v \in DOMAIN part :
      /\ pc = "buscar"
      /\ Candidatas(pedido.tam) = {}
      /\ ~TocaCompactar
      /\ Victima(v)
      /\ vivos' = vivos \ {part[v].mensaje}
      /\ part' = [k \in DOMAIN part |->
                    IF part[k].base = part[v].base
                    THEN [part[k] EXCEPT !.libre = TRUE] ELSE part[k]]
      /\ cola' = IF FIFO THEN QuitarVictima(part[v].base) ELSE cola
      /\ intentos' = IF FRECUENCIA = -1 THEN intentos ELSE intentos + 1
      /\ pc' = "mergear" /\ volver' = "buscar" /\ i' = 1
      /\ UNCHANGED <<reloj, pedido, c>>

(* There is no victim: list_get of an empty queue returns NULL and the     *)
(* Broker dies reading it (get_lru returns an uninitialised pointer).      *)
DesalojarSinVictima ==
    /\ pc = "buscar"
    /\ Candidatas(pedido.tam) = {}
    /\ ~TocaCompactar
    /\ \A v \in DOMAIN part : ~Victima(v)
    /\ pc' = "caido"
    /\ UNCHANGED <<part, cola, intentos, vivos, reloj, pedido, volver, i, c>>

-----------------------------------------------------------------------------
(* Mutant of Mergeada: the size of the second partition is lost.           *)
MergeadaSinSumar(s, k) == RemoveAt(s, k + 1)

(* The list s after its k-th partition swallows the next one.              *)
Mergeada(s, k) == RemoveAt([s EXCEPT ![k].tam = @ + s[k + 1].tam], k + 1)

(* Mutant of QuedanPares: the last pair is never looked at.                *)
QuedanParesMenosUno == i < Len(part) - 1

QuedanPares == i < Len(part)

(* Mutant of TrasMergear: the index is reset but not incremented.          *)
TrasMergearCero == 0

(* After a merge the index is set to 0 and the loop increments it: the     *)
(* first pair is not looked at again.                                      *)
TrasMergear == 2

(* mergear_particiones_libres, one iteration.                              *)
MergearPar ==
    /\ pc = "mergear"
    /\ QuedanPares
    /\ IF part[i].libre /\ part[i + 1].libre
       THEN part' = Mergeada(part, i) /\ i' = TrasMergear
       ELSE i' = i + 1 /\ UNCHANGED part
    /\ UNCHANGED <<cola, intentos, vivos, reloj, pedido, pc, volver, c>>

MergearFin ==
    /\ pc = "mergear"
    /\ ~QuedanPares
    /\ pc' = volver
    /\ UNCHANGED <<part, cola, intentos, vivos, reloj, pedido, volver, i, c>>

(* compactar_particiones: called after a failed search, when INTENTOS has  *)
(* reached the frequency.                                                  *)
Compactar ==
    /\ pc = "buscar"
    /\ Candidatas(pedido.tam) = {}
    /\ TocaCompactar
    /\ pc' = "compactar" /\ c' = 1
    /\ UNCHANGED <<part, cola, intentos, vivos, reloj, pedido, volver, i>>

(* Mutant of SiguienteOcupada: the last occupied partition.                *)
UltimaOcupada(z) ==
    /\ z \in Ocupadas /\ z > c
    /\ \A k \in Ocupadas : z >= k

(* z is the first occupied partition after the c-th.                       *)
SiguienteOcupada(z) ==
    /\ z \in Ocupadas /\ z > c
    /\ \A k \in Ocupadas : k > c => z <= k

(* Mutant of Corrida: the free partition slides by its own size.           *)
CorridaPropia(l, o) == [l EXCEPT !.base = @ + l.tam]

(* The free partition l after the occupied o moved to its base.            *)
Corrida(l, o) == [l EXCEPT !.base = @ + o.tam]

(* Mutant of TrasMover: the break leaves both loops.                       *)
TrasMoverFin == Len(part) + 1

(* The break leaves the inner loop only.                                   *)
TrasMover == c + 1

(* The c-th partition is free: the next occupied one moves to its base and *)
(* the free one slides after it; the table is sorted and merged.           *)
CompactarMover ==
    \E z \in DOMAIN part :
      /\ pc = "compactar" /\ c <= Len(part)
      /\ part[c].libre
      /\ SiguienteOcupada(z)
      /\ part' \in Ordenar(
           [part EXCEPT ![c] = [part[z] EXCEPT !.base = part[c].base],
                        ![z] = Corrida(part[c], part[z])],
           z)
      /\ c' = TrasMover
      /\ pc' = "mergear" /\ volver' = "compactar" /\ i' = 1
      /\ UNCHANGED <<cola, intentos, vivos, reloj, pedido>>

(* Nothing to move for the c-th partition.                                 *)
CompactarSeguir ==
    /\ pc = "compactar" /\ c <= Len(part)
    /\ part[c].libre => \A z \in DOMAIN part : ~SiguienteOcupada(z)
    /\ c' = c + 1
    /\ UNCHANGED <<part, cola, intentos, vivos, reloj, pedido, pc, volver, i>>

(* The end of the loop: INTENTOS = 0 and a new search.                     *)
CompactarFin ==
    /\ pc = "compactar" /\ c > Len(part)
    /\ intentos' = 0
    /\ pc' = "buscar"
    /\ UNCHANGED <<part, cola, vivos, reloj, pedido, volver, i, c>>

-----------------------------------------------------------------------------
(* mandar_mensaje sent d and refreshes the use of the first partition that *)
(* points to it (find_particion_by_id_mensaje does not look at libre).     *)
(* recursar_operativos runs in another thread: pc may be anything.         *)
Usar(d) ==
    /\ ~FIFO
    /\ pc # "caido"
    /\ d \in vivos
    /\ LeerReloj
    /\ \E k \in DOMAIN part :
         /\ part[k].mensaje = d
         /\ \A j \in 1 .. k - 1 : part[j].mensaje # d
         /\ part' = [part EXCEPT ![k].uso = reloj']
    /\ UNCHANGED <<cola, intentos, vivos, pedido, pc, volver, i, c>>

-----------------------------------------------------------------------------
Asignador ==
    \/ AsignarExacta \/ AsignarPartiendo
    \/ Desalojar \/ DesalojarSinVictima
    \/ MergearPar \/ MergearFin
    \/ Compactar \/ CompactarMover \/ CompactarSeguir \/ CompactarFin

Next ==
    \/ \E d \in DIRS, t \in TAMS : Pedir(d, t)
    \/ Asignador
    \/ \E d \in DIRS : Usar(d)

Spec == Init /\ [][Next]_vars

(* A thread inside the allocator holds M_PROCESO and M_PARTICIONES and     *)
(* waits for nobody: it keeps running.                                     *)
FairSpec == Spec /\ WF_vars(Asignador)

-----------------------------------------------------------------------------
(* The memory in use, as the rest of the Broker sees it.                   *)
Lugar == [d \in vivos |-> [base |-> part[DondeEsta(d)].base,
                           tam |-> part[DondeEsta(d)].tam]]

(* The promise of the memory to the rest of the Broker.                    *)
A == INSTANCE Almacen WITH lugar <- Lugar
EsUnAlmacen == A!AlmacenSpec

(* Every variable has its type.                                            *)
TypeOK ==
    /\ part \in Seq(Particion)
    /\ cola \in Seq(DIRS)
    /\ intentos \in Nat
    /\ vivos \subseteq DIRS
    /\ reloj \in Nat
    /\ pedido \in [dir : DIRS \union {NULL}, tam : Nat]
    /\ pc \in {"ocioso", "buscar", "mergear", "compactar", "caido"}
    /\ volver \in {"ocioso", "buscar", "compactar"}
    /\ i \in Nat \ {0} /\ c \in Nat \ {0}

(* The table of partitions tiles the memory: whatever was split, freed,    *)
(* merged or moved so far, the partitions follow one another from byte 0 to*)
(* the last byte, without a hole and without an overlap.                   *)
Teselado ==
    /\ Len(part) > 0
    /\ part[1].base = 0
    /\ part[Len(part)].base + part[Len(part)].tam = MEM_SIZE
    /\ \A k \in DOMAIN part :
         /\ part[k].tam > 0
         /\ k < Len(part) => part[k + 1].base = part[k].base + part[k].tam

(* Every cached message has one occupied partition and no two messages     *)
(* share a byte of memory: what asignar_particion handed out stays         *)
(* exclusive while later requests split, evict, merge and compact.         *)
MemoriaPropia ==
    /\ \A d \in vivos : \E k \in Ocupadas : part[k].mensaje = d
    /\ \A j, k \in Ocupadas : j # k =>
         /\ part[j].mensaje # part[k].mensaje
         /\ \/ part[j].base + part[j].tam <= part[k].base
            \/ part[k].base + part[k].tam <= part[j].base

(* The FIFO queue holds exactly the cached messages, once each: nothing is *)
(* evicted twice and nothing becomes impossible to evict.                  *)
ColaSonLosVivos ==
    FIFO => /\ {cola[k] : k \in DOMAIN cola} = vivos
            /\ Len(cola) = Cardinality(vivos)

(* When mergear_particiones_libres has returned, no two consecutive        *)
(* partitions are free (broker.c:1215).                                    *)
SinLibresContiguas ==
    pc \in {"ocioso", "buscar"} =>
      \A k \in 1 .. Len(part) - 1 : ~(part[k].libre /\ part[k + 1].libre)

(* A message that fits in the memory never finds the Broker without a      *)
(* victim: the Broker does not die looking for room.                       *)
SinCaida == pc # "caido"

(* When compactar_particiones ends, all the free memory is one partition,  *)
(* after all the occupied ones.                                            *)
CompactaEnUnHueco ==
    [][CompactarFin => \A k \in Libres : k = Len(part)]_vars

(* Every message that fits in the memory ends up stored: the search,       *)
(* eviction, merge and compaction rounds of asignar_particion terminate.   *)
PedidoSeAtiende == (pc = "buscar") ~> (pc = "ocioso")
=============================================================================
