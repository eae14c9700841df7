-------------------------- MODULE ParticionesProofs --------------------------
(***************************************************************************)
(* Proofs about Particiones, for every size of the memory and every set of *)
(* messages, with FIFO and LRU, first fit and best fit, when the Broker    *)
(* does not compact (FRECUENCIA = -1) or compacts after at most one        *)
(* eviction (0 and 1). With a larger frequency they do not hold: the       *)
(* runs part_solape and part_caida show it.                                *)
(***************************************************************************)
EXTENDS Particiones, Lemas

(* The configurations the theorems are about. A message smaller than the   *)
(* minimum may leave a partition without bytes behind.                     *)
Configurado == FRECUENCIA <= 1 /\ \A t \in TAMS : t >= MIN_PART_LEN

-----------------------------------------------------------------------------
(* Where the thread inside the allocator may be, and where it goes on.     *)
Pidiendo ==
    pc \in {"buscar", "compactar"} \/ (pc = "mergear" /\ volver # "ocioso")

(* Inside compactar_particiones, or merging on behalf of it.               *)
Compactando == pc = "compactar" \/ (pc = "mergear" /\ volver = "compactar")

(* The request in progress is new, and its size one of those that arrive.  *)
PedidoInv ==
    /\ Pidiendo => /\ pedido.dir \in DIRS /\ pedido.dir \notin vivos
                   /\ pedido.tam \in TAMS
    /\ Compactando => FRECUENCIA # -1

(* Lists of partitions that tile the memory.                               *)
Tesela(s) ==
    /\ s \in Seq(Particion)
    /\ Len(s) > 0
    /\ s[1].base = 0
    /\ s[Len(s)].base + s[Len(s)].tam = MEM_SIZE
    /\ \A k \in 1 .. Len(s) : s[k].tam > 0
    /\ \A k \in 1 .. Len(s) - 1 : s[k + 1].base = s[k].base + s[k].tam

(* The occupied partitions of s hold the messages of V, one each.          *)
Duenios(s, V) ==
    /\ \A d \in V : \E k \in 1 .. Len(s) : ~s[k].libre /\ s[k].mensaje = d
    /\ \A k \in 1 .. Len(s) : ~s[k].libre => s[k].mensaje \in V
    /\ \A j, k \in 1 .. Len(s) :
         ~s[j].libre /\ ~s[k].libre /\ s[j].mensaje = s[k].mensaje => j = k

(* The queue q has each message of V once.                                 *)
UnaVez(q, V) ==
    /\ \A k \in 1 .. Len(q) : q[k] \in V
    /\ \A d \in V : \E k \in 1 .. Len(q) : q[k] = d
    /\ \A j, k \in 1 .. Len(q) : q[j] = q[k] => j = k

(* The k-th partition of s and the next one are free.                      *)
Par(s, k) == s[k].libre /\ s[k + 1].libre

(* No two neighbours are free.                                             *)
SinPares(s) == \A k \in 1 .. Len(s) - 1 : ~Par(s, k)

(* There is one pair of free neighbours at most, and not before m.         *)
UnPar(s, m) ==
    /\ \A k \in 1 .. Len(s) - 1 : Par(s, k) => k >= m
    /\ \A j, k \in 1 .. Len(s) - 1 : Par(s, j) /\ Par(s, k) => j = k

(* The occupied partitions are together at the start of the memory.        *)
SoloLaUltima(s) == \A k \in 1 .. Len(s) : s[k].libre => k = Len(s)

(* Before m only the last one may be free.                                 *)
LibresDesde(s, m) ==
    \A k \in 1 .. Len(s) : s[k].libre => k >= m \/ k = Len(s)

(* When there are compactions: before the first eviction after one, only   *)
(* the last partition may be free, so an eviction, a division or a move    *)
(* leaves at most one pair of free neighbours, and the index of            *)
(* mergear_particiones_libres has not passed it.                           *)
HuecosInv ==
    FRECUENCIA # -1 =>
      /\ intentos <= FRECUENCIA
      /\ pc # "caido"
      /\ pc # "mergear" => SinPares(part)
      /\ pc = "mergear" => UnPar(part, i)
      /\ intentos = 0 /\ ~Compactando => SoloLaUltima(part)
      /\ Compactando => LibresDesde(part, c)

(* The inductive invariant: the partitions tile the memory, each cached    *)
(* message has one partition and one place in the queue, and the free      *)
(* neighbours are few.                                                     *)
IInv ==
    /\ TypeOK
    /\ Tesela(part)
    /\ PedidoInv
    /\ Duenios(part, vivos)
    /\ FIFO => UnaVez(cola, vivos)
    /\ HuecosInv

-----------------------------------------------------------------------------
(* What the assumptions on the constants say.                              *)
LEMMA Constantes ==
    /\ MEM_SIZE \in Nat /\ MIN_PART_LEN \in Nat
    /\ MIN_PART_LEN > 0 /\ MIN_PART_LEN <= MEM_SIZE
    /\ \A t \in TAMS : t \in Nat /\ t > 0 /\ t <= MEM_SIZE
BY MemoriaAssumption

(* Every element of a list of partitions has the fields of one.            *)
LEMMA Campos ==
    ASSUME NEW s \in Seq(Particion), NEW k \in 1 .. Len(s)
    PROVE  /\ s[k] \in Particion
           /\ s[k].base \in Int /\ s[k].tam \in Int /\ s[k].libre \in BOOLEAN
           /\ s[k].mensaje \in DIRS \union {NULL} /\ s[k].uso \in Nat
<1>1. s[k] \in Particion
    BY ElementOfSeq
<1>2. QED
    BY <1>1 DEF Particion

(* A partition that begins elsewhere.                                      *)
LEMMA OtraBase ==
    ASSUME NEW p \in Particion, NEW b \in Int
    PROVE  /\ [p EXCEPT !.base = b] \in Particion
           /\ [p EXCEPT !.base = b].base = b
           /\ [p EXCEPT !.base = b].tam = p.tam
           /\ [p EXCEPT !.base = b].libre = p.libre
           /\ [p EXCEPT !.base = b].mensaje = p.mensaje
BY DEF Particion

(* A partition without its first r bytes.                                  *)
LEMMA Resto ==
    ASSUME NEW p \in Particion, NEW r \in Int
    PROVE  /\ [p EXCEPT !.base = @ + r, !.tam = @ - r] \in Particion
           /\ [p EXCEPT !.base = @ + r, !.tam = @ - r].base = p.base + r
           /\ [p EXCEPT !.base = @ + r, !.tam = @ - r].tam = p.tam - r
           /\ [p EXCEPT !.base = @ + r, !.tam = @ - r].libre = p.libre
<1> DEFINE b == p.base + r
           t == p.tam - r
<1>1. b \in Int /\ t \in Int
    BY DEF Particion
<1> HIDE DEF b, t
<1>2. /\ [p EXCEPT !.base = b, !.tam = t] \in Particion
      /\ [p EXCEPT !.base = b, !.tam = t].base = b
      /\ [p EXCEPT !.base = b, !.tam = t].tam = t
      /\ [p EXCEPT !.base = b, !.tam = t].libre = p.libre
    BY <1>1 DEF Particion
<1>3. QED
    BY <1>2 DEF b, t

(* A partition with the bytes of another one after its own.                *)
LEMMA Suma ==
    ASSUME NEW p \in Particion, NEW q \in Particion
    PROVE  /\ [p EXCEPT !.tam = @ + q.tam] \in Particion
           /\ [p EXCEPT !.tam = @ + q.tam].base = p.base
           /\ [p EXCEPT !.tam = @ + q.tam].tam = p.tam + q.tam
           /\ [p EXCEPT !.tam = @ + q.tam].libre = p.libre
BY DEF Particion

(* Tesela is what Teselado says of the table.                              *)
LEMMA TeselaEs ==
    ASSUME NEW s \in Seq(Particion)
    PROVE  Tesela(s) <=> /\ Len(s) > 0
                         /\ s[1].base = 0
                         /\ s[Len(s)].base + s[Len(s)].tam = MEM_SIZE
                         /\ \A k \in DOMAIN s :
                              /\ s[k].tam > 0
                              /\ k < Len(s) =>
                                   s[k + 1].base = s[k].base + s[k].tam
<1>1. DOMAIN s = 1 .. Len(s) /\ Len(s) \in Nat
    BY LenProperties
<1>2. QED
    BY <1>1 DEF Tesela

(* Tesela with a name for the length.                                      *)
LEMMA TeselaDe ==
    ASSUME NEW s \in Seq(Particion), NEW n \in Nat, Len(s) = n, n > 0,
           s[1].base = 0, s[n].base + s[n].tam = MEM_SIZE,
           \A k \in 1 .. n : s[k].tam > 0,
           \A k \in 1 .. n - 1 : s[k + 1].base = s[k].base + s[k].tam
    PROVE  Tesela(s)
BY DEF Tesela

(* In a tiling each partition ends before the ones after it begin: the     *)
(* first that did not would follow one that did.                           *)
LEMMA Crecen ==
    ASSUME NEW s, Tesela(s), NEW j \in 1 .. Len(s), NEW k \in 1 .. Len(s), j < k
    PROVE  s[j].base + s[j].tam <= s[k].base
<1> DEFINE S == {m \in Nat : /\ j < m /\ m <= Len(s)
                             /\ ~(s[j].base + s[j].tam <= s[m].base)}
<1>0. s \in Seq(Particion) /\ Len(s) \in Nat
    BY LenProperties DEF Tesela
<1>1. SUFFICES ASSUME S # {} PROVE FALSE
    BY <1>0
<1>2. S \in SUBSET Nat
    OBVIOUS
<1>3. PICK m \in S : \A n \in S : m <= n
  <2> HIDE DEF S
  <2>1. QED
      BY <1>1, <1>2, MinimoNat
<1>4. /\ m - 1 \in 1 .. Len(s) - 1 /\ m \in 1 .. Len(s) /\ m - 1 + 1 = m
      /\ m - 1 >= j
    BY <1>0, <1>3
<1>5. s[m].base = s[m - 1].base + s[m - 1].tam /\ s[m - 1].tam > 0
    BY <1>0, <1>4 DEF Tesela
<1>6. /\ s[m].base \in Int /\ s[m - 1].base \in Int /\ s[m - 1].tam \in Int
      /\ s[j].base \in Int /\ s[j].tam \in Int
    BY <1>0, <1>4, Campos
<1>7. CASE m - 1 = j
    BY <1>3, <1>5, <1>6, <1>7
<1>8. CASE m - 1 # j
  <2>1. m - 1 \notin S
      BY <1>3, <1>4
  <2>2. s[j].base + s[j].tam <= s[m - 1].base
      BY <1>0, <1>4, <1>8, <2>1
  <2>3. s[j].base + s[j].tam <= s[m].base
      BY <1>5, <1>6, <2>2, SMTT(30)
  <2>4. QED
      BY <1>3, <2>3
<1>9. QED
    BY <1>7, <1>8

(* The partitions of a tiling lie in the memory, and no two have a base.   *)
LEMMA Bases ==
    ASSUME NEW s, Tesela(s)
    PROVE  /\ \A k \in 1 .. Len(s) :
                s[k].base >= 0 /\ s[k].base + s[k].tam <= MEM_SIZE
           /\ \A j, k \in 1 .. Len(s) : j < k => s[j].base < s[k].base
           /\ \A j, k \in 1 .. Len(s) : s[j].base = s[k].base => j = k
<1>0. /\ s \in Seq(Particion) /\ Len(s) \in Nat /\ Len(s) > 0
      /\ \A k \in 1 .. Len(s) : s[k].base \in Int /\ s[k].tam \in Int /\ s[k].tam > 0
    BY LenProperties, Campos DEF Tesela
<1>1. ASSUME NEW j \in 1 .. Len(s), NEW k \in 1 .. Len(s), j < k
      PROVE  s[j].base < s[k].base
    BY <1>0, <1>1, Crecen
<1>2. ASSUME NEW k \in 1 .. Len(s)
      PROVE  s[k].base >= 0 /\ s[k].base + s[k].tam <= MEM_SIZE
  <2>1. s[1].base = 0 /\ s[Len(s)].base + s[Len(s)].tam = MEM_SIZE
      BY DEF Tesela
  <2>2. k = 1 => s[k].base >= 0
      BY <2>1
  <2>3. ASSUME k # 1 PROVE s[k].base >= 0
      BY <1>0, <1>1, <2>1, <2>3
  <2>4. ASSUME k # Len(s) PROVE s[k].base + s[k].tam <= MEM_SIZE
    <3>1. s[k].base + s[k].tam <= s[Len(s)].base
        BY <1>0, <2>4, Crecen
    <3>2. QED
        BY <1>0, <2>1, <3>1, Constantes, SMTT(30)
  <2>5. k = Len(s) => s[k].base + s[k].tam <= MEM_SIZE
      BY <2>1, Constantes
  <2>6. QED
      BY <2>2, <2>3, <2>4, <2>5
<1>3. ASSUME NEW j \in 1 .. Len(s), NEW k \in 1 .. Len(s), s[j].base = s[k].base
      PROVE  j = k
    BY <1>0, <1>1, <1>3
<1>4. QED
    BY <1>1, <1>2, <1>3

-----------------------------------------------------------------------------
(* What the steps of the allocator do to a list s of n partitions.         *)

(* Its k-th partition gives way to e.                                      *)
Cambio(u, s, n, k, e) ==
    /\ u \in Seq(Particion) /\ Len(u) = n
    /\ u[k] = e /\ \A j \in 1 .. n : j # k => u[j] = s[j]

(* Its k-th partition is divided into e and f.                             *)
Division(u, s, n, k, e, f) ==
    /\ u \in Seq(Particion) /\ Len(u) = n + 1
    /\ \A j \in 1 .. k - 1 : u[j] = s[j]
    /\ u[k] = e /\ u[k + 1] = f
    /\ \A j \in k + 1 .. n : u[j + 1] = s[j]

(* Its k-th partition and the next one become e.                           *)
Union(u, s, n, k, e) ==
    /\ u \in Seq(Particion) /\ Len(u) = n - 1
    /\ \A j \in 1 .. k - 1 : u[j] = s[j]
    /\ u[k] = e
    /\ \A j \in k + 1 .. n - 1 : u[j] = s[j + 1]

(* Its k-th partition and the next one give way to e and f.                *)
Canje(u, s, n, k, e, f) ==
    /\ u \in Seq(Particion) /\ Len(u) = n
    /\ u[k] = e /\ u[k + 1] = f
    /\ \A j \in 1 .. n : j # k /\ j # k + 1 => u[j] = s[j]

(* Only where partitions begin and end matters.                            *)
LEMMA TeselaIgual ==
    ASSUME NEW s, Tesela(s), NEW t \in Seq(Particion), Len(t) = Len(s),
           \A k \in 1 .. Len(s) : t[k].base = s[k].base /\ t[k].tam = s[k].tam
    PROVE  Tesela(t)
<1>1. Len(s) \in Nat /\ Len(s) > 0
    BY LenProperties DEF Tesela
<1>2. 1 \in 1 .. Len(s) /\ Len(s) \in 1 .. Len(s)
    BY <1>1
<1>3. \A k \in 1 .. Len(s) - 1 : k \in 1 .. Len(s) /\ k + 1 \in 1 .. Len(s)
    BY <1>1
<1>4. QED
    BY <1>2, <1>3 DEF Tesela

(* Sorting a list that is in order leaves it as it is.                     *)
LEMMA OrdenUnica ==
    ASSUME NEW s \in Seq(Particion),
           \A j, k \in 1 .. Len(s) : j < k => s[j].base < s[k].base,
           NEW z \in 1 .. Len(s), NEW t \in Ordenar(s, z)
    PROVE  t = s
<1> DEFINE n == Len(s)
           r == RemoveAt(s, z)
           e == s[z]
<1>0. n \in Nat /\ DOMAIN s = 1 .. n /\ e \in Particion /\ n = Len(s) /\ z \in 1 .. n
    BY LenProperties, ElementOfSeq
<1>1. PICK k \in 1 .. n : t = InsertAt(r, k, e) /\ Ordenada(t)
    BY <1>0 DEF Ordenar
<1>2. /\ r \in Seq(Particion) /\ Len(r) = n - 1
      /\ \A j \in 1 .. z - 1 : r[j] = s[j]
      /\ \A j \in z .. n - 1 : r[j] = s[j + 1]
    BY <1>0, Suprimir DEF Supresion
<1>3. \A j \in 1 .. n : s[j].base \in Int
    BY Campos
<1> HIDE DEF n, r, e
<1>4. /\ t \in Seq(Particion) /\ Len(t) = n
      /\ \A j \in 1 .. k - 1 : t[j] = r[j]
      /\ t[k] = e
      /\ \A j \in k .. n - 1 : t[j + 1] = r[j]
  <2>1. n - 1 \in Nat /\ k \in 1 .. n - 1 + 1 /\ n - 1 + 1 = n
      BY <1>0
  <2>2. Insercion(t, Particion, r, n - 1, k, e)
      BY <1>0, <1>1, <1>2, <2>1, Insertar
  <2>3. QED
      BY <2>1, <2>2 DEF Insercion
<1>5. DOMAIN t = 1 .. n
    BY <1>4, LenProperties
<1>7. ~(k < z)
  <2> SUFFICES ASSUME k < z PROVE FALSE
      OBVIOUS
  <2>1. k \in 1 .. n /\ k + 1 \in 1 .. n /\ k \in k .. n - 1 /\ k \in 1 .. z - 1
      BY <1>0
  <2>2. t[k] = s[z] /\ t[k + 1] = s[k]
      BY <1>2, <1>4, <2>1 DEF e
  <2>3. t[k].base <= t[k + 1].base
      BY <1>0, <1>1, <1>5, <2>1 DEF Ordenada
  <2>4. s[k].base < s[z].base
      BY <1>0, <2>1
  <2>5. QED
      BY <1>0, <1>3, <2>1, <2>2, <2>3, <2>4
<1>8. ~(z < k)
  <2> SUFFICES ASSUME z < k PROVE FALSE
      OBVIOUS
  <2>1. k \in 1 .. n /\ k - 1 \in z .. n - 1 /\ k - 1 + 1 = k /\ k - 1 \in 1 .. k - 1
      BY <1>0
  <2>2. t[k - 1] = s[k] /\ t[k] = s[z]
      BY <1>2, <1>4, <2>1 DEF e
  <2>3. t[k - 1].base <= t[k].base
      BY <1>0, <1>1, <1>5, <2>1 DEF Ordenada
  <2>4. s[z].base < s[k].base
      BY <1>0, <2>1
  <2>5. QED
      BY <1>0, <1>3, <2>1, <2>2, <2>3, <2>4
<1>9. k = z
    BY <1>0, <1>7, <1>8
<1>10. ASSUME NEW j \in 1 .. n PROVE t[j] = s[j]
  <2>1. CASE j < k
    <3>1. j \in 1 .. k - 1
        BY <1>0, <2>1
    <3>2. QED
        BY <1>2, <1>4, <1>9, <3>1
  <2>2. CASE j = k
      BY <1>4, <1>9, <2>2 DEF e
  <2>3. CASE k < j
    <3>1. j - 1 \in k .. n - 1 /\ j - 1 \in z .. n - 1 /\ j - 1 + 1 = j
        BY <1>0, <1>9, <2>3
    <3>2. QED
        BY <1>2, <1>4, <3>1
  <2>4. j < k \/ j = k \/ k < j
      BY <1>0
  <2>5. QED
      BY <2>1, <2>2, <2>3, <2>4
<1>11. QED
    BY <1>0, <1>4, <1>10, SeqEqual

(* A partition becomes two that share out its bytes.                       *)
LEMMA Partida ==
    ASSUME NEW s, Tesela(s), NEW n \in Nat, Len(s) = n, NEW k \in 1 .. n,
           NEW e \in Particion, NEW f \in Particion,
           e.base = s[k].base, f.base = e.base + e.tam, e.tam + f.tam = s[k].tam,
           e.tam > 0, f.tam > 0,
           NEW u, u = InsertAt([s EXCEPT ![k] = f], k, e)
    PROVE  Tesela(u) /\ Division(u, s, n, k, e, f)
<1> DEFINE g == [s EXCEPT ![k] = f]
<1>0. DOMAIN s = 1 .. n /\ s \in Seq(Particion) /\ k \in 1 .. n
    BY LenProperties DEF Tesela
<1>1. /\ g \in Seq(Particion) /\ Len(g) = n
      /\ g[k] = f /\ \A j \in 1 .. n : j # k => g[j] = s[j]
    BY <1>0, ExceptSeq
<1>2. u = InsertAt(g, k, e)
    OBVIOUS
<1>3. /\ s[1].base = 0 /\ s[n].base + s[n].tam = MEM_SIZE
      /\ \A j \in 1 .. n - 1 : s[j + 1].base = s[j].base + s[j].tam
      /\ \A j \in 1 .. n : s[j].base \in Int /\ s[j].tam \in Int /\ s[j].tam > 0
      /\ e.base \in Int /\ e.tam \in Int /\ f.base \in Int /\ f.tam \in Int
    BY <1>0, Campos DEF Tesela, Particion
<1> HIDE DEF g
<1>a. n \in Nat /\ k \in Nat /\ 1 <= k /\ k <= n
    BY <1>0
<1>b. f.base + f.tam = s[k].base + s[k].tam
  <2>1. s[k].base \in Int
      BY <1>0, <1>3
  <2>2. QED
      BY <1>3, <2>1
<1>4. /\ u \in Seq(Particion) /\ Len(u) = n + 1
      /\ \A j \in 1 .. k - 1 : u[j] = g[j]
      /\ u[k] = e
      /\ \A j \in k .. n : u[j + 1] = g[j]
  <2>1. k \in 1 .. n + 1
      BY <1>0
  <2>2. Insercion(u, Particion, g, n, k, e)
      BY <1>0, <1>1, <1>2, <2>1, Insertar
  <2>3. QED
      BY <2>2 DEF Insercion
<1>5. /\ \A j \in 1 .. k - 1 : u[j] = s[j]
      /\ u[k + 1] = f
      /\ \A j \in k + 1 .. n : u[j + 1] = s[j]
  <2>1. ASSUME NEW j \in 1 .. k - 1 PROVE u[j] = s[j]
    <3>1. j \in 1 .. n /\ j # k
        BY <1>0
    <3>2. QED
        BY <1>1, <1>4, <3>1
  <2>2. u[k + 1] = f
    <3>1. k \in k .. n
        BY <1>a
    <3>2. QED
        BY <1>1, <1>4, <3>1
  <2>3. ASSUME NEW j \in k + 1 .. n PROVE u[j + 1] = s[j]
    <3>1. j \in k .. n /\ j \in 1 .. n /\ j # k
        BY <1>0
    <3>2. QED
        BY <1>1, <1>4, <3>1
  <2>4. QED
      BY <2>1, <2>2, <2>3
<1>6. ASSUME NEW j \in 1 .. n + 1
      PROVE  j \in 1 .. k - 1 \/ j = k \/ j = k + 1 \/ j - 1 \in k + 1 .. n
    BY <1>0
<1>7. u[1].base = 0
  <2>1. CASE k = 1
      BY <1>3, <1>4, <2>1
  <2>2. CASE k # 1
    <3>1. 1 \in 1 .. k - 1
        BY <1>0, <2>2
    <3>2. QED
        BY <1>3, <1>5, <3>1
  <2>3. QED
      BY <2>1, <2>2
<1>8. u[n + 1].base + u[n + 1].tam = MEM_SIZE
  <2>2. CASE k = n
    <3>1. u[n + 1] = f
        BY <1>5, <2>2
    <3>2. QED
        BY <1>3, <1>b, <2>2, <3>1
  <2>3. CASE k # n
    <3>1. n \in k + 1 .. n
        BY <1>a, <2>3
    <3>2. QED
        BY <1>3, <1>5, <3>1
  <2>4. QED
      BY <2>2, <2>3
<1>9. ASSUME NEW j \in 1 .. n + 1 PROVE u[j].tam > 0
  <2>1. CASE j \in 1 .. k - 1
    <3>1. j \in 1 .. n
        BY <1>0, <2>1
    <3>2. QED
        BY <1>3, <1>5, <2>1, <3>1
  <2>2. CASE j - 1 \in k + 1 .. n
    <3>1. j - 1 \in 1 .. n /\ j - 1 + 1 = j
        BY <1>0, <2>2
    <3>2. QED
        BY <1>3, <1>5, <2>2, <3>1
  <2>3. QED
      BY <1>4, <1>5, <1>6, <2>1, <2>2
<1>10. ASSUME NEW j \in 1 .. n PROVE u[j + 1].base = u[j].base + u[j].tam
  <2>2. CASE j + 1 < k
    <3>1. j \in 1 .. k - 1 /\ j + 1 \in 1 .. k - 1 /\ j \in 1 .. n - 1
        BY <1>0, <2>2
    <3>2. QED
        BY <1>3, <1>5, <3>1
  <2>3. CASE j + 1 = k
    <3>1. j \in 1 .. k - 1 /\ j \in 1 .. n - 1
        BY <1>0, <2>3
    <3>2. u[j] = s[j] /\ u[j + 1] = e
        BY <1>4, <1>5, <2>3, <3>1
    <3>3. s[k].base = s[j].base + s[j].tam
        BY <1>3, <2>3, <3>1
    <3>4. QED
        BY <3>2, <3>3
  <2>4. CASE j = k
      BY <1>4, <1>5, <2>4
  <2>5. CASE j = k + 1
    <3>1. j \in k + 1 .. n /\ k \in 1 .. n - 1
        BY <1>0, <2>5
    <3>2. u[j] = f /\ u[j + 1] = s[j]
        BY <1>5, <2>5, <3>1
    <3>3. s[j].base = s[k].base + s[k].tam
        BY <1>3, <2>5, <3>1
    <3>4. QED
        BY <1>b, <3>2, <3>3
  <2>6. CASE k + 1 < j
    <3>1. /\ j \in k + 1 .. n /\ j - 1 \in k + 1 .. n
          /\ j - 1 \in 1 .. n - 1 /\ j - 1 + 1 = j
        BY <1>0, <2>6
    <3>2. u[j] = s[j - 1] /\ u[j + 1] = s[j]
        BY <1>5, <3>1
    <3>3. s[j].base = s[j - 1].base + s[j - 1].tam
        BY <1>3, <3>1
    <3>4. QED
        BY <3>2, <3>3
  <2>7. j + 1 < k \/ j + 1 = k \/ j = k \/ j = k + 1 \/ k + 1 < j
      BY <1>0
  <2>8. QED
      BY <2>2, <2>3, <2>4, <2>5, <2>6, <2>7
<1>11. PICK m \in Nat : m = n + 1 /\ m > 0 /\ m - 1 = n
    BY <1>a
<1>12. Tesela(u)
  <2>1. u \in Seq(Particion) /\ Len(u) = m
      BY <1>4, <1>11
  <2>2. \A j \in 1 .. m : u[j].tam > 0
      BY <1>9, <1>11
  <2>3. \A j \in 1 .. m - 1 : u[j + 1].base = u[j].base + u[j].tam
      BY <1>10, <1>11
  <2>4. u[1].base = 0 /\ u[m].base + u[m].tam = MEM_SIZE
      BY <1>7, <1>8, <1>11
  <2>5. QED
      BY <1>11, <2>1, <2>2, <2>3, <2>4, TeselaDe
<1>13. QED
    BY <1>4, <1>5, <1>12 DEF Division

(* Two neighbours become one with the bytes of both.                       *)
LEMMA Unida ==
    ASSUME NEW s, Tesela(s), NEW n \in Nat, Len(s) = n, NEW k \in 1 .. n - 1,
           NEW u, u = Mergeada(s, k)
    PROVE  /\ Tesela(u)
           /\ Union(u, s, n, k, [s[k] EXCEPT !.tam = @ + s[k + 1].tam])
<1> DEFINE e == [s[k] EXCEPT !.tam = @ + s[k + 1].tam]
           g == [s EXCEPT ![k] = e]
<1>a. n \in Nat /\ k \in Nat /\ 1 <= k /\ k < n /\ k + 1 \in 1 .. n /\ k \in 1 .. n
    OBVIOUS
<1>0. DOMAIN s = 1 .. n /\ s \in Seq(Particion)
    BY LenProperties DEF Tesela
<1>3. /\ s[1].base = 0 /\ s[n].base + s[n].tam = MEM_SIZE
      /\ \A j \in 1 .. n - 1 : s[j + 1].base = s[j].base + s[j].tam
      /\ \A j \in 1 .. n : /\ s[j] \in Particion /\ s[j].base \in Int
                           /\ s[j].tam \in Int /\ s[j].tam > 0
    BY <1>0, Campos DEF Tesela
<1>b. /\ e \in Particion /\ e.base = s[k].base /\ e.tam = s[k].tam + s[k + 1].tam
  <2>1. s[k] \in Particion /\ s[k + 1] \in Particion
      BY <1>3, <1>a
  <2>2. QED
      BY <2>1, Suma
<1>2. u = RemoveAt(g, k + 1)
    BY DEF Mergeada
<1> HIDE DEF e, g
<1>1. /\ g \in Seq(Particion) /\ Len(g) = n
      /\ g[k] = e /\ \A j \in 1 .. n : j # k => g[j] = s[j]
    BY <1>0, <1>a, <1>b, ExceptSeq DEF g
<1>4. /\ u \in Seq(Particion) /\ Len(u) = n - 1
      /\ \A j \in 1 .. k + 1 - 1 : u[j] = g[j]
      /\ \A j \in k + 1 .. n - 1 : u[j] = g[j + 1]
  <2>1. Supresion(u, Particion, g, n, k + 1)
      BY <1>1, <1>2, <1>a, Suprimir
  <2>2. QED
      BY <2>1 DEF Supresion
<1>5. /\ \A j \in 1 .. k - 1 : u[j] = s[j]
      /\ u[k] = e
      /\ \A j \in k + 1 .. n - 1 : u[j] = s[j + 1]
  <2>1. ASSUME NEW j \in 1 .. k - 1 PROVE u[j] = s[j]
    <3>1. j \in 1 .. n /\ j # k /\ j \in 1 .. k + 1 - 1
        BY <1>a
    <3>2. QED
        BY <1>1, <1>4, <3>1
  <2>2. u[k] = e
    <3>1. k \in 1 .. k + 1 - 1
        BY <1>a
    <3>2. QED
        BY <1>1, <1>4, <3>1
  <2>3. ASSUME NEW j \in k + 1 .. n - 1 PROVE u[j] = s[j + 1]
    <3>1. j + 1 \in 1 .. n /\ j + 1 # k
        BY <1>a
    <3>2. QED
        BY <1>1, <1>4, <3>1
  <2>4. QED
      BY <2>1, <2>2, <2>3
<1>7. u[1].base = 0
  <2>1. CASE k = 1
      BY <1>3, <1>5, <1>b, <2>1
  <2>2. CASE k # 1
    <3>1. 1 \in 1 .. k - 1
        BY <1>a, <2>2
    <3>2. QED
        BY <1>3, <1>5, <3>1
  <2>3. QED
      BY <2>1, <2>2
<1>8. u[n - 1].base + u[n - 1].tam = MEM_SIZE
  <2>2. CASE k = n - 1
    <3>1. u[n - 1] = e /\ k + 1 = n
        BY <1>5, <1>a, <2>2
    <3>2. s[n].base = s[k].base + s[k].tam /\ s[k].tam \in Int /\ s[n].tam \in Int
          /\ s[k].base \in Int
        BY <1>3, <1>a, <3>1
    <3>3. QED
        BY <1>3, <1>b, <3>1, <3>2
  <2>3. CASE k # n - 1
    <3>1. n - 1 \in k + 1 .. n - 1 /\ n - 1 + 1 = n
        BY <1>a, <2>3
    <3>2. QED
        BY <1>3, <1>5, <3>1
  <2>4. QED
      BY <2>2, <2>3
<1>9. ASSUME NEW j \in 1 .. n - 1 PROVE u[j].tam > 0
  <2>1. CASE j \in 1 .. k - 1
    <3>1. j \in 1 .. n
        BY <1>a
    <3>2. QED
        BY <1>3, <1>5, <2>1, <3>1
  <2>2. CASE j \in k + 1 .. n - 1
    <3>1. j + 1 \in 1 .. n
        BY <1>a
    <3>2. QED
        BY <1>3, <1>5, <2>2, <3>1
  <2>3. CASE j = k
    <3>1. s[k].tam \in Int /\ s[k + 1].tam \in Int /\ s[k].tam > 0 /\ s[k + 1].tam > 0
        BY <1>3, <1>a
    <3>2. QED
        BY <1>5, <1>b, <2>3, <3>1
  <2>4. j \in 1 .. k - 1 \/ j = k \/ j \in k + 1 .. n - 1
      BY <1>a
  <2>5. QED
      BY <2>1, <2>2, <2>3, <2>4
<1>10. ASSUME NEW j \in 1 .. n - 1 - 1 PROVE u[j + 1].base = u[j].base + u[j].tam
  <2>1. j \in 1 .. n - 1 /\ j + 1 \in 1 .. n - 1
      BY <1>a
  <2>2. CASE j + 1 < k
    <3>1. j \in 1 .. k - 1 /\ j + 1 \in 1 .. k - 1
        BY <1>a, <2>2
    <3>2. QED
        BY <1>3, <1>5, <2>1, <3>1
  <2>3. CASE j + 1 = k
    <3>1. j \in 1 .. k - 1
        BY <1>a, <2>3
    <3>2. QED
        BY <1>3, <1>5, <1>b, <2>1, <2>3, <3>1
  <2>4. CASE j = k
    <3>1. /\ j + 1 \in k + 1 .. n - 1 /\ k + 1 \in 1 .. n - 1 /\ k \in 1 .. n - 1
        BY <1>a, <2>1, <2>4
    <3>2. u[j] = e /\ u[j + 1] = s[k + 1 + 1]
        BY <1>5, <2>4, <3>1
    <3>3. /\ s[k + 1 + 1].base = s[k + 1].base + s[k + 1].tam
          /\ s[k + 1].base = s[k].base + s[k].tam
        BY <1>3, <3>1
    <3>4. /\ s[k].base \in Int /\ s[k].tam \in Int /\ s[k + 1].tam \in Int
        BY <1>3, <1>a
    <3>5. QED
        BY <1>b, <3>2, <3>3, <3>4
  <2>5. CASE k < j
    <3>1. j \in k + 1 .. n - 1 /\ j + 1 \in k + 1 .. n - 1
        BY <1>a, <2>1, <2>5
    <3>2. QED
        BY <1>3, <1>5, <2>1, <3>1
  <2>6. j + 1 < k \/ j + 1 = k \/ j = k \/ k < j
      BY <1>a
  <2>7. QED
      BY <2>2, <2>3, <2>4, <2>5, <2>6
<1>11. PICK m \in Nat : m = n - 1 /\ m > 0
    BY <1>a
<1>12. Tesela(u)
  <2>1. u \in Seq(Particion) /\ Len(u) = m
      BY <1>4, <1>11
  <2>2. \A j \in 1 .. m : u[j].tam > 0
      BY <1>9, <1>11
  <2>3. \A j \in 1 .. m - 1 : u[j + 1].base = u[j].base + u[j].tam
      BY <1>10, <1>11
  <2>4. u[1].base = 0 /\ u[m].base + u[m].tam = MEM_SIZE
      BY <1>7, <1>8, <1>11
  <2>5. QED
      BY <1>11, <2>1, <2>2, <2>3, <2>4, TeselaDe
<1>13. QED
    BY <1>4, <1>5, <1>12 DEF e, Union

(* Two neighbours give way to other two with the same bytes.               *)
LEMMA Cambiada ==
    ASSUME NEW s, Tesela(s), NEW n \in Nat, Len(s) = n, NEW k \in 1 .. n - 1,
           NEW e \in Particion, NEW f \in Particion, e.tam > 0, f.tam > 0,
           e.base = s[k].base, f.base = e.base + e.tam,
           f.base + f.tam = s[k + 1].base + s[k + 1].tam,
           NEW u, Canje(u, s, n, k, e, f)
    PROVE  Tesela(u)
<1> USE DEF Canje
<1>a. /\ n \in Nat /\ k \in Nat /\ 1 <= k /\ k < n /\ k + 1 \in 1 .. n /\ k \in 1 .. n
      /\ 1 \in 1 .. n /\ n \in 1 .. n /\ n > 0
    OBVIOUS
<1>3. /\ s[1].base = 0 /\ s[n].base + s[n].tam = MEM_SIZE
      /\ \A j \in 1 .. n - 1 : s[j + 1].base = s[j].base + s[j].tam
      /\ \A j \in 1 .. n : s[j].tam > 0
    BY DEF Tesela
<1>4. ASSUME NEW j \in 1 .. n PROVE j = k \/ j = k + 1 \/ u[j] = s[j]
    OBVIOUS
<1>7. u[1].base = 0
  <2>1. CASE k = 1
      BY <1>3, <2>1
  <2>2. CASE k # 1
    <3>1. u[1] = s[1]
        BY <1>a, <2>2
    <3>2. QED
        BY <1>3, <3>1
  <2>3. QED
      BY <2>1, <2>2
<1>8. u[n].base + u[n].tam = MEM_SIZE
  <2>1. CASE k + 1 = n
      BY <1>3, <2>1
  <2>2. CASE k + 1 # n
    <3>1. u[n] = s[n]
        BY <1>a, <2>2
    <3>2. QED
        BY <1>3, <3>1
  <2>3. QED
      BY <2>1, <2>2
<1>9. ASSUME NEW j \in 1 .. n PROVE u[j].tam > 0
    BY <1>3, <1>4
<1>10. ASSUME NEW j \in 1 .. n - 1 PROVE u[j + 1].base = u[j].base + u[j].tam
  <2>1. j \in 1 .. n /\ j + 1 \in 1 .. n
      BY <1>a
  <2>2. CASE j = k
      BY <2>2
  <2>3. CASE j = k + 1
    <3>1. u[j + 1] = s[j + 1]
        BY <1>a, <2>1, <2>3
    <3>2. s[j + 1].base = s[k + 1].base + s[k + 1].tam
        BY <1>3, <2>3
    <3>3. QED
        BY <2>3, <3>1, <3>2
  <2>4. CASE j + 1 = k
    <3>1. u[j] = s[j]
        BY <1>a, <2>1, <2>4
    <3>2. u[j + 1].base = s[j + 1].base
        BY <2>4
    <3>3. QED
        BY <1>3, <3>1, <3>2
  <2>5. CASE j # k /\ j # k + 1 /\ j + 1 # k
    <3>1. u[j] = s[j] /\ u[j + 1] = s[j + 1]
        BY <1>a, <2>1, <2>5
    <3>2. QED
        BY <1>3, <3>1
  <2>6. QED
      BY <2>2, <2>3, <2>4, <2>5
<1>11. QED
    BY <1>a, <1>7, <1>8, <1>9, <1>10, TeselaDe

-----------------------------------------------------------------------------
(* Who owns what, and where the free partitions are, after each of those.  *)

(* A free partition is given to a new message.                             *)
LEMMA AlOcupar ==
    ASSUME NEW s, NEW V, NEW d, d \notin V, NEW n \in Nat, Len(s) = n,
           NEW k \in 1 .. n, s[k].libre,
           NEW e, ~e.libre, e.mensaje = d, NEW u, Cambio(u, s, n, k, e)
    PROVE  /\ Duenios(s, V) => Duenios(u, V \union {d})
           /\ SinPares(s) => SinPares(u)
           /\ SoloLaUltima(s) => SoloLaUltima(u)
<1> USE DEF Cambio
<1>1. ASSUME Duenios(s, V) PROVE Duenios(u, V \union {d})
  <2>1. ASSUME NEW x \in V \union {d}
        PROVE  \E j \in 1 .. n : ~u[j].libre /\ u[j].mensaje = x
    <3>1. CASE x = d
        BY <3>1
    <3>2. CASE x \in V
        BY <1>1, <3>2 DEF Duenios
    <3>3. QED
        BY <3>1, <3>2
  <2>2. ASSUME NEW j \in 1 .. n, ~u[j].libre
        PROVE  u[j].mensaje \in V \union {d}
      BY <1>1, <2>2 DEF Duenios
  <2>3. ASSUME NEW j \in 1 .. n, NEW l \in 1 .. n,
               ~u[j].libre, ~u[l].libre, u[j].mensaje = u[l].mensaje
        PROVE  j = l
      BY <1>1, <2>3 DEF Duenios
  <2>4. QED
      BY <2>1, <2>2, <2>3 DEF Duenios
<1>2. ASSUME SinPares(s) PROVE SinPares(u)
  <2>1. ASSUME NEW j \in 1 .. n - 1, Par(u, j) PROVE FALSE
    <3>1. j \in 1 .. n /\ j + 1 \in 1 .. n /\ ~Par(s, j)
        BY <1>2 DEF SinPares
    <3>2. j # k /\ j + 1 # k
        BY <2>1 DEF Par
    <3>3. QED
        BY <2>1, <3>1, <3>2 DEF Par
  <2>2. QED
      BY <2>1 DEF SinPares
<1>3. ASSUME SoloLaUltima(s) PROVE SoloLaUltima(u)
    BY <1>3 DEF SoloLaUltima
<1>4. QED
    BY <1>1, <1>2, <1>3

(* The start of a free partition is given to a new message.                *)
LEMMA AlPartir ==
    ASSUME NEW s, NEW V, NEW d, d \notin V, NEW n \in Nat, Len(s) = n,
           NEW k \in 1 .. n, s[k].libre,
           NEW e, ~e.libre, e.mensaje = d, NEW f, f.libre,
           NEW u, Division(u, s, n, k, e, f)
    PROVE  /\ Duenios(s, V) => Duenios(u, V \union {d})
           /\ SinPares(s) => SinPares(u)
           /\ SoloLaUltima(s) => SoloLaUltima(u)
<1> USE DEF Division
<1>a. ASSUME NEW j \in 1 .. n + 1
      PROVE  \/ j < k /\ j \in 1 .. n /\ u[j] = s[j]
             \/ j = k \/ j = k + 1
             \/ j > k + 1 /\ j - 1 \in 1 .. n /\ u[j] = s[j - 1]
  <2>1. CASE j > k + 1
    <3>1. j - 1 \in k + 1 .. n /\ j - 1 + 1 = j
        BY <2>1
    <3>2. QED
        BY <2>1, <3>1
  <2>2. CASE ~(j > k + 1)
      BY <2>2
  <2>3. QED
      BY <2>1, <2>2
<1>1. ASSUME Duenios(s, V) PROVE Duenios(u, V \union {d})
  <2>1. ASSUME NEW x \in V \union {d}
        PROVE  \E j \in 1 .. n + 1 : ~u[j].libre /\ u[j].mensaje = x
    <3>1. CASE x = d
        BY <3>1
    <3>2. CASE x \in V
      <4>1. PICK j \in 1 .. n : ~s[j].libre /\ s[j].mensaje = x
          BY <1>1, <3>2 DEF Duenios
      <4>2. CASE j < k
        <5>1. j \in 1 .. k - 1 /\ j \in 1 .. n + 1
            BY <4>2
        <5>2. QED
            BY <4>1, <5>1
      <4>3. CASE j > k
        <5>1. j \in k + 1 .. n /\ j + 1 \in 1 .. n + 1
            BY <4>3
        <5>2. QED
            BY <4>1, <5>1
      <4>4. j # k
          BY <4>1
      <4>5. QED
          BY <4>2, <4>3, <4>4
    <3>3. QED
        BY <3>1, <3>2
  <2>2. ASSUME NEW j \in 1 .. n + 1, ~u[j].libre
        PROVE  u[j].mensaje \in V \union {d}
      BY <1>1, <1>a, <2>2 DEF Duenios
  <2>3. ASSUME NEW j \in 1 .. n + 1, NEW l \in 1 .. n + 1, ~u[j].libre, ~u[l].libre,
               u[j].mensaje = u[l].mensaje
        PROVE  j = l
    <3>1. j # k + 1 /\ l # k + 1
        BY <2>3
    <3>2. CASE j = k
        BY <1>1, <1>a, <2>3, <3>1, <3>2 DEF Duenios
    <3>3. CASE l = k
        BY <1>1, <1>a, <2>3, <3>1, <3>3 DEF Duenios
    <3>4. CASE j # k /\ l # k
      <4>1. \A x, y \in 1 .. n :
              ~s[x].libre /\ ~s[y].libre /\ s[x].mensaje = s[y].mensaje => x = y
          BY <1>1 DEF Duenios
      <4>2. \/ j < k /\ j \in 1 .. n /\ u[j] = s[j]
            \/ j > k + 1 /\ j - 1 \in 1 .. n /\ u[j] = s[j - 1]
          BY <1>a, <3>1, <3>4
      <4>3. \/ l < k /\ l \in 1 .. n /\ u[l] = s[l]
            \/ l > k + 1 /\ l - 1 \in 1 .. n /\ u[l] = s[l - 1]
          BY <1>a, <3>1, <3>4
      <4>4. QED
          BY <2>3, <4>1, <4>2, <4>3
    <3>5. QED
        BY <3>2, <3>3, <3>4
  <2>4. QED
      BY <2>1, <2>2, <2>3 DEF Duenios
<1>2. ASSUME SinPares(s) PROVE SinPares(u)
  <2>1. ASSUME NEW j \in 1 .. n, Par(u, j) PROVE FALSE
    <3>1. u[j].libre /\ u[j + 1].libre /\ j # k /\ j + 1 # k
        BY <2>1 DEF Par
    <3>2. CASE j + 1 < k
      <4>1. j \in 1 .. k - 1 /\ j + 1 \in 1 .. k - 1 /\ j \in 1 .. n - 1
          BY <3>2
      <4>2. QED
          BY <1>2, <3>1, <4>1 DEF SinPares, Par
    <3>3. CASE j = k + 1
      <4>1. j \in k + 1 .. n /\ k \in 1 .. n - 1
          BY <3>3
      <4>2. u[j + 1] = s[k + 1]
          BY <3>3, <4>1
      <4>3. QED
          BY <1>2, <3>1, <4>1, <4>2 DEF SinPares, Par
    <3>4. CASE j > k + 1
      <4>1. j \in k + 1 .. n /\ j - 1 \in k + 1 .. n /\ j - 1 + 1 = j /\ j - 1 \in 1 .. n - 1
          BY <3>4
      <4>2. u[j] = s[j - 1] /\ u[j + 1] = s[j]
          BY <4>1
      <4>3. QED
          BY <1>2, <3>1, <4>1, <4>2 DEF SinPares, Par
    <3>5. j + 1 < k \/ j + 1 = k \/ j = k \/ j = k + 1 \/ j > k + 1
        OBVIOUS
    <3>6. QED
        BY <3>1, <3>2, <3>3, <3>4, <3>5
  <2>2. n + 1 - 1 = n
      OBVIOUS
  <2>3. QED
      BY <2>1, <2>2 DEF SinPares
<1>3. ASSUME SoloLaUltima(s) PROVE SoloLaUltima(u)
  <2>1. k = n
      BY <1>3 DEF SoloLaUltima
  <2>2. ASSUME NEW j \in 1 .. n + 1, u[j].libre PROVE j = n + 1
      BY <1>3, <1>a, <2>1, <2>2 DEF SoloLaUltima
  <2>3. QED
      BY <2>2 DEF SoloLaUltima
<1>4. QED
    BY <1>1, <1>2, <1>3

(* An occupied partition is freed: when only the last one may be free, the *)
(* only neighbours that may be free after it are these two.                *)
LEMMA AlLiberar ==
    ASSUME NEW s, NEW V, NEW n \in Nat, Len(s) = n, NEW v \in 1 .. n, ~s[v].libre,
           NEW e, e.libre, NEW u, Cambio(u, s, n, v, e)
    PROVE  /\ Duenios(s, V) => Duenios(u, V \ {s[v].mensaje})
           /\ SoloLaUltima(s) => UnPar(u, 1)
<1> USE DEF Cambio
<1>1. ASSUME Duenios(s, V) PROVE Duenios(u, V \ {s[v].mensaje})
  <2>1. ASSUME NEW x \in V \ {s[v].mensaje}
        PROVE  \E j \in 1 .. n : ~u[j].libre /\ u[j].mensaje = x
    <3>1. PICK j \in 1 .. n : ~s[j].libre /\ s[j].mensaje = x
        BY <1>1 DEF Duenios
    <3>2. QED
        BY <3>1
  <2>2. ASSUME NEW j \in 1 .. n, ~u[j].libre
        PROVE  u[j].mensaje \in V \ {s[v].mensaje}
      BY <1>1, <2>2 DEF Duenios
  <2>3. ASSUME NEW j \in 1 .. n, NEW l \in 1 .. n,
               ~u[j].libre, ~u[l].libre, u[j].mensaje = u[l].mensaje
        PROVE  j = l
      BY <1>1, <2>3 DEF Duenios
  <2>4. QED
      BY <2>1, <2>2, <2>3 DEF Duenios
<1>2. ASSUME SoloLaUltima(s) PROVE UnPar(u, 1)
  <2>1. ASSUME NEW j \in 1 .. n - 1, Par(u, j) PROVE j = v /\ j + 1 = n
    <3>1. j \in 1 .. n /\ j + 1 \in 1 .. n /\ j # n
        OBVIOUS
    <3>2. j = v \/ j = n
        BY <1>2, <2>1, <3>1 DEF Par, SoloLaUltima
    <3>3. j + 1 = v \/ j + 1 = n
        BY <1>2, <2>1, <3>1 DEF Par, SoloLaUltima
    <3>4. QED
        BY <3>1, <3>2, <3>3
  <2>2. QED
      BY <2>1 DEF UnPar
<1>3. QED
    BY <1>1, <1>2

(* Two free neighbours become one.                                         *)
LEMMA AlUnir ==
    ASSUME NEW s, NEW V, NEW n \in Nat, Len(s) = n, NEW k \in 1 .. n - 1, Par(s, k),
           NEW e, e.libre, NEW u, Union(u, s, n, k, e)
    PROVE  /\ Duenios(s, V) => Duenios(u, V)
           /\ UnPar(s, k) => SinPares(u)
           /\ ~SoloLaUltima(s)
           /\ \A m \in Nat : LibresDesde(s, m) => LibresDesde(u, m)
<1> USE DEF Union
<1>a. ASSUME NEW j \in 1 .. n - 1
      PROVE  \/ j < k /\ j \in 1 .. n /\ u[j] = s[j]
             \/ j = k
             \/ j > k /\ j + 1 \in 1 .. n /\ u[j] = s[j + 1]
    OBVIOUS
<1>b. k \in 1 .. n /\ k + 1 \in 1 .. n /\ s[k].libre /\ s[k + 1].libre
    BY DEF Par
<1>1. ASSUME Duenios(s, V) PROVE Duenios(u, V)
  <2>1. ASSUME NEW x \in V
        PROVE  \E j \in 1 .. n - 1 : ~u[j].libre /\ u[j].mensaje = x
    <3>1. PICK j \in 1 .. n : ~s[j].libre /\ s[j].mensaje = x
        BY <1>1 DEF Duenios
    <3>2. CASE j < k
      <4>1. j \in 1 .. k - 1 /\ j \in 1 .. n - 1
          BY <3>2
      <4>2. QED
          BY <3>1, <4>1
    <3>3. CASE j > k + 1
      <4>1. j - 1 \in k + 1 .. n - 1 /\ j - 1 + 1 = j /\ j - 1 \in 1 .. n - 1
          BY <3>3
      <4>2. u[j - 1] = s[j]
          BY <4>1
      <4>3. QED
          BY <3>1, <4>1, <4>2
    <3>4. j # k /\ j # k + 1
        BY <1>b, <3>1
    <3>5. QED
        BY <3>2, <3>3, <3>4
  <2>2. ASSUME NEW j \in 1 .. n - 1, ~u[j].libre PROVE u[j].mensaje \in V
      BY <1>1, <1>a, <2>2 DEF Duenios
  <2>3. ASSUME NEW j \in 1 .. n - 1, NEW l \in 1 .. n - 1,
               ~u[j].libre, ~u[l].libre, u[j].mensaje = u[l].mensaje
        PROVE  j = l
    <3>1. j # k /\ l # k
        BY <2>3
    <3>2. QED
        BY <1>1, <1>a, <2>3, <3>1, SMTT(30) DEF Duenios
  <2>4. QED
      BY <2>1, <2>2, <2>3 DEF Duenios
<1>2. ASSUME UnPar(s, k) PROVE SinPares(u)
  <2>1. ASSUME NEW j \in 1 .. n - 1 - 1, Par(u, j) PROVE FALSE
    <3>1. u[j].libre /\ u[j + 1].libre
        BY <2>1 DEF Par
    <3>2. \A l \in 1 .. n - 1 : s[l].libre /\ s[l + 1].libre => l = k
        BY <1>2 DEF UnPar, Par
    <3>3. CASE j < k
      <4>1. j \in 1 .. k - 1 /\ j \in 1 .. n - 1
          BY <3>3
      <4>2. s[j].libre
          BY <3>1, <4>1
      <4>3. s[j + 1].libre
        <5>1. CASE j + 1 = k
            BY <1>b, <5>1
        <5>2. CASE j + 1 # k
          <6>1. j + 1 \in 1 .. k - 1
              BY <3>3, <5>2
          <6>2. QED
              BY <3>1, <6>1
        <5>3. QED
            BY <5>1, <5>2
      <4>4. QED
          BY <3>2, <3>3, <4>1, <4>2, <4>3
    <3>4. CASE j = k
      <4>1. k + 1 \in k + 1 .. n - 1 /\ k + 1 \in 1 .. n - 1
          BY <3>4
      <4>2. s[k + 1].libre /\ s[k + 1 + 1].libre
          BY <1>b, <3>1, <3>4, <4>1
      <4>3. QED
          BY <3>2, <4>1, <4>2
    <3>5. CASE j > k
      <4>1. j \in k + 1 .. n - 1 /\ j + 1 \in k + 1 .. n - 1 /\ j + 1 \in 1 .. n - 1
          BY <3>5
      <4>2. s[j + 1].libre /\ s[j + 1 + 1].libre
          BY <3>1, <4>1
      <4>3. QED
          BY <3>2, <3>5, <4>1, <4>2
    <3>6. QED
        BY <3>3, <3>4, <3>5
  <2>2. QED
      BY <2>1 DEF SinPares
<1>3. ~SoloLaUltima(s)
    BY <1>b DEF SoloLaUltima
<1>4. ASSUME NEW m \in Nat, LibresDesde(s, m) PROVE LibresDesde(u, m)
  <2>1. k >= m
      BY <1>b, <1>4 DEF LibresDesde
  <2>2. ASSUME NEW j \in 1 .. n - 1, u[j].libre PROVE j >= m \/ j = n - 1
      BY <1>a, <1>4, <2>1, <2>2 DEF LibresDesde
  <2>3. QED
      BY <2>2 DEF LibresDesde
<1>5. QED
    BY <1>1, <1>2, <1>3, <1>4

(* A free partition changes places with the occupied one after it.         *)
LEMMA AlCambiar ==
    ASSUME NEW s, NEW V, NEW n \in Nat, Len(s) = n, NEW k \in 1 .. n - 1,
           s[k].libre, ~s[k + 1].libre,
           NEW e, ~e.libre, e.mensaje = s[k + 1].mensaje, NEW f, f.libre,
           NEW u, Canje(u, s, n, k, e, f)
    PROVE  /\ Duenios(s, V) => Duenios(u, V)
           /\ SinPares(s) => UnPar(u, 1)
           /\ LibresDesde(s, k) => LibresDesde(u, k + 1)
<1> USE DEF Canje
<1>a. k \in 1 .. n /\ k + 1 \in 1 .. n
    OBVIOUS
<1>1. ASSUME Duenios(s, V) PROVE Duenios(u, V)
  <2>1. ASSUME NEW x \in V
        PROVE  \E j \in 1 .. n : ~u[j].libre /\ u[j].mensaje = x
    <3>1. PICK j \in 1 .. n : ~s[j].libre /\ s[j].mensaje = x
        BY <1>1 DEF Duenios
    <3>2. CASE j = k + 1
        BY <1>a, <3>1, <3>2
    <3>3. CASE j # k + 1
        BY <3>1, <3>3
    <3>4. QED
        BY <3>2, <3>3
  <2>2. ASSUME NEW j \in 1 .. n, ~u[j].libre PROVE u[j].mensaje \in V
      BY <1>1, <1>a, <2>2 DEF Duenios
  <2>3. ASSUME NEW j \in 1 .. n, NEW l \in 1 .. n, ~u[j].libre, ~u[l].libre,
               u[j].mensaje = u[l].mensaje
        PROVE  j = l
      BY <1>1, <1>a, <2>3 DEF Duenios
  <2>4. QED
      BY <2>1, <2>2, <2>3 DEF Duenios
<1>2. ASSUME SinPares(s) PROVE UnPar(u, 1)
  <2>1. ASSUME NEW j \in 1 .. n - 1, Par(u, j) PROVE j = k + 1
    <3>1. u[j].libre /\ u[j + 1].libre /\ j \in 1 .. n /\ j + 1 \in 1 .. n
        BY <2>1 DEF Par
    <3>2. j # k /\ j + 1 # k
        BY <3>1
    <3>3. ASSUME j # k + 1 PROVE FALSE
      <4>1. s[j].libre /\ s[j + 1].libre
          BY <3>1, <3>2, <3>3
      <4>2. QED
          BY <1>2, <4>1 DEF SinPares, Par
    <3>4. QED
        BY <3>3
  <2>2. QED
      BY <2>1 DEF UnPar
<1>3. ASSUME LibresDesde(s, k) PROVE LibresDesde(u, k + 1)
    BY <1>3 DEF LibresDesde
<1>4. QED
    BY <1>1, <1>2, <1>3

(* Nothing changes but the uses.                                           *)
LEMMA AlUsar ==
    ASSUME NEW s, NEW u, Len(u) = Len(s),
           \A j \in 1 .. Len(s) : /\ u[j].libre = s[j].libre
                                  /\ u[j].mensaje = s[j].mensaje
    PROVE  /\ \A V : Duenios(s, V) => Duenios(u, V)
           /\ Len(s) \in Nat => /\ SinPares(s) => SinPares(u)
                                /\ \A m : UnPar(s, m) => UnPar(u, m)
           /\ SoloLaUltima(s) => SoloLaUltima(u)
           /\ \A m : LibresDesde(s, m) => LibresDesde(u, m)
<1>1. ASSUME Len(s) \in Nat, NEW j \in 1 .. Len(s) - 1
      PROVE  Par(u, j) <=> Par(s, j)
  <2>1. j \in 1 .. Len(s) /\ j + 1 \in 1 .. Len(s)
      BY <1>1
  <2>2. QED
      BY <2>1 DEF Par
<1>2. ASSUME NEW V, Duenios(s, V) PROVE Duenios(u, V)
    BY <1>2 DEF Duenios
<1>3. QED
    BY <1>1, <1>2 DEF SinPares, UnPar, SoloLaUltima, LibresDesde

-----------------------------------------------------------------------------
(* IInv holds at first and every step preserves it.                        *)

(* The table of partitions is a sequence that is not empty.                *)
LEMMA Vista ==
    ASSUME IInv
    PROVE  /\ part \in Seq(Particion) /\ Tesela(part)
           /\ Len(part) \in Nat /\ Len(part) > 0 /\ DOMAIN part = 1 .. Len(part)
           /\ Libres = {k \in 1 .. Len(part) : part[k].libre}
           /\ Ocupadas = {k \in 1 .. Len(part) : ~part[k].libre}
           /\ \A k \in 1 .. Len(part) :
                /\ part[k] \in Particion /\ part[k].base \in Int
                /\ part[k].tam \in Int /\ part[k].tam > 0
                /\ part[k].libre \in BOOLEAN /\ part[k].mensaje \in DIRS \union {NULL}
<1>1. part \in Seq(Particion) /\ Tesela(part)
    BY DEF IInv, Tesela
<1>2. Len(part) \in Nat /\ Len(part) > 0 /\ DOMAIN part = 1 .. Len(part)
    BY <1>1, LenProperties DEF Tesela
<1>3. QED
    BY <1>1, <1>2, Campos DEF Libres, Ocupadas, Tesela

(* At first the memory is one free partition.                              *)
LEMMA Inicio == ASSUME Configurado, Init PROVE IInv
<1> DEFINE p == [base |-> 0, tam |-> MEM_SIZE, libre |-> TRUE, mensaje |-> NULL,
                 uso |-> 0]
<1>1. MEM_SIZE \in Nat /\ MEM_SIZE > 0
    BY Constantes
<1>2. p \in Particion
    BY <1>1 DEF Particion
<1>3. part \in Seq(Particion) /\ Len(part) = 1 /\ part[1] = p
    BY <1>2 DEF Init
<1>4. p.base = 0 /\ p.tam = MEM_SIZE /\ p.libre
    OBVIOUS
<1> HIDE DEF p
<1>5. Tesela(part)
    BY <1>1, <1>3, <1>4 DEF Tesela
<1>6. TypeOK
    BY <1>3 DEF Init, TypeOK, SinPedido
<1>7. PedidoInv
    BY DEF Init, PedidoInv, Pidiendo, Compactando
<1>8. Duenios(part, vivos)
  <2>1. vivos = {}
      BY DEF Init
  <2>2. QED
      BY <1>3, <1>4, <2>1 DEF Duenios
<1>9. UnaVez(cola, vivos)
  <2>1. vivos = {} /\ Len(cola) = 0
      BY DEF Init
  <2>2. QED
      BY <2>1 DEF UnaVez
<1>10. HuecosInv
  <2>1. SinPares(part) /\ SoloLaUltima(part)
      BY <1>3 DEF SinPares, SoloLaUltima
  <2>2. pc = "ocioso" /\ intentos = 0
      BY DEF Init
  <2>3. FRECUENCIA # -1 => 0 <= FRECUENCIA
      BY AlgoritmosAssumption
  <2>4. QED
      BY <2>1, <2>2, <2>3 DEF HuecosInv, Compactando
<1>11. QED
    BY <1>5, <1>6, <1>7, <1>8, <1>9, <1>10 DEF IInv

(* A new request: its message is not cached yet.                           *)
LEMMA AlPedir ==
    ASSUME IInv, NEW d \in DIRS, NEW t \in TAMS, Pedir(d, t)
    PROVE  IInv'
<1>1. /\ UNCHANGED <<part, cola, intentos, vivos, reloj, volver, i, c>>
      /\ pc = "ocioso" /\ pc' = "buscar" /\ d \notin vivos
      /\ pedido' = [dir |-> d, tam |-> t] /\ t \in Nat
    BY Constantes DEF Pedir
<1>2. TypeOK'
    BY <1>1 DEF IInv, TypeOK
<1>3. PedidoInv'
    BY <1>1 DEF PedidoInv, Compactando
<1>4. HuecosInv'
    BY <1>1 DEF IInv, HuecosInv, Compactando
<1>5. QED
    BY <1>1, <1>2, <1>3, <1>4 DEF IInv

(* The clock only goes on.                                                 *)
LEMMA Reloj == ASSUME TypeOK, LeerReloj PROVE reloj' \in Nat
BY DEF TypeOK, LeerReloj

(* The new message joins the end of the queue of FIFO.                     *)
LEMMA AlEncolar ==
    ASSUME NEW d \in DIRS, d \notin vivos, TypeOK, FIFO => UnaVez(cola, vivos),
           Encolar(d), vivos' = vivos \union {d}
    PROVE  /\ cola' \in Seq(DIRS)
           /\ FIFO => UnaVez(cola', vivos')
<1>1. cola \in Seq(DIRS) /\ Len(cola) \in Nat
    BY LenProperties DEF TypeOK
<1>2. CASE FIFO
  <2>1. cola' = Append(cola, d)
      BY <1>2 DEF Encolar
  <2>2. /\ cola' \in Seq(DIRS) /\ Len(cola') = Len(cola) + 1
        /\ \A k \in 1 .. Len(cola) : cola'[k] = cola[k]
        /\ cola'[Len(cola) + 1] = d
      BY <1>1, <2>1, AppendProperties
  <2>3. /\ \A k \in 1 .. Len(cola) : cola[k] \in vivos
        /\ \A x \in vivos : \E k \in 1 .. Len(cola) : cola[k] = x
        /\ \A j, k \in 1 .. Len(cola) : cola[j] = cola[k] => j = k
      BY <1>2 DEF UnaVez
  <2>4. ASSUME NEW k \in 1 .. Len(cola) + 1
        PROVE  \/ k \in 1 .. Len(cola) /\ cola'[k] = cola[k] /\ cola'[k] \in vivos
               \/ k = Len(cola) + 1 /\ cola'[k] = d
      BY <1>1, <2>2, <2>3
  <2>5. \A x \in vivos \union {d} : \E k \in 1 .. Len(cola) + 1 : cola'[k] = x
    <3>1. ASSUME NEW x \in vivos PROVE \E k \in 1 .. Len(cola) + 1 : cola'[k] = x
        BY <1>1, <2>2, <2>3
    <3>2. QED
        BY <1>1, <2>2, <3>1
  <2>6. ASSUME NEW j \in 1 .. Len(cola) + 1, NEW k \in 1 .. Len(cola) + 1,
               cola'[j] = cola'[k]
        PROVE  j = k
      BY <2>3, <2>4, <2>6
  <2>7. UnaVez(cola', vivos')
      BY <2>2, <2>4, <2>5, <2>6 DEF UnaVez
  <2>8. QED
      BY <2>2, <2>7
<1>3. CASE ~FIFO
    BY <1>1, <1>3 DEF Encolar
<1>4. QED
    BY <1>2, <1>3

(* A partition of the size that was asked for is handed out.               *)
LEMMA Exacta ==
    ASSUME IInv, AsignarExacta
    PROVE  \E k \in 1 .. Len(part), e \in Particion :
             /\ Cambio(part', part, Len(part), k, e)
             /\ part[k].libre /\ ~e.libre /\ e.mensaje = pedido.dir
             /\ e.base = part[k].base /\ e.tam = part[k].tam
             /\ pedido.dir \in DIRS /\ pedido.dir \notin vivos
             /\ vivos' = vivos \union {pedido.dir}
<1>1. PICK k \in DOMAIN part :
         /\ pc = "buscar" /\ Encontrada(k, pedido.tam) /\ LeerReloj
         /\ part' = [part EXCEPT ![k].libre = FALSE, ![k].uso = reloj',
                                 ![k].mensaje = pedido.dir]
         /\ Encolar(pedido.dir) /\ vivos' = vivos \union {pedido.dir}
         /\ pedido' = SinPedido /\ pc' = "ocioso"
         /\ UNCHANGED <<intentos, volver, i, c>>
    BY DEF AsignarExacta
<1>2. PICK n \in Nat : n = Len(part)
    BY Vista
<1>3. /\ part \in Seq(Particion) /\ Tesela(part) /\ DOMAIN part = 1 .. n
      /\ Len(part) = n /\ k \in 1 .. n /\ part[k] \in Particion
    BY <1>1, <1>2, Vista
<1>4. part[k].libre
    BY <1>1, <1>2, Vista DEF Encontrada, Candidatas
<1>5. pedido.dir \in DIRS /\ pedido.dir \notin vivos
    BY <1>1 DEF IInv, PedidoInv, Pidiendo
<1>6. reloj' \in Nat
    BY <1>1, Reloj DEF IInv
<1> DEFINE e == [part[k] EXCEPT !.libre = FALSE, !.uso = reloj', !.mensaje = pedido.dir]
<1>7. /\ e \in Particion /\ ~e.libre /\ e.mensaje = pedido.dir
      /\ e.base = part[k].base /\ e.tam = part[k].tam
    BY <1>3, <1>5, <1>6 DEF Particion
<1>8. part' = [part EXCEPT ![k] = e]
    BY <1>1
<1> HIDE DEF e
<1>9. Cambio(part', part, n, k, e)
    BY <1>3, <1>7, <1>8, ExceptSeq DEF Cambio
<1>10. QED
    BY <1>1, <1>2, <1>3, <1>4, <1>5, <1>7, <1>9

(* A message stored in a partition of its size keeps the invariant.        *)
LEMMA AlAsignarExacta == ASSUME IInv, AsignarExacta PROVE IInv'
<1>1. /\ pc = "buscar" /\ LeerReloj
      /\ Encolar(pedido.dir) /\ vivos' = vivos \union {pedido.dir}
      /\ pedido' = SinPedido /\ pc' = "ocioso"
      /\ UNCHANGED <<intentos, volver, i, c>>
    BY DEF AsignarExacta
<1>2. PICK n \in Nat : n = Len(part)
    BY Vista
<1>3. part \in Seq(Particion) /\ Tesela(part) /\ Len(part) = n
    BY <1>2, Vista
<1>4. PICK k \in 1 .. n, e \in Particion :
         /\ Cambio(part', part, n, k, e)
         /\ part[k].libre /\ ~e.libre /\ e.mensaje = pedido.dir
         /\ e.base = part[k].base /\ e.tam = part[k].tam
    BY <1>2, Exacta
<1>5. pedido.dir \in DIRS /\ pedido.dir \notin vivos
    BY <1>1 DEF IInv, PedidoInv, Pidiendo
<1>6. reloj' \in Nat
    BY <1>1, Reloj DEF IInv
<1>10. Tesela(part')
  <2>1. \A j \in 1 .. n : part'[j].base = part[j].base /\ part'[j].tam = part[j].tam
      BY <1>4 DEF Cambio
  <2>2. QED
      BY <1>3, <1>4, <2>1, TeselaIgual DEF Cambio
<1>11. /\ Duenios(part, vivos) => Duenios(part', vivos')
       /\ SinPares(part) => SinPares(part')
       /\ SoloLaUltima(part) => SoloLaUltima(part')
  <2>1. /\ Duenios(part, vivos) => Duenios(part', vivos \union {pedido.dir})
        /\ SinPares(part) => SinPares(part')
        /\ SoloLaUltima(part) => SoloLaUltima(part')
      BY <1>3, <1>4, <1>5, AlOcupar
  <2>2. QED
      BY <1>1, <2>1
<1>12. cola' \in Seq(DIRS) /\ (FIFO => UnaVez(cola', vivos'))
    BY <1>1, <1>5, AlEncolar DEF IInv
<1>13. TypeOK'
  <2>1. part' \in Seq(Particion) /\ vivos' \subseteq DIRS
      BY <1>1, <1>4, <1>5 DEF IInv, TypeOK, Cambio
  <2>2. QED
      BY <1>1, <1>6, <1>12, <2>1 DEF IInv, TypeOK, SinPedido
<1>14. PedidoInv'
    BY <1>1 DEF PedidoInv, Pidiendo, Compactando
<1>15. HuecosInv'
    BY <1>1, <1>11 DEF IInv, HuecosInv, Compactando
<1>16. QED
    BY <1>10, <1>11, <1>12, <1>13, <1>14, <1>15 DEF IInv

(* The start of a larger partition is handed out. With messages of the     *)
(* minimum size or more, the rest has bytes left.                          *)
LEMMA Partiendo ==
    ASSUME Configurado, IInv, AsignarPartiendo
    PROVE  \E k \in 1 .. Len(part), e \in Particion, f \in Particion :
             /\ Tesela(part') /\ Division(part', part, Len(part), k, e, f)
             /\ part[k].libre /\ ~e.libre /\ e.mensaje = pedido.dir /\ f.libre
             /\ pedido.dir \in DIRS /\ pedido.dir \notin vivos
             /\ vivos' = vivos \union {pedido.dir}
<1> DEFINE r == pedido.tam
           nueva(k) == [base |-> part[k].base, tam |-> r, libre |-> FALSE,
                        mensaje |-> pedido.dir, uso |-> reloj']
           resto(k) == [part[k] EXCEPT !.base = @ + r, !.tam = @ - r]
<1>0. /\ pc = "buscar" => /\ pedido.dir \in DIRS /\ pedido.dir \notin vivos
                          /\ pedido.tam \in TAMS
    BY DEF IInv, PedidoInv, Pidiendo
<1>1. PICK k \in DOMAIN part :
         /\ pc = "buscar" /\ Encontrada(k, pedido.tam) /\ part[k].tam # pedido.tam
         /\ LeerReloj
         /\ part' \in Ordenar(InsertAt([part EXCEPT ![k] = resto(k)], k, nueva(k)),
                              k + 1)
         /\ Encolar(pedido.dir) /\ vivos' = vivos \union {pedido.dir}
         /\ pedido' = SinPedido
         /\ pc' = "mergear" /\ volver' = "ocioso" /\ i' = 1
         /\ UNCHANGED <<intentos, c>>
  <2>1. Reserva(pedido.tam) = pedido.tam \/ pc # "buscar"
      BY <1>0, Constantes DEF Configurado, Reserva
  <2>2. QED
      BY <2>1 DEF AsignarPartiendo
<1>2. PICK n \in Nat : n = Len(part)
    BY Vista
<1>3. /\ part \in Seq(Particion) /\ Tesela(part) /\ DOMAIN part = 1 .. n
      /\ Len(part) = n /\ k \in 1 .. n /\ part[k] \in Particion
      /\ part[k].base \in Int /\ part[k].tam \in Int
    BY <1>1, <1>2, Vista
<1>4. part[k].libre /\ r <= part[k].tam
    BY <1>1, <1>2, Vista DEF Encontrada, Candidatas
<1>5. pedido.dir \in DIRS /\ pedido.dir \notin vivos /\ r \in Nat /\ r > 0
    BY <1>0, <1>1, Constantes
<1>6. reloj' \in Nat
    BY <1>1, Reloj DEF IInv
<1> DEFINE e == nueva(k)
           f == resto(k)
           u == InsertAt([part EXCEPT ![k] = f], k, e)
<1>7. /\ e \in Particion /\ ~e.libre /\ e.mensaje = pedido.dir
      /\ e.base = part[k].base /\ e.tam = r
    BY <1>3, <1>5, <1>6 DEF Particion
<1>8. /\ f \in Particion /\ f.libre
      /\ f.base = part[k].base + r /\ f.tam = part[k].tam - r
  <2>1. part[k] \in Particion /\ r \in Int
      BY <1>3, <1>5
  <2>2. f = [part[k] EXCEPT !.base = @ + r, !.tam = @ - r]
      OBVIOUS
  <2> HIDE DEF e, f, r
  <2>3. /\ f \in Particion /\ f.base = part[k].base + r
        /\ f.tam = part[k].tam - r /\ f.libre = part[k].libre
      BY <2>1, <2>2, Resto
  <2>4. QED
      BY <1>4, <2>3
<1>9. part' \in Ordenar(u, k + 1)
    BY <1>1
<1> HIDE DEF e, f
<1>10. e.tam > 0 /\ f.tam > 0 /\ f.base = e.base + e.tam /\ e.tam + f.tam = part[k].tam
    BY <1>1, <1>3, <1>4, <1>5, <1>7, <1>8
<1>11. Tesela(u) /\ Division(u, part, n, k, e, f)
    BY <1>3, <1>7, <1>8, <1>10, Partida
<1> HIDE DEF u
<1>12. part' = u
  <2>1. u \in Seq(Particion) /\ k + 1 \in 1 .. Len(u)
      BY <1>3, <1>11 DEF Division
  <2>2. \A j, l \in 1 .. Len(u) : j < l => u[j].base < u[l].base
      BY <1>11, Bases
  <2>3. QED
      BY <1>9, <2>1, <2>2, OrdenUnica
<1>13. QED
    BY <1>1, <1>2, <1>3, <1>4, <1>5, <1>7, <1>8, <1>11, <1>12

(* A message stored in a part of a larger partition keeps the invariant.   *)
LEMMA AlAsignarPartiendo ==
    ASSUME Configurado, IInv, AsignarPartiendo PROVE IInv'
<1>1. /\ pc = "buscar" /\ LeerReloj
      /\ Encolar(pedido.dir) /\ vivos' = vivos \union {pedido.dir}
      /\ pedido' = SinPedido
      /\ pc' = "mergear" /\ volver' = "ocioso" /\ i' = 1
      /\ UNCHANGED <<intentos, c>>
    BY DEF AsignarPartiendo
<1>2. PICK n \in Nat : n = Len(part)
    BY Vista
<1>3. part \in Seq(Particion) /\ Tesela(part) /\ Len(part) = n
    BY <1>2, Vista
<1>4. PICK k \in 1 .. n, e \in Particion, f \in Particion :
         /\ Tesela(part') /\ Division(part', part, n, k, e, f)
         /\ part[k].libre /\ ~e.libre /\ e.mensaje = pedido.dir /\ f.libre
    BY <1>2, Partiendo
<1>5. pedido.dir \in DIRS /\ pedido.dir \notin vivos
    BY <1>1 DEF IInv, PedidoInv, Pidiendo
<1>6. reloj' \in Nat
    BY <1>1, Reloj DEF IInv
<1>13. /\ Duenios(part, vivos) => Duenios(part', vivos \union {pedido.dir})
       /\ SinPares(part) => SinPares(part')
       /\ SoloLaUltima(part) => SoloLaUltima(part')
    BY <1>3, <1>4, <1>5, AlPartir
<1>14. cola' \in Seq(DIRS) /\ (FIFO => UnaVez(cola', vivos'))
    BY <1>1, <1>5, AlEncolar DEF IInv
<1>15. TypeOK'
    BY <1>1, <1>4, <1>5, <1>6, <1>14 DEF IInv, TypeOK, SinPedido, Tesela
<1>16. PedidoInv'
    BY <1>1 DEF PedidoInv, Pidiendo, Compactando
<1>17. HuecosInv'
  <2>1. SinPares(part') => UnPar(part', 1)
      BY DEF SinPares, UnPar
  <2>2. QED
      BY <1>1, <1>13, <2>1 DEF IInv, HuecosInv, Compactando
<1>18. QED
    BY <1>1, <1>4, <1>13, <1>14, <1>15, <1>16, <1>17 DEF IInv

(* An iteration of mergear_particiones_libres.                             *)
LEMMA AlMergearPar == ASSUME IInv, MergearPar PROVE IInv'
<1>1. /\ pc = "mergear" /\ i < Len(part) /\ i \in Nat /\ i > 0
      /\ UNCHANGED <<cola, intentos, vivos, reloj, pedido, pc, volver, c>>
    BY DEF MergearPar, QuedanPares, IInv, TypeOK
<1>2. PICK n \in Nat : n = Len(part)
    BY Vista
<1>3. /\ part \in Seq(Particion) /\ Tesela(part) /\ Len(part) = n
      /\ i \in 1 .. n - 1 /\ i \in 1 .. n
    BY <1>1, <1>2, Vista
<1>4. PedidoInv'
    BY <1>1 DEF IInv, PedidoInv, Pidiendo, Compactando
<1>5. CASE Par(part, i)
  <2>1. part' = Mergeada(part, i) /\ i' = 2
      BY <1>5 DEF MergearPar, Par, TrasMergear
  <2> DEFINE e == [part[i] EXCEPT !.tam = @ + part[i + 1].tam]
  <2>2. part[i] \in Particion /\ part[i + 1] \in Particion /\ part[i].libre
      BY <1>2, <1>3, <1>5, Vista DEF Par
  <2>3. e.libre
      BY <2>2, Suma
  <2>4. Tesela(part') /\ Union(part', part, n, i, e)
      BY <1>3, <2>1, Unida
  <2> HIDE DEF e
  <2>5. /\ Duenios(part, vivos) => Duenios(part', vivos)
        /\ UnPar(part, i) => SinPares(part')
        /\ ~SoloLaUltima(part)
        /\ \A m \in Nat : LibresDesde(part, m) => LibresDesde(part', m)
      BY <1>3, <1>5, <2>3, <2>4, AlUnir
  <2>6. SinPares(part') => UnPar(part', 2)
      BY DEF SinPares, UnPar
  <2>7. TypeOK'
    <3>1. part' \in Seq(Particion) /\ i' \in Nat \ {0}
        BY <2>1, <2>4 DEF Union
    <3>2. QED
        BY <1>1, <3>1 DEF IInv, TypeOK
  <2>8. HuecosInv'
    <3>1. c \in Nat
        BY DEF IInv, TypeOK
    <3>2. QED
        BY <1>1, <2>1, <2>5, <2>6, <3>1 DEF IInv, HuecosInv, Compactando
  <2>9. QED
      BY <1>1, <1>4, <2>4, <2>5, <2>7, <2>8 DEF IInv
<1>6. CASE ~Par(part, i)
  <2>1. part' = part /\ i' = i + 1
      BY <1>6 DEF MergearPar, Par
  <2>2. UnPar(part, i) => UnPar(part, i + 1)
    <3>1. ASSUME NEW k \in 1 .. Len(part) - 1, Par(part, k), k >= i
          PROVE  k >= i + 1
        BY <1>3, <1>6, <3>1
    <3>2. QED
        BY <3>1 DEF UnPar
  <2>3. TypeOK'
      BY <1>1, <2>1 DEF IInv, TypeOK
  <2>4. HuecosInv'
      BY <1>1, <2>1, <2>2 DEF IInv, HuecosInv, Compactando
  <2>5. QED
      BY <1>1, <1>4, <2>1, <2>3, <2>4 DEF IInv
<1>7. QED
    BY <1>5, <1>6

(* mergear_particiones_libres returns: no pair is left.                    *)
LEMMA AlMergearFin == ASSUME IInv, MergearFin PROVE IInv'
<1>1. /\ pc = "mergear" /\ ~(i < Len(part)) /\ pc' = volver
      /\ UNCHANGED <<part, cola, intentos, vivos, reloj, pedido, volver, i, c>>
    BY DEF MergearFin, QuedanPares
<1>2. volver \in {"ocioso", "buscar", "compactar"} /\ i \in Nat
    BY DEF IInv, TypeOK
<1>3. UnPar(part, i) => SinPares(part)
  <2>1. Len(part) \in Nat
      BY Vista
  <2>2. QED
      BY <1>1, <1>2, <2>1 DEF UnPar, SinPares
<1>4. TypeOK'
    BY <1>1, <1>2 DEF IInv, TypeOK
<1>5. PedidoInv'
    BY <1>1, <1>2 DEF IInv, PedidoInv, Pidiendo, Compactando
<1>6. HuecosInv'
    BY <1>1, <1>2, <1>3 DEF IInv, HuecosInv, Compactando
<1>7. QED
    BY <1>1, <1>4, <1>5, <1>6 DEF IInv

(* compactar_particiones begins.                                           *)
LEMMA AlCompactar == ASSUME IInv, Compactar PROVE IInv'
<1>1. /\ pc = "buscar" /\ pc' = "compactar" /\ c' = 1 /\ FRECUENCIA # -1
      /\ UNCHANGED <<part, cola, intentos, vivos, reloj, pedido, volver, i>>
    BY DEF Compactar, TocaCompactar
<1>2. LibresDesde(part, 1)
    BY DEF LibresDesde
<1>3. TypeOK'
    BY <1>1 DEF IInv, TypeOK
<1>4. PedidoInv'
    BY <1>1 DEF IInv, PedidoInv, Pidiendo, Compactando
<1>5. HuecosInv'
    BY <1>1, <1>2 DEF IInv, HuecosInv, Compactando
<1>6. QED
    BY <1>1, <1>3, <1>4, <1>5 DEF IInv

(* The first occupied partition after one that has some.                   *)
LEMMA HaySiguiente ==
    ASSUME IInv, NEW k \in Ocupadas, k > c
    PROVE  \E z \in DOMAIN part : SiguienteOcupada(z)
<1>1. c \in Nat /\ Ocupadas \subseteq Nat /\ Ocupadas \subseteq DOMAIN part
    BY Vista DEF IInv, TypeOK
<1> DEFINE S == {z \in Ocupadas : z > c}
<1>2. S \in SUBSET Nat /\ S # {}
    BY <1>1
<1>3. PICK z \in S : \A m \in S : z <= m
  <2> HIDE DEF S
  <2>1. QED
      BY <1>2, MinimoNat
<1>4. QED
    BY <1>1, <1>3 DEF SiguienteOcupada

(* Nothing to move for this index: it is occupied, or the last.            *)
LEMMA AlCompactarSeguir == ASSUME IInv, CompactarSeguir PROVE IInv'
<1>1. /\ pc = "compactar" /\ c <= Len(part) /\ c' = c + 1
      /\ part[c].libre => \A z \in DOMAIN part : ~SiguienteOcupada(z)
      /\ UNCHANGED <<part, cola, intentos, vivos, reloj, pedido, pc, volver, i>>
    BY DEF CompactarSeguir
<1>2. c \in Nat /\ c > 0 /\ Len(part) \in Nat
    BY Vista DEF IInv, TypeOK
<1>3. SinPares(part) /\ LibresDesde(part, c) => LibresDesde(part, c + 1)
  <2>1. ASSUME SinPares(part), LibresDesde(part, c), part[c].libre, c # Len(part)
        PROVE  FALSE
    <3>1. c \in 1 .. Len(part) - 1 /\ c + 1 \in 1 .. Len(part) /\ c + 1 > c
        BY <1>1, <1>2, <2>1
    <3>2. ~part[c + 1].libre
        BY <2>1, <3>1 DEF SinPares, Par
    <3>3. c + 1 \in Ocupadas
        BY <3>1, <3>2, Vista
    <3>4. QED
        BY <1>1, <2>1, <3>1, <3>3, HaySiguiente
  <2>2. QED
      BY <1>2, <2>1 DEF LibresDesde
<1>4. TypeOK'
    BY <1>1 DEF IInv, TypeOK
<1>5. PedidoInv'
    BY <1>1 DEF IInv, PedidoInv, Pidiendo, Compactando
<1>6. HuecosInv'
    BY <1>1, <1>3 DEF IInv, HuecosInv, PedidoInv, Compactando
<1>7. QED
    BY <1>1, <1>4, <1>5, <1>6 DEF IInv

(* compactar_particiones returns: only the last partition may be free.     *)
LEMMA AlCompactarFin == ASSUME IInv, CompactarFin PROVE IInv'
<1>1. /\ pc = "compactar" /\ c > Len(part) /\ intentos' = 0 /\ pc' = "buscar"
      /\ UNCHANGED <<part, cola, vivos, reloj, pedido, volver, i, c>>
    BY DEF CompactarFin
<1>2. c \in Nat /\ Len(part) \in Nat
    BY Vista DEF IInv, TypeOK
<1>3. LibresDesde(part, c) => SoloLaUltima(part)
    BY <1>1, <1>2 DEF LibresDesde, SoloLaUltima
<1>4. TypeOK'
    BY <1>1 DEF IInv, TypeOK
<1>5. PedidoInv'
    BY <1>1 DEF IInv, PedidoInv, Pidiendo, Compactando
<1>6. HuecosInv'
  <2>1. FRECUENCIA # -1 => 0 <= FRECUENCIA
      BY AlgoritmosAssumption
  <2>2. QED
      BY <1>1, <1>3, <2>1 DEF IInv, HuecosInv, Compactando
<1>7. QED
    BY <1>1, <1>4, <1>5, <1>6 DEF IInv

(* A send refreshes the use of a partition, whatever the allocator does.   *)
LEMMA AlUsarMensaje == ASSUME IInv, NEW d \in DIRS, Usar(d) PROVE IInv'
<1>1. PICK k \in DOMAIN part : part' = [part EXCEPT ![k].uso = reloj']
    BY DEF Usar
<1>2. /\ UNCHANGED <<cola, intentos, vivos, pedido, pc, volver, i, c>>
      /\ reloj' \in Nat
    BY Reloj DEF Usar, IInv
<1>3. /\ part \in Seq(Particion) /\ Tesela(part) /\ DOMAIN part = 1 .. Len(part)
      /\ Len(part) \in Nat /\ k \in 1 .. Len(part) /\ part[k] \in Particion
    BY <1>1, Vista
<1> DEFINE e == [part[k] EXCEPT !.uso = reloj']
<1>4. /\ e \in Particion /\ e.base = part[k].base /\ e.tam = part[k].tam
      /\ e.libre = part[k].libre /\ e.mensaje = part[k].mensaje
    BY <1>2, <1>3 DEF Particion
<1>5. part' = [part EXCEPT ![k] = e]
    BY <1>1
<1> HIDE DEF e
<1>6. /\ part' \in Seq(Particion) /\ Len(part') = Len(part)
      /\ part'[k] = e /\ \A j \in 1 .. Len(part) : j # k => part'[j] = part[j]
    BY <1>3, <1>4, <1>5, ExceptSeq
<1>7. \A j \in 1 .. Len(part) :
         /\ part'[j].base = part[j].base /\ part'[j].tam = part[j].tam
         /\ part'[j].libre = part[j].libre /\ part'[j].mensaje = part[j].mensaje
    BY <1>4, <1>6
<1>8. Tesela(part')
    BY <1>3, <1>6, <1>7, TeselaIgual
<1>9. /\ Duenios(part, vivos) => Duenios(part', vivos)
      /\ SinPares(part) => SinPares(part')
      /\ UnPar(part, i) => UnPar(part', i)
      /\ SoloLaUltima(part) => SoloLaUltima(part')
      /\ LibresDesde(part, c) => LibresDesde(part', c)
    BY <1>3, <1>6, <1>7, AlUsar
<1>10. TypeOK'
    BY <1>2, <1>6 DEF IInv, TypeOK
<1>11. PedidoInv'
    BY <1>2 DEF IInv, PedidoInv, Pidiendo, Compactando
<1>12. HuecosInv'
    BY <1>2, <1>9 DEF IInv, HuecosInv, Compactando
<1>13. QED
    BY <1>2, <1>8, <1>9, <1>10, <1>11, <1>12 DEF IInv

(* The next occupied partition is the one after the free one, and changes  *)
(* places with it.                                                         *)
LEMMA Movida ==
    ASSUME IInv, CompactarMover
    PROVE  /\ c \in 1 .. Len(part) - 1 /\ part[c].libre /\ ~part[c + 1].libre
           /\ \E e \in Particion, f \in Particion :
                /\ Tesela(part') /\ Canje(part', part, Len(part), c, e, f)
                /\ e.base = part[c].base /\ e.tam = part[c + 1].tam
                /\ ~e.libre /\ e.mensaje = part[c + 1].mensaje /\ f.libre
<1>1. PICK z \in DOMAIN part :
         /\ pc = "compactar" /\ c <= Len(part) /\ part[c].libre
         /\ SiguienteOcupada(z)
         /\ part' \in Ordenar(
              [part EXCEPT ![c] = [part[z] EXCEPT !.base = part[c].base],
                           ![z] = Corrida(part[c], part[z])], z)
         /\ c' = c + 1
         /\ pc' = "mergear" /\ volver' = "compactar" /\ i' = 1
         /\ UNCHANGED <<cola, intentos, vivos, reloj, pedido>>
    BY DEF CompactarMover, TrasMover
<1>2. PICK n \in Nat : n = Len(part)
    BY Vista
<1>3. /\ part \in Seq(Particion) /\ Tesela(part) /\ DOMAIN part = 1 .. n
      /\ Len(part) = n /\ c \in Nat /\ c > 0
    BY <1>2, Vista DEF IInv, TypeOK
<1>4. FRECUENCIA # -1 /\ SinPares(part) /\ LibresDesde(part, c)
    BY <1>1 DEF IInv, PedidoInv, HuecosInv, Compactando
<1>5. c \in 1 .. n - 1 /\ c \in 1 .. n /\ c + 1 \in 1 .. n
    BY <1>1, <1>3 DEF SiguienteOcupada
<1>6. ~part[c + 1].libre
    BY <1>1, <1>3, <1>4, <1>5 DEF SinPares, Par
<1>7. z = c + 1
  <2>1. c + 1 \in Ocupadas /\ c + 1 > c
      BY <1>2, <1>5, <1>6, Vista
  <2>2. z <= c + 1 /\ z > c /\ z \in Nat
      BY <1>1, <1>3, <2>1 DEF SiguienteOcupada
  <2>3. QED
      BY <1>3, <2>2
<1> DEFINE l == part[c]
           o == part[c + 1]
           e == [o EXCEPT !.base = l.base]
           f == [l EXCEPT !.base = @ + o.tam]
           u == [part EXCEPT ![c] = e, ![c + 1] = f]
<1>8. /\ l \in Particion /\ o \in Particion /\ l.base \in Int /\ l.tam \in Int
      /\ o.tam \in Int /\ l.tam > 0 /\ o.tam > 0 /\ l.base + o.tam \in Int
      /\ l.libre /\ ~o.libre
    BY <1>1, <1>2, <1>5, <1>6, Vista
<1>9. o.base = l.base + l.tam
    BY <1>3, <1>5 DEF Tesela
<1>10. part' \in Ordenar(u, c + 1)
    BY <1>1, <1>7 DEF Corrida
<1> HIDE DEF l, o
<1>11. /\ e \in Particion /\ e.base = l.base /\ e.tam = o.tam /\ ~e.libre
       /\ e.mensaje = o.mensaje
    BY <1>8, OtraBase
<1>12. /\ f \in Particion /\ f.base = l.base + o.tam /\ f.tam = l.tam /\ f.libre
    BY <1>8, OtraBase
<1> HIDE DEF e, f
<1>13. Canje(u, part, n, c, e, f)
  <2>1. u \in Seq(Particion) /\ Len(u) = n
      BY <1>3, <1>5, <1>11, <1>12, ExceptSeq
  <2>2. u[c] = e /\ u[c + 1] = f
      BY <1>3, <1>5
  <2>3. \A j \in 1 .. n : j # c /\ j # c + 1 => u[j] = part[j]
      BY <1>3
  <2>4. QED
      BY <2>1, <2>2, <2>3 DEF Canje
<1> HIDE DEF u
<1>14. Tesela(u)
  <2>1. e.base = part[c].base /\ f.base = e.base + e.tam /\ e.tam > 0 /\ f.tam > 0
      BY <1>8, <1>11, <1>12 DEF l
  <2>2. f.base + f.tam = part[c + 1].base + part[c + 1].tam
    <3>1. f.base + f.tam = o.base + o.tam
        BY <1>8, <1>9, <1>12
    <3>2. QED
        BY <3>1 DEF o
  <2>3. QED
      BY <1>3, <1>5, <1>11, <1>12, <1>13, <2>1, <2>2, Cambiada
<1>15. part' = u
  <2>1. u \in Seq(Particion) /\ c + 1 \in 1 .. Len(u)
      BY <1>5, <1>13 DEF Canje
  <2>2. \A j, k \in 1 .. Len(u) : j < k => u[j].base < u[k].base
      BY <1>14, Bases
  <2>3. QED
      BY <1>10, <2>1, <2>2, OrdenUnica
<1>16. QED
  <2>1. part[c].libre /\ e.base = part[c].base /\ e.tam = part[c + 1].tam
        /\ e.mensaje = part[c + 1].mensaje
      BY <1>1, <1>11 DEF l, o
  <2>2. QED
      BY <1>2, <1>5, <1>6, <1>11, <1>12, <1>13, <1>14, <1>15, <2>1

(* Sliding an occupied partition over the free one before it keeps the     *)
(* invariant.                                                              *)
LEMMA AlCompactarMover == ASSUME IInv, CompactarMover PROVE IInv'
<1>1. /\ pc = "compactar" /\ c' = c + 1
      /\ pc' = "mergear" /\ volver' = "compactar" /\ i' = 1
      /\ UNCHANGED <<cola, intentos, vivos, reloj, pedido>>
    BY DEF CompactarMover, TrasMover
<1>2. PICK n \in Nat : n = Len(part)
    BY Vista
<1>3. part \in Seq(Particion) /\ Tesela(part) /\ Len(part) = n /\ c \in Nat
    BY <1>2, Vista DEF IInv, TypeOK
<1>4. c \in 1 .. n - 1 /\ part[c].libre /\ ~part[c + 1].libre
    BY <1>2, Movida
<1>5. PICK e \in Particion, f \in Particion :
         /\ Tesela(part') /\ Canje(part', part, n, c, e, f)
         /\ ~e.libre /\ e.mensaje = part[c + 1].mensaje /\ f.libre
    BY <1>2, Movida
<1>6. FRECUENCIA # -1 /\ SinPares(part) /\ LibresDesde(part, c)
    BY <1>1 DEF IInv, PedidoInv, HuecosInv, Compactando
<1>16. /\ Duenios(part, vivos) => Duenios(part', vivos)
       /\ SinPares(part) => UnPar(part', 1)
       /\ LibresDesde(part, c) => LibresDesde(part', c + 1)
    BY <1>3, <1>4, <1>5, AlCambiar
<1>17. TypeOK'
  <2>1. part' \in Seq(Particion) /\ c' \in Nat \ {0}
      BY <1>1, <1>3, <1>5 DEF Canje
  <2>2. QED
      BY <1>1, <2>1 DEF IInv, TypeOK
<1>18. PedidoInv'
    BY <1>1, <1>6 DEF IInv, PedidoInv, Pidiendo, Compactando
<1>19. HuecosInv'
    BY <1>1, <1>6, <1>16 DEF IInv, HuecosInv, Compactando
<1>20. QED
    BY <1>1, <1>5, <1>16, <1>17, <1>18, <1>19 DEF IInv

(* A cached message is in one occupied partition.                          *)
LEMMA LugarDe ==
    ASSUME IInv, NEW d \in vivos
    PROVE  /\ DondeEsta(d) \in Ocupadas /\ part[DondeEsta(d)].mensaje = d
           /\ \A k \in Ocupadas : part[k].mensaje = d => k = DondeEsta(d)
<1>1. \E k \in Ocupadas : part[k].mensaje = d
    BY Vista DEF IInv, Duenios
<1>2. DondeEsta(d) \in Ocupadas /\ part[DondeEsta(d)].mensaje = d
    BY <1>1 DEF DondeEsta
<1>3. \A j, k \in Ocupadas : part[j].mensaje = part[k].mensaje => j = k
    BY Vista DEF IInv, Duenios
<1>4. QED
    BY <1>2, <1>3

(* In FIFO the victim is the partition of the first message of the queue,  *)
(* and that message leaves the queue.                                      *)
LEMMA AlQuitar ==
    ASSUME IInv, FIFO, NEW v \in DOMAIN part, Victima(v)
    PROVE  /\ QuitarVictima(part[v].base) \in Seq(DIRS)
           /\ UnaVez(QuitarVictima(part[v].base), vivos \ {part[v].mensaje})
<1> DEFINE q == QuitarVictima(part[v].base)
<1>1. /\ cola \in Seq(DIRS) /\ UnaVez(cola, vivos) /\ cola # << >>
      /\ v = DondeEsta(Head(cola))
    BY DEF IInv, TypeOK, Victima
<1>2. PICK n \in Nat : n = Len(cola)
    BY <1>1, LenProperties
<1>3. /\ Len(cola) = n /\ DOMAIN cola = 1 .. n /\ 1 \in 1 .. n /\ cola[1] = Head(cola)
    BY <1>1, <1>2, LenProperties, EmptySeq
<1>4. cola[1] \in vivos
    BY <1>1, <1>3 DEF UnaVez
<1>5. part[v].mensaje = cola[1]
    BY <1>1, <1>3, <1>4, LugarDe
<1>6. q = RemoveAt(cola, 1)
  <2> DEFINE b == part[v].base
             P(k) == /\ part[DondeEsta(cola[k])].base = b
                     /\ \A j \in 1 .. k - 1 : part[DondeEsta(cola[j])].base # b
  <2>1. P(1)
      BY <1>1, <1>3
  <2>2. ASSUME NEW k \in 1 .. n, P(k) PROVE k = 1
    <3>1. k # 1 => 1 \in 1 .. k - 1
        OBVIOUS
    <3>2. QED
        BY <2>1, <2>2, <3>1
  <2> HIDE DEF P
  <2>3. (CHOOSE k \in 1 .. n : P(k)) = 1
      BY <1>3, <2>1, <2>2
  <2>4. QED
      BY <1>3, <2>3 DEF P, QuitarVictima
<1> HIDE DEF q
<1>7. Supresion(q, DIRS, cola, n, 1)
    BY <1>1, <1>3, <1>6, Suprimir
<1>8. /\ q \in Seq(DIRS) /\ Len(q) = n - 1
      /\ \A j \in 1 .. n - 1 : q[j] = cola[j + 1] /\ j + 1 \in 1 .. n /\ j + 1 # 1
    BY <1>7 DEF Supresion
<1>9. /\ \A k \in 1 .. n : cola[k] \in vivos
      /\ \A x \in vivos : \E k \in 1 .. n : cola[k] = x
      /\ \A j, k \in 1 .. n : cola[j] = cola[k] => j = k
    BY <1>1, <1>3 DEF UnaVez
<1>10. UnaVez(q, vivos \ {cola[1]})
  <2>1. ASSUME NEW k \in 1 .. n - 1 PROVE q[k] \in vivos \ {cola[1]}
      BY <1>3, <1>8, <1>9
  <2>2. ASSUME NEW x \in vivos \ {cola[1]} PROVE \E k \in 1 .. n - 1 : q[k] = x
    <3>1. PICK k \in 1 .. n : cola[k] = x
        BY <1>9
    <3>2. k - 1 \in 1 .. n - 1 /\ k - 1 + 1 = k
        BY <3>1
    <3>3. q[k - 1] = x
        BY <1>8, <3>1, <3>2
    <3>4. QED
        BY <3>2, <3>3
  <2>3. ASSUME NEW j \in 1 .. n - 1, NEW k \in 1 .. n - 1, q[j] = q[k] PROVE j = k
    <3>1. j + 1 = k + 1
        BY <1>8, <1>9, <2>3
    <3>2. QED
        BY <3>1
  <2>4. QED
      BY <1>8, <2>1, <2>2, <2>3 DEF UnaVez
<1>11. QED
    BY <1>5, <1>8, <1>10 DEF q

(* When the Broker has not to compact, the frequency leaves room for this  *)
(* eviction and it is the first one since the last compaction.             *)
LEMMA PrimerDesalojo ==
    ASSUME Configurado, IInv, pc = "buscar", ~TocaCompactar, FRECUENCIA # -1
    PROVE  intentos = 0 /\ intentos + 1 <= FRECUENCIA /\ SoloLaUltima(part)
<1>1. FRECUENCIA \in Nat /\ FRECUENCIA <= 1 /\ intentos \in Nat
    BY AlgoritmosAssumption DEF Configurado, IInv, TypeOK
<1>2. intentos = 0 /\ intentos + 1 <= FRECUENCIA
    BY <1>1 DEF TocaCompactar
<1>3. QED
    BY <1>2 DEF IInv, HuecosInv, Compactando

(* What an eviction leaves: the partitions with the victim's base free.    *)
Liberada(v) == [k \in DOMAIN part |->
                  IF part[k].base = part[v].base
                  THEN [part[k] EXCEPT !.libre = TRUE] ELSE part[k]]

(* The victim's partition becomes free and its message is forgotten.       *)
LEMMA Desalojada ==
    ASSUME IInv, NEW v \in DOMAIN part, Victima(v), part' = Liberada(v)
    PROVE  /\ v \in 1 .. Len(part) /\ ~part[v].libre
           /\ \E e \in Particion :
                /\ Cambio(part', part, Len(part), v, e)
                /\ e.libre /\ e.base = part[v].base /\ e.tam = part[v].tam
<1>2. PICK n \in Nat : n = Len(part)
    BY Vista
<1>3. /\ part \in Seq(Particion) /\ Tesela(part) /\ DOMAIN part = 1 .. n
      /\ Len(part) = n /\ v \in 1 .. n
      /\ \A k \in 1 .. n : part[k] \in Particion
    BY <1>2, Vista
<1>4. ~part[v].libre
    BY <1>2, Vista DEF Victima
<1>5. \A k \in 1 .. n : part[k].base = part[v].base => k = v
    BY <1>3, Bases
<1> DEFINE e == [part[v] EXCEPT !.libre = TRUE]
<1>6. e \in Particion /\ e.libre /\ e.base = part[v].base /\ e.tam = part[v].tam
    BY <1>3 DEF Particion
<1>7. part' = [part EXCEPT ![v] = e]
    BY <1>3, <1>5 DEF Liberada
<1> HIDE DEF e
<1>8. Cambio(part', part, n, v, e)
    BY <1>3, <1>6, <1>7, ExceptSeq DEF Cambio
<1>9. QED
    BY <1>2, <1>3, <1>4, <1>6, <1>8

(* An eviction keeps the invariant: the message it takes from the queue is *)
(* the one whose partition it frees.                                       *)
LEMMA AlDesalojar == ASSUME Configurado, IInv, Desalojar PROVE IInv'
<1>1. PICK v \in DOMAIN part :
         /\ pc = "buscar" /\ ~TocaCompactar /\ Victima(v)
         /\ vivos' = vivos \ {part[v].mensaje}
         /\ part' = Liberada(v)
         /\ cola' = IF FIFO THEN QuitarVictima(part[v].base) ELSE cola
         /\ intentos' = IF FRECUENCIA = -1 THEN intentos ELSE intentos + 1
         /\ pc' = "mergear" /\ volver' = "buscar" /\ i' = 1
         /\ UNCHANGED <<reloj, pedido, c>>
    BY DEF Desalojar, Liberada
<1>2. PICK n \in Nat : n = Len(part)
    BY Vista
<1>3. part \in Seq(Particion) /\ Tesela(part) /\ Len(part) = n
    BY <1>2, Vista
<1>4. /\ v \in 1 .. n /\ ~part[v].libre
      /\ \E e \in Particion :
           /\ Cambio(part', part, n, v, e)
           /\ e.libre /\ e.base = part[v].base /\ e.tam = part[v].tam
    BY <1>1, <1>2, Desalojada
<1>9. Tesela(part')
  <2>1. \A j \in 1 .. n : part'[j].base = part[j].base /\ part'[j].tam = part[j].tam
      BY <1>4 DEF Cambio
  <2>2. QED
      BY <1>3, <1>4, <2>1, TeselaIgual DEF Cambio
<1>10. /\ Duenios(part, vivos) => Duenios(part', vivos \ {part[v].mensaje})
       /\ SoloLaUltima(part) => UnPar(part', 1)
    BY <1>3, <1>4, AlLiberar
<1>11. cola' \in Seq(DIRS) /\ (FIFO => UnaVez(cola', vivos'))
  <2>1. CASE FIFO
    <3>1. cola' = QuitarVictima(part[v].base)
        BY <1>1, <2>1
    <3>2. QED
        BY <1>1, <2>1, <3>1, AlQuitar
  <2>2. CASE ~FIFO
      BY <1>1, <2>2 DEF IInv, TypeOK
  <2>3. QED
      BY <2>1, <2>2
<1>12. TypeOK'
  <2>1. part' \in Seq(Particion) /\ vivos' \subseteq DIRS /\ intentos' \in Nat
      BY <1>1, <1>4 DEF IInv, TypeOK, Cambio
  <2>2. QED
      BY <1>1, <1>11, <2>1 DEF IInv, TypeOK
<1>13. PedidoInv'
    BY <1>1 DEF IInv, PedidoInv, Pidiendo, Compactando
<1>14. HuecosInv'
  <2>1. ASSUME FRECUENCIA # -1
        PROVE  intentos' = 1 /\ intentos' <= FRECUENCIA /\ UnPar(part', 1)
      BY <1>1, <1>10, <2>1, PrimerDesalojo
  <2>2. QED
      BY <1>1, <2>1 DEF HuecosInv, Compactando
<1>15. QED
    BY <1>1, <1>9, <1>10, <1>11, <1>12, <1>13, <1>14 DEF IInv

(* A failed search that may evict finds a victim: the first message of the *)
(* queue in FIFO, the least recently used one in LRU.                      *)
LEMMA HayVictima ==
    ASSUME IInv, Ocupadas # {} PROVE \E v \in DOMAIN part : Victima(v)
<1>1. /\ Ocupadas \subseteq DOMAIN part /\ Ocupadas \in SUBSET Nat
      /\ \A k \in Ocupadas : part[k].uso \in Nat
    BY Vista, Campos
<1>2. CASE FIFO
  <2>1. PICK k \in Ocupadas : part[k].mensaje \in vivos
      BY Vista DEF IInv, Duenios
  <2>2. cola \in Seq(DIRS) /\ UnaVez(cola, vivos)
      BY <1>2 DEF IInv, TypeOK
  <2>3. Len(cola) \in Nat /\ Len(cola) # 0
      BY <2>1, <2>2, LenProperties DEF UnaVez
  <2>4. cola # << >> /\ Head(cola) = cola[1] /\ 1 \in 1 .. Len(cola)
      BY <2>2, <2>3, EmptySeq
  <2>5. Head(cola) \in vivos
      BY <2>2, <2>4 DEF UnaVez
  <2>6. QED
      BY <1>1, <1>2, <2>4, <2>5, LugarDe DEF Victima
<1>3. CASE ~FIFO
  <2> DEFINE U == {part[k].uso : k \in Ocupadas}
  <2>1. U \in SUBSET Nat /\ U # {}
      BY <1>1
  <2>2. PICK m \in U : \A x \in U : m <= x
    <3> HIDE DEF U
    <3>1. QED
        BY <2>1, MinimoNat
  <2> DEFINE K == {k \in Ocupadas : part[k].uso = m}
  <2>3. K \in SUBSET Nat /\ K # {}
      BY <1>1, <2>2
  <2>4. PICK v \in K : \A x \in K : v <= x
    <3> HIDE DEF K, U
    <3>1. QED
        BY <2>3, MinimoNat
  <2>5. ASSUME NEW k \in Ocupadas
        PROVE  part[v].uso < part[k].uso \/ (part[v].uso = part[k].uso /\ v <= k)
    <3>1. m <= part[k].uso /\ part[v].uso = m /\ m \in Nat /\ part[k].uso \in Nat
        BY <1>1, <2>1, <2>2, <2>4
    <3>2. part[k].uso = m => v <= k
        BY <2>4
    <3>3. QED
        BY <3>1, <3>2
  <2>6. QED
      BY <1>1, <1>3, <2>4, <2>5 DEF Victima
<1>4. QED
    BY <1>2, <1>3

(* With compactions there always is a victim: were nothing occupied, the   *)
(* memory would be one free partition, where every message fits.           *)
LEMMA AlNoHallar == ASSUME Configurado, IInv, DesalojarSinVictima PROVE IInv'
<1>1. /\ pc = "buscar" /\ Candidatas(pedido.tam) = {} /\ ~TocaCompactar
      /\ \A v \in DOMAIN part : ~Victima(v)
      /\ pc' = "caido"
      /\ UNCHANGED <<part, cola, intentos, vivos, reloj, pedido, volver, i, c>>
    BY DEF DesalojarSinVictima
<1>2. ASSUME FRECUENCIA # -1 PROVE FALSE
  <2>1. SoloLaUltima(part)
      BY <1>1, <1>2, PrimerDesalojo
  <2>2. Ocupadas = {}
      BY <1>1, HayVictima
  <2>3. part[1].libre /\ Len(part) = 1
    <3>1. 1 \in 1 .. Len(part)
        BY Vista
    <3>2. part[1].libre
        BY <2>2, <3>1, Vista
    <3>3. QED
        BY <2>1, <3>1, <3>2 DEF SoloLaUltima
  <2>4. part[1].tam = MEM_SIZE
    <3>1. /\ part[1].base = 0
          /\ part[Len(part)].base + part[Len(part)].tam = MEM_SIZE
        BY Vista DEF Tesela
    <3>2. part[1].tam \in Int
        BY <2>3, Vista
    <3>3. QED
        BY <2>3, <3>1, <3>2
  <2>5. pedido.tam \in TAMS
      BY <1>1 DEF IInv, PedidoInv, Pidiendo
  <2>6. pedido.tam <= part[1].tam /\ part[1].tam >= MIN_PART_LEN /\ 1 \in Libres
      BY <2>3, <2>4, <2>5, Constantes, Vista
  <2>7. QED
      BY <1>1, <2>6 DEF Candidatas
<1>3. TypeOK' /\ PedidoInv' /\ HuecosInv'
    BY <1>1, <1>2 DEF IInv, TypeOK, PedidoInv, Pidiendo, Compactando, HuecosInv
<1>4. QED
    BY <1>1, <1>3 DEF IInv

(* Every step keeps the invariant: one case per action.                    *)
LEMMA Paso == ASSUME Configurado, IInv, [Next]_vars PROVE IInv'
<1>1. CASE UNCHANGED vars
  <2>1. /\ UNCHANGED <<part, cola, intentos, vivos, reloj>>
        /\ UNCHANGED <<pedido, pc, volver, i, c>>
      BY <1>1 DEF vars
  <2>2. QED
      BY <2>1 DEF IInv, TypeOK, PedidoInv, Pidiendo, Compactando, HuecosInv
<1>2. ASSUME NEW d \in DIRS, NEW t \in TAMS, Pedir(d, t) PROVE IInv'
    BY <1>2, AlPedir
<1>3. ASSUME NEW d \in DIRS, Usar(d) PROVE IInv'
    BY <1>3, AlUsarMensaje
<1>4. CASE Asignador
    BY <1>4, AlAsignarExacta, AlAsignarPartiendo, AlDesalojar, AlNoHallar,
       AlMergearPar, AlMergearFin, AlCompactar, AlCompactarMover,
       AlCompactarSeguir, AlCompactarFin
    DEF Asignador
<1>5. QED
    BY <1>1, <1>2, <1>3, <1>4 DEF Next

-----------------------------------------------------------------------------
(* The theorems.                                                           *)

(* Type correctness, the tiling of the memory, who owns each partition and *)
(* each place of the queue, and where the free partitions are, together:   *)
(* none of them is preserved without the others.                           *)
THEOREM Invariante == ASSUME Configurado PROVE Spec => []IInv
<1>1. Init => IInv
    BY Inicio
<1>2. IInv /\ [Next]_vars => IInv'
    BY Paso
<1>3. QED
    BY <1>1, <1>2, PTL DEF Spec

(* Every variable of Particiones keeps its type.                           *)
THEOREM TiposSiempre == ASSUME Configurado PROVE Spec => []TypeOK
<1>1. IInv => TypeOK
    BY DEF IInv
<1>2. QED
    BY <1>1, Invariante, PTL

(* However partitions are divided, freed, merged and moved, they follow    *)
(* one another from the first byte of the memory to the last.              *)
THEOREM TeseladoSiempre == ASSUME Configurado PROVE Spec => []Teselado
<1>1. ASSUME IInv PROVE Teselado
  <2>1. part \in Seq(Particion) /\ Tesela(part)
      BY <1>1, Vista
  <2>2. QED
      BY <2>1, TeselaEs DEF Teselado
<1>2. QED
    BY <1>1, Invariante, PTL

(* A cached message has a partition of its own, and shares no byte of the  *)
(* memory with another one.                                                *)
THEOREM MemoriaPropiaSiempre ==
    ASSUME Configurado PROVE Spec => []MemoriaPropia
<1>1. ASSUME IInv PROVE MemoriaPropia
  <2>1. \A d \in vivos : \E k \in Ocupadas : part[k].mensaje = d
      BY <1>1, LugarDe
  <2>2. ASSUME NEW j \in Ocupadas, NEW k \in Ocupadas, j # k
        PROVE  /\ part[j].mensaje # part[k].mensaje
               /\ \/ part[j].base + part[j].tam <= part[k].base
                  \/ part[k].base + part[k].tam <= part[j].base
    <3>1. /\ j \in 1 .. Len(part) /\ k \in 1 .. Len(part) /\ Len(part) \in Nat
          /\ ~part[j].libre /\ ~part[k].libre /\ Tesela(part)
        BY <1>1, Vista
    <3>2. part[j].mensaje # part[k].mensaje
        BY <1>1, <2>2, <3>1 DEF IInv, Duenios
    <3>3. j < k \/ k < j
        BY <2>2, <3>1
    <3>4. QED
        BY <3>1, <3>2, <3>3, Crecen
  <2>3. QED
      BY <2>1, <2>2 DEF MemoriaPropia
<1>2. QED
    BY <1>1, Invariante, PTL

(* The queue of FIFO holds the cached messages, once each.                 *)
THEOREM ColaSiempre ==
    ASSUME Configurado PROVE Spec => []ColaSonLosVivos
<1>1. ASSUME IInv, FIFO
      PROVE  /\ {cola[k] : k \in DOMAIN cola} = vivos
             /\ Len(cola) = Cardinality(vivos)
  <2>1. /\ cola \in Seq(DIRS) /\ Len(cola) \in Nat /\ DOMAIN cola = 1 .. Len(cola)
        /\ UnaVez(cola, vivos)
      BY <1>1, LenProperties DEF IInv, TypeOK
  <2>2. /\ \A k \in 1 .. Len(cola) : cola[k] \in vivos
        /\ \A d \in vivos : \E k \in 1 .. Len(cola) : cola[k] = d
        /\ \A j, k \in 1 .. Len(cola) : cola[j] = cola[k] => j = k
      BY <2>1 DEF UnaVez
  <2>3. {cola[k] : k \in DOMAIN cola} = vivos
      BY <2>1, <2>2
  <2>4. IsFiniteSet(vivos) /\ Cardinality(vivos) = Len(cola)
      BY <2>1, <2>2, CuantosSon
  <2>5. QED
      BY <2>3, <2>4
<1>2. IInv => ColaSonLosVivos
    BY <1>1 DEF ColaSonLosVivos
<1>3. QED
    BY <1>2, Invariante, PTL

(* With compactions, when mergear_particiones_libres has returned no two   *)
(* neighbours are free, although it does not look at the first pair again  *)
(* after a merge.                                                          *)
THEOREM SinContiguasSiempre ==
    ASSUME Configurado, FRECUENCIA # -1 PROVE Spec => []SinLibresContiguas
<1>1. IInv => SinLibresContiguas
    BY DEF IInv, HuecosInv, SinPares, Par, SinLibresContiguas
<1>2. QED
    BY <1>1, Invariante, PTL

(* With compactions the Broker never looks for a victim in vain.           *)
THEOREM SinCaidaSiempre ==
    ASSUME Configurado, FRECUENCIA # -1 PROVE Spec => []SinCaida
<1>1. IInv => SinCaida
    BY DEF IInv, HuecosInv, SinCaida
<1>2. QED
    BY <1>1, Invariante, PTL

(* A compaction leaves one hole at most, at the end of the memory.         *)
THEOREM CompactaSiempre == ASSUME Configurado PROVE Spec => CompactaEnUnHueco
<1>1. ASSUME IInv, CompactarFin PROVE \A k \in Libres : k = Len(part)
  <2>1. c > Len(part) /\ LibresDesde(part, c) /\ c \in Nat /\ Len(part) \in Nat
      BY <1>1, Vista
      DEF CompactarFin, IInv, TypeOK, PedidoInv, HuecosInv, Compactando
  <2>2. QED
    <3>1. ASSUME NEW k \in Libres PROVE k \in 1 .. Len(part) /\ part[k].libre
        BY <1>1, Vista
    <3>2. QED
        BY <2>1, <3>1 DEF LibresDesde
<1>2. IInv /\ [Next]_vars => [CompactarFin => \A k \in Libres : k = Len(part)]_vars
    BY <1>1
<1>3. QED
    BY <1>2, Invariante, PTL DEF Spec, CompactaEnUnHueco
-----------------------------------------------------------------------------
(* Particiones implements Almacen: each step of the Broker is one of the   *)
(* promise or changes nothing of what it speaks of.                        *)

(* L gives the bytes that each message of V has in s.                      *)
Sitios(L, s, V) ==
    /\ L = [d \in V |-> L[d]]
    /\ \A k \in 1 .. Len(s) : ~s[k].libre =>
         /\ s[k].mensaje \in V
         /\ L[s[k].mensaje] = [base |-> s[k].base, tam |-> s[k].tam]
    /\ \A d \in V : \E k \in 1 .. Len(s) : ~s[k].libre /\ s[k].mensaje = d

(* Lugar is what the table of partitions says.                             *)
LugarBien == Sitios(Lugar, part, vivos)

(* Under the invariant each cached message has the bytes of its partition. *)
LEMMA LugarEs == IInv => LugarBien
<1> SUFFICES ASSUME IInv PROVE LugarBien
    OBVIOUS
<1>1. Lugar = [d \in vivos |-> Lugar[d]]
    BY DEF Lugar
<1>2. ASSUME NEW k \in 1 .. Len(part), ~part[k].libre
      PROVE  /\ part[k].mensaje \in vivos
             /\ Lugar[part[k].mensaje] = [base |-> part[k].base, tam |-> part[k].tam]
  <2>1. k \in Ocupadas /\ part[k].mensaje \in vivos
      BY <1>2, Vista DEF IInv, Duenios
  <2>2. DondeEsta(part[k].mensaje) = k
      BY <2>1, LugarDe
  <2>3. QED
      BY <2>1, <2>2 DEF Lugar
<1>3. \A d \in vivos : \E k \in 1 .. Len(part) : ~part[k].libre /\ part[k].mensaje = d
    BY DEF IInv, Duenios
<1>4. QED
    BY <1>1, <1>2, <1>3 DEF LugarBien, Sitios

(* The same of the state after a step.                                     *)
LEMMA LugarEsDespues == IInv' => LugarBien'
BY LugarEs, PTL

(* While every message stays where it is, nothing changes.                 *)
LEMMA Quieto ==
    ASSUME NEW L, NEW M, NEW s, NEW u, NEW V, Sitios(L, s, V), Sitios(M, u, V),
           \A j \in 1 .. Len(s) : ~s[j].libre =>
             \E k \in 1 .. Len(u) : /\ ~u[k].libre /\ u[k].mensaje = s[j].mensaje
                                    /\ u[k].base = s[j].base /\ u[k].tam = s[j].tam
    PROVE  M = L
<1>1. ASSUME NEW d \in V PROVE M[d] = L[d]
  <2>1. PICK j \in 1 .. Len(s) : ~s[j].libre /\ s[j].mensaje = d
      BY DEF Sitios
  <2>2. PICK k \in 1 .. Len(u) : /\ ~u[k].libre /\ u[k].mensaje = d
                                 /\ u[k].base = s[j].base /\ u[k].tam = s[j].tam
      BY <2>1
  <2>3. /\ L[d] = [base |-> s[j].base, tam |-> s[j].tam]
        /\ M[d] = [base |-> u[k].base, tam |-> u[k].tam]
    <3>1. /\ L[s[j].mensaje] = [base |-> s[j].base, tam |-> s[j].tam]
          /\ M[u[k].mensaje] = [base |-> u[k].base, tam |-> u[k].tam]
        BY <2>1, <2>2 DEF Sitios
    <3>2. QED
        BY <2>1, <2>2, <3>1
  <2>4. QED
      BY <2>2, <2>3
<1>2. QED
    BY <1>1 DEF Sitios

(* The bytes of a message lie in the memory, and are not those of another. *)
LEMMA SitioPropio ==
    ASSUME NEW L, NEW s, NEW V, Sitios(L, s, V), Tesela(s),
           NEW k \in 1 .. Len(s), ~s[k].libre
    PROVE  /\ L[s[k].mensaje] \in A!Rango
           /\ L[s[k].mensaje].base + L[s[k].mensaje].tam <= MEM_SIZE
           /\ \A x \in V \ {s[k].mensaje} : A!Disjuntos(L[s[k].mensaje], L[x])
<1> DEFINE d == s[k].mensaje
<1>1. L[d] = [base |-> s[k].base, tam |-> s[k].tam]
    BY DEF Sitios
<1>2. s \in Seq(Particion) /\ Len(s) \in Nat /\ s[k].tam > 0
    BY LenProperties DEF Tesela
<1>3. s[k].base \in Int /\ s[k].tam \in Int
    BY <1>2, Campos
<1>4. s[k].base >= 0 /\ s[k].base + s[k].tam <= MEM_SIZE
    BY Bases
<1>5. /\ L[d].base = s[k].base /\ L[d].tam = s[k].tam
      /\ L[d] \in A!Rango
  <2>1. s[k].base \in 0 .. MEM_SIZE /\ s[k].tam \in 1 .. MEM_SIZE
      BY <1>2, <1>3, <1>4, Constantes
  <2>2. QED
      BY <1>1, <2>1 DEF A!Rango
<1>6. ASSUME NEW x \in V, x # d PROVE A!Disjuntos(L[d], L[x])
  <2>1. PICK j \in 1 .. Len(s) : ~s[j].libre /\ s[j].mensaje = x
      BY DEF Sitios
  <2>2. L[s[j].mensaje] = [base |-> s[j].base, tam |-> s[j].tam]
      BY <2>1 DEF Sitios
  <2>3. L[x].base = s[j].base /\ L[x].tam = s[j].tam
      BY <2>1, <2>2
  <2>4. j < k \/ k < j
      BY <1>2, <1>6, <2>1
  <2>5. s[j].base + s[j].tam <= s[k].base \/ s[k].base + s[k].tam <= s[j].base
      BY <2>4, Crecen
  <2>6. QED
      BY <1>5, <2>3, <2>5 DEF A!Disjuntos
<1>7. QED
    BY <1>4, <1>5, <1>6

(* A message that keeps its place.                                         *)
LEMMA SitioIgual ==
    ASSUME NEW L, NEW M, NEW s, NEW u, NEW V, NEW W, Sitios(L, s, V), Sitios(M, u, W),
           NEW j \in 1 .. Len(s), ~s[j].libre, NEW k \in 1 .. Len(u), u[k] = s[j]
    PROVE  M[s[j].mensaje] = L[s[j].mensaje]
<1>1. L[s[j].mensaje] = [base |-> s[j].base, tam |-> s[j].tam]
    BY DEF Sitios
<1>2. M[u[k].mensaje] = [base |-> u[k].base, tam |-> u[k].tam]
    BY DEF Sitios
<1>3. QED
    BY <1>1, <1>2

(* A new message takes bytes of nobody: Guardar.                           *)
LEMMA EsGuardar ==
    ASSUME NEW d \in DIRS, NEW s, NEW V, d \notin V, Sitios(Lugar, s, V),
           NEW u, Tesela(u), Sitios(Lugar', u, V \union {d}),
           NEW k \in 1 .. Len(u), ~u[k].libre, u[k].mensaje = d,
           \A x \in V : Lugar'[x] = Lugar[x]
    PROVE  A!Guardar(d)
<1> DEFINE L == Lugar
           M == Lugar'
           r == M[d]
<1>1. /\ r \in A!Rango /\ r.base + r.tam <= MEM_SIZE
      /\ \A x \in V : A!Disjuntos(r, M[x])
    BY SitioPropio
<1>2. DOMAIN L = V /\ M = [x \in V \union {d} |-> M[x]]
    BY DEF Sitios
<1>3. M = [x \in DOMAIN L \union {d} |-> IF x = d THEN r ELSE L[x]]
    BY <1>2
<1> HIDE DEF L, M, r
<1>4. \A x \in DOMAIN L \ {d} : A!Disjuntos(r, L[x])
    BY <1>1, <1>2 DEF L, M
<1>5. A!Libre(r, A!Ajenos(d))
    BY <1>1, <1>4 DEF A!Libre, A!Ajenos, L
<1>6. d \notin DOMAIN L
    BY <1>2
<1>7. QED
    BY <1>1, <1>3, <1>5, <1>6 DEF A!Guardar, L, M

(* AsignarExacta is Guardar.                                               *)
LEMMA ExactaEsGuardar ==
    ASSUME IInv, IInv', AsignarExacta PROVE A!Guardar(pedido.dir)
<1>1. PICK n \in Nat : n = Len(part)
    BY Vista
<1>2. PICK k \in 1 .. n, e \in Particion :
         /\ Cambio(part', part, n, k, e)
         /\ part[k].libre /\ ~e.libre /\ e.mensaje = pedido.dir
         /\ pedido.dir \in DIRS /\ pedido.dir \notin vivos
         /\ vivos' = vivos \union {pedido.dir}
    BY <1>1, Exacta
<1>3. /\ Sitios(Lugar, part, vivos) /\ Sitios(Lugar', part', vivos')
      /\ Tesela(part') /\ Len(part) = n
    BY <1>1, LugarEs, LugarEsDespues DEF LugarBien, IInv
<1>4. ASSUME NEW x \in vivos PROVE Lugar'[x] = Lugar[x]
  <2>1. PICK j \in 1 .. n : ~part[j].libre /\ part[j].mensaje = x
      BY <1>1, <1>3 DEF Sitios
  <2>2. j \in 1 .. Len(part) /\ j \in 1 .. Len(part') /\ part'[j] = part[j]
      BY <1>2, <1>3, <2>1 DEF Cambio
  <2>3. QED
      BY <1>3, <2>1, <2>2, SitioIgual
<1>5. k \in 1 .. Len(part') /\ ~part'[k].libre /\ part'[k].mensaje = pedido.dir
    BY <1>2 DEF Cambio
<1>6. Sitios(Lugar', part', vivos \union {pedido.dir})
    BY <1>2, <1>3
<1>7. QED
    BY <1>2, <1>3, <1>4, <1>5, <1>6, EsGuardar

(* AsignarPartiendo is Guardar.                                            *)
LEMMA PartiendoEsGuardar ==
    ASSUME Configurado, IInv, IInv', AsignarPartiendo
    PROVE  A!Guardar(pedido.dir)
<1>1. PICK n \in Nat : n = Len(part)
    BY Vista
<1>2. PICK k \in 1 .. n, e \in Particion, f \in Particion :
         /\ Division(part', part, n, k, e, f)
         /\ part[k].libre /\ ~e.libre /\ e.mensaje = pedido.dir
         /\ pedido.dir \in DIRS /\ pedido.dir \notin vivos
         /\ vivos' = vivos \union {pedido.dir}
    BY <1>1, Partiendo
<1>3. /\ Sitios(Lugar, part, vivos) /\ Sitios(Lugar', part', vivos')
      /\ Tesela(part') /\ Len(part) = n
    BY <1>1, LugarEs, LugarEsDespues DEF LugarBien, IInv
<1>4. ASSUME NEW x \in vivos PROVE Lugar'[x] = Lugar[x]
  <2>1. PICK j \in 1 .. n : ~part[j].libre /\ part[j].mensaje = x
      BY <1>1, <1>3 DEF Sitios
  <2>2. \E l \in 1 .. n + 1 : part'[l] = part[j]
    <3>1. j # k
        BY <1>2, <2>1
    <3>2. CASE j < k
      <4>1. j \in 1 .. k - 1 /\ j \in 1 .. n + 1
          BY <3>2
      <4>2. QED
          BY <1>2, <4>1 DEF Division
    <3>3. CASE j > k
      <4>1. j \in k + 1 .. n /\ j + 1 \in 1 .. n + 1
          BY <3>3
      <4>2. QED
          BY <1>2, <4>1 DEF Division
    <3>4. QED
        BY <3>1, <3>2, <3>3
  <2>3. PICK l \in 1 .. Len(part') : part'[l] = part[j]
      BY <1>2, <2>2 DEF Division
  <2>4. j \in 1 .. Len(part)
      BY <1>3
  <2>5. QED
      BY <1>3, <2>1, <2>3, <2>4, SitioIgual
<1>5. k \in 1 .. Len(part') /\ ~part'[k].libre /\ part'[k].mensaje = pedido.dir
    BY <1>2 DEF Division
<1>6. Sitios(Lugar', part', vivos \union {pedido.dir})
    BY <1>2, <1>3
<1>7. QED
    BY <1>2, <1>3, <1>4, <1>5, <1>6, EsGuardar

(* Desalojar is Borrar of the victim's message.                            *)
LEMMA DesalojarEsBorrar ==
    ASSUME IInv, IInv', Desalojar PROVE \E d \in DIRS : A!Borrar(d)
<1>1. PICK v \in DOMAIN part :
         Victima(v) /\ vivos' = vivos \ {part[v].mensaje} /\ part' = Liberada(v)
    BY DEF Desalojar, Liberada
<1>2. PICK n \in Nat : n = Len(part)
    BY Vista
<1>3. PICK e \in Particion : Cambio(part', part, n, v, e)
    BY <1>1, <1>2, Desalojada
<1>4. /\ Sitios(Lugar, part, vivos) /\ Sitios(Lugar', part', vivos')
      /\ Len(part) = n /\ vivos \subseteq DIRS
    BY <1>2, LugarEs, LugarEsDespues DEF LugarBien, IInv, TypeOK
<1> DEFINE d == part[v].mensaje
<1>5. d \in vivos
    BY <1>1, <1>4, Desalojada DEF Sitios
<1>6. ASSUME NEW x \in vivos \ {d} PROVE Lugar'[x] = Lugar[x]
  <2>1. PICK j \in 1 .. n : ~part[j].libre /\ part[j].mensaje = x
      BY <1>4 DEF Sitios
  <2>2. j \in 1 .. Len(part) /\ j \in 1 .. Len(part') /\ part'[j] = part[j]
      BY <1>3, <1>4, <2>1 DEF Cambio
  <2>3. QED
      BY <1>4, <2>1, <2>2, SitioIgual
<1> HIDE DEF d
<1>7. DOMAIN Lugar = vivos /\ Lugar' = [x \in vivos \ {d} |-> Lugar'[x]]
    BY <1>1, <1>4 DEF Sitios, d
<1>8. Lugar' = [x \in DOMAIN Lugar \ {d} |-> Lugar[x]]
    BY <1>6, <1>7
<1>9. A!Borrar(d)
    BY <1>5, <1>7, <1>8 DEF A!Borrar
<1>10. QED
    BY <1>4, <1>5, <1>9

(* CompactarMover is Mover of the message that changes places with the gap.*)
LEMMA MoverEsMover ==
    ASSUME IInv, IInv', CompactarMover PROVE \E d \in DIRS : A!Mover(d)
<1>1. PICK n \in Nat : n = Len(part)
    BY Vista
<1>2. /\ c \in 1 .. n - 1 /\ ~part[c + 1].libre /\ vivos' = vivos
      /\ c \in 1 .. n /\ c + 1 \in 1 .. n
  <2>1. c \in 1 .. n - 1 /\ ~part[c + 1].libre
      BY <1>1, Movida
  <2>2. vivos' = vivos
      BY DEF CompactarMover
  <2>3. QED
      BY <2>1, <2>2
<1>3. PICK e \in Particion, f \in Particion :
         /\ Tesela(part') /\ Canje(part', part, n, c, e, f)
         /\ e.base = part[c].base /\ e.tam = part[c + 1].tam
         /\ ~e.libre /\ e.mensaje = part[c + 1].mensaje /\ f.libre
    BY <1>1, Movida
<1>4. /\ Sitios(Lugar, part, vivos) /\ Sitios(Lugar', part', vivos)
      /\ Tesela(part) /\ Len(part) = n /\ vivos \subseteq DIRS
    BY <1>1, <1>2, LugarEs, LugarEsDespues DEF LugarBien, IInv, TypeOK
<1>5. part[c].libre
    BY Movida
<1> DEFINE d == part[c + 1].mensaje
           L == Lugar
           M == Lugar'
           b == part[c].base
<1>6. /\ d \in vivos /\ L[d] = [base |-> part[c + 1].base, tam |-> part[c + 1].tam]
    BY <1>2, <1>4 DEF Sitios
<1>7. M[d] = [base |-> b, tam |-> part[c + 1].tam]
  <2>1. c \in 1 .. Len(part') /\ ~part'[c].libre /\ part'[c] = e
      BY <1>2, <1>3 DEF Canje
  <2>2. M[part'[c].mensaje] = [base |-> part'[c].base, tam |-> part'[c].tam]
      BY <1>4, <2>1 DEF Sitios
  <2>3. QED
      BY <1>3, <2>1, <2>2
<1>8. ASSUME NEW x \in vivos, x # d PROVE M[x] = L[x]
  <2>1. PICK j \in 1 .. n : ~part[j].libre /\ part[j].mensaje = x
      BY <1>4 DEF Sitios
  <2>2. j # c /\ j # c + 1
      BY <1>5, <1>8, <2>1
  <2>3. j \in 1 .. Len(part) /\ j \in 1 .. Len(part') /\ part'[j] = part[j]
      BY <1>3, <1>4, <2>1, <2>2 DEF Canje
  <2>4. QED
      BY <1>4, <2>1, <2>3, SitioIgual
<1>9. b \in 0 .. L[d].base - 1
  <2>1. part[c].base \in Int /\ part[c].tam \in Int /\ part[c].tam > 0
        /\ part[c + 1].base \in Int
      BY <1>1, <1>2, Vista
  <2>2. part[c].base >= 0 /\ part[c + 1].base = part[c].base + part[c].tam
      BY <1>2, <1>4, Bases DEF Tesela
  <2>3. b < part[c + 1].base /\ L[d].base = part[c + 1].base
      BY <1>6, <2>1, <2>2
  <2>4. QED
      BY <2>1, <2>2, <2>3
<1>10. [L[d] EXCEPT !.base = b] = M[d]
    BY <1>6, <1>7
<1>11. /\ M[d].base + M[d].tam <= MEM_SIZE
       /\ \A x \in vivos \ {d} : A!Disjuntos(M[d], M[x])
  <2>1. c \in 1 .. Len(part') /\ ~part'[c].libre /\ part'[c].mensaje = d
      BY <1>2, <1>3 DEF Canje
  <2>2. QED
      BY <1>3, <1>4, <2>1, SitioPropio
<1>12. DOMAIN L = vivos /\ L = [x \in vivos |-> L[x]] /\ M = [x \in vivos |-> M[x]]
    BY <1>4 DEF Sitios
<1> HIDE DEF d, L, M, b
<1>13. M = [L EXCEPT ![d].base = b]
    BY <1>6, <1>8, <1>10, <1>12
<1>14. A!Libre(M[d], A!Ajenos(d))
    BY <1>8, <1>11, <1>12 DEF A!Libre, A!Ajenos, L
<1>15. A!Mover(d)
    BY <1>6, <1>9, <1>10, <1>12, <1>13, <1>14 DEF A!Mover, L, M
<1>16. QED
    BY <1>4, <1>6, <1>15

(* The other steps leave every message where it is.                        *)
LEMMA LosDemas ==
    ASSUME IInv, IInv', vivos' = vivos,
           \A j \in 1 .. Len(part) : ~part[j].libre =>
             \E k \in 1 .. Len(part') :
               /\ ~part'[k].libre /\ part'[k].mensaje = part[j].mensaje
               /\ part'[k].base = part[j].base /\ part'[k].tam = part[j].tam
    PROVE  Lugar' = Lugar
<1>1. Sitios(Lugar, part, vivos) /\ Sitios(Lugar', part', vivos)
    BY LugarEs, LugarEsDespues DEF LugarBien
<1>2. QED
    BY <1>1, Quieto

(* A step that leaves the table alone moves nobody.                        *)
LEMMA NadieSeMueve ==
    ASSUME IInv, IInv', vivos' = vivos, part' = part PROVE Lugar' = Lugar
BY LosDemas

(* A merge joins free partitions only: no message moves.                   *)
LEMMA MergearNoMueve == ASSUME IInv, IInv', MergearPar PROVE Lugar' = Lugar
<1>1. vivos' = vivos /\ i \in Nat /\ i > 0 /\ i < Len(part)
    BY DEF MergearPar, QuedanPares, IInv, TypeOK
<1>2. CASE ~Par(part, i)
  <2>1. part' = part
      BY <1>2 DEF MergearPar, Par
  <2>2. QED
      BY <1>1, <2>1, NadieSeMueve
<1>3. CASE Par(part, i)
  <2>1. PICK n \in Nat : n = Len(part)
      BY Vista
  <2>2. Tesela(part) /\ Len(part) = n /\ i \in 1 .. n - 1 /\ part' = Mergeada(part, i)
      BY <1>1, <1>3, <2>1, Vista DEF MergearPar, Par
  <2>3. Union(part', part, n, i, [part[i] EXCEPT !.tam = @ + part[i + 1].tam])
      BY <2>2, Unida
  <2>4. ASSUME NEW j \in 1 .. n, ~part[j].libre
        PROVE  \E k \in 1 .. n - 1 : part'[k] = part[j]
    <3>1. j # i /\ j # i + 1
        BY <1>3, <2>4 DEF Par
    <3>2. CASE j < i
      <4>1. j \in 1 .. i - 1 /\ j \in 1 .. n - 1
          BY <2>2, <3>2
      <4>2. QED
          BY <2>3, <4>1 DEF Union
    <3>3. CASE j > i + 1
      <4>1. j - 1 \in i + 1 .. n - 1 /\ j - 1 + 1 = j /\ j - 1 \in 1 .. n - 1
          BY <1>1, <2>2, <3>3
      <4>2. part'[j - 1] = part[j]
          BY <2>3, <4>1 DEF Union
      <4>3. QED
          BY <4>1, <4>2
    <3>4. QED
        BY <1>1, <3>1, <3>2, <3>3
  <2>5. Len(part') = n - 1
      BY <2>3 DEF Union
  <2>6. ASSUME NEW j \in 1 .. Len(part), ~part[j].libre
        PROVE  \E k \in 1 .. Len(part') :
                 /\ ~part'[k].libre /\ part'[k].mensaje = part[j].mensaje
                 /\ part'[k].base = part[j].base /\ part'[k].tam = part[j].tam
    <3>1. PICK k \in 1 .. n - 1 : part'[k] = part[j]
        BY <2>2, <2>4, <2>6
    <3>2. k \in 1 .. Len(part') /\ ~part'[k].libre
        BY <2>5, <2>6, <3>1
    <3>3. QED
        BY <3>1, <3>2
  <2>7. QED
      BY <1>1, <2>6, LosDemas
<1>4. QED
    BY <1>2, <1>3

(* Refreshing the last use of a partition moves nobody.                    *)
LEMMA UsarNoMueve ==
    ASSUME IInv, IInv', NEW d \in DIRS, Usar(d) PROVE Lugar' = Lugar
<1>1. PICK k \in DOMAIN part : part' = [part EXCEPT ![k].uso = reloj']
    BY DEF Usar
<1>2. part \in Seq(Particion) /\ vivos' = vivos /\ DOMAIN part = 1 .. Len(part)
    BY Vista DEF Usar
<1>3. part' \in Seq(Particion) /\ DOMAIN part' = 1 .. Len(part')
    BY LenProperties DEF IInv, Tesela
<1>4. 1 .. Len(part') = 1 .. Len(part)
    BY <1>1, <1>2, <1>3
<1>5. ASSUME NEW j \in 1 .. Len(part)
      PROVE  /\ part'[j].libre = part[j].libre /\ part'[j].mensaje = part[j].mensaje
             /\ part'[j].base = part[j].base /\ part'[j].tam = part[j].tam
  <2>1. part[j] \in Particion
      BY <1>2, Vista
  <2>2. QED
      BY <1>1, <1>2, <2>1 DEF Particion
<1>6. QED
    BY <1>2, <1>4, <1>5, LosDemas

(* Every step of the Broker is a step of the promise.                      *)
LEMMA PasoAlmacen ==
    ASSUME Configurado, IInv, IInv', [Next]_vars
    PROVE  [A!NextAlmacen]_Lugar
<1>1. CASE UNCHANGED vars
  <2>1. part' = part /\ vivos' = vivos
      BY <1>1 DEF vars
  <2>2. QED
      BY <2>1, NadieSeMueve
<1>2. ASSUME NEW d \in DIRS, NEW t \in TAMS, Pedir(d, t) PROVE Lugar' = Lugar
    BY <1>2, NadieSeMueve DEF Pedir
<1>3. ASSUME NEW d \in DIRS, Usar(d) PROVE Lugar' = Lugar
    BY <1>3, UsarNoMueve
<1>4. CASE AsignarExacta
  <2>1. pedido.dir \in DIRS
      BY <1>4, Exacta
  <2>2. QED
      BY <1>4, <2>1, ExactaEsGuardar DEF A!NextAlmacen
<1>5. CASE AsignarPartiendo
  <2>1. pedido.dir \in DIRS
      BY <1>5, Partiendo
  <2>2. QED
      BY <1>5, <2>1, PartiendoEsGuardar DEF A!NextAlmacen
<1>6. CASE Desalojar
    BY <1>6, DesalojarEsBorrar DEF A!NextAlmacen
<1>7. CASE CompactarMover
    BY <1>7, MoverEsMover DEF A!NextAlmacen
<1>8. CASE MergearPar
    BY <1>8, MergearNoMueve
<1>9. CASE \/ DesalojarSinVictima \/ MergearFin \/ Compactar
           \/ CompactarSeguir \/ CompactarFin
  <2>1. part' = part /\ vivos' = vivos
      BY <1>9 DEF DesalojarSinVictima, MergearFin, Compactar, CompactarSeguir,
                  CompactarFin
  <2>2. QED
      BY <2>1, NadieSeMueve
<1>10. QED
    BY <1>1, <1>2, <1>3, <1>4, <1>5, <1>6, <1>7, <1>8, <1>9 DEF Next, Asignador

(* At first nobody has a byte.                                             *)
LEMMA InicioAlmacen == ASSUME Init PROVE A!InitAlmacen
<1>1. vivos = {}
    BY DEF Init
<1>2. QED
    BY <1>1 DEF A!InitAlmacen, Lugar

(* The dynamic partitions keep the promise of the memory, step by step: a  *)
(* message gets bytes of nobody, keeps them until it is evicted or         *)
(* compactar_particiones slides it towards the start, and no step touches  *)
(* the bytes of two messages.                                              *)
THEOREM Refinamiento == ASSUME Configurado PROVE Spec => EsUnAlmacen
<1>1. Init => A!InitAlmacen
    BY InicioAlmacen
<1>2. IInv /\ IInv' /\ [Next]_vars => [A!NextAlmacen]_Lugar
    BY PasoAlmacen
<1>3. QED
    BY <1>1, <1>2, Invariante, PTL DEF Spec, EsUnAlmacen, A!AlmacenSpec
=============================================================================
