----------------------------- MODULE BuddyProofs -----------------------------
(***************************************************************************)
(* Proofs about Buddy, for every size of the memory, every set of messages *)
(* and both replacement algorithms.                                        *)
(***************************************************************************)
EXTENDS Buddy, Lemas

(* The two halves of a node are the size of a child each.                  *)
LEMMA Mitades ==
    \A l \in 0 .. NIVELES :
      /\ POT[l] \in Nat /\ POT[l] > 0
      /\ l > 0 => POT[l] = POT[l - 1] + POT[l - 1]
BY PotAssumption, SMT

(* A parent is twice as large as each of its children.                     *)
LEMMA Doble ==
    ASSUME NEW l \in 0 .. NIVELES - 1
    PROVE  l + 1 \in 0 .. NIVELES /\ POT[l + 1] = POT[l] + POT[l]
<1>1. l + 1 \in 0 .. NIVELES /\ l + 1 > 0 /\ (l + 1) - 1 = l
    BY PotAssumption
<1>2. QED
    BY <1>1, Mitades

-----------------------------------------------------------------------------
(* The request in progress: a message that is not cached yet, and, while   *)
(* merging, a leaf that was just freed or merged.                          *)
PedidoInv ==
    /\ pc \in {"buscar", "mergear"} =>
         pedido.dir \in DIRS /\ pedido.dir \notin vivos
    /\ pc = "mergear" => nodo \in Libres

(* Teselado and OrdenSonLosVivos speak of leaves only: they are preserved  *)
(* by themselves once the types and the request are known.                 *)
IInv == TypeOK /\ Teselado /\ OrdenSonLosVivos /\ PedidoInv

(* The invariant holds when the Broker starts: one free leaf, no message.   *)
LEMMA Inicio == Init => IInv
<1> SUFFICES ASSUME Init PROVE IInv
    OBVIOUS
<1> USE DEF Init
<1>1. TypeOK
    BY Mitades, PotAssumption, EmptySeq
       DEF TypeOK, Hoja, Nueva, SinPedido, ARBOL
<1>2. Teselado
    BY Mitades, PotAssumption
       DEF Teselado, CubreLaMemoria, SinSolapes, DentroDeLaMemoria, Tam,
           MEM_SIZE, Nueva
<1>3. OrdenSonLosVivos
    BY DEF OrdenSonLosVivos, Ocupadas, Libres, Nueva
<1>4. PedidoInv
    BY DEF PedidoInv
<1>5. QED
    BY <1>1, <1>2, <1>3, <1>4 DEF IInv

(* A message asks for a level of the tree or for the one above the root.    *)
LEMMA NivelEsNivel == \A t \in TAMS : Nivel(t) \in 0 .. NIVELES + 1
<1> SUFFICES ASSUME NEW t \in TAMS PROVE Nivel(t) \in 0 .. NIVELES + 1
    OBVIOUS
<1> DEFINE S == {l \in 0 .. NIVELES + 1 :
                   l = NIVELES + 1 \/ (POT[l] >= t /\ POT[l] >= MIN_PART_LEN)}
<1>1. S \in SUBSET Nat /\ NIVELES + 1 \in S
    BY PotAssumption
<1>2. PICK l \in S : \A m \in S : l <= m
  <2> HIDE DEF S
  <2>1. QED
      BY <1>1, MinimoNat
<1>3. \A k \in 0 .. l - 1 : POT[k] < t \/ POT[k] < MIN_PART_LEN
  <2> SUFFICES ASSUME NEW k \in 0 .. l - 1
               PROVE  k \notin S => POT[k] < t \/ POT[k] < MIN_PART_LEN
      BY <1>2, PotAssumption
  <2>1. POT[k] \in Nat /\ t \in Nat /\ MIN_PART_LEN \in Nat
      BY PotAssumption, TamsAssumption, Mitades DEF MEM_SIZE
  <2>2. QED
      BY <2>1, PotAssumption
<1>4. QED
    BY <1>2, <1>3 DEF Nivel

(* A message that arrives changes neither the memory nor the order.         *)
LEMMA PasoPedir ==
    ASSUME IInv, NEW d \in DIRS, NEW t \in TAMS, Pedir(d, t)
    PROVE  IInv'
<1> USE DEF IInv, Pedir
<1>1. Nivel(t) \in 0 .. NIVELES + 1
    BY NivelEsNivel
<1>2. TypeOK'
    BY <1>1, PotAssumption DEF TypeOK, ARBOL, Hoja
<1>3. Teselado'
    BY DEF Teselado, CubreLaMemoria, SinSolapes, DentroDeLaMemoria, Tam
<1>4. OrdenSonLosVivos'
    BY DEF OrdenSonLosVivos, Ocupadas, Libres
<1>5. PedidoInv'
    BY DEF PedidoInv
<1>6. QED
    BY <1>2, <1>3, <1>4, <1>5

(* Storing a message in a free leaf of its level preserves the invariant.   *)
LEMMA PasoAsignar == IInv /\ Asignar => IInv'
<1> SUFFICES ASSUME IInv, NEW b \in DOMAIN hojas,
                    pc = "buscar", Sirve(b),
                    hojas' = [hojas EXCEPT ![b].libre = FALSE,
                                           ![b].mensaje = pedido.dir],
                    orden' = Append(orden, b),
                    vivos' = vivos \union {pedido.dir},
                    pedido' = SinPedido, pc' = "ocioso",
                    UNCHANGED <<reemplazo, raiz, nodo>>
             PROVE  IInv'
    BY DEF Asignar
<1> USE DEF IInv
<1>1. /\ b \in Libres
      /\ pedido.dir \in DIRS /\ pedido.dir \notin vivos
    BY DEF Sirve, PrimeraDe, DeNivel, PedidoInv
<1>2. /\ DOMAIN hojas' = DOMAIN hojas
      /\ \A a \in DOMAIN hojas : hojas'[a].nivel = hojas[a].nivel
      /\ \A a \in DOMAIN hojas : hojas'[a] \in Hoja
      /\ \A a \in DOMAIN hojas \ {b} : hojas'[a] = hojas[a]
      /\ ~hojas'[b].libre /\ hojas'[b].mensaje = pedido.dir
    BY <1>1 DEF TypeOK, Hoja
<1>3. /\ Ocupadas' = Ocupadas \union {b}
      /\ b \notin Ocupadas
    BY <1>1, <1>2 DEF Ocupadas, Libres
<1>4. /\ orden \in Seq(DOMAIN hojas)
      /\ orden' \in Seq(DOMAIN hojas)
      /\ Len(orden') = Len(orden) + 1
      /\ \A k \in 1 .. Len(orden) : orden'[k] = orden[k]
      /\ orden'[Len(orden) + 1] = b
    BY AppendProperties DEF TypeOK
<1>5. TypeOK'
  <2>1. hojas' \in [DOMAIN hojas' -> Hoja] /\ DOMAIN hojas' \subseteq Nat
      BY <1>2 DEF TypeOK
  <2>2. pedido' \in [dir : DIRS \union {NULL}, nivel : 0 .. NIVELES + 1]
      BY PotAssumption DEF SinPedido
  <2>3. QED
      BY <1>1, <1>2, <1>4, <2>1, <2>2 DEF TypeOK
<1>6. Teselado'
    BY <1>2 DEF Teselado, CubreLaMemoria, SinSolapes, DentroDeLaMemoria, Tam
<1>7. OrdenSonLosVivos'
  <2>1. \A k \in DOMAIN orden' : orden'[k] \in Ocupadas'
      BY <1>3, <1>4 DEF OrdenSonLosVivos
  <2>2. \A a \in Ocupadas' : \E k \in DOMAIN orden' : orden'[k] = a
      BY <1>3, <1>4 DEF OrdenSonLosVivos
  <2>3. \A j, k \in DOMAIN orden' : j # k => orden'[j] # orden'[k]
      BY <1>3, <1>4 DEF OrdenSonLosVivos
  <2>4. {hojas'[a].mensaje : a \in Ocupadas'} = vivos'
      BY <1>2, <1>3 DEF OrdenSonLosVivos, Ocupadas
  <2>5. \A a, c \in Ocupadas' :
          a # c => hojas'[a].mensaje # hojas'[c].mensaje
      BY <1>1, <1>2, <1>3 DEF OrdenSonLosVivos, Ocupadas
  <2>6. QED
      BY <2>1, <2>2, <2>3, <2>4, <2>5 DEF OrdenSonLosVivos
<1>8. PedidoInv'
    BY DEF PedidoInv
<1>9. QED
    BY <1>5, <1>6, <1>7, <1>8

(* Bases and sizes of leaves are naturals, and no leaf is empty.            *)
LEMMA Tamanios ==
    TypeOK => \A a \in DOMAIN hojas :
                /\ a \in Nat /\ hojas[a].nivel \in 0 .. NIVELES
                /\ Tam(a) \in Nat /\ Tam(a) > 0
<1>1. TypeOK => \A a \in DOMAIN hojas :
                  a \in Nat /\ hojas[a].nivel \in 0 .. NIVELES
    BY DEF TypeOK, Hoja
<1>2. QED
    BY <1>1, Mitades DEF Tam

(* u is h with its free leaf b divided into b and c, of the level l.        *)
EsDivision(h, u, b, c, l) ==
    /\ b \in DOMAIN h /\ h[b].libre /\ h[b].nivel = l + 1
    /\ b \in Nat /\ c \in Nat /\ c \notin DOMAIN h
    /\ l \in 0 .. NIVELES - 1 /\ c = b + POT[l]
    /\ DOMAIN u = DOMAIN h \union {c}
    /\ \A a \in DOMAIN h \ {b} : u[a] = h[a]
    /\ u[b] = Nueva(l) /\ u[c] = Nueva(l)

(* What Dividir does to the leaves.                                        *)
LEMMA AlDividir ==
    ASSUME IInv, NEW b \in DOMAIN hojas, ADividir(b),
           hojas' = Dividida(b, hojas[b].nivel - 1)
    PROVE  \E l, c : /\ l = hojas[b].nivel - 1
                     /\ EsDivision(hojas, hojas', b, c, l)
<1> SUFFICES ASSUME NEW l, l = hojas[b].nivel - 1, NEW c, c = b + POT[l]
             PROVE  EsDivision(hojas, hojas', b, c, l)
    OBVIOUS
<1> USE DEF IInv
<1>1. /\ b \in Libres /\ b \in Nat
      /\ l \in 0 .. NIVELES - 1 /\ hojas[b].nivel = l + 1
  <2>1. b \in Nat /\ hojas[b].nivel \in 0 .. NIVELES
      BY Tamanios
  <2>2. \E n \in pedido.nivel + 1 .. NIVELES : b \in DeNivel(n, ARBOL)
      BY DEF ADividir, PrimeraDe
  <2>3. b \in Libres /\ hojas[b].nivel >= pedido.nivel + 1
      BY <2>1, <2>2 DEF DeNivel
  <2>4. pedido.nivel \in Nat /\ NIVELES \in Nat
      BY PotAssumption DEF TypeOK
  <2>5. QED
      BY <2>1, <2>3, <2>4
<1>2. /\ POT[l] \in Nat /\ POT[l] > 0
      /\ Tam(b) = POT[l] + POT[l]
      /\ \A a \in DOMAIN hojas : Tam(a) \in Nat /\ Tam(a) > 0 /\ a \in Nat
  <2>1. POT[l] \in Nat /\ POT[l] > 0
      BY <1>1, Mitades, PotAssumption
  <2>2. hojas[b].nivel \in 1 .. NIVELES
      BY <1>1, PotAssumption, Tamanios
  <2>3. Tam(b) = POT[l] + POT[l]
      BY <2>2, Mitades, PotAssumption DEF Tam
  <2>4. QED
      BY <2>1, <2>3, Tamanios
<1>3. c \in Nat /\ c \notin DOMAIN hojas
    BY <1>1, <1>2 DEF Teselado, SinSolapes
<1>4. /\ DOMAIN hojas' = DOMAIN hojas \union {c}
      /\ \A a \in DOMAIN hojas \ {b} : hojas'[a] = hojas[a]
      /\ hojas'[b] = Nueva(l) /\ hojas'[c] = Nueva(l)
    BY <1>3 DEF Dividida
<1>5. QED
    BY <1>1, <1>3, <1>4 DEF EsDivision, Libres

(* Dividing a free leaf into two of the level below preserves it.           *)
LEMMA PasoDividir == IInv /\ Dividir => IInv'
<1> SUFFICES ASSUME IInv, NEW b \in DOMAIN hojas,
                    NEW l, NEW c, EsDivision(hojas, hojas', b, c, l),
                    pc = "buscar", hojas' = Dividida(b, l),
                    raiz' = [base |-> b, nivel |-> l],
                    UNCHANGED <<reemplazo, orden, vivos, pedido, pc, nodo>>
             PROVE  IInv'
    BY AlDividir DEF Dividir
<1> USE DEF IInv
<1>1. /\ b \in Libres /\ b \in Nat
      /\ l \in 0 .. NIVELES - 1 /\ hojas[b].nivel = l + 1
    BY DEF EsDivision, Libres
<1>2. /\ POT[l] \in Nat /\ POT[l] > 0
      /\ Tam(b) = POT[l] + POT[l]
      /\ \A a \in DOMAIN hojas : Tam(a) \in Nat /\ Tam(a) > 0 /\ a \in Nat
  <2>1. POT[l + 1] = POT[l] + POT[l]
      BY <1>1, Doble
  <2>2. POT[l] \in Nat /\ POT[l] > 0
      BY <1>1, Mitades, PotAssumption
  <2>3. Tam(b) = POT[l] + POT[l]
      BY <1>1, <2>1 DEF Tam
  <2>4. QED
      BY <2>2, <2>3, Tamanios
<1>3. c \in Nat /\ c \notin DOMAIN hojas /\ c = b + POT[l]
    BY DEF EsDivision
<1>4. /\ DOMAIN hojas' = DOMAIN hojas \union {c}
      /\ \A a \in DOMAIN hojas \ {b} : hojas'[a] = hojas[a]
      /\ hojas'[b] = Nueva(l) /\ hojas'[c] = Nueva(l)
    BY DEF EsDivision
<1>5. /\ Ocupadas' = Ocupadas
      /\ b \notin Ocupadas /\ Ocupadas \subseteq DOMAIN hojas
    BY <1>1, <1>3, <1>4 DEF Ocupadas, Libres, Nueva
<1>6. TypeOK'
  <2>1. hojas' \in [DOMAIN hojas' -> Hoja]
    <3>1. Nueva(l) \in Hoja
        BY <1>1, PotAssumption DEF Nueva, Hoja
    <3>2. \A a \in DOMAIN hojas' : hojas'[a] \in Hoja
        BY <1>4, <3>1 DEF TypeOK
    <3>3. hojas' = [a \in DOMAIN hojas' |-> hojas'[a]]
        BY DEF Dividida
    <3>4. QED
        BY <3>2, <3>3
  <2>2. DOMAIN hojas' \subseteq Nat
      BY <1>3, <1>4 DEF TypeOK
  <2>3. orden' \in Seq(DOMAIN hojas')
      BY <1>4, SeqPorElementos, ElementOfSeq DEF TypeOK
  <2>4. raiz' \in [base : Nat, nivel : 0 .. NIVELES]
      BY <1>1, PotAssumption
  <2>5. QED
      BY <2>1, <2>2, <2>3, <2>4 DEF TypeOK
<1>7. Teselado'
  <2>1. /\ Tam(b)' = POT[l] /\ Tam(c)' = POT[l]
        /\ \A a \in DOMAIN hojas \ {b} : Tam(a)' = Tam(a)
      BY <1>4 DEF Tam, Nueva
  <2>2. CubreLaMemoria'
    <3> SUFFICES ASSUME NEW x \in 0 .. MEM_SIZE - 1
                 PROVE  \E a \in DOMAIN hojas' : a <= x /\ x < a + Tam(a)'
        BY DEF CubreLaMemoria
    <3>1. PICK a \in DOMAIN hojas : a <= x /\ x < a + Tam(a)
        BY DEF Teselado, CubreLaMemoria
    <3>2. MEM_SIZE \in Nat
        BY PotAssumption, Mitades DEF MEM_SIZE
    <3>3. CASE a # b
        BY <1>4, <2>1, <3>1, <3>3
    <3>4. CASE a = b
      <4>1. (b <= x /\ x < b + POT[l]) \/ (c <= x /\ x < c + POT[l])
          BY <1>1, <1>2, <1>3, <3>1, <3>2, <3>4
      <4>2. /\ b \in DOMAIN hojas' /\ Tam(b)' = POT[l]
            /\ c \in DOMAIN hojas' /\ Tam(c)' = POT[l]
          BY <1>4, <2>1
      <4>3. QED
          BY <4>1, <4>2
    <3>5. QED
        BY <3>3, <3>4
  <2>3. SinSolapes'
    <3> SUFFICES ASSUME NEW a \in DOMAIN hojas', NEW d \in DOMAIN hojas', a < d
                 PROVE  a + Tam(a)' <= d
        BY DEF SinSolapes
    <3>1. \A e \in DOMAIN hojas : e < b => e + Tam(e) <= b
        BY DEF Teselado, SinSolapes
    <3>2. \A e \in DOMAIN hojas : b < e => b + Tam(b) <= e
        BY DEF Teselado, SinSolapes
    <3>3. CASE a \in {b, c}
        BY <1>1, <1>2, <1>3, <1>4, <2>1, <3>2, <3>3
    <3>4. CASE a \in DOMAIN hojas \ {b} /\ d \in {b, c}
        BY <1>1, <1>2, <1>3, <1>4, <2>1, <3>1, <3>2, <3>4
    <3>5. CASE a \in DOMAIN hojas \ {b} /\ d \in DOMAIN hojas \ {b}
        BY <2>1, <3>5 DEF Teselado, SinSolapes
    <3>6. QED
        BY <1>4, <3>3, <3>4, <3>5
  <2>4. DentroDeLaMemoria'
    <3>1. MEM_SIZE \in Nat
        BY PotAssumption, Mitades DEF MEM_SIZE
    <3>2. QED
        BY <1>1, <1>2, <1>3, <1>4, <2>1, <3>1 DEF Teselado, DentroDeLaMemoria
  <2>5. QED
      BY <2>2, <2>3, <2>4 DEF Teselado
<1>8. OrdenSonLosVivos'
  <2>1. \A a \in Ocupadas : hojas'[a] = hojas[a]
      BY <1>4, <1>5
  <2>2. QED
      BY <1>5, <2>1 DEF OrdenSonLosVivos
<1>9. PedidoInv'
    BY DEF PedidoInv
<1>10. QED
    BY <1>6, <1>7, <1>8, <1>9

(* Evicting the head of the order preserves the invariant.                 *)
LEMMA PasoDesalojar == IInv /\ Desalojar => IInv'
<1> SUFFICES ASSUME IInv, NEW v \in DOMAIN hojas,
                    pc = "buscar", orden # << >>, v = Head(orden),
                    vivos' = vivos \ {hojas[v].mensaje},
                    hojas' = [hojas EXCEPT ![v].libre = TRUE],
                    orden' = Tail(orden), nodo' = v, pc' = "mergear",
                    UNCHANGED <<reemplazo, pedido, raiz>>
             PROVE  IInv'
    BY DEF Desalojar, Victima
<1> USE DEF IInv
<1>1. /\ orden \in Seq(DOMAIN hojas) /\ Len(orden) \in Nat /\ Len(orden) > 0
      /\ v = orden[1]
      /\ orden' \in Seq(DOMAIN hojas) /\ Len(orden') = Len(orden) - 1
      /\ \A k \in 1 .. Len(orden') : orden'[k] = orden[k + 1]
    BY HeadTailProperties DEF TypeOK
<1>2. v \in Ocupadas
    BY <1>1 DEF OrdenSonLosVivos
<1>3. /\ DOMAIN hojas' = DOMAIN hojas
      /\ \A a \in DOMAIN hojas : hojas'[a].nivel = hojas[a].nivel
      /\ \A a \in DOMAIN hojas : hojas'[a].mensaje = hojas[a].mensaje
      /\ \A a \in DOMAIN hojas : hojas'[a] \in Hoja
      /\ \A a \in DOMAIN hojas \ {v} : hojas'[a] = hojas[a]
      /\ hojas'[v].libre
    BY DEF TypeOK, Hoja
<1>4. Ocupadas' = Ocupadas \ {v}
    BY <1>3 DEF Ocupadas, Libres
<1>5. TypeOK'
    BY <1>1, <1>3 DEF TypeOK
<1>6. Teselado'
    BY <1>3 DEF Teselado, CubreLaMemoria, SinSolapes, DentroDeLaMemoria, Tam
<1>7. OrdenSonLosVivos'
  <2>1. \A k \in DOMAIN orden' : orden'[k] \in Ocupadas'
      BY <1>1, <1>4 DEF OrdenSonLosVivos
  <2>2. \A a \in Ocupadas' : \E k \in DOMAIN orden' : orden'[k] = a
    <3> SUFFICES ASSUME NEW a \in Ocupadas' PROVE \E k \in DOMAIN orden' : orden'[k] = a
        OBVIOUS
    <3>1. PICK k \in DOMAIN orden : orden[k] = a
        BY <1>4 DEF OrdenSonLosVivos
    <3>2. k # 1 /\ k \in 1 .. Len(orden)
        BY <1>1, <1>4, <3>1
    <3>3. k - 1 \in DOMAIN orden' /\ orden'[k - 1] = a
        BY <1>1, <3>1, <3>2
    <3>4. QED
        BY <3>3
  <2>3. \A j, k \in DOMAIN orden' : j # k => orden'[j] # orden'[k]
      BY <1>1 DEF OrdenSonLosVivos
  <2>4. {hojas'[a].mensaje : a \in Ocupadas'} = vivos'
      BY <1>2, <1>3, <1>4 DEF OrdenSonLosVivos, Ocupadas
  <2>5. \A a, c \in Ocupadas' :
          a # c => hojas'[a].mensaje # hojas'[c].mensaje
      BY <1>3, <1>4 DEF OrdenSonLosVivos, Ocupadas
  <2>6. QED
      BY <2>1, <2>2, <2>3, <2>4, <2>5 DEF OrdenSonLosVivos
<1>8. PedidoInv'
    BY <1>3 DEF PedidoInv, Libres
<1>9. QED
    BY <1>5, <1>6, <1>7, <1>8

(* Where a leaf and its buddy are when buddy_mergear joins them.            *)
LEMMA ElPar ==
    ASSUME IInv, pc = "mergear", PuedeMergear(nodo),
           NEW izq, izq = Menor(nodo, Companiero(nodo)),
           NEW der, der \in {nodo, Companiero(nodo)}, der # izq
    PROVE  /\ izq \in Libres /\ der \in Libres
           /\ {nodo, Companiero(nodo)} \ {izq} = {der}
           /\ hojas[nodo].nivel \in 0 .. NIVELES - 1
           /\ hojas[izq].nivel = hojas[nodo].nivel
           /\ hojas[der].nivel = hojas[nodo].nivel
           /\ der = izq + Tam(nodo)
<1>1. nodo \in Libres /\ Companiero(nodo) \in Libres
    BY DEF IInv, PedidoInv, PuedeMergear
<1>2. izq \in {nodo, Companiero(nodo)}
    BY DEF Menor
<1>3. nodo \in Nat /\ Tam(nodo) \in Nat /\ hojas[nodo].nivel \in 0 .. NIVELES
    BY <1>1, Tamanios DEF IInv, Libres
<1>4. \/ Companiero(nodo) = nodo + Tam(nodo)
      \/ Companiero(nodo) = nodo - Tam(nodo)
    BY DEF Companiero
<1>5. der = izq + Tam(nodo)
    BY <1>2, <1>3, <1>4 DEF Menor
<1>6. hojas[nodo].nivel \in 0 .. NIVELES - 1
  <2>1. hojas[nodo].nivel # NIVELES
      BY DEF PuedeMergear
  <2>2. NIVELES \in Nat
      BY PotAssumption
  <2>3. QED
      BY <1>3, <2>1, <2>2
<1>7. hojas[Companiero(nodo)].nivel = hojas[nodo].nivel
    BY DEF PuedeMergear
<1>8. QED
    BY <1>1, <1>2, <1>5, <1>6, <1>7

(* u is h with its free leaves izq and der, of the level l, joined.         *)
EsUnion(h, u, izq, der, l) ==
    /\ izq \in DOMAIN h /\ der \in DOMAIN h
    /\ h[izq].libre /\ h[der].libre
    /\ h[izq].nivel = l /\ h[der].nivel = l /\ l \in 0 .. NIVELES - 1
    /\ izq \in Nat /\ der = izq + POT[l]
    /\ DOMAIN u = DOMAIN h \ {der} /\ u = [a \in DOMAIN u |-> u[a]]
    /\ izq \in DOMAIN u /\ u[izq] = Nueva(l + 1)
    /\ \A a \in DOMAIN h \ {izq, der} : u[a] = h[a]

(* What MergearPar does to the leaves.                                     *)
LEMMA AlUnir ==
    ASSUME IInv, MergearPar
    PROVE  \E izq, der, l :
             /\ EsUnion(hojas, hojas', izq, der, l)
             /\ {izq, der} = {nodo, Companiero(nodo)} /\ nodo' = izq
<1> SUFFICES ASSUME NEW izq, izq = Menor(nodo, Companiero(nodo)),
                    NEW der, der \in {nodo, Companiero(nodo)}, der # izq,
                    NEW l, l = hojas[nodo].nivel,
                    NEW t, t = Tam(nodo)
             PROVE  /\ EsUnion(hojas, hojas', izq, der, l)
                    /\ {izq, der} = {nodo, Companiero(nodo)} /\ nodo' = izq
  <2>1. nodo # Companiero(nodo)
    <3>1. nodo \in Libres
        BY DEF IInv, MergearPar, PedidoInv
    <3>2. nodo \in Nat /\ Tam(nodo) \in Nat \ {0}
        BY <3>1, Tamanios DEF IInv, Libres
    <3>3. \/ Companiero(nodo) = nodo + Tam(nodo)
          \/ Companiero(nodo) = nodo - Tam(nodo)
        BY DEF Companiero
    <3>4. QED
        BY <3>2, <3>3
  <2>2. \E der \in {nodo, Companiero(nodo)} : der # Menor(nodo, Companiero(nodo))
      BY <2>1
  <2>3. QED
      BY <2>2
<1>0. pc = "mergear" /\ PuedeMergear(nodo)
    BY DEF MergearPar
<1>1. /\ izq \in Libres /\ der \in Libres
      /\ {nodo, Companiero(nodo)} \ {izq} = {der}
      /\ l \in 0 .. NIVELES - 1
      /\ hojas[izq].nivel = l /\ hojas[der].nivel = l
      /\ der = izq + t
    BY <1>0, ElPar
<1>2. /\ hojas' = [a \in DOMAIN hojas \ {der} |->
                     IF a = izq THEN Nueva(l + 1) ELSE hojas[a]]
      /\ nodo' = izq
    BY <1>1 DEF MergearPar
<1>3. t = POT[l] /\ izq \in Nat
    BY <1>1, Tamanios DEF IInv, Libres, Tam
<1>4. /\ DOMAIN hojas' = DOMAIN hojas \ {der}
      /\ hojas' = [a \in DOMAIN hojas' |-> hojas'[a]]
      /\ \A a \in DOMAIN hojas \ {izq, der} : hojas'[a] = hojas[a]
      /\ izq \in DOMAIN hojas' /\ hojas'[izq] = Nueva(l + 1)
    BY <1>1, <1>2 DEF Libres
<1>5. {izq, der} = {nodo, Companiero(nodo)}
    BY <1>1 DEF Menor
<1>6. QED
    BY <1>1, <1>2, <1>3, <1>4, <1>5 DEF EsUnion, Libres

(* Joining a free leaf with its free buddy preserves the invariant.         *)
LEMMA PasoMergearPar == IInv /\ MergearPar => IInv'
<1> SUFFICES ASSUME IInv, NEW izq, NEW der, NEW l,
                    EsUnion(hojas, hojas', izq, der, l),
                    NEW t, t = POT[l], nodo' = izq,
                    UNCHANGED <<reemplazo, orden, vivos, pedido, raiz, pc>>
             PROVE  IInv'
    BY AlUnir DEF MergearPar
<1> USE DEF IInv
<1>1. /\ izq \in Libres /\ der \in Libres
      /\ l \in 0 .. NIVELES - 1
      /\ hojas[izq].nivel = l /\ hojas[der].nivel = l
      /\ der = izq + t
    BY DEF EsUnion, Libres
<1>2. /\ nodo' = izq
      /\ UNCHANGED <<reemplazo, orden, vivos, pedido, raiz, pc>>
    OBVIOUS
<1>11. l + 1 \in 0 .. NIVELES
    BY <1>1, Doble
<1>10. /\ t \in Nat /\ t > 0 /\ t = POT[l]
       /\ izq \in Nat /\ der = izq + t
       /\ POT[l + 1] = t + t
  <2>1. izq \in Nat /\ Tam(izq) \in Nat \ {0} /\ Tam(izq) = t
      BY <1>1, Tamanios DEF Libres, Tam
  <2>2. POT[l + 1] = POT[l] + POT[l]
      BY <1>1, Doble
  <2>3. QED
      BY <1>1, <2>1, <2>2
<1>3. /\ DOMAIN hojas' = DOMAIN hojas \ {der}
      /\ \A a \in DOMAIN hojas \ {izq, der} : hojas'[a] = hojas[a]
      /\ izq \in DOMAIN hojas' /\ hojas'[izq] = Nueva(l + 1)
    BY DEF EsUnion
<1>4. /\ Ocupadas' = Ocupadas
      /\ Ocupadas \subseteq DOMAIN hojas \ {izq, der}
    BY <1>1, <1>3 DEF Ocupadas, Libres, Nueva
<1>5. TypeOK'
  <2>1. hojas' \in [DOMAIN hojas' -> Hoja]
    <3>1. Nueva(l + 1) \in Hoja
        BY <1>11 DEF Nueva, Hoja
    <3>2. \A a \in DOMAIN hojas' : hojas'[a] \in Hoja
        BY <1>3, <3>1 DEF TypeOK
    <3>3. hojas' = [a \in DOMAIN hojas' |-> hojas'[a]]
        BY DEF EsUnion
    <3>4. QED
        BY <3>2, <3>3
  <2>2. \A k \in 1 .. Len(orden) : orden[k] \in DOMAIN hojas'
      BY <1>2, <1>3, <1>4 DEF OrdenSonLosVivos, TypeOK
  <2>3. orden' \in Seq(DOMAIN hojas')
      BY <1>2, <2>2, SeqPorElementos DEF TypeOK
  <2>4. DOMAIN hojas' \subseteq Nat /\ nodo' \in Nat
      BY <1>2, <1>3, <1>10 DEF TypeOK
  <2>5. QED
      BY <1>2, <2>1, <2>3, <2>4 DEF TypeOK
<1>6. Teselado'
  <2>1. /\ Tam(izq)' = t + t
        /\ Tam(izq) = t /\ Tam(der) = t
        /\ \A a \in DOMAIN hojas \ {izq, der} : Tam(a)' = Tam(a)
      BY <1>1, <1>2, <1>10, <1>3 DEF Tam, Nueva
  <2>2. MEM_SIZE \in Nat
      BY PotAssumption, Mitades DEF MEM_SIZE
  <2>3. CubreLaMemoria'
    <3> SUFFICES ASSUME NEW x \in 0 .. MEM_SIZE - 1
                 PROVE  \E a \in DOMAIN hojas' : a <= x /\ x < a + Tam(a)'
        BY DEF CubreLaMemoria
    <3>1. PICK a \in DOMAIN hojas : a <= x /\ x < a + Tam(a)
        BY DEF Teselado, CubreLaMemoria
    <3>2. CASE a \in {izq, der}
      <4>1. izq <= x /\ x < izq + (t + t)
          BY <1>2, <1>10, <2>1, <2>2, <3>1, <3>2
      <4>2. QED
          BY <1>3, <2>1, <4>1
    <3>3. CASE a \notin {izq, der}
        BY <1>3, <2>1, <3>1, <3>3
    <3>4. QED
        BY <3>2, <3>3
  <2>4. SinSolapes'
    <3> SUFFICES ASSUME NEW a \in DOMAIN hojas', NEW d \in DOMAIN hojas', a < d
                 PROVE  a + Tam(a)' <= d
        BY DEF SinSolapes
    <3>1. /\ \A e, f \in DOMAIN hojas : e < f => e + Tam(e) <= f
          /\ izq \in DOMAIN hojas /\ der \in DOMAIN hojas
        BY <1>1 DEF Teselado, SinSolapes, Libres
    <3>2. CASE a = izq
      <4>1. a + t <= d /\ d # der /\ d \in Nat
          BY <1>2, <1>10, <1>3, <2>1, <3>1, <3>2 DEF TypeOK
      <4>2. der + t <= d
          BY <1>2, <1>10, <1>3, <2>1, <3>1, <3>2, <4>1
      <4>3. QED
          BY <1>2, <1>10, <2>1, <3>2, <4>1, <4>2
    <3>3. CASE a # izq
        BY <1>3, <2>1, <3>1, <3>3
    <3>4. QED
        BY <3>2, <3>3
  <2>5. DentroDeLaMemoria'
      BY <1>1, <1>2, <1>10, <1>3, <2>1, <2>2 DEF Teselado, DentroDeLaMemoria, Libres
  <2>6. QED
      BY <2>3, <2>4, <2>5 DEF Teselado
<1>7. OrdenSonLosVivos'
  <2>1. \A a \in Ocupadas : hojas'[a] = hojas[a]
      BY <1>3, <1>4
  <2>2. QED
      BY <1>2, <1>4, <2>1 DEF OrdenSonLosVivos
<1>8. PedidoInv'
    BY <1>2, <1>3 DEF PedidoInv, Libres, Nueva
<1>9. QED
    BY <1>5, <1>6, <1>7, <1>8

(* Steps that leave the leaves, the order and the messages as they are.     *)
LEMMA PasoQuieto ==
    ASSUME IInv, UNCHANGED <<hojas, reemplazo, orden, vivos, pedido, raiz, nodo>>,
           pc' = pc \/ (pc = "mergear" /\ pc' = "buscar") \/ pc' = "caido"
    PROVE  IInv'
<1> USE DEF IInv
<1>1. TypeOK'
    BY DEF TypeOK, Hoja
<1>2. Teselado'
    BY DEF Teselado, CubreLaMemoria, SinSolapes, DentroDeLaMemoria, Tam
<1>3. OrdenSonLosVivos'
    BY DEF OrdenSonLosVivos, Ocupadas, Libres
<1>4. PedidoInv'
    BY DEF PedidoInv, Libres
<1>5. QED
    BY <1>1, <1>2, <1>3, <1>4

(* Where the j-th of n elements was before the k-th was moved to the end.  *)
Donde(k, n, j) == IF j < k THEN j ELSE IF j < n THEN j + 1 ELSE k

(* Moving to the end is a permutation of the places.                       *)
LEMMA DondePermuta ==
    ASSUME NEW n \in Nat, NEW k \in 1 .. n
    PROVE  /\ \A j \in 1 .. n : Donde(k, n, j) \in 1 .. n
           /\ \A i, j \in 1 .. n : i # j => Donde(k, n, i) # Donde(k, n, j)
           /\ \A i \in 1 .. n : \E j \in 1 .. n : Donde(k, n, j) = i
<1>1. \A j \in 1 .. n : Donde(k, n, j) \in 1 .. n
    BY DEF Donde
<1>2. ASSUME NEW i \in 1 .. n, NEW j \in 1 .. n, i < j
      PROVE  Donde(k, n, i) # Donde(k, n, j)
  <2>1. CASE i < k
      BY <1>2, <2>1 DEF Donde
  <2>2. CASE i >= k
      BY <1>2, <2>2 DEF Donde
  <2>3. QED
      BY <2>1, <2>2
<1>3. ASSUME NEW i \in 1 .. n
      PROVE  \E j \in 1 .. n : Donde(k, n, j) = i
  <2>1. CASE i < k
      BY <2>1 DEF Donde
  <2>2. CASE i = k
    <3>1. n \in 1 .. n /\ Donde(k, n, n) = k
        BY DEF Donde
    <3>2. QED
        BY <2>2, <3>1
  <2>3. CASE i > k
    <3>1. i - 1 \in 1 .. n /\ Donde(k, n, i - 1) = i
        BY <2>3 DEF Donde
    <3>2. QED
        BY <3>1
  <2>4. QED
      BY <2>1, <2>2, <2>3
<1>4. ASSUME NEW i \in 1 .. n, NEW j \in 1 .. n, i # j
      PROVE  Donde(k, n, i) # Donde(k, n, j)
  <2>1. i < j \/ j < i
      BY <1>4
  <2>2. QED
      BY <1>2, <2>1
<1>5. QED
    BY <1>1, <1>3, <1>4

(* What is at each place once the k-th element was moved to the end.        *)
LEMMA AlFinalMueve ==
    ASSUME NEW S, orden \in Seq(S), NEW k \in DOMAIN orden
    PROVE  /\ AlFinal(k) \in Seq(S)
           /\ DOMAIN AlFinal(k) = 1 .. Len(orden)
           /\ \A j \in 1 .. Len(orden) :
                AlFinal(k)[j] = orden[Donde(k, Len(orden), j)]
<1> DEFINE n == Len(orden)
           C == RemoveAt(orden, k)
<1>1. n \in Nat /\ k \in 1 .. n /\ DOMAIN orden = 1 .. n
    BY LenProperties
<1>2. /\ C \in Seq(S) /\ Len(C) = n - 1
      /\ \A j \in 1 .. k - 1 : C[j] = orden[j]
      /\ \A j \in k .. n - 1 : C[j] = orden[j + 1]
    BY <1>1, SinElemento DEF Supresion
<1>3. orden[k] \in S
    BY <1>1, ElementOfSeq
<1>4. AlFinal(k) = Append(C, orden[k])
    BY DEF AlFinal
<1> HIDE DEF C
<1>5. C \in Seq(S) /\ Len(C) = n - 1
    BY <1>2
<1>6. /\ Append(C, orden[k]) \in Seq(S)
      /\ Len(Append(C, orden[k])) = n
      /\ \A j \in 1 .. n - 1 : Append(C, orden[k])[j] = C[j]
      /\ Append(C, orden[k])[n] = orden[k]
  <2>1. ASSUME NEW c \in Seq(S), NEW e \in S, Len(c) = n - 1
        PROVE  /\ Append(c, e) \in Seq(S)
               /\ Len(Append(c, e)) = n
               /\ \A j \in 1 .. n - 1 : Append(c, e)[j] = c[j]
               /\ Append(c, e)[n] = e
    <3>1. /\ Append(c, e) \in Seq(S)
          /\ Len(Append(c, e)) = Len(c) + 1
          /\ \A j \in 1 .. Len(c) : Append(c, e)[j] = c[j]
          /\ Append(c, e)[Len(c) + 1] = e
        BY AppendProperties
    <3>2. Len(c) + 1 = n
        BY <1>1, <2>1
    <3>3. QED
        BY <2>1, <3>1, <3>2
  <2>2. QED
      BY <1>3, <1>5, <2>1
<1>7. DOMAIN AlFinal(k) = 1 .. n
    BY <1>1, <1>4, <1>6, LenProperties
<1>8. ASSUME NEW j \in 1 .. n
       PROVE  AlFinal(k)[j] = orden[Donde(k, n, j)]
  <2>1. CASE j < k
    <3>1. j \in 1 .. k - 1 /\ j \in 1 .. n - 1 /\ Donde(k, n, j) = j
        BY <1>1, <2>1 DEF Donde
    <3>2. C[j] = orden[j]
        BY <1>2, <3>1 DEF C
    <3>3. QED
        BY <1>4, <1>6, <3>1, <3>2
  <2>2. CASE k <= j /\ j < n
    <3>1. j \in k .. n - 1 /\ j \in 1 .. n - 1 /\ Donde(k, n, j) = j + 1
        BY <1>1, <2>2 DEF Donde
    <3>2. C[j] = orden[j + 1]
        BY <1>2, <3>1 DEF C
    <3>3. QED
        BY <1>4, <1>6, <3>1, <3>2
  <2>3. CASE j = n
    <3>1. Donde(k, n, j) = k
        BY <1>1, <2>3 DEF Donde
    <3>2. QED
        BY <1>4, <1>6, <2>3, <3>1
  <2>4. j < k \/ (k <= j /\ j < n) \/ j = n
    <3>1. n \in Nat /\ k \in Nat /\ j \in Nat /\ j <= n
        BY <1>1
    <3> HIDE DEF n
    <3>2. QED
        BY <3>1
  <2>5. QED
      BY <2>1, <2>2, <2>3, <2>4
<1>9. QED
    BY <1>4, <1>6, <1>7, <1>8

(* Moving a leaf to the end of the order preserves the invariant.          *)
LEMMA PasoUsar == ASSUME IInv, NEW d \in DIRS, Usar(d) PROVE IInv'
<1> SUFFICES ASSUME NEW k \in DOMAIN orden, orden' = AlFinal(k),
                    UNCHANGED <<hojas, reemplazo, vivos, pedido, raiz, pc, nodo>>
             PROVE  IInv'
    BY DEF Usar
<1> USE DEF IInv
<1>1. orden \in Seq(DOMAIN hojas)
    BY DEF TypeOK
<1> DEFINE n == Len(orden)
           donde(j) == Donde(k, n, j)
<1>2. n \in Nat /\ DOMAIN orden = 1 .. n /\ k \in 1 .. n
    BY <1>1, LenProperties
<1>3. /\ orden' \in Seq(DOMAIN hojas) /\ DOMAIN orden' = 1 .. n
      /\ \A j \in 1 .. n : orden'[j] = orden[donde(j)]
    BY <1>1, AlFinalMueve
<1>4. /\ \A j \in 1 .. n : donde(j) \in 1 .. n
      /\ \A i, j \in 1 .. n : i # j => donde(i) # donde(j)
      /\ \A i \in 1 .. n : \E j \in 1 .. n : donde(j) = i
    BY <1>2, DondePermuta
<1> HIDE DEF donde, n
<1>5. TypeOK'
    BY <1>3 DEF TypeOK, Hoja
<1>6. Teselado'
    BY DEF Teselado, CubreLaMemoria, SinSolapes, DentroDeLaMemoria, Tam
<1>7. OrdenSonLosVivos'
  <2>1. Ocupadas' = Ocupadas
      BY DEF Ocupadas, Libres
  <2>2. \A j \in DOMAIN orden' : orden'[j] \in Ocupadas
      BY <1>2, <1>3, <1>4 DEF OrdenSonLosVivos
  <2>3. \A b \in Ocupadas : \E j \in DOMAIN orden' : orden'[j] = b
    <3> SUFFICES ASSUME NEW b \in Ocupadas
                 PROVE  \E j \in 1 .. n : orden'[j] = b
        BY <1>3
    <3>1. PICK i \in 1 .. n : orden[i] = b
        BY <1>2 DEF OrdenSonLosVivos
    <3>2. PICK j \in 1 .. n : donde(j) = i
        BY <1>4
    <3>3. QED
        BY <1>3, <3>1, <3>2
  <2>4. ASSUME NEW i \in 1 .. n, NEW j \in 1 .. n, i # j
        PROVE  orden'[i] # orden'[j]
    <3>1. /\ orden'[i] = orden[donde(i)] /\ donde(i) \in 1 .. n
          /\ orden'[j] = orden[donde(j)] /\ donde(j) \in 1 .. n
          /\ donde(i) # donde(j)
        BY <1>3, <1>4, <2>4
    <3>2. QED
        BY <1>2, <3>1 DEF OrdenSonLosVivos
  <2>5. QED
      BY <1>3, <2>1, <2>2, <2>3, <2>4 DEF OrdenSonLosVivos
<1>8. PedidoInv'
    BY DEF PedidoInv, Libres
<1>9. QED
    BY <1>5, <1>6, <1>7, <1>8

-----------------------------------------------------------------------------
(* Every step preserves the invariant: one case per action.                *)
LEMMA PasoInv == IInv /\ [Next]_vars => IInv'
<1> SUFFICES ASSUME IInv, [Next]_vars PROVE IInv'
    OBVIOUS
<1>1. ASSUME NEW d \in DIRS, NEW t \in TAMS, Pedir(d, t) PROVE IInv'
    BY <1>1, PasoPedir
<1>2. CASE Asignar
    BY <1>2, PasoAsignar
<1>3. CASE Dividir
    BY <1>3, PasoDividir
<1>4. CASE Desalojar
    BY <1>4, PasoDesalojar
<1>5. CASE DesalojarSinVictima
    BY <1>5, PasoQuieto DEF DesalojarSinVictima
<1>6. CASE MergearPar
    BY <1>6, PasoMergearPar
<1>7. CASE MergearFin
    BY <1>7, PasoQuieto DEF MergearFin
<1>8. ASSUME NEW d \in DIRS, Usar(d) PROVE IInv'
    BY <1>8, PasoUsar
<1>9. CASE UNCHANGED vars
    BY <1>9, PasoQuieto DEF vars
<1>10. QED
    BY <1>1, <1>2, <1>3, <1>4, <1>5, <1>6, <1>7, <1>8, <1>9
       DEF Next, Asignador

(* The invariant holds in every state of every behaviour of the Broker     *)
(* with the buddy system, and each of its parts with it.                   *)
THEOREM Invariante == Spec => []IInv
<1>1. QED
    BY Inicio, PasoInv, PTL DEF Spec

(* Every variable of the buddy system always has its type: the order of    *)
(* eviction only names leaves, a request never asks for a level the tree   *)
(* cannot name.                                                            *)
THEOREM TiposSiempre == Spec => []TypeOK
<1>1. IInv => TypeOK
    BY DEF IInv
<1>2. QED
    BY <1>1, Invariante, PTL

(* buddy_dividir_raiz and buddy_mergear never lose nor share a byte of the *)
(* memory, whatever its size and the order of requests and evictions.      *)
THEOREM TeseladoSiempre == Spec => []Teselado
<1>1. IInv => Teselado
    BY DEF IInv
<1>2. QED
    BY <1>1, Invariante, PTL

(* The victims of FIFO and LRU are always exactly the cached messages, each*)
(* in a leaf of its own: none can be stuck in memory or be evicted twice.  *)
THEOREM OrdenSiempre == Spec => []OrdenSonLosVivos
<1>1. IInv => OrdenSonLosVivos
    BY DEF IInv
<1>2. QED
    BY <1>1, Invariante, PTL

-----------------------------------------------------------------------------
(* Buddy implements Almacen: each step of the Broker is one of the promise *)
(* or changes nothing of what it speaks of.                                *)

(* L gives the bytes that each message of V has in the occupied leaves O.  *)
Sitios(L, h, O, V) ==
    /\ L = [d \in V |-> L[d]]
    /\ \A b \in O : /\ h[b].mensaje \in V
                    /\ L[h[b].mensaje] = [base |-> b, tam |-> POT[h[b].nivel]]
    /\ \A d \in V : \E b \in O : h[b].mensaje = d

(* Lugar is what the leaves of the tree say.                               *)
LugarBien == Sitios(Lugar, hojas, Ocupadas, vivos)

(* Under the invariant each cached message has the bytes of its leaf.      *)
LEMMA LugarEs == IInv => LugarBien
<1> SUFFICES ASSUME IInv PROVE LugarBien
    OBVIOUS
<1>1. {hojas[b].mensaje : b \in Ocupadas} = vivos
    BY DEF IInv, OrdenSonLosVivos
<1>2. Lugar = [d \in vivos |-> [base |-> DondeEsta(d), tam |-> Tam(DondeEsta(d))]]
    BY <1>1 DEF Lugar
<1>3. ASSUME NEW b \in Ocupadas
      PROVE  /\ hojas[b].mensaje \in vivos
             /\ Lugar[hojas[b].mensaje] = [base |-> b, tam |-> POT[hojas[b].nivel]]
  <2>1. \A a \in Ocupadas : hojas[a].mensaje = hojas[b].mensaje => a = b
      BY DEF IInv, OrdenSonLosVivos
  <2>2. DondeEsta(hojas[b].mensaje) = b
      BY <2>1 DEF DondeEsta
  <2>3. QED
      BY <1>1, <1>2, <2>2 DEF Tam
<1>4. \A d \in vivos : \E b \in Ocupadas : hojas[b].mensaje = d
    BY <1>1
<1>5. Lugar = [d \in vivos |-> Lugar[d]]
    BY <1>2
<1>6. QED
    BY <1>3, <1>4, <1>5 DEF LugarBien, Sitios

(* The same of the state after a step.                                     *)
LEMMA LugarEsDespues == IInv' => LugarBien'
BY LugarEs, PTL

(* A message whose leaf stays as it is has the same bytes.                 *)
LEMMA SitioIgual ==
    ASSUME NEW L, NEW h, NEW O, NEW V, Sitios(L, h, O, V),
           NEW M, NEW i, NEW P, NEW W, Sitios(M, i, P, W),
           NEW d \in V, \A b \in O : h[b].mensaje = d => b \in P /\ i[b] = h[b]
    PROVE  M[d] = L[d]
<1>1. PICK b \in O : h[b].mensaje = d
    BY DEF Sitios
<1>2. L[d] = [base |-> b, tam |-> POT[h[b].nivel]]
    BY <1>1 DEF Sitios
<1>3. b \in P /\ i[b] = h[b]
    BY <1>1
<1>4. M[i[b].mensaje] = [base |-> b, tam |-> POT[i[b].nivel]]
    BY <1>3 DEF Sitios
<1>5. QED
    BY <1>1, <1>2, <1>3, <1>4

(* A step that leaves the occupied leaves alone moves nobody.              *)
LEMMA NadieSeMueve ==
    ASSUME IInv, IInv', vivos' = vivos,
           \A b \in Ocupadas : b \in Ocupadas' /\ hojas'[b] = hojas[b]
    PROVE  Lugar' = Lugar
<1> DEFINE L == Lugar
           M == Lugar'
<1>1. /\ Sitios(L, hojas, Ocupadas, vivos)
      /\ Sitios(M, hojas', Ocupadas', vivos)
    BY LugarEs, LugarEsDespues DEF LugarBien
<1> HIDE DEF L, M
<1>2. \A d \in vivos : M[d] = L[d]
    BY <1>1, SitioIgual
<1>3. M = L
    BY <1>1, <1>2 DEF Sitios
<1>4. QED
    BY <1>3 DEF L, M

(* The bytes of the leaves lie in the memory, and none is of two.          *)
LEMMA SitioPropio ==
    ASSUME IInv, NEW b \in DOMAIN hojas,
           NEW r, r = [base |-> b, tam |-> Tam(b)]
    PROVE  /\ r \in A!Rango /\ r.base + r.tam <= MEM_SIZE
           /\ \A a \in DOMAIN hojas \ {b} :
                A!Disjuntos(r, [base |-> a, tam |-> Tam(a)])
<1>1. /\ \A a \in DOMAIN hojas : a \in Nat /\ Tam(a) \in Nat /\ Tam(a) > 0
      /\ MEM_SIZE \in Nat
    BY Tamanios, Mitades, PotAssumption DEF IInv, MEM_SIZE
<1>2. b + Tam(b) <= MEM_SIZE
    BY DEF IInv, Teselado, DentroDeLaMemoria
<1>3. b \in 0 .. MEM_SIZE /\ Tam(b) \in 1 .. MEM_SIZE
    BY <1>1, <1>2
<1>4. ASSUME NEW a \in DOMAIN hojas \ {b}
      PROVE  A!Disjuntos(r, [base |-> a, tam |-> Tam(a)])
  <2>1. (a < b => a + Tam(a) <= b) /\ (b < a => b + Tam(b) <= a)
      BY DEF IInv, Teselado, SinSolapes
  <2>2. a < b \/ b < a
      BY <1>1
  <2>3. QED
      BY <2>1, <2>2 DEF A!Disjuntos
<1>5. QED
    BY <1>2, <1>3, <1>4 DEF A!Rango

(* Asignar is Guardar.                                                     *)
LEMMA AsignarEsGuardar ==
    ASSUME IInv, IInv', Asignar PROVE \E d \in DIRS : A!Guardar(d)
<1>1. PICK b \in DOMAIN hojas :
        /\ pc = "buscar" /\ Sirve(b)
        /\ hojas' = [hojas EXCEPT ![b].libre = FALSE, ![b].mensaje = pedido.dir]
        /\ vivos' = vivos \union {pedido.dir}
    BY DEF Asignar
<1> DEFINE d == pedido.dir
           L == Lugar
           M == Lugar'
           r == [base |-> b, tam |-> Tam(b)]
<1>2. b \in Libres /\ d \in DIRS /\ d \notin vivos
    BY <1>1 DEF Sirve, PrimeraDe, DeNivel, IInv, PedidoInv
<1>3. /\ DOMAIN hojas' = DOMAIN hojas
      /\ \A a \in DOMAIN hojas \ {b} : hojas'[a] = hojas[a]
      /\ ~hojas'[b].libre /\ hojas'[b].mensaje = d
      /\ hojas'[b].nivel = hojas[b].nivel
  <2>1. /\ hojas = [a \in DOMAIN hojas |-> hojas[a]]
        /\ hojas[b] \in Hoja
      BY <1>1 DEF IInv, TypeOK
  <2>2. /\ DOMAIN hojas' = DOMAIN hojas
        /\ \A a \in DOMAIN hojas \ {b} : hojas'[a] = hojas[a]
        /\ hojas'[b] = [hojas[b] EXCEPT !.libre = FALSE, !.mensaje = d]
      BY <1>1, <2>1
  <2>3. QED
      BY <2>1, <2>2 DEF Hoja
<1>4. Ocupadas' = Ocupadas \union {b} /\ b \notin Ocupadas
    BY <1>2, <1>3 DEF Ocupadas, Libres
<1>5. /\ Sitios(L, hojas, Ocupadas, vivos)
      /\ Sitios(M, hojas', Ocupadas', vivos \union {d})
    BY <1>1, LugarEs, LugarEsDespues DEF LugarBien
<1>6. M[d] = r
    BY <1>3, <1>4, <1>5 DEF Sitios, Tam
<1>7. \A a \in Ocupadas : a \in Ocupadas' /\ hojas'[a] = hojas[a]
    BY <1>3, <1>4 DEF Ocupadas
<1>8. /\ r \in A!Rango /\ r.base + r.tam <= MEM_SIZE
      /\ \A a \in DOMAIN hojas \ {b} :
           A!Disjuntos(r, [base |-> a, tam |-> Tam(a)])
    BY SitioPropio
<1> HIDE DEF L, M, d, r
<1>9. \A x \in vivos : M[x] = L[x]
    BY <1>5, <1>7, SitioIgual
<1>10. DOMAIN L = vivos /\ M = [x \in vivos \union {d} |-> M[x]]
    BY <1>5 DEF Sitios
<1>11. M = [x \in DOMAIN L \union {d} |-> IF x = d THEN r ELSE L[x]]
    BY <1>2, <1>6, <1>9, <1>10
<1>12. ASSUME NEW x \in vivos PROVE A!Disjuntos(r, L[x])
  <2>1. PICK a \in Ocupadas : hojas[a].mensaje = x
      BY <1>5 DEF Sitios
  <2>2. L[x] = [base |-> a, tam |-> Tam(a)]
      BY <1>5, <2>1 DEF Sitios, Tam
  <2>3. a \in DOMAIN hojas \ {b}
      BY <1>4, <2>1 DEF Ocupadas
  <2>4. QED
      BY <1>8, <2>2, <2>3
<1>13. A!Libre(r, A!Ajenos(d))
    BY <1>8, <1>10, <1>12 DEF A!Libre, A!Ajenos, L
<1>14. d \notin DOMAIN L
    BY <1>2, <1>10 DEF d
<1>15. A!Guardar(d)
    BY <1>8, <1>11, <1>13, <1>14 DEF A!Guardar, L, M
<1>16. QED
    BY <1>2, <1>15

(* Desalojar is Borrar.                                                    *)
LEMMA DesalojarEsBorrar ==
    ASSUME IInv, IInv', Desalojar PROVE \E d \in DIRS : A!Borrar(d)
<1>1. PICK v \in DOMAIN hojas :
        /\ orden # << >> /\ v = Head(orden)
        /\ vivos' = vivos \ {hojas[v].mensaje}
        /\ hojas' = [hojas EXCEPT ![v].libre = TRUE]
    BY DEF Desalojar, Victima
<1> DEFINE d == hojas[v].mensaje
           L == Lugar
           M == Lugar'
<1>2. v \in Ocupadas
    BY <1>1, HeadTailProperties DEF IInv, TypeOK, OrdenSonLosVivos
<1>3. /\ DOMAIN hojas' = DOMAIN hojas
      /\ \A a \in DOMAIN hojas \ {v} : hojas'[a] = hojas[a]
      /\ hojas'[v].libre
  <2>1. /\ hojas = [a \in DOMAIN hojas |-> hojas[a]]
        /\ hojas[v] \in Hoja
      BY <1>1 DEF IInv, TypeOK
  <2>2. /\ DOMAIN hojas' = DOMAIN hojas
        /\ \A a \in DOMAIN hojas \ {v} : hojas'[a] = hojas[a]
        /\ hojas'[v] = [hojas[v] EXCEPT !.libre = TRUE]
      BY <1>1, <2>1
  <2>3. QED
      BY <2>1, <2>2 DEF Hoja
<1>4. Ocupadas' = Ocupadas \ {v}
    BY <1>3 DEF Ocupadas, Libres
<1>5. /\ Sitios(L, hojas, Ocupadas, vivos)
      /\ Sitios(M, hojas', Ocupadas', vivos \ {d})
    BY <1>1, LugarEs, LugarEsDespues DEF LugarBien
<1>6. \A a \in Ocupadas' : a \in Ocupadas /\ hojas'[a] = hojas[a]
    BY <1>3, <1>4 DEF Ocupadas
<1>7. d \in vivos /\ d \in DIRS
    BY <1>2, <1>5 DEF Sitios, IInv, TypeOK
<1> HIDE DEF L, M, d
<1>8. ASSUME NEW x \in vivos \ {d} PROVE M[x] = L[x]
  <2>1. PICK a \in Ocupadas' : hojas'[a].mensaje = x
      BY <1>5 DEF Sitios
  <2>2. a \in Ocupadas /\ hojas'[a] = hojas[a]
      BY <1>6, <2>1
  <2>3. L[x] = [base |-> a, tam |-> POT[hojas[a].nivel]]
      BY <1>5, <2>1, <2>2 DEF Sitios
  <2>4. M[hojas'[a].mensaje] = [base |-> a, tam |-> POT[hojas'[a].nivel]]
      BY <1>5, <2>1 DEF Sitios
  <2>5. QED
      BY <2>1, <2>2, <2>3, <2>4
<1>9. DOMAIN L = vivos /\ M = [x \in vivos \ {d} |-> M[x]]
    BY <1>5 DEF Sitios
<1>10. M = [x \in DOMAIN L \ {d} |-> L[x]]
    BY <1>8, <1>9
<1>11. A!Borrar(d)
    BY <1>7, <1>9, <1>10 DEF A!Borrar, L, M
<1>12. QED
    BY <1>7, <1>11

(* Every step of the Broker is a step of the promise.                      *)
LEMMA PasoAlmacen ==
    ASSUME IInv, IInv', [Next]_vars PROVE [A!NextAlmacen]_Lugar
<1>1. CASE Asignar
    BY <1>1, AsignarEsGuardar DEF A!NextAlmacen
<1>2. CASE Desalojar
    BY <1>2, DesalojarEsBorrar DEF A!NextAlmacen
<1>3. CASE Dividir
  <2>1. PICK b \in DOMAIN hojas :
          ADividir(b) /\ hojas' = Dividida(b, hojas[b].nivel - 1) /\ vivos' = vivos
      BY <1>3 DEF Dividir
  <2>2. PICK l, c : EsDivision(hojas, hojas', b, c, l)
      BY <2>1, AlDividir
  <2>3. \A a \in Ocupadas : a \in Ocupadas' /\ hojas'[a] = hojas[a]
      BY <2>2 DEF EsDivision, Ocupadas, Libres
  <2>4. QED
      BY <2>1, <2>3, NadieSeMueve
<1>4. CASE MergearPar
  <2>1. PICK izq, der, l : EsUnion(hojas, hojas', izq, der, l)
      BY <1>4, AlUnir
  <2>2. \A a \in Ocupadas : a \in Ocupadas' /\ hojas'[a] = hojas[a]
      BY <2>1 DEF EsUnion, Ocupadas, Libres
  <2>3. vivos' = vivos
      BY <1>4 DEF MergearPar
  <2>4. QED
      BY <2>2, <2>3, NadieSeMueve
<1>5. ASSUME UNCHANGED <<hojas, vivos>> PROVE Lugar' = Lugar
    BY <1>5, NadieSeMueve DEF Ocupadas, Libres
<1>6. ASSUME NEW d \in DIRS, NEW t \in TAMS, Pedir(d, t) PROVE Lugar' = Lugar
    BY <1>5, <1>6 DEF Pedir
<1>7. ASSUME NEW d \in DIRS, Usar(d) PROVE Lugar' = Lugar
    BY <1>5, <1>7 DEF Usar
<1>8. CASE DesalojarSinVictima \/ MergearFin \/ UNCHANGED vars
    BY <1>5, <1>8 DEF DesalojarSinVictima, MergearFin, vars
<1>9. QED
    BY <1>1, <1>2, <1>3, <1>4, <1>6, <1>7, <1>8 DEF Next, Asignador

(* At first nobody has a byte.                                             *)
LEMMA InicioAlmacen == ASSUME Init PROVE A!InitAlmacen
<1>1. Ocupadas = {}
    BY DEF Init, Ocupadas, Libres, Nueva
<1>2. QED
    BY <1>1 DEF A!InitAlmacen, Lugar

(* The buddy system keeps the promise of the memory, step by step: a       *)
(* message gets bytes of nobody and keeps them, whatever leaves are divided*)
(* and merged around it, until it is evicted.                              *)
THEOREM Refinamiento == Spec => EsUnAlmacen
<1>1. Init => A!InitAlmacen
    BY InicioAlmacen
<1>2. IInv /\ IInv' /\ [Next]_vars => [A!NextAlmacen]_Lugar
    BY PasoAlmacen
<1>3. QED
    BY <1>1, <1>2, Invariante, PTL DEF Spec, EsUnAlmacen, A!AlmacenSpec
=============================================================================
