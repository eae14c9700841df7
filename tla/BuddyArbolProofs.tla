--------------------------- MODULE BuddyArbolProofs ---------------------------
(***************************************************************************)
(* More proofs about Buddy: where the leaves may start, which free leaves  *)
(* may be buddies, where a request divides, and why there is always a      *)
(* victim for a message that fits.                                         *)
(***************************************************************************)
EXTENDS BuddyProofs

(* b is a multiple of t.                                                   *)
Multiplo(b, t) == \E q \in Nat : b = q * t

(* A leaf starts at a multiple of its size, as a node of a binary tree.    *)
Alineadas == \A b \in DOMAIN hojas : Multiplo(b, Tam(b))

(* a is a free left child and its buddy is a free leaf.                    *)
ParLibre(a) ==
    /\ a \in Libres /\ a + Tam(a) \in Libres
    /\ hojas[a + Tam(a)].nivel = hojas[a].nivel
    /\ hojas[a].nivel < NIVELES
    /\ Multiplo(a, Tam(a) + Tam(a))

(* The only free buddies are the ones of the last division, until the      *)
(* request is stored in one of them, or the leaf that is being merged and  *)
(* its buddy.                                                              *)
ParesInv ==
    \A a \in Libres : ParLibre(a) =>
      /\ pc # "ocioso"
      /\ pc = "buscar" => raiz # ARBOL /\ a = raiz.base
      /\ pc = "mergear" => nodo \in {a, a + Tam(a)}

(* A request that did not divide searches in the whole tree. One that did  *)
(* searches from a free leaf, not smaller than it needs, and the first of  *)
(* the smallest ones larger than that.                                     *)
RaizInv ==
    /\ pc = "mergear" => raiz = ARBOL
    /\ pc = "buscar" /\ raiz # ARBOL =>
         /\ raiz.base \in Libres /\ raiz.nivel = hojas[raiz.base].nivel
         /\ raiz.nivel < NIVELES /\ pedido.nivel <= raiz.nivel
         /\ \A k \in pedido.nivel + 1 .. raiz.nivel - 1 : DeNivel(k, ARBOL) = {}
         /\ pedido.nivel < raiz.nivel =>
              PrimeraDe(DeNivel(raiz.nivel, ARBOL), raiz.base)

(* The inductive invariant: the tiling, the alignment, the free pairs,     *)
(* the root of the search and the fall that never comes.                   *)
ArbolInv == IInv /\ Alineadas /\ ParesInv /\ RaizInv /\ SinCaida

-----------------------------------------------------------------------------
(* Arithmetic of multiples.                                                *)

(* A number of copies of two halves is twice as many halves.               *)
LEMMA Mezcla ==
    ASSUME NEW q \in Nat, NEW r \in Nat, NEW t \in Nat
    PROVE  q * (r * t) = (q * r) * t /\ q * (t + t) = (q + q) * t
OBVIOUS

(* A number is even or odd, and % says which.                              *)
LEMMA Paridad ==
    ASSUME NEW q \in Nat
    PROVE  \E h \in Nat : \/ q = h + h /\ q % 2 = 0
                          \/ q = h + h + 1 /\ q % 2 = 1
<1>1. q \div 2 \in Nat /\ q = 2 * (q \div 2) + (q % 2) /\ q % 2 \in 0 .. 1
    OBVIOUS
<1>2. \A h \in Nat, m \in 0 .. 1 : q = 2 * h + m =>
        (m = 0 /\ q = h + h) \/ (m = 1 /\ q = h + h + 1)
    OBVIOUS
<1>3. QED
    BY <1>1, <1>2

(* Different multiples of t are t apart.                                   *)
LEMMA Apartados ==
    ASSUME NEW t \in Nat \ {0}, NEW a \in Nat, NEW b \in Nat,
           Multiplo(a, t), Multiplo(b, t), a < b
    PROVE  a + t <= b
<1>1. PICK p \in Nat : a = p * t
    BY DEF Multiplo
<1>2. PICK q \in Nat : b = q * t
    BY DEF Multiplo
<1>3. ASSUME NEW p0 \in Nat, NEW q0 \in Nat, p0 * t < q0 * t
      PROVE  p0 * t + t <= q0 * t
  <2>1. p0 < q0
      BY <1>3
  <2>2. QED
      BY <2>1
<1>4. QED
    BY <1>1, <1>2, <1>3

(* Multiples of multiples, and sums of multiples, are multiples.           *)
LEMMA Transitivo ==
    ASSUME NEW t \in Nat, NEW u \in Nat, NEW b, Multiplo(b, u), Multiplo(u, t)
    PROVE  Multiplo(b, t)
<1>1. PICK q \in Nat : b = q * u
    BY DEF Multiplo
<1>2. PICK r \in Nat : u = r * t
    BY DEF Multiplo
<1>3. b = (q * r) * t /\ q * r \in Nat
    BY <1>1, <1>2, Mezcla
<1>4. QED
    BY <1>3 DEF Multiplo

(* The sum of two multiples is a multiple.                                 *)
LEMMA SumaMultiplos ==
    ASSUME NEW t \in Nat, NEW a, NEW b, Multiplo(a, t), Multiplo(b, t)
    PROVE  Multiplo(a + b, t)
<1>1. PICK q \in Nat : a = q * t
    BY DEF Multiplo
<1>2. PICK r \in Nat : b = r * t
    BY DEF Multiplo
<1>3. a + b = (q + r) * t /\ q + r \in Nat
    BY <1>1, <1>2
<1>4. QED
    BY <1>3 DEF Multiplo

(* Two halves make a whole, and a whole plus a half is no multiple of it.  *)
LEMMA Doblado == ASSUME NEW t \in Nat PROVE Multiplo(t + t, t) /\ Multiplo(t, t)
<1>1. t + t = 2 * t /\ t = 1 * t
    OBVIOUS
<1>2. QED
    BY <1>1 DEF Multiplo

(* A multiple of two halves and one half more is no multiple of the two.   *)
LEMMA Impar ==
    ASSUME NEW t \in Nat \ {0}, NEW a, Multiplo(a, t + t)
    PROVE  ~Multiplo(a + t, t + t)
<1>1. PICK r \in Nat : a = r * (t + t)
    BY DEF Multiplo
<1>2. ASSUME NEW q \in Nat, NEW r0 \in Nat
      PROVE  q * (t + t) # r0 * (t + t) + t
    OBVIOUS
<1>3. QED
    BY <1>1, <1>2 DEF Multiplo

(* What Companiero looks at: which child a multiple of the size is.        *)
LEMMA Hijo ==
    ASSUME NEW t \in Nat \ {0}, NEW b, Multiplo(b, t)
    PROVE  /\ (b \div t) % 2 = 0 => Multiplo(b, t + t)
           /\ (b \div t) % 2 # 0 => b - t \in Nat /\ Multiplo(b - t, t + t)
<1>1. PICK q \in Nat : b = q * t
    BY DEF Multiplo
<1>2. b \div t = q
  <2>1. ASSUME NEW q0 \in Nat PROVE (q0 * t) \div t = q0
      OBVIOUS
  <2>2. QED
      BY <1>1, <2>1
<1>3. PICK h \in Nat : \/ q = h + h /\ q % 2 = 0
                       \/ q = h + h + 1 /\ q % 2 = 1
    BY Paridad
<1>4. h * (t + t) = (h + h) * t /\ h * (t + t) \in Nat
    BY Mezcla
<1>5. CASE q = h + h /\ q % 2 = 0
    BY <1>1, <1>2, <1>4, <1>5 DEF Multiplo
<1>6. CASE q = h + h + 1 /\ q % 2 = 1
  <2>1. (h + h + 1) * t = (h + h) * t + t
      OBVIOUS
  <2>2. b - t = h * (t + t)
      BY <1>1, <1>4, <1>6, <2>1
  <2>3. QED
      BY <1>2, <1>4, <1>6, <2>2 DEF Multiplo
<1>7. QED
    BY <1>3, <1>5, <1>6

(* Two children of the same parent are its left one and its right one.     *)
LEMMA MismoPadre ==
    ASSUME NEW t \in Nat \ {0}, NEW x \in Nat, NEW y \in Nat,
           Multiplo(x, t), Multiplo(y, t), x + t <= y,
           x \div (2 * t) = y \div (2 * t)
    PROVE  Multiplo(x, t + t) /\ y = x + t
<1> DEFINE w == 2 * t
           k == x \div w
<1>1. w \in Nat \ {0} /\ w = t + t
    OBVIOUS
<1> HIDE DEF w
<1>2. ASSUME NEW z \in Nat
      PROVE  z \div w \in Nat /\ w * (z \div w) <= z /\ z < w * (z \div w) + w
    BY <1>1
<1>3. k \in Nat /\ w * k <= x /\ y < w * k + w
    BY <1>2 DEF w
<1> HIDE DEF k
<1>4. Multiplo(w * k, t + t) /\ Multiplo(w * k + w, t + t) /\ w * k \in Nat
  <2>1. k \in Nat /\ k + 1 \in Nat
      BY <1>3
  <2>2. w * k = k * (t + t) /\ w * k + w = (k + 1) * (t + t) /\ w * k \in Nat
      BY <1>1, <1>3
  <2>3. Multiplo(k * (t + t), t + t) /\ Multiplo((k + 1) * (t + t), t + t)
      BY <2>1 DEF Multiplo
  <2>4. QED
      BY <2>2, <2>3
<1>5. Multiplo(w * k, t) /\ Multiplo(w * k + w, t)
    BY <1>1, <1>4, Doblado, Transitivo
<1>6. x = w * k
  <2>1. w * k < x => w * k + t <= x
      BY <1>4, <1>5, Apartados
  <2>2. QED
      BY <1>1, <1>3, <1>4, <2>1
<1>7. y + t <= w * k + w
    BY <1>1, <1>3, <1>4, <1>5, Apartados
<1>8. QED
    BY <1>1, <1>4, <1>6, <1>7

(* The size of a level is a multiple of twice the size of a lower one: the *)
(* first that were not would follow one that is.                           *)
LEMMA NivelesMultiplos ==
    ASSUME NEW l \in 0 .. NIVELES, NEW m \in 0 .. NIVELES, l < m
    PROVE  Multiplo(POT[m], POT[l] + POT[l])
<1> DEFINE D == POT[l] + POT[l]
           S == {n \in Nat : l < n /\ n <= NIVELES /\ ~Multiplo(POT[n], D)}
<1>0. NIVELES \in Nat /\ D \in Nat /\ POT[l] \in Nat
    BY Mitades, PotAssumption
<1>1. SUFFICES ASSUME S # {} PROVE FALSE
  <2>1. m \in Nat /\ m <= NIVELES
      BY <1>0
  <2>2. QED
      BY <2>1
<1>2. PICK n \in S : \A k \in S : n <= k
  <2>1. S \in SUBSET Nat
      OBVIOUS
  <2> HIDE DEF S
  <2>2. QED
      BY <1>1, <2>1, MinimoNat
<1>3. n - 1 \in 0 .. NIVELES - 1 /\ (n - 1) + 1 = n
    BY <1>0, <1>2
<1>4. POT[n] = POT[n - 1] + POT[n - 1]
    BY <1>3, Doble
<1>5. CASE n - 1 = l
  <2>1. POT[n] = D
      BY <1>4, <1>5
  <2>2. QED
      BY <1>0, <1>2, <2>1, Doblado
<1>6. CASE n - 1 # l
  <2>1. n - 1 \notin S /\ n - 1 \in Nat /\ l < n - 1 /\ n - 1 <= NIVELES
      BY <1>0, <1>2, <1>3, <1>6
  <2>2. Multiplo(POT[n - 1], D)
      BY <2>1
  <2>3. Multiplo(POT[n], D)
      BY <1>0, <1>4, <2>2, SumaMultiplos
  <2>4. QED
      BY <1>2, <2>3
<1>7. QED
    BY <1>5, <1>6

-----------------------------------------------------------------------------
(* Buddies.                                                                *)

(* The buddy is the right child of a left one and the left of a right one. *)
LEMMA ElCompaniero ==
    ASSUME TypeOK, Alineadas, NEW b \in DOMAIN hojas
    PROVE  \/ /\ Companiero(b) = b + Tam(b)
              /\ Multiplo(b, Tam(b) + Tam(b))
           \/ /\ Companiero(b) = b - Tam(b) /\ b - Tam(b) \in Nat
              /\ Multiplo(b - Tam(b), Tam(b) + Tam(b))
<1>1. Tam(b) \in Nat \ {0} /\ Multiplo(b, Tam(b))
    BY Tamanios DEF Alineadas
<1>2. /\ (b \div Tam(b)) % 2 = 0 => Multiplo(b, Tam(b) + Tam(b))
      /\ (b \div Tam(b)) % 2 # 0 =>
           b - Tam(b) \in Nat /\ Multiplo(b - Tam(b), Tam(b) + Tam(b))
    BY <1>1, Hijo
<1>3. QED
    BY <1>2 DEF Companiero

(* buddy_mergear joins the free buddies it is called with.                 *)
LEMMA ParPuedeMergear ==
    ASSUME TypeOK, Alineadas, NEW a, ParLibre(a), NEW b \in {a, a + Tam(a)}
    PROVE  PuedeMergear(b)
<1> DEFINE t == Tam(a)
<1>1. /\ a \in DOMAIN hojas /\ a + t \in DOMAIN hojas
      /\ a \in Libres /\ a + t \in Libres
      /\ hojas[a + t].nivel = hojas[a].nivel /\ hojas[a].nivel # NIVELES
      /\ Multiplo(a, t + t)
  <2>1. hojas[a].nivel < NIVELES => hojas[a].nivel # NIVELES
      BY PotAssumption
  <2>2. QED
      BY <2>1 DEF ParLibre, Libres
<1>2. a \in Nat /\ t \in Nat \ {0}
    BY <1>1, Tamanios
<1>3. Tam(a + t) = t
    BY <1>1 DEF Tam
<1> HIDE DEF t
<1>4. ~Multiplo(a + t, t + t)
    BY <1>1, <1>2, Impar
<1>5. CASE b = a
  <2>1. Tam(b) = t
      BY <1>5 DEF t
  <2>2. Companiero(b) = a + t
    <3>1. CASE b - t \in Nat /\ Multiplo(b - t, t + t)
      <4>1. ~Multiplo((b - t) + t, t + t)
          BY <1>2, <3>1, Impar
      <4>2. (b - t) + t = a
          BY <1>2, <1>5
      <4>3. QED
          BY <1>1, <4>1, <4>2
    <3>2. QED
        BY <1>1, <1>5, <2>1, <3>1, ElCompaniero
  <2>3. QED
      BY <1>1, <1>5, <2>2 DEF PuedeMergear
<1>6. CASE b = a + t
  <2>1. Tam(b) = t
      BY <1>3, <1>6
  <2>2. Companiero(b) = b - t /\ b - t = a
      BY <1>1, <1>2, <1>4, <1>6, <2>1, ElCompaniero
  <2>3. QED
      BY <1>1, <1>6, <2>2 DEF PuedeMergear
<1>7. QED
    BY <1>5, <1>6 DEF t

(* The sizes and the free leaves before and after a division.              *)
TrasDividir(b, c, l) ==
    /\ POT[l] \in Nat \ {0} /\ b \in Nat /\ c \in Nat /\ c = b + POT[l]
    /\ b \in Libres /\ b \in DOMAIN hojas /\ Tam(b) = POT[l] + POT[l]
    /\ Tam(b)' = POT[l] /\ Tam(c)' = POT[l]
    /\ hojas'[b].nivel = l /\ hojas'[c].nivel = l
    /\ DOMAIN hojas' = DOMAIN hojas \union {c}
    /\ c \notin DOMAIN hojas
    /\ Libres' = Libres \union {c}
    /\ \A a \in DOMAIN hojas \ {b} : Tam(a)' = Tam(a) /\ hojas'[a] = hojas[a]

(* What buddy_dividir_raiz does to the sizes and to the free leaves.       *)
LEMMA TamDivision ==
    ASSUME TypeOK, NEW b, NEW c, NEW l, EsDivision(hojas, hojas', b, c, l)
    PROVE  TrasDividir(b, c, l)
<1>1. /\ b \in DOMAIN hojas /\ hojas[b].libre /\ hojas[b].nivel = l + 1
      /\ b \in Nat /\ c \in Nat /\ c \notin DOMAIN hojas
      /\ l \in 0 .. NIVELES - 1 /\ c = b + POT[l]
      /\ DOMAIN hojas' = DOMAIN hojas \union {c}
      /\ \A a \in DOMAIN hojas \ {b} : hojas'[a] = hojas[a]
      /\ hojas'[b] = Nueva(l) /\ hojas'[c] = Nueva(l)
    BY DEF EsDivision
<1>2. POT[l + 1] = POT[l] + POT[l]
    BY <1>1, Doble
<1>3. POT[l] \in Nat \ {0}
    BY <1>1, Mitades, PotAssumption
<1>4. /\ hojas'[b].nivel = l /\ hojas'[c].nivel = l
      /\ hojas'[b].libre /\ hojas'[c].libre
    BY <1>1 DEF Nueva
<1>5. /\ Tam(b) = POT[l] + POT[l] /\ Tam(b)' = POT[l] /\ Tam(c)' = POT[l]
      /\ \A a \in DOMAIN hojas \ {b} : Tam(a)' = Tam(a)
    BY <1>1, <1>2, <1>4 DEF Tam
<1>6. b \in Libres /\ Libres' = Libres \union {c}
    BY <1>1, <1>4 DEF Libres
<1>7. QED
    BY <1>1, <1>3, <1>4, <1>5, <1>6 DEF TrasDividir

(* The sizes and the free leaves before and after a merge.                 *)
TrasUnir(i, d, l) ==
    /\ POT[l] \in Nat \ {0} /\ i \in Nat /\ d = i + POT[l]
    /\ i \in Libres /\ d \in Libres /\ l \in 0 .. NIVELES - 1
    /\ i \in DOMAIN hojas /\ d \in DOMAIN hojas
    /\ hojas[i].nivel = l /\ hojas[d].nivel = l
    /\ Tam(i) = POT[l] /\ Tam(d) = POT[l] /\ Tam(i)' = POT[l] + POT[l]
    /\ DOMAIN hojas' = DOMAIN hojas \ {d} /\ i \in DOMAIN hojas'
    /\ Libres' = Libres \ {d}
    /\ \A a \in DOMAIN hojas \ {i, d} : Tam(a)' = Tam(a) /\ hojas'[a] = hojas[a]

(* What a merge of two buddies does to the sizes and to the free leaves.   *)
LEMMA TamUnion ==
    ASSUME TypeOK, NEW i, NEW d, NEW l, EsUnion(hojas, hojas', i, d, l)
    PROVE  TrasUnir(i, d, l)
<1>1. /\ i \in DOMAIN hojas /\ d \in DOMAIN hojas
      /\ hojas[i].libre /\ hojas[d].libre
      /\ hojas[i].nivel = l /\ hojas[d].nivel = l /\ l \in 0 .. NIVELES - 1
      /\ i \in Nat /\ d = i + POT[l]
      /\ DOMAIN hojas' = DOMAIN hojas \ {d}
      /\ i \in DOMAIN hojas' /\ hojas'[i] = Nueva(l + 1)
      /\ \A a \in DOMAIN hojas \ {i, d} : hojas'[a] = hojas[a]
    BY DEF EsUnion
<1>2. POT[l + 1] = POT[l] + POT[l]
    BY <1>1, Doble
<1>3. POT[l] \in Nat \ {0}
    BY <1>1, Mitades, PotAssumption
<1>4. hojas'[i].nivel = l + 1 /\ hojas'[i].libre
    BY <1>1 DEF Nueva
<1>5. /\ Tam(i) = POT[l] /\ Tam(d) = POT[l] /\ Tam(i)' = POT[l] + POT[l]
      /\ \A a \in DOMAIN hojas \ {i, d} : Tam(a)' = Tam(a)
    BY <1>1, <1>2, <1>4 DEF Tam
<1>6. i \in Libres /\ d \in Libres /\ Libres' = Libres \ {d}
    BY <1>1, <1>4 DEF Libres
<1>7. QED
    BY <1>1, <1>3, <1>5, <1>6 DEF TrasUnir

-----------------------------------------------------------------------------
(* Alineadas.                                                              *)

(* Steps that touch no level leave the leaves where they may be.           *)
LEMMA MismaForma ==
    ASSUME DOMAIN hojas' = DOMAIN hojas,
           \A a \in DOMAIN hojas : hojas'[a].nivel = hojas[a].nivel
    PROVE  /\ \A a \in DOMAIN hojas : Tam(a)' = Tam(a)
           /\ Alineadas => Alineadas'
<1>1. \A a \in DOMAIN hojas : Tam(a)' = Tam(a)
    BY DEF Tam
<1>2. QED
    BY <1>1 DEF Alineadas

(* The halves of a node start at multiples of half its size.               *)
LEMMA AlineadasDividir ==
    ASSUME TypeOK, Alineadas, NEW b, NEW c, NEW l,
           EsDivision(hojas, hojas', b, c, l)
    PROVE  Alineadas'
<1> DEFINE t == POT[l]
<1>1. /\ t \in Nat \ {0} /\ b \in Nat /\ c = b + t /\ b \in DOMAIN hojas
      /\ Tam(b) = t + t /\ Tam(b)' = t /\ Tam(c)' = t
      /\ DOMAIN hojas' = DOMAIN hojas \union {c}
      /\ \A a \in DOMAIN hojas \ {b} : Tam(a)' = Tam(a)
    BY TamDivision DEF TrasDividir
<1> HIDE DEF t
<1>2. Multiplo(t + t, t) /\ Multiplo(t, t)
    BY <1>1, Doblado
<1>3. Multiplo(b, t + t)
    BY <1>1 DEF Alineadas
<1>4. Multiplo(b, t)
    BY <1>1, <1>2, <1>3, Transitivo
<1>5. Multiplo(c, t)
    BY <1>1, <1>2, <1>4, SumaMultiplos
<1>6. ASSUME NEW a \in DOMAIN hojas' PROVE Multiplo(a, Tam(a)')
  <2>1. CASE a \in {b, c}
      BY <1>1, <1>4, <1>5, <2>1
  <2>2. CASE a \in DOMAIN hojas \ {b}
      BY <1>1, <2>2 DEF Alineadas
  <2>3. QED
      BY <1>1, <2>1, <2>2
<1>7. QED
    BY <1>6 DEF Alineadas

(* Two buddies are the halves of a node: the left one is a multiple of the *)
(* size of both.                                                           *)
LEMMA IzquierdaPar ==
    ASSUME TypeOK, Alineadas, NEW i, NEW d, NEW l,
           EsUnion(hojas, hojas', i, d, l), {i, d} = {nodo, Companiero(nodo)}
    PROVE  Multiplo(i, POT[l] + POT[l])
<1> DEFINE t == POT[l]
<1>1. /\ t \in Nat \ {0} /\ i \in Nat /\ d = i + t
      /\ i \in DOMAIN hojas /\ d \in DOMAIN hojas
      /\ Tam(i) = t /\ Tam(d) = t
    BY TamUnion DEF TrasUnir
<1> HIDE DEF t
<1>2. nodo \in DOMAIN hojas /\ Tam(nodo) = t
    BY <1>1
<1>3. \/ nodo = i /\ Companiero(nodo) = d
      \/ nodo = d /\ Companiero(nodo) = i
    BY <1>1
<1>4. nodo \in Nat /\ i # d
    BY <1>1, <1>2, Tamanios
<1>5. Multiplo(i, t + t)
  <2>1. CASE Companiero(nodo) = nodo + t /\ Multiplo(nodo, t + t)
    <3>1. nodo = i
        BY <1>1, <1>3, <1>4, <2>1
    <3>2. QED
        BY <2>1, <3>1
  <2>2. CASE Companiero(nodo) = nodo - t /\ Multiplo(nodo - t, t + t)
    <3>1. nodo - t = i
        BY <1>1, <1>3, <1>4, <2>2
    <3>2. QED
        BY <2>2, <3>1
  <2>3. QED
      BY <1>2, <2>1, <2>2, ElCompaniero
<1>6. QED
    BY <1>5 DEF t

(* Joining two buddies leaves a leaf that starts at a multiple of its size.*)
LEMMA AlineadasUnir ==
    ASSUME TypeOK, Alineadas, NEW i, NEW d, NEW l,
           EsUnion(hojas, hojas', i, d, l), {i, d} = {nodo, Companiero(nodo)}
    PROVE  Alineadas'
<1>1. /\ Tam(i)' = POT[l] + POT[l] /\ Multiplo(i, POT[l] + POT[l])
      /\ DOMAIN hojas' = DOMAIN hojas \ {d}
      /\ \A a \in DOMAIN hojas \ {i, d} : Tam(a)' = Tam(a)
    BY TamUnion, IzquierdaPar DEF TrasUnir
<1>2. ASSUME NEW a \in DOMAIN hojas' PROVE Multiplo(a, Tam(a)')
    BY <1>1 DEF Alineadas
<1>3. QED
    BY <1>2 DEF Alineadas

-----------------------------------------------------------------------------
(* RaizInv.                                                                *)

(* Every leaf is under the root.                                           *)
EnElArbol == \A a \in DOMAIN hojas : Bajo(a, ARBOL)

(* The leaves tile the memory, so all of them are under the root.          *)
LEMMA BajoArbol == IInv => EnElArbol
<1> SUFFICES ASSUME IInv, NEW a \in DOMAIN hojas PROVE Bajo(a, ARBOL)
    BY DEF EnElArbol
<1>1. a \in Nat /\ Tam(a) \in Nat /\ Tam(a) > 0
    BY Tamanios DEF IInv
<1>2. a + Tam(a) <= POT[NIVELES]
    BY DEF IInv, Teselado, DentroDeLaMemoria, MEM_SIZE
<1>3. POT[NIVELES] \in Nat
    BY Mitades, PotAssumption
<1>4. 0 <= a /\ a < 0 + POT[NIVELES]
    BY <1>1, <1>2, <1>3
<1>5. QED
    BY <1>4 DEF Bajo, ARBOL

(* The same of the state after a step.                                     *)
LEMMA BajoArbolDespues == IInv' => EnElArbol'
BY BajoArbol, PTL

(* A search from the root sees every free leaf of the level.               *)
LEMMA TodasLasDeNivel ==
    ASSUME IInv
    PROVE  \A l : DeNivel(l, ARBOL) = {a \in Libres : hojas[a].nivel = l}
BY BajoArbol DEF EnElArbol, DeNivel, Libres

(* The same of the state after a step.                                     *)
LEMMA TodasLasDeNivelDespues ==
    ASSUME IInv'
    PROVE  \A l : DeNivel(l, ARBOL)' = {a \in Libres' : hojas'[a].nivel = l}
BY BajoArbolDespues DEF EnElArbol, DeNivel, Libres

(* Under a leaf there is only itself.                                      *)
LEMMA BajoHoja ==
    ASSUME TypeOK, Teselado, NEW a \in DOMAIN hojas, NEW n,
           n.base \in DOMAIN hojas, n.nivel = hojas[n.base].nivel, Bajo(a, n)
    PROVE  a = n.base
<1> DEFINE b == n.base
<1>1. b <= a /\ a < b + Tam(b)
    BY DEF Bajo, Tam
<1>2. b \in Nat /\ a \in Nat /\ Tam(b) \in Nat
    BY Tamanios
<1>3. b < a => b + Tam(b) <= a
    BY DEF Teselado, SinSolapes
<1> HIDE DEF b
<1>4. a = b
    BY <1>1, <1>2, <1>3
<1>5. QED
    BY <1>4 DEF b

(* A request that divided has where to go on: it does not evict.           *)
LEMMA SoloEnLaRaiz ==
    ASSUME IInv, RaizInv, pc = "buscar", NoHayLugar
    PROVE  raiz = ARBOL
<1> SUFFICES ASSUME raiz # ARBOL PROVE FALSE
    OBVIOUS
<1>1. /\ raiz.base \in Libres /\ raiz.base \in DOMAIN hojas
      /\ raiz.nivel = hojas[raiz.base].nivel
      /\ raiz.nivel < NIVELES /\ pedido.nivel <= raiz.nivel
      /\ \A k \in pedido.nivel + 1 .. raiz.nivel - 1 : DeNivel(k, ARBOL) = {}
      /\ pedido.nivel < raiz.nivel =>
           PrimeraDe(DeNivel(raiz.nivel, ARBOL), raiz.base)
    BY DEF RaizInv, Libres
<1>2. /\ raiz.nivel \in Nat /\ pedido.nivel \in Nat /\ NIVELES \in Nat
      /\ raiz.base \in Nat
    BY PotAssumption DEF IInv, TypeOK
<1>3. CASE pedido.nivel = raiz.nivel
  <2>1. Bajo(raiz.base, raiz)
    <3>1. POT[raiz.nivel] \in Nat /\ POT[raiz.nivel] > 0
        BY <1>1, <1>2, Mitades
    <3>2. raiz.base <= raiz.base /\ raiz.base < raiz.base + POT[raiz.nivel]
        BY <1>2, <3>1
    <3>3. QED
        BY <3>2 DEF Bajo
  <2>2. raiz.base \in DeNivel(pedido.nivel, raiz)
      BY <1>1, <1>3, <2>1 DEF DeNivel
  <2>3. QED
      BY <2>2 DEF NoHayLugar
<1>4. CASE pedido.nivel < raiz.nivel
  <2>1. raiz.nivel \in pedido.nivel + 1 .. NIVELES
      BY <1>1, <1>2, <1>4
  <2>2. ADividir(raiz.base)
      BY <1>1, <1>4, <2>1 DEF ADividir
  <2>3. QED
      BY <1>1, <2>2 DEF NoHayLugar
<1>5. QED
    BY <1>1, <1>2, <1>3, <1>4

(* The leaf to divide next is the left half of the last division.          *)
LEMMA DivideLaRaiz ==
    ASSUME IInv, RaizInv, pc = "buscar", raiz # ARBOL,
           DeNivel(pedido.nivel, raiz) = {}, NEW b \in DOMAIN hojas, ADividir(b)
    PROVE  b = raiz.base /\ hojas[b].nivel = raiz.nivel
<1>1. /\ raiz.base \in Libres /\ raiz.base \in DOMAIN hojas
      /\ raiz.nivel = hojas[raiz.base].nivel
      /\ raiz.nivel < NIVELES /\ pedido.nivel <= raiz.nivel
      /\ \A k \in pedido.nivel + 1 .. raiz.nivel - 1 : DeNivel(k, ARBOL) = {}
      /\ pedido.nivel < raiz.nivel =>
           PrimeraDe(DeNivel(raiz.nivel, ARBOL), raiz.base)
    BY DEF RaizInv, Libres
<1>2. /\ raiz.nivel \in Nat /\ pedido.nivel \in Nat /\ NIVELES \in Nat
      /\ raiz.base \in Nat /\ b \in Nat
    BY PotAssumption, Tamanios DEF IInv, TypeOK
<1>3. pedido.nivel < raiz.nivel
  <2>1. CASE pedido.nivel = raiz.nivel
    <3>1. POT[raiz.nivel] \in Nat /\ POT[raiz.nivel] > 0
        BY <1>1, <1>2, Mitades
    <3>2. raiz.base <= raiz.base /\ raiz.base < raiz.base + POT[raiz.nivel]
        BY <1>2, <3>1
    <3>3. raiz.base \in DeNivel(pedido.nivel, raiz)
        BY <1>1, <2>1, <3>2 DEF DeNivel, Bajo
    <3>4. QED
        BY <3>3
  <2>2. QED
      BY <1>1, <1>2, <2>1
<1>4. PICK l \in pedido.nivel + 1 .. NIVELES :
        /\ PrimeraDe(DeNivel(l, ARBOL), b)
        /\ \A k \in pedido.nivel + 1 .. l - 1 : DeNivel(k, ARBOL) = {}
    BY DEF ADividir
<1>5. b \in DeNivel(l, ARBOL) /\ raiz.base \in DeNivel(raiz.nivel, ARBOL)
    BY <1>1, <1>3, <1>4 DEF PrimeraDe
<1>6. l = raiz.nivel
  <2>1. ~(l < raiz.nivel)
    <3>1. l < raiz.nivel => l \in pedido.nivel + 1 .. raiz.nivel - 1
        BY <1>2
    <3>2. QED
        BY <1>1, <1>5, <3>1
  <2>2. ~(raiz.nivel < l)
    <3>1. raiz.nivel < l => raiz.nivel \in pedido.nivel + 1 .. l - 1
        BY <1>2, <1>3
    <3>2. QED
        BY <1>4, <1>5, <3>1
  <2>3. l \in Nat
      BY <1>2
  <2>4. QED
      BY <1>2, <2>1, <2>2, <2>3
<1>7. b <= raiz.base /\ raiz.base <= b
    BY <1>1, <1>3, <1>4, <1>5, <1>6 DEF PrimeraDe
<1>8. b = raiz.base
    BY <1>2, <1>7
<1>9. QED
    BY <1>1, <1>8

(* A division leaves the search where it says.                             *)
LEMMA RaizDividir ==
    ASSUME IInv, IInv', RaizInv, pc = "buscar", UNCHANGED <<pc, pedido>>,
           NEW b, NEW c, NEW l, EsDivision(hojas, hojas', b, c, l), ADividir(b),
           raiz' = [base |-> b, nivel |-> l]
    PROVE  RaizInv'
<1>1. /\ POT[l] \in Nat \ {0} /\ b \in Nat /\ c \in Nat /\ c = b + POT[l]
      /\ b \in Libres /\ hojas'[b].nivel = l /\ hojas'[c].nivel = l
      /\ Libres' = Libres \union {c}
      /\ \A a \in DOMAIN hojas \ {b} : hojas'[a] = hojas[a]
  <2>1. TrasDividir(b, c, l)
      BY TamDivision DEF IInv
  <2>2. QED
      BY <2>1 DEF TrasDividir
<1>2. /\ hojas[b].nivel = l + 1 /\ l \in 0 .. NIVELES - 1
      /\ pedido.nivel \in Nat /\ NIVELES \in Nat
    BY PotAssumption DEF EsDivision, IInv, TypeOK
<1>3. PICK n \in pedido.nivel + 1 .. NIVELES :
        /\ PrimeraDe(DeNivel(n, ARBOL), b)
        /\ \A k \in pedido.nivel + 1 .. n - 1 : DeNivel(k, ARBOL) = {}
    BY DEF ADividir
<1>4. n = l + 1
    BY <1>2, <1>3 DEF PrimeraDe, DeNivel
<1>5. pedido.nivel <= l /\ l < NIVELES
    BY <1>2, <1>3, <1>4
<1>6. \A k : DeNivel(k, ARBOL)' = {a \in Libres' : hojas'[a].nivel = k}
    BY TodasLasDeNivelDespues
<1>7. ASSUME NEW k \in pedido.nivel + 1 .. l, NEW a \in Libres', hojas'[a].nivel = k
      PROVE  a \in {b, c}
  <2>1. DeNivel(k, ARBOL) = {}
      BY <1>2, <1>3, <1>4
  <2>2. CASE a \in Libres \ {b}
    <3>1. hojas[a].nivel = k
        BY <1>1, <1>7, <2>2 DEF Libres
    <3>2. a \in DeNivel(k, ARBOL)
        BY <2>2, <3>1, TodasLasDeNivel
    <3>3. QED
        BY <2>1, <3>2
  <2>3. QED
      BY <1>1, <2>2
<1>8. \A k \in pedido.nivel + 1 .. l - 1 : DeNivel(k, ARBOL)' = {}
  <2>1. ASSUME NEW k \in pedido.nivel + 1 .. l - 1, NEW a \in Libres',
               hojas'[a].nivel = k
        PROVE  FALSE
    <3>1. k \in pedido.nivel + 1 .. l /\ k # l
        BY <1>2
    <3>2. QED
        BY <1>1, <1>7, <2>1, <3>1
  <2>2. QED
      BY <1>6, <2>1
<1>9. pedido.nivel < l => PrimeraDe(DeNivel(l, ARBOL)', b)
  <2>1. SUFFICES ASSUME pedido.nivel < l PROVE PrimeraDe(DeNivel(l, ARBOL)', b)
      OBVIOUS
  <2>2. l \in pedido.nivel + 1 .. l
      BY <1>2, <2>1
  <2>3. b \in DeNivel(l, ARBOL)'
      BY <1>1, <1>6
  <2>4. \A a \in DeNivel(l, ARBOL)' : a \in {b, c}
      BY <1>6, <1>7, <2>2
  <2>5. b <= b /\ b <= c
      BY <1>1
  <2>6. QED
      BY <2>3, <2>4, <2>5 DEF PrimeraDe
<1>10. /\ raiz'.base = b /\ raiz'.nivel = l /\ b \in Libres'
       /\ raiz'.nivel = hojas'[b].nivel
    BY <1>1
<1>11. QED
    BY <1>5, <1>8, <1>9, <1>10 DEF RaizInv, PrimeraDe

(* Steps that leave the leaves and the search as they are, and do not start*)
(* to merge.                                                               *)
LEMMA RaizQuieta ==
    ASSUME RaizInv, UNCHANGED <<hojas, raiz, pedido>>, pc' = pc
    PROVE  RaizInv'
BY DEF RaizInv, PrimeraDe, DeNivel, Libres

-----------------------------------------------------------------------------
(* ParesInv.                                                               *)

(* A pair of free buddies after a step that was one before it, unless the  *)
(* step changed one of them.                                               *)
LEMMA ParDeAntes ==
    ASSUME NEW a, NEW B, ParLibre(a)', a \notin B, a + Tam(a)' \notin B,
           Libres' \ B \subseteq Libres,
           \A x \in Libres' \ B : Tam(x)' = Tam(x) /\ hojas'[x] = hojas[x]
    PROVE  ParLibre(a)
<1>1. a \in Libres' \ B /\ a + Tam(a)' \in Libres' \ B
    BY DEF ParLibre
<1>2. /\ Tam(a)' = Tam(a) /\ hojas'[a] = hojas[a]
      /\ hojas'[a + Tam(a)'] = hojas[a + Tam(a)']
    BY <1>1
<1>3. QED
    BY <1>1, <1>2 DEF ParLibre

(* A step that makes no leaf free makes no pair of free buddies.           *)
LEMMA SinParesNuevos ==
    ASSUME Libres' \subseteq Libres,
           \A x \in Libres' : Tam(x)' = Tam(x) /\ hojas'[x] = hojas[x],
           NEW a, ParLibre(a)'
    PROVE  ParLibre(a)
<1>1. a \in Libres' /\ a + Tam(a)' \in Libres'
    BY DEF ParLibre
<1>2. /\ Tam(a)' = Tam(a) /\ hojas'[a] = hojas[a]
      /\ hojas'[a + Tam(a)'] = hojas[a + Tam(a)']
    BY <1>1
<1>3. QED
    BY <1>1, <1>2 DEF ParLibre

(* A division makes one pair of free buddies, the halves, and breaks the   *)
(* one that the leaf was in.                                               *)
LEMMA ParesDividir ==
    ASSUME IInv, Alineadas, RaizInv, ParesInv, pc = "buscar", pc' = pc,
           DeNivel(pedido.nivel, raiz) = {},
           NEW b \in DOMAIN hojas, NEW c, NEW l,
           EsDivision(hojas, hojas', b, c, l), ADividir(b),
           raiz' = [base |-> b, nivel |-> l]
    PROVE  ParesInv'
<1> DEFINE t == POT[l]
<1>1. TypeOK /\ TrasDividir(b, c, l)
    BY TamDivision DEF IInv
<1>2. /\ t \in Nat \ {0} /\ b \in Nat /\ c = b + t
      /\ Tam(b) = t + t /\ Tam(b)' = t /\ Tam(c)' = t
      /\ hojas'[b].nivel = l /\ hojas'[c].nivel = l
      /\ Libres' = Libres \union {c} /\ Libres \subseteq DOMAIN hojas
      /\ \A a \in DOMAIN hojas \ {b} : Tam(a)' = Tam(a) /\ hojas'[a] = hojas[a]
    BY <1>1 DEF TrasDividir, Libres
<1>3. Multiplo(b, t + t)
    BY <1>2 DEF Alineadas
<1>4. raiz'.base = b /\ l \in 0 .. NIVELES - 1
    BY DEF EsDivision
<1>5. raiz' # ARBOL
  <2>1. l # NIVELES
      BY <1>4, PotAssumption
  <2>2. QED
      BY <2>1 DEF ARBOL
<1> HIDE DEF t
<1>6. ASSUME NEW a \in Libres', ParLibre(a)' PROVE a = b
  <2>1. /\ a \in Libres' /\ a + Tam(a)' \in Libres'
        /\ hojas'[a + Tam(a)'].nivel = hojas'[a].nivel
        /\ Multiplo(a, Tam(a)' + Tam(a)')
      BY <1>6 DEF ParLibre
  <2>2. a + Tam(a)' \in {b, c} => Tam(a)' = t
      BY <1>2, <2>1 DEF Tam, t
  <2>3. a \in Nat
      BY <1>1, <1>2, <2>1, Tamanios
  <2>4. CASE a = c
    <3>1. Multiplo(b + t, t + t)
        BY <1>2, <2>1, <2>4
    <3>2. QED
        BY <1>2, <1>3, <3>1, Impar
  <2>5. CASE a + Tam(a)' \in {b, c}
    <3>1. Tam(a)' = t
        BY <2>2, <2>5
    <3>2. CASE a + t = b
        BY <1>2, <1>3, <2>1, <3>1, <3>2, Impar
    <3>3. CASE a + t = c
        BY <1>2, <2>3, <3>3
    <3>4. QED
        BY <2>5, <3>1, <3>2, <3>3
  <2>6. CASE a \notin {b, c} /\ a + Tam(a)' \notin {b, c}
    <3>1. /\ Libres' \ {b, c} \subseteq Libres
          /\ \A x \in Libres' \ {b, c} : Tam(x)' = Tam(x) /\ hojas'[x] = hojas[x]
        BY <1>2
    <3>2. ParLibre(a) /\ a \in Libres
        BY <1>6, <2>6, <3>1, ParDeAntes DEF ParLibre
    <3>3. raiz # ARBOL /\ a = raiz.base
        BY <3>2 DEF ParesInv
    <3>4. QED
        BY <3>3, DivideLaRaiz
  <2>7. QED
      BY <2>4, <2>5, <2>6
<1>7. QED
    BY <1>4, <1>5, <1>6 DEF ParesInv

(* The message goes to the left half of the last division.                 *)
LEMMA ParesAsignar ==
    ASSUME IInv, RaizInv, ParesInv, pc = "buscar", NEW b \in DOMAIN hojas, Sirve(b),
           hojas' = [hojas EXCEPT ![b].libre = FALSE, ![b].mensaje = pedido.dir]
    PROVE  \A a : ~ParLibre(a)'
<1>1. b \in Libres /\ Bajo(b, raiz)
    BY DEF Sirve, PrimeraDe, DeNivel
<1>2. /\ Libres' = Libres \ {b}
      /\ \A a \in DOMAIN hojas \ {b} : hojas'[a] = hojas[a]
      /\ DOMAIN hojas' = DOMAIN hojas
    BY DEF Libres, IInv, TypeOK, Hoja
<1>3. \A a \in Libres' : Tam(a)' = Tam(a) /\ hojas'[a] = hojas[a]
    BY <1>2 DEF Tam, Libres
<1>4. raiz # ARBOL => b = raiz.base
    BY BajoHoja, <1>1 DEF RaizInv, IInv, Libres
<1>5. SUFFICES ASSUME NEW a, ParLibre(a)' PROVE FALSE
    OBVIOUS
<1>6. ParLibre(a)
    BY <1>2, <1>3, <1>5, SinParesNuevos
<1>7. a \in Libres /\ a \in Libres'
    BY <1>5, <1>6 DEF ParLibre
<1>8. QED
    BY <1>2, <1>4, <1>6, <1>7 DEF ParesInv

(* The leaf that is freed is the one that merging starts from.             *)
LEMMA ParesDesalojar ==
    ASSUME IInv, RaizInv, ParesInv, pc = "buscar", NoHayLugar,
           NEW v \in DOMAIN hojas, hojas' = [hojas EXCEPT ![v].libre = TRUE],
           nodo' = v, pc' = "mergear"
    PROVE  ParesInv'
<1>1. /\ Libres' = Libres \union {v}
      /\ \A a \in DOMAIN hojas \ {v} : hojas'[a] = hojas[a]
      /\ DOMAIN hojas' = DOMAIN hojas
    BY DEF Libres, IInv, TypeOK, Hoja
<1>2. /\ Libres' \ {v} \subseteq Libres
      /\ \A a \in Libres' \ {v} : Tam(a)' = Tam(a) /\ hojas'[a] = hojas[a]
    BY <1>1 DEF Tam, Libres
<1>3. raiz = ARBOL
    BY SoloEnLaRaiz
<1>4. ASSUME NEW a \in Libres', ParLibre(a)', v \notin {a, a + Tam(a)'} PROVE FALSE
  <2>1. ParLibre(a)
      BY <1>2, <1>4, ParDeAntes
  <2>2. QED
      BY <1>3, <2>1 DEF ParesInv, ParLibre
<1>5. QED
    BY <1>4 DEF ParesInv

(* A merge goes on from the leaf it makes.                                 *)
LEMMA ParesUnir ==
    ASSUME IInv, ParesInv, pc = "mergear", pc' = pc, NEW i, NEW d, NEW l,
           EsUnion(hojas, hojas', i, d, l), {i, d} = {nodo, Companiero(nodo)},
           nodo' = i
    PROVE  ParesInv'
<1>1. TrasUnir(i, d, l)
    BY TamUnion DEF IInv
<1>2. /\ Libres' \ {i} \subseteq Libres /\ Libres' = Libres \ {d}
      /\ \A a \in Libres' \ {i} : Tam(a)' = Tam(a) /\ hojas'[a] = hojas[a]
    BY <1>1 DEF TrasUnir, Libres
<1>3. ASSUME NEW a \in Libres', ParLibre(a)', i \notin {a, a + Tam(a)'} PROVE FALSE
  <2>1. ParLibre(a) /\ Tam(a)' = Tam(a)
      BY <1>2, <1>3, ParDeAntes
  <2>2. nodo \in {a, a + Tam(a)}
      BY <2>1 DEF ParesInv, ParLibre
  <2>3. a + Tam(a) \in Libres'
      BY <1>3, <2>1 DEF ParLibre
  <2>4. nodo \in {i, d} /\ nodo # d
      BY <1>2, <2>2, <2>3
  <2>5. QED
      BY <1>3, <2>1, <2>2, <2>4
<1>4. QED
    BY <1>3 DEF ParesInv

(* When merging ends there is nothing left to merge.                       *)
LEMMA ParesFin ==
    ASSUME IInv, Alineadas, ParesInv, pc = "mergear", ~PuedeMergear(nodo),
           UNCHANGED hojas
    PROVE  \A a : ~ParLibre(a)'
<1>1. SUFFICES ASSUME NEW a, ParLibre(a)' PROVE FALSE
    OBVIOUS
<1>2. ParLibre(a) /\ a \in Libres
    BY <1>1 DEF ParLibre, Libres, Tam
<1>3. nodo \in {a, a + Tam(a)}
    BY <1>2 DEF ParesInv
<1>4. QED
    BY <1>2, <1>3, ParPuedeMergear DEF IInv

(* Steps that leave the leaves as they are.                                *)
LEMMA ParesQuietos ==
    ASSUME ParesInv, UNCHANGED <<hojas, raiz, nodo>>, pc' = pc
    PROVE  ParesInv'
BY DEF ParesInv, ParLibre, Libres, Tam

-----------------------------------------------------------------------------
(* SinCaida.                                                               *)

(* When every leaf is free and no two are buddies there is only the root:  *)
(* the buddy of a leaf of the smallest size would lie in a larger leaf,    *)
(* which would hold the leaf too.                                          *)
LEMMA ArbolEntero ==
    ASSUME IInv, Alineadas, Ocupadas = {}, \A a : ~ParLibre(a)
    PROVE  0 \in Libres /\ hojas[0].nivel = NIVELES
<1> USE DEF IInv
<1>1. /\ DOMAIN hojas = Libres
      /\ \A a \in DOMAIN hojas : /\ a \in Nat /\ Tam(a) \in Nat \ {0}
                                 /\ hojas[a].nivel \in 0 .. NIVELES
    BY Tamanios DEF Ocupadas, Libres
<1>2. NIVELES \in Nat /\ MEM_SIZE \in Nat \ {0} /\ MEM_SIZE = POT[NIVELES]
    BY Mitades, PotAssumption DEF MEM_SIZE
<1> DEFINE S == {hojas[a].nivel : a \in DOMAIN hojas}
<1>3. S \in SUBSET Nat /\ S # {}
  <2>1. 0 \in 0 .. MEM_SIZE - 1
      BY <1>2
  <2>2. DOMAIN hojas # {}
      BY <2>1 DEF Teselado, CubreLaMemoria
  <2>3. QED
      BY <1>1, <1>2, <2>2
<1>4. PICK l \in S : \A m \in S : l <= m
  <2> HIDE DEF S
  <2>1. QED
      BY <1>3, MinimoNat
<1>5. PICK b \in DOMAIN hojas : hojas[b].nivel = l
    BY <1>4
<1> DEFINE t == POT[l]
<1>6. /\ l \in 0 .. NIVELES /\ b \in Nat /\ t \in Nat \ {0} /\ Tam(b) = t
      /\ Multiplo(b, t)
  <2>1. Tam(b) = t
      BY <1>5 DEF Tam
  <2>2. QED
      BY <1>1, <1>5, <2>1 DEF Alineadas
<1>7. \A a \in DOMAIN hojas : l <= hojas[a].nivel
    BY <1>4
<1> HIDE DEF S
<1>8. CASE l = NIVELES
  <2>1. b + MEM_SIZE <= MEM_SIZE
      BY <1>2, <1>5, <1>6, <1>8 DEF Teselado, DentroDeLaMemoria
  <2>2. b = 0
      BY <1>2, <1>6, <2>1
  <2>3. QED
      BY <1>1, <1>5, <1>8, <2>2
<1>9. CASE l # NIVELES
  <2>1. l \in 0 .. NIVELES - 1 /\ l < NIVELES
      BY <1>2, <1>6, <1>9
  <2> HIDE DEF t
  <2>2. PICK p \in Nat, o \in Nat :
          /\ Multiplo(p, t + t)
          /\ (p = b /\ o = b + t) \/ (p = o /\ b = o + t)
    <3>1. CASE Companiero(b) = b + t /\ Multiplo(b, t + t)
        BY <1>6, <3>1
    <3>2. CASE b - t \in Nat /\ Multiplo(b - t, t + t)
      <4>1. b = (b - t) + t
          BY <1>6
      <4>2. QED
          BY <3>2, <4>1
    <3>3. QED
        BY <1>6, <3>1, <3>2, ElCompaniero
  <2>3. Multiplo(o, t)
    <3>1. Multiplo(t + t, t) /\ Multiplo(t, t)
        BY <1>6, Doblado
    <3>2. Multiplo(p, t)
        BY <1>6, <2>2, <3>1, Transitivo
    <3>3. CASE p = b /\ o = b + t
        BY <1>6, <3>1, <3>2, <3>3, SumaMultiplos
    <3>4. QED
        BY <2>2, <3>2, <3>3
  <2>4. o \in 0 .. MEM_SIZE - 1
    <3>1. Multiplo(MEM_SIZE, t + t)
        BY <1>2, <1>6, <2>1, NivelesMultiplos DEF t
    <3>2. b + t <= MEM_SIZE
        BY <1>5, <1>6 DEF Teselado, DentroDeLaMemoria
    <3>3. p < MEM_SIZE
        BY <1>2, <1>6, <2>2, <3>2
    <3>4. p + (t + t) <= MEM_SIZE
      <4>1. t + t \in Nat \ {0}
          BY <1>6
      <4>2. QED
          BY <1>2, <2>2, <3>1, <3>3, <4>1, Apartados
    <3>5. QED
        BY <1>2, <1>6, <2>2, <3>2, <3>4
  <2>5. PICK a \in DOMAIN hojas : a <= o /\ o < a + Tam(a)
      BY <2>4 DEF Teselado, CubreLaMemoria
  <2>6. a \in Nat /\ Tam(a) \in Nat \ {0} /\ Multiplo(a, Tam(a))
      BY <1>1, <2>5 DEF Alineadas
  <2>7. CASE hojas[a].nivel = l
    <3>1. Tam(a) = t
        BY <2>7 DEF Tam, t
    <3>2. a = o
      <4>1. a < o => a + t <= o
          BY <1>6, <2>3, <2>6, <3>1, Apartados
      <4>2. QED
          BY <1>6, <2>2, <2>5, <2>6, <3>1, <4>1
    <3>3. /\ p \in DOMAIN hojas /\ p + t \in DOMAIN hojas /\ Tam(p) = t
          /\ hojas[p].nivel = l /\ hojas[p + t].nivel = l
        BY <1>5, <1>6, <2>2, <2>7, <3>1, <3>2
    <3>4. ParLibre(p)
        BY <1>1, <2>1, <2>2, <3>3 DEF ParLibre
    <3>5. QED
        BY <3>4
  <2>8. CASE hojas[a].nivel # l
    <3>1. hojas[a].nivel \in 0 .. NIVELES /\ l < hojas[a].nivel
        BY <1>1, <1>2, <1>6, <1>7, <2>5, <2>8
    <3>2. Multiplo(Tam(a), t + t)
        BY <1>6, <3>1, NivelesMultiplos DEF Tam, t
    <3>3. Multiplo(a, t + t) /\ Multiplo(a + Tam(a), t + t) /\ t + t \in Nat \ {0}
      <4>1. t + t \in Nat \ {0}
          BY <1>6
      <4>2. Multiplo(a, t + t)
          BY <2>6, <3>2, <4>1, Transitivo
      <4>3. QED
          BY <3>2, <4>1, <4>2, SumaMultiplos
    <3>4. a <= p
      <4>1. p < a => p + (t + t) <= a
          BY <2>2, <2>6, <3>3, Apartados
      <4>2. o <= p + t
          BY <1>6, <2>2
      <4>3. QED
          BY <1>6, <2>2, <2>5, <2>6, <4>1, <4>2
    <3>5. p + (t + t) <= a + Tam(a)
      <4>1. p <= o
          BY <1>6, <2>2
      <4>2. p < a + Tam(a) /\ a + Tam(a) \in Nat
          BY <2>2, <2>5, <2>6, <4>1
      <4>3. QED
          BY <2>2, <3>3, <4>2, Apartados
    <3>6. a <= b /\ b < a + Tam(a) /\ a # b
      <4>1. p <= b /\ b <= p + t
          BY <1>6, <2>2
      <4>2. a # b
          BY <1>5, <2>8
      <4>3. QED
          BY <1>6, <2>2, <2>6, <3>4, <3>5, <4>1, <4>2
    <3>7. a < b => a + Tam(a) <= b
        BY <1>5, <2>5 DEF Teselado, SinSolapes
    <3>8. QED
        BY <1>6, <2>6, <3>6, <3>7
  <2>9. QED
      BY <2>7, <2>8
<1>10. QED
    BY <1>8, <1>9

(* With nothing to evict the memory is one free leaf, where any message    *)
(* that fits has room.                                                     *)
LEMMA SinVictimaNoEntra ==
    ASSUME IInv, Alineadas, ParesInv, RaizInv, pc = "buscar", NoHayLugar,
           orden = << >>
    PROVE  ~Entra
<1>1. raiz = ARBOL
    BY SoloEnLaRaiz
<1>2. \A a : ~ParLibre(a)
    BY <1>1 DEF ParesInv, ParLibre
<1>3. Ocupadas = {}
    BY DEF IInv, OrdenSonLosVivos
<1>4. 0 \in Libres /\ hojas[0].nivel = NIVELES
    BY <1>2, <1>3, ArbolEntero
<1>5. SUFFICES ASSUME Entra PROVE FALSE
    OBVIOUS
<1>6. pedido.nivel \in Nat /\ NIVELES \in Nat /\ pedido.nivel <= NIVELES
    BY <1>5, PotAssumption DEF Entra, IInv, TypeOK
<1>7. ASSUME NEW a \in Libres PROVE a = 0
  <2>1. Bajo(a, ARBOL) /\ a \in DOMAIN hojas /\ 0 \in DOMAIN hojas
      BY <1>4, BajoArbol DEF EnElArbol, Libres
  <2>2. ARBOL.base = 0 /\ ARBOL.nivel = hojas[ARBOL.base].nivel
      BY <1>4 DEF ARBOL
  <2>3. QED
      BY <2>1, <2>2, BajoHoja DEF IInv
<1>8. \A l : DeNivel(l, ARBOL) = {a \in Libres : hojas[a].nivel = l}
    BY TodasLasDeNivel
<1>9. CASE pedido.nivel = NIVELES
  <2>1. 0 \in DeNivel(pedido.nivel, raiz)
      BY <1>1, <1>4, <1>8, <1>9
  <2>2. QED
      BY <2>1 DEF NoHayLugar
<1>10. CASE pedido.nivel < NIVELES
  <2>1. NIVELES \in pedido.nivel + 1 .. NIVELES
      BY <1>6, <1>10
  <2>2. PrimeraDe(DeNivel(NIVELES, ARBOL), 0)
    <3>1. \A a \in DeNivel(NIVELES, ARBOL) : a = 0
        BY <1>7, <1>8
    <3>2. 0 \in DeNivel(NIVELES, ARBOL)
        BY <1>4, <1>8
    <3>3. QED
        BY <3>1, <3>2 DEF PrimeraDe
  <2>3. \A k \in pedido.nivel + 1 .. NIVELES - 1 : DeNivel(k, ARBOL) = {}
    <3>1. ASSUME NEW k \in pedido.nivel + 1 .. NIVELES - 1,
                 NEW a \in DeNivel(k, ARBOL)
          PROVE  FALSE
      <4>1. hojas[0].nivel = k
          BY <1>7, <1>8, <3>1
      <4>2. k # NIVELES
          BY <1>6
      <4>3. QED
          BY <1>4, <4>1, <4>2
    <3>2. QED
        BY <3>1
  <2>4. ADividir(0)
      BY <2>1, <2>2, <2>3 DEF ADividir
  <2>5. QED
      BY <1>4, <2>4 DEF NoHayLugar, Libres
<1>11. QED
    BY <1>6, <1>9, <1>10

-----------------------------------------------------------------------------
(* ArbolInv holds at first, and every step preserves it.                   *)

(* The tree of one free leaf satisfies the invariant.                      *)
LEMMA ArbolInicio == Init => ArbolInv
<1> SUFFICES ASSUME Init PROVE ArbolInv
    OBVIOUS
<1>1. IInv
    BY Inicio
<1>2. /\ DOMAIN hojas = {0} /\ hojas[0].nivel = NIVELES
      /\ pc = "ocioso" /\ Tam(0) \in Nat
  <2>1. POT[NIVELES] \in Nat
      BY Mitades, PotAssumption
  <2>2. QED
      BY <2>1 DEF Init, Nueva, Tam
<1>3. Alineadas
  <2>1. 0 = 0 * Tam(0)
      BY <1>2
  <2>2. QED
      BY <1>2, <2>1 DEF Alineadas, Multiplo
<1>4. ParesInv
  <2>1. ASSUME NEW a, ParLibre(a) PROVE FALSE
    <3>1. a = 0 /\ hojas[a].nivel < NIVELES
        BY <1>2, <2>1 DEF ParLibre, Libres
    <3>2. QED
        BY <1>2, <3>1, PotAssumption
  <2>2. QED
      BY <2>1 DEF ParesInv
<1>5. RaizInv /\ SinCaida
    BY <1>2 DEF RaizInv, SinCaida
<1>6. QED
    BY <1>1, <1>3, <1>4, <1>5 DEF ArbolInv

(* Every step of the Broker preserves it, action by action.                *)
LEMMA ArbolPaso == ArbolInv /\ [Next]_vars => ArbolInv'
<1> SUFFICES ASSUME ArbolInv, [Next]_vars PROVE ArbolInv'
    OBVIOUS
<1>0. /\ IInv /\ IInv' /\ TypeOK /\ Alineadas /\ ParesInv /\ RaizInv /\ SinCaida
      /\ \A x \in DOMAIN hojas : hojas[x] \in Hoja
    BY PasoInv DEF ArbolInv, IInv, TypeOK
<1>1. ASSUME NEW d \in DIRS, NEW t \in TAMS, Pedir(d, t) PROVE ArbolInv'
  <2>1. UNCHANGED hojas /\ pc = "ocioso" /\ pc' = "buscar" /\ raiz' = ARBOL
      BY <1>1 DEF Pedir
  <2>2. Alineadas'
      BY <1>0, <2>1, MismaForma
  <2>3. ParesInv'
      BY <1>0, <2>1 DEF ParesInv, ParLibre, Libres, Tam
  <2>4. RaizInv' /\ SinCaida'
      BY <2>1 DEF RaizInv, SinCaida, ARBOL
  <2>5. QED
      BY <1>0, <2>2, <2>3, <2>4 DEF ArbolInv
<1>2. CASE Asignar
  <2>1. PICK b \in DOMAIN hojas :
          /\ pc = "buscar" /\ Sirve(b) /\ pc' = "ocioso"
          /\ hojas' = [hojas EXCEPT ![b].libre = FALSE, ![b].mensaje = pedido.dir]
      BY <1>2 DEF Asignar
  <2>2. /\ DOMAIN hojas' = DOMAIN hojas
        /\ \A a \in DOMAIN hojas : hojas'[a].nivel = hojas[a].nivel
      BY <1>0, <2>1 DEF Hoja
  <2>3. Alineadas'
      BY <1>0, <2>2, MismaForma
  <2>4. ParesInv'
      BY <1>0, <2>1, ParesAsignar DEF ParesInv
  <2>5. RaizInv' /\ SinCaida'
      BY <2>1 DEF RaizInv, SinCaida
  <2>6. QED
      BY <1>0, <2>3, <2>4, <2>5 DEF ArbolInv
<1>3. CASE Dividir
  <2>1. PICK b \in DOMAIN hojas :
          /\ pc = "buscar" /\ DeNivel(pedido.nivel, raiz) = {} /\ ADividir(b)
          /\ hojas' = Dividida(b, hojas[b].nivel - 1)
          /\ raiz' = [base |-> b, nivel |-> hojas[b].nivel - 1]
          /\ UNCHANGED <<pc, pedido>>
      BY <1>3 DEF Dividir
  <2>2. PICK l, c : l = hojas[b].nivel - 1 /\ EsDivision(hojas, hojas', b, c, l)
      BY <1>0, <2>1, AlDividir
  <2>3. Alineadas'
      BY <1>0, <2>2, AlineadasDividir
  <2>4. ParesInv'
      BY <1>0, <2>1, <2>2, ParesDividir
  <2>5. RaizInv'
      BY <1>0, <2>1, <2>2, RaizDividir
  <2>6. SinCaida'
      BY <2>1 DEF SinCaida
  <2>7. QED
      BY <1>0, <2>3, <2>4, <2>5, <2>6 DEF ArbolInv
<1>4. CASE Desalojar
  <2>1. PICK v \in DOMAIN hojas :
          /\ pc = "buscar" /\ NoHayLugar
          /\ hojas' = [hojas EXCEPT ![v].libre = TRUE]
          /\ nodo' = v /\ pc' = "mergear" /\ raiz' = raiz
      BY <1>4 DEF Desalojar
  <2>2. /\ DOMAIN hojas' = DOMAIN hojas
        /\ \A a \in DOMAIN hojas : hojas'[a].nivel = hojas[a].nivel
      BY <1>0, <2>1 DEF Hoja
  <2>3. Alineadas'
      BY <1>0, <2>2, MismaForma
  <2>4. ParesInv'
      BY <1>0, <2>1, ParesDesalojar
  <2>5. raiz = ARBOL
      BY <1>0, <2>1, SoloEnLaRaiz
  <2>6. RaizInv' /\ SinCaida'
      BY <2>1, <2>5 DEF RaizInv, SinCaida, ARBOL
  <2>7. QED
      BY <1>0, <2>3, <2>4, <2>6 DEF ArbolInv
<1>5. CASE DesalojarSinVictima
  <2>1. /\ pc = "buscar" /\ NoHayLugar /\ orden = << >> /\ pc' = "caido"
        /\ UNCHANGED <<hojas, pedido, raiz, nodo>>
      BY <1>5 DEF DesalojarSinVictima
  <2>2. Alineadas'
      BY <1>0, <2>1, MismaForma
  <2>3. ParesInv'
      BY <2>1 DEF ParesInv
  <2>4. ~Entra /\ (Entra' <=> Entra)
      BY <1>0, <2>1, SinVictimaNoEntra DEF Entra
  <2>5. RaizInv' /\ SinCaida'
      BY <2>1, <2>4 DEF RaizInv, SinCaida
  <2>6. QED
      BY <1>0, <2>2, <2>3, <2>5 DEF ArbolInv
<1>6. CASE MergearPar
  <2>1. PICK i, d, l :
          /\ EsUnion(hojas, hojas', i, d, l)
          /\ {i, d} = {nodo, Companiero(nodo)} /\ nodo' = i
      BY <1>0, <1>6, AlUnir
  <2>2. pc = "mergear" /\ pc' = pc /\ raiz' = raiz
      BY <1>6 DEF MergearPar
  <2>3. Alineadas'
      BY <1>0, <2>1, AlineadasUnir
  <2>4. ParesInv'
      BY <1>0, <2>1, <2>2, ParesUnir
  <2>5. RaizInv' /\ SinCaida'
      BY <1>0, <2>2 DEF RaizInv, SinCaida, ARBOL
  <2>6. QED
      BY <1>0, <2>3, <2>4, <2>5 DEF ArbolInv
<1>7. CASE MergearFin
  <2>1. /\ pc = "mergear" /\ ~PuedeMergear(nodo) /\ pc' = "buscar"
        /\ UNCHANGED hojas /\ raiz' = raiz
      BY <1>7 DEF MergearFin
  <2>2. Alineadas'
      BY <1>0, <2>1, MismaForma
  <2>3. ParesInv'
      BY <1>0, <2>1, ParesFin DEF ParesInv
  <2>4. RaizInv' /\ SinCaida'
      BY <1>0, <2>1 DEF RaizInv, SinCaida, ARBOL
  <2>5. QED
      BY <1>0, <2>2, <2>3, <2>4 DEF ArbolInv
<1>8. ASSUME UNCHANGED <<hojas, raiz, pedido, nodo, pc>> PROVE ArbolInv'
  <2>1. Alineadas'
      BY <1>0, <1>8, MismaForma
  <2>2. ParesInv' /\ RaizInv'
      BY <1>0, <1>8, ParesQuietos, RaizQuieta
  <2>3. SinCaida'
      BY <1>0, <1>8 DEF SinCaida, Entra
  <2>4. QED
      BY <1>0, <2>1, <2>2, <2>3 DEF ArbolInv
<1>9. ASSUME NEW d \in DIRS, Usar(d) PROVE ArbolInv'
    BY <1>8, <1>9 DEF Usar
<1>10. CASE UNCHANGED vars
    BY <1>8, <1>10 DEF vars
<1>11. QED
    BY <1>1, <1>2, <1>3, <1>4, <1>5, <1>6, <1>7, <1>9, <1>10
       DEF Next, Asignador

(* Leaves start at multiples of their sizes, free buddies are the ones the *)
(* request in progress is working on, and its search goes on where it      *)
(* divided: with IInv these facts are an inductive invariant.              *)
THEOREM InvarianteDelArbol == Spec => []ArbolInv
<1>1. QED
    BY ArbolInicio, ArbolPaso, PTL DEF Spec

(* When no request is in progress buddy_mergear has left no two free       *)
(* leaves with the same parent, and buddy_dividir_raiz neither.            *)
THEOREM SinBuddiesSiempre == Spec => []SinBuddiesLibres
<1>1. ASSUME ArbolInv PROVE SinBuddiesLibres
  <2> SUFFICES ASSUME pc = "ocioso", NEW a \in Libres, NEW b \in Libres, a # b,
                      hojas[a].nivel = hojas[b].nivel,
                      a \div (2 * Tam(a)) = b \div (2 * Tam(a))
               PROVE  FALSE
      BY DEF SinBuddiesLibres
  <2>1. ParesInv /\ Alineadas /\ IInv /\ TypeOK
      BY <1>1 DEF ArbolInv, IInv
  <2>2. \A x \in Libres : ~ParLibre(x)
      BY <2>1 DEF ParesInv
  <2>3. PICK t \in Nat \ {0} : t = Tam(a) /\ t = Tam(b)
      BY <2>1, Tamanios DEF Libres, Tam
  <2>4. /\ a \in Nat /\ b \in Nat /\ Multiplo(a, t) /\ Multiplo(b, t)
        /\ hojas[a].nivel \in 0 .. NIVELES
      BY <2>1, <2>3, Tamanios DEF Libres, Alineadas
  <2>5. hojas[a].nivel < NIVELES
    <3>1. NIVELES \in Nat
        BY PotAssumption
    <3>2. ASSUME hojas[a].nivel = NIVELES PROVE FALSE
      <4>1. t = MEM_SIZE
          BY <2>3, <3>2 DEF Tam, MEM_SIZE
      <4>2. a + t <= MEM_SIZE /\ b + t <= MEM_SIZE
          BY <2>1, <2>3 DEF IInv, Teselado, DentroDeLaMemoria, Libres
      <4>3. QED
          BY <2>3, <2>4, <4>1, <4>2
    <3>3. QED
        BY <2>4, <3>1, <3>2
  <2>6. ASSUME NEW x \in Libres, NEW y \in Libres, x < y, x \in Nat, y \in Nat,
               t = Tam(x), t = Tam(y), Multiplo(x, t), Multiplo(y, t),
               hojas[x].nivel = hojas[y].nivel, hojas[x].nivel < NIVELES,
               x \div (2 * t) = y \div (2 * t)
        PROVE  FALSE
    <3>1. x + t <= y
        BY <2>6, Apartados
    <3>2. Multiplo(x, t + t) /\ y = x + t
        BY <2>6, <3>1, MismoPadre
    <3>3. ParLibre(x)
        BY <2>6, <3>2 DEF ParLibre
    <3>4. QED
        BY <2>2, <3>3
  <2>7. a < b \/ b < a
      BY <2>4
  <2>8. a \div (2 * t) = b \div (2 * t)
      BY <2>3
  <2>9. QED
      BY <2>3, <2>4, <2>5, <2>6, <2>7, <2>8
<1>2. QED
    BY <1>1, InvarianteDelArbol, PTL

(* With a message that fits in the memory there is always a leaf for it, a *)
(* leaf to divide or a victim: only a larger one kills the Broker.         *)
THEOREM SinCaidaSiempre == Spec => []SinCaida
<1>1. ArbolInv => SinCaida
    BY DEF ArbolInv
<1>2. QED
    BY <1>1, InvarianteDelArbol, PTL

(* A request that divided a leaf goes on in its left half, although        *)
(* buddy_dividir_raiz searches the whole tree, and evicts nothing.         *)
THEOREM DivideDondeBuscaSiempre == Spec => DivideDondeBusca
<1> DEFINE P == /\ Dividir /\ raiz # ARBOL => /\ raiz'.base = raiz.base
                                              /\ raiz'.nivel = raiz.nivel - 1
                /\ Desalojar => raiz = ARBOL
<1>1. ASSUME ArbolInv PROVE P
  <2>1. IInv /\ RaizInv
      BY <1>1 DEF ArbolInv
  <2>2. ASSUME Dividir, raiz # ARBOL
        PROVE  raiz'.base = raiz.base /\ raiz'.nivel = raiz.nivel - 1
    <3>1. PICK b \in DOMAIN hojas :
            /\ pc = "buscar" /\ DeNivel(pedido.nivel, raiz) = {} /\ ADividir(b)
            /\ raiz' = [base |-> b, nivel |-> hojas[b].nivel - 1]
        BY <2>2 DEF Dividir
    <3>2. b = raiz.base /\ hojas[b].nivel = raiz.nivel
        BY <2>1, <2>2, <3>1, DivideLaRaiz
    <3>3. QED
        BY <3>1, <3>2
  <2>3. Desalojar => raiz = ARBOL
      BY <2>1, SoloEnLaRaiz DEF Desalojar
  <2>4. QED
      BY <2>2, <2>3
<1>2. ArbolInv => [P]_vars
    BY <1>1
<1>3. QED
    BY <1>2, InvarianteDelArbol, PTL DEF DivideDondeBusca
=============================================================================
