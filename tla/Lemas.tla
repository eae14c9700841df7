-------------------------------- MODULE Lemas --------------------------------
(***************************************************************************)
(* Facts the proofs about several components cite: minima of sets of       *)
(* naturals, what the operators of the community modules that remove and   *)
(* insert an element (list_remove, list_add_in_index) leave at each place, *)
(* how many elements of a sequence are the same, and what the folds that   *)
(* add up a function over a finite set amount to.                          *)
(***************************************************************************)
EXTENDS Integers, FiniteSets, SequencesExt, SequenceTheorems, FunctionTheorems,
        FiniteSetTheorems, WellFoundedInduction, TLAPS

(* A set of naturals that is not empty has a minimum.                      *)
LEMMA MinimoNat ==
    ASSUME NEW S \in SUBSET Nat, S # {}
    PROVE  \E n \in S : \A m \in S : n <= m
<1> DEFINE R == {p \in Nat \X Nat : p[1] < p[2]}
<1>1. IsWellFoundedOn(R, Nat)
    BY NatLessThanWellFounded DEF OpToRel
<1>2. PICK n \in S : \A m \in S : ~(<<m, n>> \in R)
  <2> HIDE DEF R
  <2>1. QED
      BY <1>1, WFMin, Zenon
<1>3. ASSUME NEW m \in S, m < n
      PROVE  FALSE
  <2>1. <<m, n>> \in R
      BY <1>3
  <2>2. QED
      BY <1>2, <2>1
<1>4. QED
    BY <1>3

(* What a sequence is over does not matter, only what it holds.            *)
LEMMA SeqPorElementos ==
    ASSUME NEW S, NEW T, NEW s \in Seq(S), \A k \in 1 .. Len(s) : s[k] \in T
    PROVE  s \in Seq(T)
OBVIOUS

(* A function on the first n numbers is a sequence of length n.            *)
LEMMA SeqDeFuncion ==
    ASSUME NEW S, NEW n \in Nat, NEW f \in [1 .. n -> S]
    PROVE  f \in Seq(S) /\ Len(f) = n
OBVIOUS

(* What a sequence of length n holds.                                      *)
LEMMA ElementosDe ==
    ASSUME NEW S, NEW s \in Seq(S), NEW n, n = Len(s)
    PROVE  \A x : x \in ToSet(s) <=> \E k \in 1 .. n : s[k] = x
BY LenProperties DEF ToSet

(* u is s, of length n, with e put in at the k-th place.                   *)
Insercion(u, S, s, n, k, e) ==
    /\ u \in Seq(S) /\ Len(u) = n + 1
    /\ \A j \in 1 .. k - 1 : u[j] = s[j]
    /\ u[k] = e
    /\ \A j \in k .. n : u[j + 1] = s[j]

(* u is s, of length n, without its k-th element.                          *)
Supresion(u, S, s, n, k) ==
    /\ u \in Seq(S) /\ Len(u) = n - 1
    /\ \A j \in 1 .. k - 1 : u[j] = s[j]
    /\ \A j \in k .. n - 1 : u[j] = s[j + 1]

(* Without its k-th element the ones after it come one place before.       *)
LEMMA SinElemento ==
    ASSUME NEW S, NEW s \in Seq(S), NEW k \in 1 .. Len(s)
    PROVE  Supresion(RemoveAt(s, k), S, s, Len(s), k)
<1> DEFINE n == Len(s)
           A == SubSeq(s, 1, k - 1)
           B == SubSeq(s, k + 1, n)
<1>1. n \in Nat /\ k \in 1 .. n
    BY LenProperties
<1>2. /\ A \in Seq(S) /\ Len(A) = k - 1
      /\ \A j \in 1 .. k - 1 : A[j] = s[j]
    BY <1>1, SubSeqProperties
<1>3. /\ B \in Seq(S) /\ Len(B) = n - k
      /\ \A j \in 1 .. n - k : B[j] = s[k + j]
    BY <1>1, SubSeqProperties
<1>4. RemoveAt(s, k) = A \o B
    BY DEF RemoveAt
<1> HIDE DEF A, B
<1>5. /\ A \o B \in Seq(S) /\ Len(A \o B) = Len(A) + Len(B)
      /\ \A j \in 1 .. Len(A) + Len(B) :
           (A \o B)[j] = IF j <= Len(A) THEN A[j] ELSE B[j - Len(A)]
    BY <1>2, <1>3, ConcatProperties
<1>6. Len(A) + Len(B) = n - 1
    BY <1>1, <1>2, <1>3
<1>7. ASSUME NEW j \in 1 .. k - 1 PROVE (A \o B)[j] = s[j]
    BY <1>1, <1>2, <1>5, <1>6
<1>8. ASSUME NEW j \in k .. n - 1 PROVE (A \o B)[j] = s[j + 1]
  <2>1. (A \o B)[j] = B[j - (k - 1)] /\ j - (k - 1) \in 1 .. n - k
      BY <1>1, <1>2, <1>5, <1>6
  <2>2. B[j - (k - 1)] = s[k + (j - (k - 1))]
      BY <1>3, <2>1
  <2>3. k + (j - (k - 1)) = j + 1
      BY <1>1
  <2>4. QED
      BY <2>1, <2>2, <2>3
<1>9. QED
    BY <1>4, <1>5, <1>6, <1>7, <1>8 DEF Supresion

(* With e at the k-th place the ones from there on come one place after.   *)
LEMMA ConElemento ==
    ASSUME NEW S, NEW s \in Seq(S), NEW e \in S, NEW k \in 1 .. Len(s) + 1
    PROVE  Insercion(InsertAt(s, k, e), S, s, Len(s), k, e)
<1> DEFINE n == Len(s)
           A == SubSeq(s, 1, k - 1)
           B == SubSeq(s, k, n)
           C == <<e>>
<1>1. n \in Nat /\ k \in 1 .. n + 1
    BY LenProperties
<1>2. /\ A \in Seq(S) /\ Len(A) = k - 1
      /\ \A j \in 1 .. k - 1 : A[j] = s[j]
    BY <1>1, SubSeqProperties
<1>3. /\ B \in Seq(S) /\ Len(B) = n - k + 1
      /\ \A j \in 1 .. n - k + 1 : B[j] = s[k - 1 + j]
  <2>1. /\ B \in Seq(S)
        /\ Len(B) = IF k <= n THEN n - k + 1 ELSE 0
        /\ \A j \in 1 .. n - k + 1 : B[j] = s[k + j - 1]
      BY <1>1, SubSeqProperties
  <2>2. \A j \in 1 .. n - k + 1 : k + j - 1 = k - 1 + j
      BY <1>1
  <2>3. QED
      BY <1>1, <2>1, <2>2
<1>4. C \in Seq(S) /\ Len(C) = 1 /\ C[1] = e
    OBVIOUS
<1>5. InsertAt(s, k, e) = (A \o C) \o B
    BY DEF InsertAt
<1> HIDE DEF A, B, C
<1>6. /\ A \o C \in Seq(S) /\ Len(A \o C) = Len(A) + Len(C)
      /\ \A j \in 1 .. Len(A) + Len(C) :
           (A \o C)[j] = IF j <= Len(A) THEN A[j] ELSE C[j - Len(A)]
    BY <1>2, <1>4, ConcatProperties
<1> DEFINE D == A \o C
<1>7. /\ D \in Seq(S) /\ Len(D) = k
      /\ \A j \in 1 .. k - 1 : D[j] = s[j]
      /\ D[k] = e
    BY <1>1, <1>2, <1>4, <1>6
<1> HIDE DEF D
<1>8. /\ D \o B \in Seq(S) /\ Len(D \o B) = Len(D) + Len(B)
      /\ \A j \in 1 .. Len(D) + Len(B) :
           (D \o B)[j] = IF j <= Len(D) THEN D[j] ELSE B[j - Len(D)]
  <2>1. D \in Seq(S) /\ B \in Seq(S)
      BY <1>3, <1>7
  <2>2. QED
      BY <2>1, ConcatProperties
<1>9. Len(D) + Len(B) = n + 1
    BY <1>1, <1>3, <1>7
<1>10. (\A j \in 1 .. k - 1 : (D \o B)[j] = s[j]) /\ (D \o B)[k] = e
    BY <1>1, <1>7, <1>8, <1>9
<1>11. ASSUME NEW j \in k .. n PROVE (D \o B)[j + 1] = s[j]
  <2>1. (D \o B)[j + 1] = B[j + 1 - k] /\ j + 1 - k \in 1 .. n - k + 1
      BY <1>1, <1>7, <1>8, <1>9
  <2>2. B[j + 1 - k] = s[k - 1 + (j + 1 - k)]
      BY <1>3, <2>1
  <2>3. k - 1 + (j + 1 - k) = j
      BY <1>1
  <2>4. QED
      BY <2>1, <2>2, <2>3
<1>12. QED
    BY <1>5, <1>8, <1>9, <1>10, <1>11 DEF D, Insercion

(* ConElemento with a name for the length.                                 *)
LEMMA Insertar ==
    ASSUME NEW S, NEW n \in Nat, NEW s \in Seq(S), Len(s) = n, NEW e \in S,
           NEW k \in 1 .. n + 1
    PROVE  Insercion(InsertAt(s, k, e), S, s, n, k, e)
<1>1. ASSUME NEW k0 \in 1 .. Len(s) + 1
      PROVE  Insercion(InsertAt(s, k0, e), S, s, Len(s), k0, e)
    BY ConElemento
<1>2. QED
    BY <1>1

(* SinElemento with a name for the length.                                 *)
LEMMA Suprimir ==
    ASSUME NEW S, NEW n \in Nat, NEW s \in Seq(S), Len(s) = n, NEW k \in 1 .. n
    PROVE  Supresion(RemoveAt(s, k), S, s, n, k)
<1>1. ASSUME NEW k0 \in 1 .. Len(s)
      PROVE  Supresion(RemoveAt(s, k0), S, s, Len(s), k0)
    BY SinElemento
<1>2. QED
    BY <1>1

(* A sequence that has each element of V once is as long as V is large.    *)
LEMMA CuantosSon ==
    ASSUME NEW S, NEW q \in Seq(S), NEW V,
           \A k \in 1 .. Len(q) : q[k] \in V,
           \A d \in V : \E k \in 1 .. Len(q) : q[k] = d,
           \A j, k \in 1 .. Len(q) : q[j] = q[k] => j = k
    PROVE  IsFiniteSet(V) /\ Cardinality(V) = Len(q)
<1> DEFINE D == 1 .. Len(q)
<1>1. Len(q) \in Nat /\ q \in [D -> V]
    BY LenProperties
<1>2. q \in Bijection(D, V)
    BY <1>1, Fun_IsBij
<1>3. IsFiniteSet(D) /\ Cardinality(D) = Len(q)
  <2>1. /\ IsFiniteSet(1 .. Len(q))
        /\ Cardinality(1 .. Len(q)) = IF 1 > Len(q) THEN 0 ELSE Len(q) - 1 + 1
      BY <1>1, FS_Interval
  <2>2. (IF 1 > Len(q) THEN 0 ELSE Len(q) - 1 + 1) = Len(q)
      BY <1>1
  <2>3. QED
      BY <2>1, <2>2
<1>4. ExistsBijection(D, V)
    BY <1>2 DEF ExistsBijection
<1>5. QED
    BY <1>3, <1>4, FS_Bijection

-----------------------------------------------------------------------------
(* How many elements of a sequence are the same.                           *)

(* The places of e in s, and how many they are.                            *)
LugaresDe(s, e) == {k \in DOMAIN s : s[k] = e}
Veces(s, e) == Cardinality(LugaresDe(s, e))

(* They are finitely many.                                                 *)
LEMMA VecesFinitas ==
    ASSUME NEW S, NEW s \in Seq(S), NEW e
    PROVE  /\ LugaresDe(s, e) = {k \in 1 .. Len(s) : s[k] = e}
           /\ IsFiniteSet(LugaresDe(s, e)) /\ Veces(s, e) \in Nat
           /\ Veces(s, e) = 0 <=> \A k \in 1 .. Len(s) : s[k] # e
<1>1. DOMAIN s = 1 .. Len(s) /\ Len(s) \in Nat
    BY LenProperties
<1>2. IsFiniteSet(1 .. Len(s))
    BY <1>1, FS_Interval
<1>3. LugaresDe(s, e) \in SUBSET (1 .. Len(s))
    BY <1>1 DEF LugaresDe
<1>4. IsFiniteSet(LugaresDe(s, e))
    BY <1>2, <1>3, FS_Subset
<1>5. Veces(s, e) \in Nat /\ (Veces(s, e) = 0 <=> LugaresDe(s, e) = {})
    BY <1>4, FS_CardinalityType, FS_EmptySet DEF Veces
<1>6. QED
    BY <1>1, <1>4, <1>5 DEF LugaresDe

(* One more element at the end.                                            *)
LEMMA VecesAgrega ==
    ASSUME NEW S, NEW s \in Seq(S), NEW d \in S, NEW e
    PROVE  Veces(Append(s, d), e) = IF d = e THEN Veces(s, e) + 1 ELSE Veces(s, e)
<1> DEFINE t == Append(s, d)
           n == Len(s)
<1>1. /\ n \in Nat /\ t \in Seq(S) /\ Len(t) = n + 1
      /\ \A k \in 1 .. n : t[k] = s[k]
      /\ t[n + 1] = d
    BY LenProperties, AppendProperties
<1> HIDE DEF t
<1>2. /\ LugaresDe(s, e) = {k \in 1 .. n : s[k] = e}
      /\ LugaresDe(t, e) = {k \in 1 .. n + 1 : t[k] = e}
      /\ IsFiniteSet(LugaresDe(s, e))
    BY <1>1, VecesFinitas
<1>3. CASE d = e
  <2>1. LugaresDe(t, e) = LugaresDe(s, e) \union {n + 1}
      BY <1>1, <1>2, <1>3
  <2>2. n + 1 \notin LugaresDe(s, e)
      BY <1>1, <1>2
  <2>3. QED
      BY <1>2, <1>3, <2>1, <2>2, FS_AddElement DEF Veces, t
<1>4. CASE d # e
  <2>1. LugaresDe(t, e) = LugaresDe(s, e)
      BY <1>1, <1>2, <1>4
  <2>2. QED
      BY <1>4, <2>1 DEF Veces, t
<1>5. QED
    BY <1>3, <1>4

(* One element less, wherever it was.                                      *)
LEMMA VecesSuprime ==
    ASSUME NEW S, NEW n \in Nat, NEW s \in Seq(S), Len(s) = n, NEW k \in 1 .. n,
           NEW t, Supresion(t, S, s, n, k), NEW e
    PROVE  Veces(t, e) = IF s[k] = e THEN Veces(s, e) - 1 ELSE Veces(s, e)
<1> DEFINE P == LugaresDe(s, e) \ {k}
           Q == LugaresDe(t, e)
           va[j \in Q] == IF j < k THEN j ELSE j + 1
<1>1. /\ LugaresDe(s, e) = {j \in 1 .. n : s[j] = e}
      /\ IsFiniteSet(LugaresDe(s, e)) /\ Veces(s, e) \in Nat
    BY VecesFinitas
<1>2. /\ t \in Seq(S) /\ Len(t) = n - 1
      /\ \A j \in 1 .. k - 1 : t[j] = s[j]
      /\ \A j \in k .. n - 1 : t[j] = s[j + 1]
    BY DEF Supresion
<1>3. Q = {j \in 1 .. n - 1 : t[j] = e} /\ IsFiniteSet(Q)
    BY <1>2, VecesFinitas
<1>4. P = {j \in 1 .. n : s[j] = e /\ j # k}
    BY <1>1
<1> HIDE DEF P, Q
<1>5. va \in [Q -> P]
  <2>1. ASSUME NEW j \in Q PROVE va[j] \in P
    <3>1. CASE j < k
        BY <1>2, <1>3, <1>4, <3>1
    <3>2. CASE ~(j < k)
        BY <1>2, <1>3, <1>4, <3>2
    <3>3. QED
        BY <3>1, <3>2
  <2>2. QED
      BY <2>1
<1>6. \A i, j \in Q : va[i] = va[j] => i = j
    BY <1>3
<1>7. ASSUME NEW j \in P PROVE \E i \in Q : va[i] = j
  <2>1. CASE j < k
    <3>1. j \in Q /\ va[j] = j
        BY <1>2, <1>3, <1>4, <2>1
    <3>2. QED
        BY <3>1
  <2>2. CASE j > k
    <3>1. j - 1 \in Q /\ va[j - 1] = j
        BY <1>2, <1>3, <1>4, <2>2
    <3>2. QED
        BY <3>1
  <2>3. QED
      BY <1>4, <2>1, <2>2
<1>8. ExistsBijection(Q, P)
  <2>1. va \in Bijection(Q, P)
    <3> HIDE DEF va
    <3>1. QED
        BY <1>5, <1>6, <1>7, Fun_IsBij
  <2>2. QED
      BY <2>1 DEF ExistsBijection
<1>9. Cardinality(P) = Cardinality(Q)
    BY <1>3, <1>8, FS_Bijection
<1>10. Cardinality(P) = IF k \in LugaresDe(s, e) THEN Veces(s, e) - 1 ELSE Veces(s, e)
    BY <1>1, FS_RemoveElement DEF P, Veces
<1>11. k \in LugaresDe(s, e) <=> s[k] = e
    BY <1>1
<1>12. QED
    BY <1>9, <1>10, <1>11 DEF Veces, Q

-----------------------------------------------------------------------------
(* Sums: what the folds of + over a finite set amount to.                  *)

\* F adds up d over each subset of S, taking the elements as the folds do.
EsSuma(S, d, F) ==
    F = [s \in SUBSET S |-> IF s = {} THEN 0
                            ELSE d[CHOOSE x \in s : TRUE] + F[s \ {CHOOSE x \in s : TRUE}]]

\* The sum of d over S.
Total(S, d) == (CHOOSE F : EsSuma(S, d, F))[S]

(* There is such an F: one for the subsets of up to n elements, for each n.*)
LEMMA SumaExiste ==
    ASSUME NEW S, IsFiniteSet(S), NEW d \in [S -> Int]
    PROVE  \E F \in [SUBSET S -> Int] : EsSuma(S, d, F)
<1> DEFINE D(n) == {s \in SUBSET S : Cardinality(s) <= n}
           Ec(n, G) == \A s \in D(n) :
               G[s] = IF s = {} THEN 0
                      ELSE d[CHOOSE x \in s : TRUE] + G[s \ {CHOOSE x \in s : TRUE}]
           P(n) == \E G \in [D(n) -> Int] : Ec(n, G)
           Malos == {n \in Nat : ~P(n)}
<1>1. \A s \in SUBSET S : /\ IsFiniteSet(s) /\ Cardinality(s) \in Nat
                          /\ Cardinality(s) = 0 <=> s = {}
                          /\ \A x \in s : Cardinality(s \ {x}) = Cardinality(s) - 1
    BY FS_Subset, FS_CardinalityType, FS_EmptySet, FS_RemoveElement
<1>2. P(0)
  <2> DEFINE G == [s \in D(0) |-> 0]
  <2>1. \A s \in D(0) : s = {}
      BY <1>1
  <2>2. G \in [D(0) -> Int] /\ Ec(0, G)
      BY <2>1
  <2>3. QED
      BY <2>2
<1>3. ASSUME NEW n \in Nat \ {0}, P(n - 1)
      PROVE  P(n)
  <2>1. PICK G \in [D(n - 1) -> Int] : Ec(n - 1, G)
      BY <1>3
  <2> DEFINE H == [s \in D(n) |-> IF s = {} THEN 0
                     ELSE d[CHOOSE x \in s : TRUE] + G[s \ {CHOOSE x \in s : TRUE}]]
  <2>2. ASSUME NEW s \in D(n), s # {}
        PROVE  (CHOOSE x \in s : TRUE) \in S /\ s \ {CHOOSE x \in s : TRUE} \in D(n - 1)
    <3>1. (CHOOSE x \in s : TRUE) \in s
        BY <2>2
    <3>2. QED
        BY <1>1, <2>2, <3>1
  <2>3. H \in [D(n) -> Int]
      BY <2>2
  <2>4. ASSUME NEW s \in D(n - 1)
        PROVE  s \in D(n) /\ H[s] = G[s]
    <3>1. s \in D(n)
        BY <1>1
    <3>2. QED
        BY <2>1, <3>1
  <2>5. Ec(n, H)
    <3> SUFFICES ASSUME NEW s \in D(n)
                 PROVE  H[s] = IF s = {} THEN 0
                          ELSE d[CHOOSE x \in s : TRUE] + H[s \ {CHOOSE x \in s : TRUE}]
        OBVIOUS
    <3>1. CASE s = {}
        BY <3>1
    <3>2. CASE s # {}
      <4>1. H[s] = d[CHOOSE x \in s : TRUE] + G[s \ {CHOOSE x \in s : TRUE}]
          BY <3>2
      <4>2. H[s \ {CHOOSE x \in s : TRUE}] = G[s \ {CHOOSE x \in s : TRUE}]
          BY <2>2, <2>4, <3>2
      <4> HIDE DEF H
      <4>3. QED
          BY <3>2, <4>1, <4>2
    <3>3. QED
        BY <3>1, <3>2
  <2>6. QED
      BY <2>3, <2>5
<1>4. \A n \in Nat : P(n)
  <2> HIDE DEF P
  <2> SUFFICES ASSUME Malos # {} PROVE FALSE
      OBVIOUS
  <2>1. Malos \in SUBSET Nat
      OBVIOUS
  <2>2. PICK n \in Malos : \A m \in Malos : n <= m
      BY <2>1, MinimoNat, Zenon
  <2>3. n \in Nat \ {0} /\ ~P(n)
      BY <1>2, <2>2
  <2>4. n - 1 \in Nat /\ n - 1 \notin Malos
      BY <2>2, <2>3
  <2>5. QED
      BY <1>3, <2>3, <2>4
<1>5. PICK N \in Nat : N = Cardinality(S)
    BY FS_CardinalityType
<1>6. D(N) = SUBSET S
    BY <1>5, FS_Subset
<1>7. PICK G \in [D(N) -> Int] : Ec(N, G)
    BY <1>4
<1>8. G \in [SUBSET S -> Int] /\ EsSuma(S, d, G)
    BY <1>6, <1>7 DEF EsSuma
<1>9. QED
    BY <1>8

(* What it adds up to is an integer.                                        *)
LEMMA SumaTipo ==
    ASSUME NEW S, IsFiniteSet(S), NEW d \in [S -> Int], NEW F, EsSuma(S, d, F)
    PROVE  F \in [SUBSET S -> Int]
<1> DEFINE Malos == {n \in Nat : \E r \in SUBSET S : Cardinality(r) = n /\ F[r] \notin Int}
<1>1. \A r \in SUBSET S : /\ IsFiniteSet(r) /\ Cardinality(r) \in Nat
                          /\ \A x \in r : Cardinality(r \ {x}) = Cardinality(r) - 1
    BY FS_Subset, FS_CardinalityType, FS_RemoveElement
<1>2. F = [s \in SUBSET S |-> F[s]]
    BY DEF EsSuma
<1>3. SUFFICES ASSUME Malos # {} PROVE FALSE
    BY <1>1, <1>2
<1>4. Malos \in SUBSET Nat
    OBVIOUS
<1>5. PICK n \in Malos : \A m \in Malos : n <= m
  <2> HIDE DEF Malos
  <2>1. QED
      BY <1>3, <1>4, MinimoNat, Zenon
<1>6. PICK r \in SUBSET S : Cardinality(r) = n /\ F[r] \notin Int
    BY <1>5
<1>7. F[r] = IF r = {} THEN 0
             ELSE d[CHOOSE x \in r : TRUE] + F[r \ {CHOOSE x \in r : TRUE}]
    BY DEF EsSuma
<1>8. r # {}
    BY <1>6, <1>7
<1>9. PICK x \in r : F[r] = d[x] + F[r \ {x}]
  <2>1. (CHOOSE x \in r : TRUE) \in r
      BY <1>8
  <2>2. QED
      BY <1>7, <1>8, <2>1
<1>10. Cardinality(r \ {x}) = n - 1 /\ n - 1 \in Nat
    BY <1>1, <1>6
<1>11. F[r \ {x}] \in Int
  <2>1. n - 1 \notin Malos
    <3> HIDE DEF Malos
    <3>1. QED
        BY <1>4, <1>5, <1>10
  <2>2. QED
      BY <1>10, <2>1
<1>12. QED
    BY <1>6, <1>9, <1>11

\* y adds d[y] to what the rest of s does.
Aporta(F, d, s, y) == F[s] = d[y] + F[s \ {y}]

(* Any element may be the first one taken.                                 *)
LEMMA SumaQuita ==
    ASSUME NEW S, IsFiniteSet(S), NEW d \in [S -> Int], NEW F \in [SUBSET S -> Int],
           EsSuma(S, d, F), NEW s \in SUBSET S, NEW y \in s
    PROVE  Aporta(F, d, s, y)
<1> DEFINE Malos == {n \in Nat : \E r \in SUBSET S : /\ Cardinality(r) = n
                                                     /\ \E z \in r : F[r] # d[z] + F[r \ {z}]}
<1>1. \A r \in SUBSET S : /\ IsFiniteSet(r) /\ Cardinality(r) \in Nat
                          /\ \A x \in r : Cardinality(r \ {x}) = Cardinality(r) - 1
    BY FS_Subset, FS_CardinalityType, FS_RemoveElement
<1>2. SUFFICES ASSUME Malos # {} PROVE FALSE
    BY <1>1 DEF Aporta
<1>3. Malos \in SUBSET Nat
    OBVIOUS
<1>4. PICK n \in Malos : \A m \in Malos : n <= m
  <2> HIDE DEF Malos
  <2>1. QED
      BY <1>2, <1>3, MinimoNat, Zenon
<1>5. PICK r \in SUBSET S : Cardinality(r) = n /\ \E z \in r : F[r] # d[z] + F[r \ {z}]
    BY <1>4
<1>5a. PICK z \in r : F[r] # d[z] + F[r \ {z}]
    BY <1>5
<1>6. PICK x \in r : F[r] = d[x] + F[r \ {x}]
  <2>1. (CHOOSE x \in r : TRUE) \in r
      BY <1>5a
  <2>2. F[r] = d[CHOOSE x \in r : TRUE] + F[r \ {CHOOSE x \in r : TRUE}]
      BY <1>5, <1>5a DEF EsSuma
  <2>3. QED
      BY <2>1, <2>2
<1>7. x # z
    BY <1>5a, <1>6
<1>8. ASSUME NEW q \in SUBSET S, Cardinality(q) = n - 1, NEW a \in q
      PROVE  F[q] = d[a] + F[q \ {a}]
  <2>1. n - 1 \in Nat /\ n - 1 \notin Malos
      BY <1>1, <1>4, <1>8
  <2>2. QED
      BY <1>8, <2>1
<1>9. /\ F[r \ {x}] = d[z] + F[(r \ {x}) \ {z}]
      /\ F[r \ {z}] = d[x] + F[(r \ {z}) \ {x}]
    BY <1>1, <1>5, <1>7, <1>8
<1>10. PICK q \in SUBSET S : q = (r \ {x}) \ {z} /\ q = (r \ {z}) \ {x}
    OBVIOUS
<1>11. F[r \ {x}] = d[z] + F[q] /\ F[r \ {z}] = d[x] + F[q]
    BY <1>9, <1>10, Zenon
<1>12. d[x] \in Int /\ d[z] \in Int /\ F[q] \in Int
    OBVIOUS
<1>13. QED
    BY <1>5a, <1>6, <1>11, <1>12

\* F adds up d over each subset of S, taking the elements in any order.
SumaDe(F, S, d) ==
    /\ F \in [SUBSET S -> Int]
    /\ F[{}] = 0
    /\ \A s \in SUBSET S : \A x \in s : Aporta(F, d, s, x)

(* Total is the value of that F, so it takes its elements one by one.       *)
LEMMA TotalQuita ==
    ASSUME NEW S, IsFiniteSet(S), NEW d \in [S -> Int]
    PROVE  \E F : SumaDe(F, S, d) /\ Total(S, d) = F[S]
<1>1. PICK F : EsSuma(S, d, F) /\ F = (CHOOSE G : EsSuma(S, d, G))
    BY SumaExiste, Zenon
<1>2. F \in [SUBSET S -> Int]
    BY <1>1, SumaTipo
<1>3. F[{}] = 0
    BY <1>1 DEF EsSuma
<1>4. \A s \in SUBSET S : \A x \in s : Aporta(F, d, s, x)
    BY <1>1, <1>2, SumaQuita
<1>5. Total(S, d) = F[S]
    BY <1>1 DEF Total
<1>6. QED
    BY <1>2, <1>3, <1>4, <1>5 DEF SumaDe

(* Functions that agree on s add up to the same over it.                    *)
LEMMA SumaIgual ==
    ASSUME NEW S, IsFiniteSet(S), NEW d \in [S -> Int], NEW e \in [S -> Int],
           NEW F, SumaDe(F, S, d), NEW G, SumaDe(G, S, e), NEW q \in SUBSET S, \A x \in q : d[x] = e[x]
    PROVE  F[q] = G[q]
<1> DEFINE Malos == {n \in Nat : \E r \in SUBSET q : Cardinality(r) = n /\ F[r] # G[r]}
<1>1. \A r \in SUBSET q : /\ r \in SUBSET S /\ IsFiniteSet(r) /\ Cardinality(r) \in Nat
                          /\ \A x \in r : Cardinality(r \ {x}) = Cardinality(r) - 1
    BY FS_Subset, FS_CardinalityType, FS_RemoveElement
<1>2. SUFFICES ASSUME Malos # {} PROVE FALSE
    BY <1>1
<1>3. Malos \in SUBSET Nat
    OBVIOUS
<1>4. PICK n \in Malos : \A m \in Malos : n <= m
  <2> HIDE DEF Malos
  <2>1. QED
      BY <1>2, <1>3, MinimoNat, Zenon
<1>5. PICK r \in SUBSET q : Cardinality(r) = n /\ F[r] # G[r]
    BY <1>4
<1>6. PICK x \in r : TRUE
    BY <1>5 DEF SumaDe
<1>7. Cardinality(r \ {x}) = n - 1 /\ n - 1 \in Nat
  <2>1. r \ {x} \in SUBSET q
      OBVIOUS
  <2>2. QED
      BY <1>1, <1>5, <2>1
<1>8. F[r \ {x}] = G[r \ {x}]
  <2>1. n - 1 \notin Malos
    <3> HIDE DEF Malos
    <3>1. QED
        BY <1>3, <1>4, <1>7
  <2>2. QED
      BY <1>7, <2>1
<1>9. Aporta(F, d, r, x) /\ Aporta(G, e, r, x)
    BY <1>1, <1>6 DEF SumaDe
<1>10. d[x] = e[x]
    BY <1>6
<1>11. F[r] = G[r]
    BY <1>8, <1>9, <1>10 DEF Aporta
<1>12. QED
    BY <1>5, <1>11

(* A total is an integer.                                                   *)
LEMMA TotalTipo ==
    ASSUME NEW S, IsFiniteSet(S), NEW d \in [S -> Int]
    PROVE  Total(S, d) \in Int
<1>1. PICK F : SumaDe(F, S, d) /\ Total(S, d) = F[S]
    BY TotalQuita
<1>2. QED
    BY <1>1 DEF SumaDe

(* If only what x adds changes, the total changes as much.                  *)
LEMMA TotalCambia ==
    ASSUME NEW S, IsFiniteSet(S), NEW d \in [S -> Int], NEW e \in [S -> Int], NEW x \in S,
           \A y \in S \ {x} : e[y] = d[y],
           NEW k \in Int, e[x] = d[x] + k
    PROVE  Total(S, e) = Total(S, d) + k
<1>1. PICK F : SumaDe(F, S, d) /\ Total(S, d) = F[S]
    BY TotalQuita
<1>2. PICK G : SumaDe(G, S, e) /\ Total(S, e) = G[S]
    BY TotalQuita
<1>3. F[S \ {x}] = G[S \ {x}]
    BY <1>1, <1>2, SumaIgual
<1>4. F[S] = d[x] + F[S \ {x}] /\ F[S \ {x}] \in Int
    BY <1>1 DEF SumaDe, Aporta
<1>5. G[S] = e[x] + G[S \ {x}]
    BY <1>2 DEF SumaDe, Aporta
<1>6. Total(S, d) = d[x] + F[S \ {x}] /\ Total(S, e) = (d[x] + k) + F[S \ {x}]
    BY <1>1, <1>2, <1>3, <1>4, <1>5
<1>7. QED
    BY <1>4, <1>6

(* Over nothing the total is zero.                                          *)
LEMMA TotalVacio == ASSUME NEW d \in [{} -> Int] PROVE Total({}, d) = 0
<1>1. IsFiniteSet({})
    BY FS_EmptySet
<1>2. PICK F : SumaDe(F, {}, d) /\ Total({}, d) = F[{}]
    BY <1>1, TotalQuita
<1>3. QED
    BY <1>2 DEF SumaDe

(* The total takes x in, with what it adds.                                 *)
LEMMA TotalSin ==
    ASSUME NEW S, IsFiniteSet(S), NEW d \in [S -> Int], NEW x \in S,
           NEW e \in [S \ {x} -> Int], \A y \in S \ {x} : e[y] = d[y]
    PROVE  Total(S, d) = d[x] + Total(S \ {x}, e)
<1> DEFINE T == S \ {x}
<1>1. T \in SUBSET S /\ IsFiniteSet(T)
    BY FS_Subset
<1>2. PICK F : SumaDe(F, S, d) /\ Total(S, d) = F[S]
    BY TotalQuita
<1>3. PICK G : SumaDe(G, T, e) /\ Total(T, e) = G[T]
    BY <1>1, TotalQuita
<1>4. F[S] = d[x] + F[T]
    BY <1>2 DEF SumaDe, Aporta
<1> DEFINE H == [r \in SUBSET T |-> F[r]]
<1>5. SumaDe(H, T, e)
  <2>1. H \in [SUBSET T -> Int] /\ H[{}] = 0
      BY <1>1, <1>2 DEF SumaDe
  <2>2. ASSUME NEW r \in SUBSET T, NEW y \in r PROVE Aporta(H, e, r, y)
    <3>1. F[r] = d[y] + F[r \ {y}]
        BY <1>1, <1>2, <2>2 DEF SumaDe, Aporta
    <3>2. H[r] = F[r] /\ H[r \ {y}] = F[r \ {y}] /\ e[y] = d[y]
        BY <2>2
    <3>3. QED
        BY <3>1, <3>2 DEF Aporta
  <2>3. QED
      BY <2>1, <2>2 DEF SumaDe
<1>6. H[T] = F[T]
    OBVIOUS
<1> HIDE DEF H, T
<1>7. H[T] = G[T]
    BY <1>1, <1>3, <1>5, SumaIgual DEF T
<1>8. QED
    BY <1>2, <1>3, <1>4, <1>6, <1>7 DEF T

(* The larger of two functions adds up to more over each subset.            *)
LEMMA SumaMenor ==
    ASSUME NEW S, IsFiniteSet(S), NEW d \in [S -> Int], NEW e \in [S -> Int],
           NEW F, SumaDe(F, S, d), NEW G, SumaDe(G, S, e), \A x \in S : d[x] <= e[x],
           NEW q \in SUBSET S
    PROVE  F[q] <= G[q]
<1> DEFINE Malos == {n \in Nat : \E r \in SUBSET S : Cardinality(r) = n /\ ~(F[r] <= G[r])}
<1>1. \A r \in SUBSET S : /\ IsFiniteSet(r) /\ Cardinality(r) \in Nat
                          /\ \A x \in r : Cardinality(r \ {x}) = Cardinality(r) - 1
    BY FS_Subset, FS_CardinalityType, FS_RemoveElement
<1>2. SUFFICES ASSUME Malos # {} PROVE FALSE
    BY <1>1
<1>3. Malos \in SUBSET Nat
    OBVIOUS
<1>4. PICK n \in Malos : \A m \in Malos : n <= m
  <2> HIDE DEF Malos
  <2>1. QED
      BY <1>2, <1>3, MinimoNat, Zenon
<1>5. PICK r \in SUBSET S : Cardinality(r) = n /\ ~(F[r] <= G[r])
    BY <1>4
<1>6. PICK x \in r : TRUE
  <2>1. F[{}] = 0 /\ G[{}] = 0
      BY DEF SumaDe
  <2>2. r # {}
      BY <1>5, <2>1
  <2>3. QED
      BY <2>2
<1>7. Cardinality(r \ {x}) = n - 1 /\ n - 1 \in Nat /\ r \ {x} \in SUBSET S
    BY <1>1, <1>5
<1>8. F[r \ {x}] <= G[r \ {x}]
  <2>1. n - 1 \notin Malos
    <3> HIDE DEF Malos
    <3>1. QED
        BY <1>3, <1>4, <1>7
  <2>2. QED
      BY <1>7, <2>1
<1>9. F[r] = d[x] + F[r \ {x}] /\ G[r] = e[x] + G[r \ {x}]
    BY <1>6 DEF SumaDe, Aporta
<1>10. d[x] <= e[x] /\ d[x] \in Int /\ e[x] \in Int
    BY <1>6
<1>11. F[r \ {x}] \in Int /\ G[r \ {x}] \in Int
    BY <1>7 DEF SumaDe
<1>12. F[r] <= G[r]
    BY ONLY <1>8, <1>9, <1>10, <1>11
<1>13. QED
    BY <1>5, <1>12

(* So does its total, and it is larger if one value is.                     *)
LEMMA TotalMenor ==
    ASSUME NEW S, IsFiniteSet(S), NEW d \in [S -> Int], NEW e \in [S -> Int],
           \A x \in S : d[x] <= e[x]
    PROVE  /\ Total(S, d) <= Total(S, e)
           /\ \A x \in S : d[x] < e[x] => Total(S, d) < Total(S, e)
<1>1. PICK F : SumaDe(F, S, d) /\ Total(S, d) = F[S]
    BY TotalQuita
<1>2. PICK G : SumaDe(G, S, e) /\ Total(S, e) = G[S]
    BY TotalQuita
<1>3. F[S] <= G[S]
    BY <1>1, <1>2, SumaMenor
<1>4. ASSUME NEW x \in S, d[x] < e[x]
      PROVE  F[S] < G[S]
  <2>1. F[S] = d[x] + F[S \ {x}] /\ G[S] = e[x] + G[S \ {x}]
      BY <1>1, <1>2 DEF SumaDe, Aporta
  <2>2. F[S \ {x}] <= G[S \ {x}]
      BY <1>1, <1>2, SumaMenor
  <2>3. F[S \ {x}] \in Int /\ G[S \ {x}] \in Int
      BY <1>1, <1>2 DEF SumaDe
  <2>4. d[x] \in Int /\ e[x] \in Int
      OBVIOUS
  <2>5. QED
      BY ONLY <1>4, <2>1, <2>2, <2>3, <2>4
<1>5. QED
    BY <1>1, <1>2, <1>3, <1>4
=============================================================================
