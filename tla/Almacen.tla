------------------------------- MODULE Almacen -------------------------------
(***************************************************************************)
(* What the Broker's memory promises to the rest of the Broker, whatever   *)
(* the allocator behind it: every cached message owns a range of bytes     *)
(* inside the main memory that no other cached message shares; storing,    *)
(* dropping or moving one message leaves the ranges of the others alone.   *)
(* Particiones (dynamic partitions) and Buddy (buddy system) are shown to  *)
(* implement it.                                                           *)
(***************************************************************************)
EXTENDS Integers

CONSTANTS
    MEM_SIZE,   \* bytes of MEMORIA_PRINCIPAL
    DIRS        \* addresses malloc gives to the mensaje structs

VARIABLE lugar  \* cached message -> the range of memory it owns

Rango == [base : 0 .. MEM_SIZE, tam : 1 .. MEM_SIZE]

(* Two ranges of memory have no byte in common.                            *)
Disjuntos(r, s) == r.base + r.tam <= s.base \/ s.base + s.tam <= r.base

(* r lies inside the memory and touches none of the ranges in others.      *)
Libre(r, others) ==
    /\ r.base + r.tam <= MEM_SIZE
    /\ \A s \in others : Disjuntos(r, s)

Ajenos(d) == {lugar[e] : e \in DOMAIN lugar \ {d}}

InitAlmacen == lugar = [d \in {} |-> 0]

(* A new message gets a range that nobody owns.                            *)
Guardar(d) ==
    /\ d \notin DOMAIN lugar
    /\ \E r \in Rango :
         /\ Libre(r, Ajenos(d))
         /\ lugar' = [e \in DOMAIN lugar \union {d} |->
                          IF e = d THEN r ELSE lugar[e]]

(* A message leaves the cache.                                             *)
Borrar(d) ==
    /\ d \in DOMAIN lugar
    /\ lugar' = [e \in DOMAIN lugar \ {d} |-> lugar[e]]

(* A message slides towards the start of the memory, keeping its size.     *)
Mover(d) ==
    /\ d \in DOMAIN lugar
    /\ \E b \in 0 .. lugar[d].base - 1 :
         /\ Libre([lugar[d] EXCEPT !.base = b], Ajenos(d))
         /\ lugar' = [lugar EXCEPT ![d].base = b]

NextAlmacen == \E d \in DIRS : Guardar(d) \/ Borrar(d) \/ Mover(d)

AlmacenSpec == InitAlmacen /\ [][NextAlmacen]_lugar
=============================================================================
