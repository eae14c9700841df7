-------------------------------- MODULE Mundo --------------------------------
(***************************************************************************)
(* What Gamecard promises to the rest of the system: it keeps how many     *)
(* pokemons of each species there are at each position, and each message   *)
(* takes effect once, at one moment, whatever other handlers are doing. A  *)
(* CATCH succeeds if and only if there is one to take, and a GET gets all  *)
(* the positions that have any. It may break, and from then on it promises *)
(* nothing. TallGrass is shown to implement it.                            *)
(***************************************************************************)
EXTENDS Integers

CONSTANTS MENSAJES, ESPECIES, LUGARES

VARIABLES
    cuenta,     \* species, position -> how many
    atendidos,  \* message that took effect -> what its sender is told
    roto        \* the counts are no longer kept

Ninguno == [f \in ESPECIES |-> [l \in LUGARES |-> 0]]
Poblados(f) == {l \in LUGARES : cuenta[f][l] > 0}

InitMundo == ~roto /\ cuenta = Ninguno /\ atendidos = [m \in {} |-> 0]

(* The answer of m is settled, once.                                       *)
Contesta(m, rta) ==
    /\ m \notin DOMAIN atendidos
    /\ atendidos' = [u \in DOMAIN atendidos \union {m} |-> IF u = m THEN rta ELSE atendidos[u]]

Aparecen(m) ==
    /\ m.tipo = "NEW" /\ Contesta(m, 1)
    /\ cuenta' = [cuenta EXCEPT ![m.especie][m.lugar] = @ + m.cant]

Atrapan(m) ==
    /\ m.tipo = "CATCH" /\ Contesta(m, 1)
    /\ m.lugar \in Poblados(m.especie)
    /\ cuenta' = [cuenta EXCEPT ![m.especie][m.lugar] = @ - 1]

SeEscapo(m) ==
    /\ m.tipo = "CATCH" /\ Contesta(m, 0)
    /\ m.lugar \notin Poblados(m.especie)
    /\ UNCHANGED cuenta

Localizan(m) ==
    /\ m.tipo = "GET" /\ Contesta(m, Poblados(m.especie))
    /\ UNCHANGED cuenta

Rompe == roto'
Atiende(m) == ~roto /\ ~roto' /\ (Aparecen(m) \/ Atrapan(m) \/ SeEscapo(m) \/ Localizan(m))

NextMundo == Rompe \/ \E m \in MENSAJES : Atiende(m)

MundoSpec == InitMundo /\ [][NextMundo]_<<roto, atendidos, cuenta>>
=============================================================================
