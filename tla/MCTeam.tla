------------------------------- MODULE MCTeam -------------------------------
EXTENDS Team, TLC

CONSTANTS t1, t2, t3, a, b, c

Uno(e) == [f \in ESPECIES |-> IF f = e THEN 1 ELSE 0]
Nada == [f \in ESPECIES |-> 0]
M(n, canal, e, x) == [n |-> n, canal |-> canal, especie |-> e, lugares |-> <<<<x, 0>>>>]
ML(n, e, s) == [n |-> n, canal |-> "localized", especie |-> e, lugares |-> s]

SinStock == [t \in ENTRENADORES |-> Nada]

\* Each of two trainers wants what is next to the other one: they have to exchange.
DosCruzados == (t1 :> Uno(a)) @@ (t2 :> Uno(b))
DosCerca == (t1 :> <<0, 0>>) @@ (t2 :> <<1, 0>>)
UnoDeCada == {ML(1, b, <<<<0, 0>>>>), M(2, "gameboy", a, 1)}

\* One trainer has to catch two, and the other one is chosen while the second burst of
\* the first has more to go: the planner with desalojo preempts it.
DosYUno == (t1 :> [Uno(a) EXCEPT ![b] = 1]) @@ (t2 :> Uno(a))
DosLugares == (t1 :> <<0, 0>>) @@ (t2 :> <<3, 0>>)
TresPokemons == {M(1, "appeared", b, 1), ML(2, a, <<<<3, 0>>, <<0, 0>>>>)}

\* Three trainers in a circle: each has what another one wants.
TresEnCirculo == (t1 :> Uno(a)) @@ (t2 :> Uno(b)) @@ (t3 :> Uno(c))
TresCerca == (t1 :> <<0, 0>>) @@ (t2 :> <<1, 0>>) @@ (t3 :> <<2, 0>>)
UnoParaCada == {M(1, "gameboy", b, 0), M(2, "gameboy", c, 1), M(3, "gameboy", a, 2)}

\* What fails, by planner.
NadaFalla == [p \in Planificadores |-> 0]
FallaUna == [NadaFalla EXCEPT !["SJF_SD"] = 1]
=============================================================================
