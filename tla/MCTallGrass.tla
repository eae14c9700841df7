----------------------------- MODULE MCTallGrass -----------------------------
EXTENDS TallGrass, TLC

CONSTANTS a, b, p, q

M(n, tipo, f, l, c) == [n |-> n, tipo |-> tipo, especie |-> f, lugar |-> l, cant |-> c]

New1 == M(1, "NEW", a, p, 9)
New2 == M(2, "NEW", a, p, 1)
New3 == M(3, "NEW", a, q, 1)
New4 == M(4, "NEW", b, q, 1)
Catch1 == M(5, "CATCH", a, p, 1)
Get1 == M(6, "GET", a, p, 1)
Todos == {New1, New2, New3, New4, Catch1, Get1}

\* Counts of two digits and a CATCH; the same with a GET; two files that fill the blocks;
\* a file that empties while another one grows; one of each message on one file.
Escenarios ==
    {{New1, New2, Catch1}, {New1, New2, Get1}, {New1, New3, New4}, {New2, Catch1, New4},
     {New2, Catch1, Get1}, {New3, Catch1, New2}}

\* Two handlers that add to one file, at one position and at two; that fill two files; that
\* empty the file the other one reads or adds to; and three that retry.
EscenariosDobles ==
    {{New1, New2}, {New1, New3}, {New1, New4}, {New1, Catch1}, {New1, Get1},
     {New2, Catch1, Get1}}

Todas == Escenarios \union EscenariosDobles

\* Bound: three handlers go on until a file is opened twice or two get the same block;
\* those of EscenariosDobles to the end.
Acotado == Sano \/ DOMAIN hilo \in EscenariosDobles
=============================================================================
