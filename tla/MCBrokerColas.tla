--------------------------- MODULE MCBrokerColas ---------------------------
EXTENDS BrokerColas, TLC

CONSTANTS p1, p2, s1, s2, q1, q2

UnaConexion == {<<s1, q1>>}
UnaCadaUno == {<<s1, q1>>, <<s2, q1>>}
DosConexiones == {<<s1, q1>>, <<s1, q2>>}
TresConexiones == {<<s1, q1>>, <<s1, q2>>, <<s2, q1>>}
=============================================================================
