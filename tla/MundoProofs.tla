------------------------------ MODULE MundoProofs ------------------------------
(***************************************************************************)
(* TallGrass implements Mundo until a file is opened twice or two files    *)
(* get the same block: whatever else the handlers interleave, and however  *)
(* they shift, cut and append the bytes of a file, each message takes      *)
(* effect once, at one step, on the counts that the ones before it left.   *)
(* And so, until then, a file holds, byte by byte, what the handled        *)
(* messages add up to. What comes after is a Mundo that is broken.         *)
(***************************************************************************)
EXTENDS TallGrassProofs

-----------------------------------------------------------------------------
(* What the files hold for who opens them next is what Todo says.          *)
LEMMA VistaEs == EnOrden => \A f \in ESPECIES : Vista(f) = Todo(f)
<1> SUFFICES ASSUME EnOrden, NEW f \in ESPECIES PROVE Vista(f) = Todo(f)
    OBVIOUS
<1> DEFINE E == De(f, {"libera", "vuelcaLibre", "escribe", "vuelca"})
           bl == meta[f].bloques
           n == meta[f].size
           h == hilo[Escritor(f)]
<1>1. /\ HilosInv /\ CarpetasInv /\ Entero(f) /\ DiscoBien(disco)
      /\ bl \in Seq(Numeros) /\ n \in Nat
    BY DEF EnOrden, CarpetasInv, ContenidoInv, Metadata
<1>2. {"libera", "vuelcaLibre", "escribe", "vuelca"} = Escriben
    BY DEF Escriben, Cortando, Escribiendo
<1>3. E = De(f, Escriben)
    BY <1>2
<1>4. \A k : Leidos(bl, k) = Texto(disco, bl, k)
    BY DEF Leidos, Texto, ByteEn, Bloque, Lugar
<1>5. CASE E = {}
  <2>1. De(f, Cortando) = {}
      BY <1>3, <1>5, Lugares DEF De
  <2>2. Queda(f) = n /\ Nuevo(f) = <<>> /\ Van(f) = 0
      BY <1>3, <1>5, <2>1 DEF Queda, Nuevo, Van
  <2>3. Vista(f) = Texto(disco, bl, n)
      BY <1>4, <1>5 DEF Vista, Contenido
  <2>4. n <= Len(bl) * BLOCK_SIZE /\ EnDisco(disco, bl, n, <<>>, 0)
      BY <1>1, <2>2 DEF Entero
  <2>5. \A i \in 1 .. n : HayByte(disco, bl, i)
    <3>1. n + 0 = n
        BY <1>1
    <3>2. QED
        BY <2>4, <3>1 DEF EnDisco
  <2>6. Texto(disco, bl, n) \in Seq(Byte)
      BY <1>1, <2>4, <2>5, TextoEs
  <2>7. Texto(disco, bl, n) \o <<>> = Texto(disco, bl, n)
      BY <2>6, ConcatEmptySeq
  <2>8. QED
      BY <2>2, <2>3, <2>7 DEF Todo
<1>6. CASE E # {}
  <2>1. Escritor(f) \in De(f, Escriben)
      BY <1>3, <1>6 DEF Escritor
  <2>2. Escritor(f) \in DOMAIN hilo /\ Escritor(f).especie = f /\ h.pc \in Escriben
      BY <2>1 DEF De
  <2>3. Suyo(Escritor(f))
      BY <1>1, <2>2, SuArchivo, Lugares
  <2>4. /\ Queda(f) = IF h.pc \in Cortando THEN h.corte ELSE n
        /\ Nuevo(f) = h.datos
      BY <2>2, <2>3 DEF Suyo
  <2>5. (CHOOSE m \in De(f, {"libera", "vuelcaLibre", "escribe", "vuelca"}) : TRUE) = Escritor(f)
      BY <1>2 DEF Escritor
  <2>6. Vista(f) = Leidos(bl, IF h.pc \in {"libera", "vuelcaLibre"} THEN h.corte ELSE n) \o h.datos
      BY <1>6, <2>5 DEF Vista
  <2>7. QED
      BY <1>4, <2>4, <2>6 DEF Todo, Cortando
<1>7. QED
    BY <1>5, <1>6

(* The counts of Mundo are those of Todo, before a step and after it.      *)
LEMMA CuentaEs == EnOrden => Cuenta = [f \in ESPECIES |-> Cuentas(Todo(f))]
BY VistaEs DEF Cuenta

(* The same after a step, whose Todo is that of the lemmas of the steps.   *)
LEMMA CuentaDespues == EnOrden' => Cuenta' = [f \in ESPECIES |-> Cuentas(Todo(f)')]
<1>1. (EnOrden => Cuenta = [f \in ESPECIES |-> Cuentas(Todo(f))])'
    BY CuentaEs, PTL
<1>2. QED
    BY <1>1 DEF Cuentas, Donde, Cantidad, Hasta

(* The counts of a species, of whole numbers.                              *)
LEMMA TiposDeCuenta ==
    ASSUME EnOrden, NEW f \in ESPECIES, NEW l \in LUGARES
    PROVE  Cuenta[f][l] = Cuentas(Todo(f))[l] /\ Cuenta[f][l] \in Nat
<1>1. Cuenta[f] = Cuentas(Todo(f))
    BY CuentaEs
<1>2. Bien(Todo(f))
    BY DEF EnOrden, ContenidoInv, Entero
<1>3. Cuentas(Todo(f))[l] \in 0 .. 99
    BY <1>2, CuentasChicas
<1>4. QED
    BY <1>1, <1>3

-----------------------------------------------------------------------------
(* A step that leaves the files as they were leaves the counts of Mundo.   *)
LEMMA MismaCuenta == ASSUME EnOrden, EnOrden', TodoIgual PROVE Cuenta' = Cuenta
BY CuentaEs, CuentaDespues DEF TodoIgual

(* The effect of a message on the files is its effect on the counts.       *)
LEMMA OtraCuenta ==
    ASSUME EnOrden, EnOrden', NEW m, m.especie \in ESPECIES, m.lugar \in LUGARES,
           NEW c, Efecto(m, c)
    PROVE  Cuenta' = [Cuenta EXCEPT ![m.especie][m.lugar] = c]
<1> DEFINE f == m.especie
           K(g) == Cuentas(Todo(g))
           T(g) == Cuentas(Todo(g)')
<1>1. Cuenta = [g \in ESPECIES |-> K(g)] /\ Cuenta' = [g \in ESPECIES |-> T(g)]
    BY CuentaEs, CuentaDespues
<1>2. \A g \in ESPECIES : g # f => T(g) = K(g)
    BY DEF Efecto
<1>3. \A l \in LUGARES : T(f)[l] = IF l = m.lugar THEN c ELSE K(f)[l]
    BY DEF Efecto, Cambia
<1>4. ASSUME NEW g PROVE /\ K(g) = [l \in LUGARES |-> K(g)[l]]
                         /\ T(g) = [l \in LUGARES |-> T(g)[l]]
    BY DEF Cuentas
<1> HIDE DEF K, T
<1>5. T(f) = [K(f) EXCEPT ![m.lugar] = c]
    BY <1>3, <1>4
<1>6. QED
    BY <1>1, <1>2, <1>5

-----------------------------------------------------------------------------
(* Nobody is told anything at a step.                                      *)
Callado ==
    /\ DOMAIN hilo' = DOMAIN hilo
    /\ \A u \in DOMAIN hilo : hilo'[u].rta = hilo[u].rta /\ hilo'[u].vistos = hilo[u].vistos

(* Who was told something goes on being told the same.                     *)
LEMMA NadieContesta == ASSUME Callado PROVE Contestados' = Contestados
<1>1. {u \in DOMAIN hilo' : hilo'[u].rta # NULL} = {u \in DOMAIN hilo : hilo[u].rta # NULL}
    BY DEF Callado
<1>2. \A u \in DOMAIN hilo : hilo'[u].rta = hilo[u].rta /\ hilo'[u].vistos = hilo[u].vistos
    BY DEF Callado
<1>3. QED
    BY <1>1, <1>2 DEF Contestados

(* The thread of m goes on as h, with the same answer.                     *)
LEMMA SigueCallado ==
    ASSUME NEW m \in DOMAIN hilo, NEW h, hilo' = [hilo EXCEPT ![m] = h],
           h.rta = hilo[m].rta, h.vistos = hilo[m].vistos
    PROVE  Callado
BY DEF Callado

(* The thread of m has its answer.                                         *)
LEMMA UnoContesta ==
    ASSUME NEW m \in DOMAIN hilo, NEW h, hilo' = [hilo EXCEPT ![m] = h],
           hilo[m].rta = NULL, h.rta # NULL,
           NEW r, r = IF m.tipo = "GET" THEN h.vistos ELSE h.rta
    PROVE  W!Contesta(m, r)
<1> DEFINE C == {u \in DOMAIN hilo : hilo[u].rta # NULL}
           D(u) == IF u.tipo = "GET" THEN hilo[u].vistos ELSE hilo[u].rta
           D1(u) == IF u.tipo = "GET" THEN hilo'[u].vistos ELSE hilo'[u].rta
<1>1. /\ DOMAIN hilo' = DOMAIN hilo /\ hilo'[m] = h
      /\ \A u \in DOMAIN hilo : u # m => hilo'[u] = hilo[u]
    OBVIOUS
<1>2. {u \in DOMAIN hilo' : hilo'[u].rta # NULL} = C \union {m}
    BY <1>1
<1>3. \A u \in C \union {m} : D1(u) = IF u = m THEN r ELSE D(u)
    BY <1>1
<1>4. Contestados = [u \in C |-> D(u)] /\ Contestados' = [u \in C \union {m} |-> D1(u)]
    BY <1>2 DEF Contestados
<1>5. m \notin C
    OBVIOUS
<1> HIDE DEF C, D, D1
<1>6. DOMAIN Contestados = C /\ \A u \in C : Contestados[u] = D(u)
    BY <1>4
<1>7. Contestados' = [u \in C \union {m} |-> IF u = m THEN r ELSE Contestados[u]]
    BY <1>3, <1>4, <1>5, <1>6
<1>8. QED
    BY <1>5, <1>6, <1>7 DEF W!Contesta

-----------------------------------------------------------------------------
(* The steps that tell nobody anything.                                    *)
Callan(m) ==
    \/ Crea(m) \/ CreaMetadata(m) \/ Abre(m) \/ Agrega(m) \/ LeeSolo(m)
    \/ Libera(m) \/ VuelcaLibre(m) \/ RecortaSolo(m)
    \/ EscribeSolo(m) \/ PideBloqueSolo(m) \/ VuelcaSolo(m) \/ CreceSolo(m)
    \/ CierraSolo(m) \/ BuscaPos(m) \/ Saca(m) \/ Responde(m) \/ Muere

(* They only move the thread.                                              *)
LEMMA LosQueCallan ==
    ASSUME EnOrden, NEW m \in DOMAIN hilo, Callan(m) PROVE Callado
<1> DEFINE h0 == hilo[m]
<1>1. h0 \in Hilo
    BY DEF EnOrden, HilosInv
<1>2. ASSUME NEW p, Sigue(m, p) PROVE Callado
  <2>1. hilo' = [hilo EXCEPT ![m] = [h0 EXCEPT !.pc = p]]
      BY <1>2 DEF Sigue
  <2>2. [h0 EXCEPT !.pc = p].rta = h0.rta /\ [h0 EXCEPT !.pc = p].vistos = h0.vistos
      BY <1>1 DEF Hilo
  <2>3. QED
      BY <2>1, <2>2, SigueCallado
<1>3. ASSUME hilo' = hilo PROVE Callado
    BY <1>3 DEF Callado
<1>4. CASE Crea(m) \/ CreaMetadata(m) \/ Abre(m) \/ Agrega(m) \/ LeeSolo(m) \/ Muere
    BY <1>2, <1>3, <1>4 DEF Crea, CreaMetadata, Abre, Agrega, LeeSolo, Muere, Termina
<1>5. CASE \/ RecortaSolo(m) \/ VuelcaSolo(m) \/ CreceSolo(m)
           \/ CierraSolo(m) \/ Saca(m) \/ Responde(m)
    BY <1>2, <1>3, <1>5 DEF RecortaSolo, VuelcaSolo, CreceSolo, CierraSolo, Saca, Responde, Termina
<1>6. CASE Libera(m)
  <2>1. hilo' = [hilo EXCEPT ![m] = [h0 EXCEPT !.pc = "vuelcaLibre", !.visto = bitmap]]
      BY <1>6 DEF Libera, EnOrden, HilosInv
  <2>2. /\ [h0 EXCEPT !.pc = "vuelcaLibre", !.visto = bitmap].rta = h0.rta
        /\ [h0 EXCEPT !.pc = "vuelcaLibre", !.visto = bitmap].vistos = h0.vistos
      BY <1>1 DEF Hilo
  <2>3. QED
      BY <2>1, <2>2, SigueCallado
<1>7. CASE VuelcaLibre(m)
  <2> DEFINE h == [h0 EXCEPT !.pc = "libera", !.libera = Tail(h0.libera)]
  <2>1. hilo' = [hilo EXCEPT ![m] = h]
      BY <1>7 DEF VuelcaLibre
  <2>2. h.rta = h0.rta /\ h.vistos = h0.vistos
      BY <1>1 DEF Hilo
  <2> HIDE DEF h
  <2>3. QED
      BY <2>1, <2>2, SigueCallado
<1>8. CASE EscribeSolo(m)
  <2>1. PICK x : hilo' = [hilo EXCEPT ![m].van = x]
      BY <1>8 DEF EscribeSolo
  <2> DEFINE h == [h0 EXCEPT !.van = x]
  <2>2. hilo' = [hilo EXCEPT ![m] = h]
      BY <2>1
  <2>3. h.rta = h0.rta /\ h.vistos = h0.vistos
      BY <1>1 DEF Hilo
  <2> HIDE DEF h
  <2>4. QED
      BY <2>2, <2>3, SigueCallado
<1>9. CASE PideBloqueSolo(m)
  <2>1. CASE bitmap = Numeros
      BY <1>3, <1>9, <2>1 DEF PideBloqueSolo, Termina
  <2>2. CASE bitmap # Numeros
    <3>1. PICK x : hilo' = [hilo EXCEPT ![m] = [h0 EXCEPT !.pc = "vuelca", !.visto = bitmap,
                                                         !.bloque = x]]
        BY <1>9, <2>2 DEF PideBloqueSolo
    <3> DEFINE h == [h0 EXCEPT !.pc = "vuelca", !.visto = bitmap, !.bloque = x]
    <3>2. h.rta = h0.rta /\ h.vistos = h0.vistos
        BY <1>1 DEF Hilo
    <3>3. hilo' = [hilo EXCEPT ![m] = h]
        BY <3>1
    <3> HIDE DEF h
    <3>4. QED
        BY <3>2, <3>3, SigueCallado
  <2>3. QED
      BY <2>1, <2>2
<1>10. CASE BuscaPos(m)
  <2>1. CASE Contains(abiertos, m.especie)
    <3>1. PICK x : hilo' = [hilo EXCEPT ![m] = [h0 EXCEPT !.pc = "saca", !.pos = x]]
        BY <1>10, <2>1 DEF BuscaPos
    <3> DEFINE h == [h0 EXCEPT !.pc = "saca", !.pos = x]
    <3>2. h.rta = h0.rta /\ h.vistos = h0.vistos
        BY <1>1 DEF Hilo
    <3>3. hilo' = [hilo EXCEPT ![m] = h]
        BY <3>1
    <3> HIDE DEF h
    <3>4. QED
        BY <3>2, <3>3, SigueCallado
  <2>2. CASE ~Contains(abiertos, m.especie)
    <3>1. Sigue(m, "responde")
        BY <1>10, <2>2 DEF BuscaPos, Sigue
    <3>2. QED
        BY <1>2, <3>1
  <2>3. QED
      BY <2>1, <2>2
<1>11. QED
    BY <1>4, <1>5, <1>6, <1>7, <1>8, <1>9, <1>10 DEF Callan

(* And they leave the files as they were.                                  *)
LEMMA CallanSinTocar ==
    ASSUME EnOrden, NEW m \in DOMAIN hilo, Callan(m) PROVE EnOrden' /\ TodoIgual
<1>1. CASE Crea(m) \/ CreaMetadata(m) \/ Abre(m) \/ Agrega(m) \/ LeeSolo(m)
    BY <1>1, PasoCrea, PasoCreaMetadata, PasoAbre, PasoAgrega, PasoLee
<1>2. CASE Libera(m) \/ VuelcaLibre(m) \/ RecortaSolo(m)
    BY <1>2, PasoLibera, PasoVuelcaLibre, PasoRecorta
<1>3. CASE EscribeSolo(m) \/ PideBloqueSolo(m) \/ VuelcaSolo(m) \/ CreceSolo(m)
    BY <1>3, PasoEscribe, PasoPideBloque, PasoVuelca, PasoCrece
<1>4. CASE CierraSolo(m) \/ BuscaPos(m) \/ Saca(m) \/ Responde(m)
    BY <1>4, PasoCierra, PasoBuscaPos, PasoSaca, PasoResponde
<1>5. CASE Muere
    BY <1>5, PasoTermina DEF Muere
<1>6. QED
    BY <1>1, <1>2, <1>3, <1>4, <1>5 DEF Callan

(* So Mundo does not see them.                                            *)
LEMMA CallanNoSeVe ==
    ASSUME EnOrden, NEW m \in DOMAIN hilo, Callan(m)
    PROVE  Cuenta' = Cuenta /\ Contestados' = Contestados
BY CallanSinTocar, MismaCuenta, LosQueCallan, NadieContesta

-----------------------------------------------------------------------------
(* The steps at which a message takes effect.                              *)

(* A thread that has not answered and found its file, or is to open it.    *)
LEMMA SinDecir ==
    ASSUME EnOrden, NEW m \in DOMAIN hilo, hilo[m].pc \in SinRespuesta
    PROVE  /\ hilo[m] \in Hilo /\ hilo[m].rta = NULL /\ hilo[m].vistos = {}
           /\ m \in MENSAJES /\ m.especie \in ESPECIES /\ m.lugar \in LUGARES
           /\ m.cant \in 1 .. 9 /\ m.tipo \in Tipos
<1>1. hilo[m] \in Hilo /\ HiloBien(hilo[m]) /\ HilosInv
    BY DEF EnOrden, HilosInv
<1>2. DOMAIN hilo \in ESCENARIOS
    BY DEF EnOrden, HilosInv
<1>3. m \in MENSAJES
    BY <1>2, TallGrassAssumption
<1>4. QED
    BY <1>1, <1>3, SusMensajes DEF HiloBien

(* delet_tall_grass answers 1.                                             *)
LEMMA BorraContesta ==
    ASSUME EnOrden, NEW m \in DOMAIN hilo, hilo[m].pc = "opera", m.tipo # "GET",
           NEW i, NEW c, BorraSolo(m, i, c)
    PROVE  W!Contesta(m, 1)
<1>1. hilo[m] \in Hilo /\ hilo[m].rta = NULL
    BY SinDecir DEF SinRespuesta
<1>2. PICK corte, lib, dat :
        hilo' = [hilo EXCEPT ![m] = [hilo[m] EXCEPT !.pc = "libera", !.rta = 1, !.corte = corte,
                                        !.van = 0, !.libera = lib, !.datos = dat]]
    BY DEF BorraSolo
<1> DEFINE h == [hilo[m] EXCEPT !.pc = "libera", !.rta = 1, !.corte = corte,
                                !.van = 0, !.libera = lib, !.datos = dat]
<1>3. h.rta = 1 /\ hilo' = [hilo EXCEPT ![m] = h]
    BY <1>1, <1>2 DEF Hilo
<1>4. NULL # 1
    BY TallGrassAssumption
<1> HIDE DEF h
<1>5. QED
    BY <1>1, <1>3, <1>4, UnoContesta

(* mensaje_new_pokemon makes the pokemons appear.                          *)
LEMMA NewAparece ==
    ASSUME EnOrden, NEW m \in DOMAIN hilo, NewSolo(m) PROVE W!Aparecen(m)
<1> DEFINE i == Donde(Contenido(m.especie), m.lugar)
           f == m.especie
<1>1. hilo[m].pc = "opera" /\ m.tipo = "NEW" /\ fin = "no"
    BY DEF NewSolo, En
<1>2. /\ hilo[m] \in Hilo /\ hilo[m].rta = NULL /\ f \in ESPECIES /\ m.lugar \in LUGARES
      /\ m.cant \in 1 .. 9
    BY <1>1, SinDecir DEF SinRespuesta
<1>3. Cuenta[f][m.lugar] = Cuentas(Todo(f))[m.lugar] /\ Cuenta[f][m.lugar] \in Nat
    BY <1>2, TiposDeCuenta
<1>4. CASE i = 0
  <2> DEFINE h == [hilo[m] EXCEPT !.pc = "escribe", !.rta = 1, !.van = 0,
                                  !.datos = Registro(m.lugar, m.cant)]
  <2>1. hilo' = [hilo EXCEPT ![m] = h] /\ h.rta = 1 /\ NULL # 1
      BY <1>2, <1>4, TallGrassAssumption DEF NewSolo, Hilo
  <2> HIDE DEF h
  <2>2. W!Contesta(m, 1)
      BY <1>1, <1>2, <2>1, UnoContesta
  <2>3. EnOrden' /\ Efecto(m, m.cant)
      BY <1>4, PasoNewPrimero
  <2>4. Cuenta[f][m.lugar] = 0
      BY <1>1, <1>2, <1>3, <1>4, AlOperar, DondeEsta
  <2>5. Cuenta' = [Cuenta EXCEPT ![f][m.lugar] = m.cant]
      BY <1>2, <2>3, OtraCuenta
  <2>6. Cuenta[f][m.lugar] + m.cant = m.cant
      BY <1>2, <2>4
  <2>7. Cuenta' = [Cuenta EXCEPT ![f][m.lugar] = @ + m.cant]
      BY <2>5, <2>6
  <2>8. QED
      BY <1>1, <2>2, <2>7 DEF W!Aparecen
<1>5. CASE i # 0
  <2>1. EnOrden' /\ Efecto(m, Cuentas(Todo(f))[m.lugar] + m.cant)
      BY <1>5, PasoNewMas
  <2>2. PICK c : BorraSolo(m, i, c)
      BY <1>5 DEF NewSolo
  <2>3. W!Contesta(m, 1)
      BY <1>1, <2>2, BorraContesta
  <2>4. Cuenta' = [Cuenta EXCEPT ![f][m.lugar] = Cuentas(Todo(f))[m.lugar] + m.cant]
      BY <1>2, <2>1, OtraCuenta
  <2>5. Cuenta' = [Cuenta EXCEPT ![f][m.lugar] = @ + m.cant]
      BY <1>3, <2>4
  <2>6. QED
      BY <1>1, <2>3, <2>5 DEF W!Aparecen
<1>6. QED
    BY <1>4, <1>5

(* mensaje_catch_pokemon takes one if there is one, and answers whether.   *)
LEMMA CatchAtrapa ==
    ASSUME EnOrden, NEW m \in DOMAIN hilo, CatchSolo(m) PROVE W!Atrapan(m) \/ W!SeEscapo(m)
<1> DEFINE i == Donde(Contenido(m.especie), m.lugar)
           f == m.especie
<1>1. hilo[m].pc = "opera" /\ m.tipo = "CATCH" /\ fin = "no"
    BY DEF CatchSolo, En
<1>2. /\ hilo[m] \in Hilo /\ hilo[m].rta = NULL /\ f \in ESPECIES /\ m.lugar \in LUGARES
    BY <1>1, SinDecir DEF SinRespuesta
<1>3. Cuenta[f][m.lugar] = Cuentas(Todo(f))[m.lugar] /\ Cuenta[f][m.lugar] \in Nat
    BY <1>2, TiposDeCuenta
<1>4. CASE i = 0
  <2> DEFINE h == [hilo[m] EXCEPT !.pc = "cierra", !.rta = 0]
  <2>1. hilo' = [hilo EXCEPT ![m] = h]
      BY <1>4 DEF CatchSolo, EnOrden, HilosInv
  <2>2. h.rta = 0 /\ NULL # 0
      BY <1>2, TallGrassAssumption DEF Hilo
  <2> HIDE DEF h
  <2>3. W!Contesta(m, 0)
      BY <1>1, <1>2, <2>1, <2>2, UnoContesta
  <2>4. Cuenta' = Cuenta
      BY <1>4, PasoCatchNada, MismaCuenta
  <2>5. Cuenta[f][m.lugar] = 0
      BY <1>1, <1>2, <1>3, <1>4, AlOperar, DondeEsta
  <2>6. m.lugar \notin W!Poblados(f)
      BY <2>5 DEF W!Poblados
  <2>7. QED
      BY <1>1, <2>3, <2>4, <2>6 DEF W!SeEscapo
<1>5. CASE i # 0
  <2>1. /\ EnOrden' /\ Efecto(m, Cuentas(Todo(f))[m.lugar] - 1)
        /\ Cuentas(Todo(f))[m.lugar] > 0
      BY <1>5, PasoCatchUno
  <2>2. PICK c : BorraSolo(m, i, c)
      BY <1>5 DEF CatchSolo
  <2>3. W!Contesta(m, 1)
      BY <1>1, <2>2, BorraContesta
  <2>4. Cuenta' = [Cuenta EXCEPT ![f][m.lugar] = Cuentas(Todo(f))[m.lugar] - 1]
      BY <1>2, <2>1, OtraCuenta
  <2>5. Cuenta' = [Cuenta EXCEPT ![f][m.lugar] = @ - 1]
      BY <1>3, <2>4
  <2>6. m.lugar \in W!Poblados(f)
      BY <1>2, <1>3, <2>1 DEF W!Poblados
  <2>7. QED
      BY <1>1, <2>3, <2>5, <2>6 DEF W!Atrapan
<1>6. QED
    BY <1>4, <1>5

(* mensaje_get_pokemon gets all the positions that have any.               *)
LEMMA GetLocaliza ==
    ASSUME EnOrden, NEW m \in DOMAIN hilo, GetSolo(m) PROVE W!Localizan(m)
<1> DEFINE f == m.especie
           v == {l \in LUGARES : Donde(Contenido(f), l) # 0}
           h == [hilo[m] EXCEPT !.pc = "cierra", !.rta = 1, !.vistos = v]
<1>1. hilo[m].pc = "opera" /\ m.tipo = "GET" /\ fin = "no" /\ hilo' = [hilo EXCEPT ![m] = h]
    BY DEF GetSolo, En
<1>2. hilo[m] \in Hilo /\ hilo[m].rta = NULL /\ f \in ESPECIES
    BY <1>1, SinDecir DEF SinRespuesta
<1>3. h.rta = 1 /\ h.vistos = v /\ NULL # 1
    BY <1>2, TallGrassAssumption DEF Hilo
<1>4. v = W!Poblados(f)
  <2>1. Contenido(f) = Todo(f) /\ Bien(Contenido(f))
      BY <1>1, AlOperar
  <2>2. \A l \in LUGARES : Donde(Contenido(f), l) # 0 <=> Cuentas(Todo(f))[l] > 0
      BY <2>1, DondeEsta
  <2>3. \A l \in LUGARES : Cuenta[f][l] = Cuentas(Todo(f))[l]
      BY <1>2, TiposDeCuenta
  <2>4. QED
      BY <2>2, <2>3 DEF W!Poblados
<1> HIDE DEF h, v
<1>5. W!Contesta(m, v)
    BY <1>1, <1>2, <1>3, UnoContesta
<1>6. Cuenta' = Cuenta
    BY PasoGet, MismaCuenta
<1>7. QED
    BY <1>1, <1>4, <1>5, <1>6 DEF W!Localizan

(* A file that is not there has no pokemons.                               *)
LEMMA SinFichero ==
    ASSUME EnOrden, NEW f \in ESPECIES, dir[f] = "no"
    PROVE  \A l \in LUGARES : Cuenta[f][l] = 0
<1>1. HilosInv /\ CarpetasInv
    BY DEF EnOrden
<1>2. De(f, Operando) = {}
    BY <1>1 DEF CarpetasInv, De
<1>3. De(f, Cortando) = {} /\ De(f, Escriben) = {}
    BY <1>2, Lugares DEF De
<1>4. meta[f] = Vacio /\ Vacio.size = 0
    BY <1>1 DEF CarpetasInv, Vacio
<1>5. Queda(f) = 0 /\ Nuevo(f) = <<>>
    BY <1>3, <1>4 DEF Queda, Nuevo
<1>6. Todo(f) = <<>>
  <2>1. Texto(disco, meta[f].bloques, 0) = <<>>
      BY DEF Texto
  <2>2. <<>> \o <<>> = <<>>
      OBVIOUS
  <2>3. QED
      BY <1>5, <2>1, <2>2 DEF Todo
<1>7. \A l \in LUGARES : Cuentas(<<>>)[l] = 0
  <2>1. Bien(<<>>)
      BY <1>6 DEF EnOrden, ContenidoInv, Entero
  <2>2. 1 .. Len(<<>>) = {}
      OBVIOUS
  <2>3. QED
      BY <2>1, <2>2, CuentaDe
<1>8. QED
    BY <1>6, <1>7, TiposDeCuenta

(* find_tall_grass: without the file, a CATCH does not find the pokemon    *)
(* and a GET finds no position.                                            *)
LEMMA BuscaResponde ==
    ASSUME EnOrden, EnOrden', NEW m \in DOMAIN hilo, Busca(m)
    PROVE  \/ Cuenta' = Cuenta /\ Contestados' = Contestados
           \/ W!SeEscapo(m) \/ W!Localizan(m)
<1>1. hilo[m].pc = "busca"
    BY DEF Busca, En
<1>2. /\ hilo[m] \in Hilo /\ hilo[m].rta = NULL /\ hilo[m].vistos = {}
      /\ m.especie \in ESPECIES /\ m.lugar \in LUGARES /\ m.tipo \in Tipos
    BY <1>1, SinDecir DEF SinRespuesta
<1>3. Cuenta' = Cuenta
    BY PasoBusca, MismaCuenta
<1>4. CASE dir[m.especie] # "no" \/ m.tipo = "NEW"
  <2>1. PICK p : hilo' = [hilo EXCEPT ![m] = [hilo[m] EXCEPT !.pc = p]]
      BY <1>4 DEF Busca
  <2> DEFINE h == [hilo[m] EXCEPT !.pc = p]
  <2>2. h.rta = hilo[m].rta /\ h.vistos = hilo[m].vistos /\ hilo' = [hilo EXCEPT ![m] = h]
      BY <1>2, <2>1 DEF Hilo
  <2> HIDE DEF h
  <2>3. QED
      BY <1>3, <2>2, SigueCallado, NadieContesta
<1>5. CASE dir[m.especie] = "no" /\ m.tipo # "NEW"
  <2> DEFINE h == [hilo[m] EXCEPT !.pc = "responde", !.rta = 0]
  <2>1. hilo' = [hilo EXCEPT ![m] = h]
      BY <1>5 DEF Busca
  <2>2. h.rta = 0 /\ h.vistos = {} /\ NULL # 0
      BY <1>2, TallGrassAssumption DEF Hilo
  <2>3. W!Poblados(m.especie) = {}
    <3>1. \A l \in LUGARES : ~(Cuenta[m.especie][l] > 0)
        BY <1>2, <1>5, SinFichero
    <3>2. QED
        BY <3>1 DEF W!Poblados
  <2> HIDE DEF h
  <2>4. CASE m.tipo = "GET"
    <3>1. W!Contesta(m, {})
        BY <1>2, <2>1, <2>2, <2>4, UnoContesta
    <3>2. QED
        BY <1>3, <2>3, <2>4, <3>1 DEF W!Localizan
  <2>5. CASE m.tipo = "CATCH"
    <3>1. W!Contesta(m, 0)
        BY <1>2, <2>1, <2>2, <2>5, UnoContesta
    <3>2. QED
        BY <1>3, <2>3, <2>5, <3>1 DEF W!SeEscapo
  <2>6. QED
      BY <1>2, <1>5, <2>4, <2>5 DEF Tipos
<1>6. QED
    BY <1>4, <1>5

-----------------------------------------------------------------------------
(* A step of the handlers, in order, is one of the promise, or none.       *)
LEMMA PasoSoloMundo ==
    ASSUME EnOrden, EnOrden', NEW m \in DOMAIN hilo, Solo(m)
    PROVE  \/ Cuenta' = Cuenta /\ Contestados' = Contestados
           \/ W!Aparecen(m) \/ W!Atrapan(m) \/ W!SeEscapo(m) \/ W!Localizan(m)
<1>1. Callan(m) \/ Busca(m) \/ NewSolo(m) \/ CatchSolo(m) \/ GetSolo(m)
    BY DEF Solo, Callan
<1>2. QED
    BY <1>1, CallanNoSeVe, BuscaResponde, NewAparece, CatchAtrapa, GetLocaliza

(* Every step is a step of the promise, or none; the one that opens a file *)
(* twice or puts a block in two breaks it, and so does any after that.     *)
LEMMA PasoMundo ==
    ASSUME IInv, IInv', [Next]_vars
    PROVE  [W!NextMundo]_<<~Sano, Contestados, Cuenta>>
<1>1. CASE ~Sano'
    BY <1>1 DEF W!NextMundo, W!Rompe
<1>2. CASE UNCHANGED vars /\ Sano'
  <2>1. /\ UNCHANGED <<dir, meta, disco, bitmap, abiertos, hilo, errada, pisado, fin>>
        /\ doble' = doble /\ compartido' = compartido
      BY <1>2 DEF vars, memoria, historia
  <2>2. Sano
      BY <1>2, <2>1 DEF Sano
  <2>3. EnOrden /\ EnOrden'
      BY <1>2, <2>2 DEF IInv
  <2>4. TodoIgual
      BY <2>1, <2>3, PasoNada
  <2>5. Callado
      BY <2>1 DEF Callado
  <2>6. Cuenta' = Cuenta /\ Contestados' = Contestados
      BY <2>3, <2>4, <2>5, MismaCuenta, NadieContesta
  <2>7. (~Sano)' = ~Sano
      BY <1>2, <2>2
  <2>8. QED
      BY <2>6, <2>7
<1>3. CASE Next /\ Sano'
  <2>1. PICK m \in DOMAIN hilo : Abrir(m) \/ Operar(m) \/ Cerrar(m)
      BY <1>3 DEF Next, Paso
  <2>2. Sano /\ (~Sano)' = ~Sano
      BY <1>3, <2>1, SanoAntes
  <2>3. TiposInv /\ EnOrden /\ Copias /\ EnOrden'
      BY <1>3, <2>2 DEF IInv
  <2>4. Solo(m)
      BY <1>3, <2>1, <2>3, DeUno
  <2>5. m \in MENSAJES
    <3>1. DOMAIN hilo \in ESCENARIOS
        BY <2>3 DEF EnOrden, HilosInv
    <3>2. QED
        BY <3>1, TallGrassAssumption
  <2>6. CASE Cuenta' = Cuenta /\ Contestados' = Contestados
      BY <2>2, <2>6
  <2>7. CASE W!Aparecen(m) \/ W!Atrapan(m) \/ W!SeEscapo(m) \/ W!Localizan(m)
    <3>1. W!Atiende(m)
        BY <1>3, <2>2, <2>7 DEF W!Atiende
    <3>2. QED
        BY <2>5, <3>1 DEF W!NextMundo
  <2>8. QED
      BY <2>3, <2>4, <2>6, <2>7, PasoSoloMundo
<1>4. QED
    BY <1>1, <1>2, <1>3

(* At first there are no pokemons, and nobody was told anything.           *)
LEMMA InicioMundo == ASSUME Init PROVE W!InitMundo
<1>1. EnOrden /\ Sano /\ \A f \in ESPECIES : dir[f] = "no"
    BY AlPrincipio DEF Init, Sano
<1>2. \A f \in ESPECIES, l \in LUGARES : Cuenta[f][l] = 0
    BY <1>1, SinFichero
<1>3. Cuenta = [f \in ESPECIES |-> [l \in LUGARES |-> Cuenta[f][l]]]
    BY DEF Cuenta, Cuentas
<1>4. Cuenta = W!Ninguno
  <2> HIDE DEF Cuenta
  <2>1. QED
      BY <1>2, <1>3 DEF W!Ninguno
<1>5. \A m \in DOMAIN hilo : hilo[m].rta = NULL
    BY DEF Init, Quieto
<1>6. Contestados = [m \in {} |-> 0]
  <2>1. {u \in DOMAIN hilo : hilo[u].rta # NULL} = {}
      BY <1>5
  <2>2. QED
      BY <2>1 DEF Contestados
<1>7. QED
    BY <1>1, <1>4, <1>6 DEF W!InitMundo

(* Until a file is opened twice or two files get the same block, the       *)
(* handlers keep the promise of Gamecard, step by step: a NEW adds its     *)
(* pokemons to those of its species at its position, a CATCH takes one if  *)
(* and only if there is one, a GET sees all the positions that have any,   *)
(* each of them once, and nothing else changes what the files hold. The    *)
(* step that opens a file twice breaks Mundo, and nothing is said of the   *)
(* ones that come after it.                                                *)
THEOREM Refinamiento == Spec => EsUnMundo
<1>1. Init => W!InitMundo
    BY InicioMundo
<1>2. IInv /\ IInv' /\ [Next]_vars => [W!NextMundo]_<<~Sano, Contestados, Cuenta>>
    BY PasoMundo
<1>3. QED
    BY <1>1, <1>2, Invariante, PTL DEF Spec, EsUnMundo, W!MundoSpec

-----------------------------------------------------------------------------
(* What a well formed file has of each position it has any of.             *)
Hay(s) == {l \in LUGARES : Cuentas(s)[l] > 0}
Largos(s) == [l \in Hay(s) |-> Len(Registro(l, Cuentas(s)[l]))]

(* Its record starts somewhere, and says how many.                         *)
LEMMA SuRegistro ==
    ASSUME NEW s, Bien(s), NEW l \in Hay(s)
    PROVE  /\ Cuentas(s)[l] \in 1 .. 99
           /\ \E i \in 1 .. Len(s) :
                /\ s[i] = l /\ Cuentas(s)[l] = Cantidad(s, i) /\ RegistroEn(s, i)
<1>1. l \in LUGARES /\ Cuentas(s)[l] > 0
    BY DEF Hay
<1>2. PICK i \in 1 .. Len(s) : s[i] = l
    BY <1>1, CuentaDe
<1>3. Cuentas(s)[l] = Cantidad(s, i)
    BY <1>1, <1>2, CuentaDe
<1>4. s \in Seq(Byte) /\ RegistroEn(s, i)
    BY <1>1, <1>2 DEF Bien
<1>5. Cantidad(s, i) \in 1 .. 99
    BY <1>1, <1>2, <1>4, FinDelRegistro
<1>6. QED
    BY <1>2, <1>3, <1>4, <1>5

(* The bytes from there on are those of that record.                       *)
LEMMA LosBytes ==
    ASSUME NEW s, Bien(s), NEW l \in Hay(s), NEW i \in 1 .. Len(s),
           s[i] = l, Cuentas(s)[l] = Cantidad(s, i), RegistroEn(s, i)
    PROVE  LET r == Registro(l, Cuentas(s)[l]) IN
           /\ r \in Seq(Byte) /\ Len(r) = Hasta(s, i) - i + 1
           /\ i + Len(r) - 1 <= Len(s)
           /\ \A k \in 1 .. Len(r) : r[k] = s[i + k - 1]
<1> DEFINE c == Cuentas(s)[l]
           r == Registro(l, c)
           n == Len(s)
<1>1. l \in LUGARES /\ c \in 1 .. 99 /\ s \in Seq(Byte) /\ n \in Nat
    BY SuRegistro, LenProperties DEF Hay, Bien
<1>2. /\ Hasta(s, i) = IF s[i + 2] = FIN THEN i + 2 ELSE i + 3
      /\ Hasta(s, i) <= n /\ s[Hasta(s, i)] = FIN
      /\ c = IF s[i + 2] = FIN THEN s[i + 1] ELSE 10 * s[i + 1] + s[i + 2]
    BY <1>1, FinDelRegistro
<1>3. /\ r \in Seq(Byte) /\ r[1] = l /\ r[2] \in 1 .. 9
      /\ \/ Len(r) = 3 /\ r[3] = FIN /\ r[2] = c
         \/ Len(r) = 4 /\ r[3] \in 0 .. 9 /\ r[4] = FIN /\ 10 * r[2] + r[3] = c
    BY <1>1, BytesDeRegistro
<1>4. /\ s[i + 1] \in 1 .. 9
      /\ s[i + 2] # FIN => s[i + 2] \in 0 .. 9 /\ s[i + 3] = FIN
    BY DEF RegistroEn
<1> HIDE DEF c, r, n
<1>5. CASE s[i + 2] = FIN
  <2>1. c = s[i + 1] /\ c \in 1 .. 9 /\ Hasta(s, i) = i + 2 /\ i + 2 <= n
      BY <1>2, <1>4, <1>5
  <2>2. Len(r) = 3 /\ r[3] = FIN /\ r[2] = c
    <3>1. \A x \in 1 .. 9, y \in 0 .. 9 : 10 * x + y \notin 1 .. 9
        OBVIOUS
    <3>2. QED
        BY <1>3, <2>1, <3>1
  <2>3. i \in Nat /\ i + 1 - 1 = i /\ i + 2 - 1 = i + 1 /\ i + 3 - 1 = i + 2
      BY <1>1
  <2>4. r[1] = s[i + 1 - 1] /\ r[2] = s[i + 2 - 1] /\ r[3] = s[i + 3 - 1]
      BY <1>3, <1>5, <2>1, <2>2, <2>3
  <2>5. \A k \in 1 .. 3 : k = 1 \/ k = 2 \/ k = 3
      OBVIOUS
  <2>6. \A k \in 1 .. 3 : r[k] = s[i + k - 1]
      BY <2>4, <2>5
  <2>7. Len(r) = Hasta(s, i) - i + 1 /\ i + Len(r) - 1 <= n
      BY <1>1, <2>1, <2>2, <2>3
  <2>8. QED
      BY <1>3, <2>2, <2>6, <2>7 DEF r, c, n
<1>6. CASE s[i + 2] # FIN
  <2>1. /\ c = 10 * s[i + 1] + s[i + 2] /\ Hasta(s, i) = i + 3 /\ i + 3 <= n
        /\ s[i + 2] \in 0 .. 9 /\ s[i + 3] = FIN
      BY <1>2, <1>4, <1>6
  <2>2. /\ Len(r) = 4 /\ r[3] = s[i + 2] /\ r[4] = FIN /\ r[2] = s[i + 1]
    <3>1. \A x \in 1 .. 9, y \in 0 .. 9, z \in 1 .. 9 : 10 * x + y # z
        OBVIOUS
    <3>2. \A x \in 1 .. 9, y \in 0 .. 9, p \in 1 .. 9, q \in 0 .. 9 :
            10 * x + y = 10 * p + q => x = p /\ y = q
        OBVIOUS
    <3>3. c # r[2]
        BY <1>3, <1>4, <2>1, <3>1
    <3>4. Len(r) = 4 /\ r[3] \in 0 .. 9 /\ r[4] = FIN /\ 10 * r[2] + r[3] = c
        BY <1>3, <3>3
    <3>5. r[2] = s[i + 1] /\ r[3] = s[i + 2]
      <4>1. 10 * s[i + 1] + s[i + 2] = 10 * r[2] + r[3]
          BY <2>1, <3>4
      <4>2. s[i + 1] \in 1 .. 9 /\ s[i + 2] \in 0 .. 9 /\ r[2] \in 1 .. 9 /\ r[3] \in 0 .. 9
          BY <1>3, <1>4, <2>1, <3>4
      <4>3. QED
        <5> DEFINE x == s[i + 1]
                   y == s[i + 2]
                   p == r[2]
                   q == r[3]
        <5>1. /\ x \in 1 .. 9 /\ y \in 0 .. 9 /\ p \in 1 .. 9 /\ q \in 0 .. 9
              /\ 10 * x + y = 10 * p + q
            BY <4>1, <4>2
        <5> HIDE DEF x, y, p, q
        <5>2. x = p /\ y = q
            BY ONLY <5>1
        <5>3. QED
            BY <5>2 DEF x, y, p, q
    <3>6. QED
        BY <3>4, <3>5
  <2>3. i \in Nat /\ i + 1 - 1 = i /\ i + 2 - 1 = i + 1 /\ i + 3 - 1 = i + 2 /\ i + 4 - 1 = i + 3
      BY <1>1
  <2>4. r[1] = s[i + 1 - 1] /\ r[2] = s[i + 2 - 1] /\ r[3] = s[i + 3 - 1] /\ r[4] = s[i + 4 - 1]
      BY <1>3, <2>1, <2>2, <2>3
  <2>5. \A k \in 1 .. 4 : k = 1 \/ k = 2 \/ k = 3 \/ k = 4
      OBVIOUS
  <2>6. \A k \in 1 .. 4 : r[k] = s[i + k - 1]
      BY <2>4, <2>5
  <2>7. Len(r) = Hasta(s, i) - i + 1 /\ i + Len(r) - 1 <= n
      BY <1>1, <2>1, <2>2, <2>3
  <2>8. QED
      BY <1>3, <2>2, <2>6, <2>7 DEF r, c, n
<1>7. QED
    BY <1>5, <1>6

(* Its record is where ContenidoExacto looks for it.                       *)
LEMMA SuPrefijo ==
    ASSUME NEW s, Bien(s), NEW l \in Hay(s)
    PROVE  \E i \in DOMAIN s : IsPrefix(Registro(l, Cuentas(s)[l]), SubSeq(s, i, Len(s)))
<1> DEFINE r == Registro(l, Cuentas(s)[l])
           n == Len(s)
           q == Len(r)
<1>1. PICK i \in 1 .. n :
         s[i] = l /\ Cuentas(s)[l] = Cantidad(s, i) /\ RegistroEn(s, i)
    BY SuRegistro
<1>2. /\ s \in Seq(Byte) /\ n \in Nat /\ DOMAIN s = 1 .. n
      /\ r \in Seq(Byte) /\ q \in Nat /\ i + q - 1 <= n
      /\ \A k \in 1 .. q : r[k] = s[i + k - 1]
  <2>1. s \in Seq(Byte) /\ r \in Seq(Byte) /\ i + q - 1 <= n
        /\ \A k \in 1 .. q : r[k] = s[i + k - 1]
      BY <1>1, LosBytes DEF Bien
  <2>2. QED
      BY <2>1, LenProperties
<1> HIDE DEF r
<1> DEFINE t == SubSeq(s, i, n)
<1>3. /\ t \in Seq(Byte) /\ Len(t) = n - i + 1
      /\ \A k \in 1 .. n - i + 1 : t[k] = s[i + k - 1]
  <2>1. i \in Int /\ n \in Int /\ i <= n
      BY <1>2
  <2>2. \A k \in i .. n : s[k] \in Byte
      BY <1>2
  <2>3. QED
      BY ONLY <2>1, <2>2, SubSeqProperties DEF t
<1> HIDE DEF t
<1>4. q <= Len(t) /\ \A k \in 1 .. q : r[k] = t[k]
    BY <1>2, <1>3
<1>5. /\ SubSeq(r, 1, q) \in Seq(Byte) /\ Len(SubSeq(r, 1, q)) = q
      /\ \A k \in 1 .. q : SubSeq(r, 1, q)[k] = r[k]
    BY <1>2, SubSeqProperties
<1>6. /\ SubSeq(t, 1, q) \in Seq(Byte) /\ Len(SubSeq(t, 1, q)) = q
      /\ \A k \in 1 .. q : SubSeq(t, 1, q)[k] = t[k]
    BY <1>2, <1>3, <1>4, SubSeqProperties
<1>7. SubSeq(r, 1, q) = SubSeq(t, 1, q)
    BY <1>4, <1>5, <1>6, SeqEqual
<1>8. IsPrefix(r, t)
    BY <1>4, <1>7 DEF IsPrefix
<1>9. QED
    BY <1>2, <1>8 DEF r, t

(* The records of s are all there is in it.                                *)
Cabal(s) ==
    /\ IsFiniteSet(Hay(s)) /\ Largos(s) \in [Hay(s) -> Int]
    /\ Len(s) = Total(Hay(s), Largos(s))

(* It is so if it is without the first one.                                *)
LEMMA CabalSinElPrimero ==
    ASSUME NEW s, Bien(s), Len(s) > 0
    PROVE  \E t : /\ Bien(t) /\ Len(t) \in Nat /\ Len(t) < Len(s)
                  /\ Cabal(t) => Cabal(s)
<1> DEFINE n == Len(s)
           l == s[1]
           w == Hasta(s, 1)
           t == SubSeq(s, w + 1, n)
           r == Registro(l, Cuentas(s)[l])
<1>1. s \in Seq(Byte) /\ n \in Nat /\ n > 0 /\ 1 \in 1 .. n
    BY LenProperties DEF Bien
<1>2. l \in LUGARES /\ RegistroEn(s, 1)
    BY <1>1 DEF Bien
<1>3. w \in {3, 4} /\ w <= n
    BY <1>1, <1>2, FinDelRegistro
<1>4. /\ Cuentas(s)[l] = Cantidad(s, 1) /\ l \in Hay(s)
  <2>1. Cuentas(s)[l] = Cantidad(s, 1)
      BY <1>1, <1>2, CuentaDe
  <2>2. Cantidad(s, 1) \in 1 .. 99
      BY <1>1, <1>2, FinDelRegistro
  <2>3. \A x \in 1 .. 99 : x > 0
      OBVIOUS
  <2>4. Cuentas(s)[l] > 0
      BY <2>1, <2>2, <2>3
  <2>5. l \in Hay(s)
      BY <1>2, <2>4 DEF Hay
  <2>6. QED
      BY <2>1, <2>5
<1>5. Len(r) = w
  <2>1. Len(r) = Hasta(s, 1) - 1 + 1
      BY <1>1, <1>2, <1>4, LosBytes
  <2>2. QED
      BY <1>3, <2>1
<1> HIDE DEF w
<1>6. /\ t \in Seq(Byte) /\ Len(t) = n - w /\ n - w \in Nat
      /\ \A k \in 1 .. n - w : t[k] = s[k + w]
  <2>1. /\ t \in Seq(Byte)
        /\ Len(t) = IF w + 1 <= n THEN n - (w + 1) + 1 ELSE 0
        /\ \A k \in 1 .. Len(t) : t[k] = s[w + 1 + k - 1]
    <3>1. w + 1 \in 1 .. n + 1 /\ w + 1 - 1 = w
        BY <1>1, <1>3
    <3>2. \A i \in w + 1 .. n : s[i] \in Byte
        BY <1>1, <1>3
    <3>3. QED
        BY <1>1, <3>1, <3>2, SubSeqProperties
  <2>2. Len(t) = n - w /\ n - w \in Nat
      BY <1>1, <1>3, <2>1
  <2>3. \A k \in 1 .. n - w : w + 1 + k - 1 = k + w
      BY <1>1, <1>3
  <2>4. QED
      BY <2>1, <2>2, <2>3
<1> HIDE DEF t
<1>7. Hasta(s, 1) - 1 + 1 = w
    BY <1>3 DEF w
<1>8. SinTramo(t, s, 1, Hasta(s, 1) - 1 + 1)
    BY <1>6, <1>7 DEF SinTramo
<1>9. Bien(t) /\ Cambia(s, t, l, 0)
    BY <1>1, <1>2, <1>8, SinElRegistro
<1>10. Hay(t) = Hay(s) \ {l} /\ \A y \in Hay(t) : Cuentas(t)[y] = Cuentas(s)[y]
    BY <1>9 DEF Hay, Cambia
<1>11. ASSUME Cabal(t) PROVE Cabal(s)
  <2>1. IsFiniteSet(Hay(s))
    <3>1. Hay(s) = Hay(t) \union {l}
        BY <1>4, <1>10
    <3>2. QED
        BY <1>11, <3>1, FS_AddElement DEF Cabal
  <2>2. Largos(s) \in [Hay(s) -> Int]
    <3>1. ASSUME NEW y \in Hay(s) PROVE Len(Registro(y, Cuentas(s)[y])) \in Int
        BY SuRegistro, BytesDeRegistro DEF Hay
    <3>2. QED
        BY <3>1 DEF Largos
  <2>3. /\ Largos(t) \in [Hay(s) \ {l} -> Int] /\ Len(t) = Total(Hay(s) \ {l}, Largos(t))
        /\ Len(t) \in Int
      BY <1>6, <1>10, <1>11 DEF Cabal
  <2>4. \A y \in Hay(s) \ {l} : Largos(t)[y] = Largos(s)[y]
      BY <1>10 DEF Largos
  <2>5. Largos(s)[l] = w
      BY <1>4, <1>5 DEF Largos
  <2>6. Total(Hay(s), Largos(s)) = Largos(s)[l] + Total(Hay(s) \ {l}, Largos(t))
      BY <1>4, <2>1, <2>2, <2>3, <2>4, TotalSin
  <2>7. Total(Hay(s), Largos(s)) = n
      BY <1>1, <1>3, <1>6, <2>3, <2>5, <2>6
  <2>8. QED
      BY <2>1, <2>2, <2>7 DEF Cabal
<1>12. Len(t) \in Nat /\ Len(t) < Len(s)
    BY <1>1, <1>3, <1>6
<1>13. QED
    BY <1>9, <1>11, <1>12

(* There is nothing in nothing.                                            *)
LEMMA CabalVacio == ASSUME NEW s, Bien(s), Len(s) = 0 PROVE Cabal(s)
<1>1. Hay(s) = {}
  <2>1. \A i \in 1 .. Len(s) : FALSE
      OBVIOUS
  <2>2. \A l \in LUGARES : Cuentas(s)[l] = 0
      BY <2>1, CuentaDe
  <2>3. QED
      BY <2>2 DEF Hay
<1>2. Largos(s) \in [{} -> Int]
    BY <1>1 DEF Largos
<1>3. Total({}, Largos(s)) = 0
    BY <1>2, TotalVacio
<1>4. QED
    BY <1>1, <1>2, <1>3, FS_EmptySet DEF Cabal

(* Every well formed file is as long as its records.                       *)
LEMMA TodoEsRegistros == \A s : Bien(s) => Cabal(s)
<1> DEFINE Malos == {n \in Nat : \E s : Bien(s) /\ Len(s) = n /\ ~Cabal(s)}
<1>1. SUFFICES ASSUME Malos # {} PROVE FALSE
  <2>1. \A s : Bien(s) => Len(s) \in Nat
      BY LenProperties DEF Bien
  <2>2. QED
      BY <2>1
<1>2. Malos \in SUBSET Nat
    OBVIOUS
<1>3. PICK n \in Malos : \A m \in Malos : n <= m
  <2> HIDE DEF Malos
  <2>1. QED
      BY <1>1, <1>2, MinimoNat, Zenon
<1>4. PICK s : Bien(s) /\ Len(s) = n /\ ~Cabal(s)
    BY <1>3
<1>5. n \in Nat /\ n > 0
  <2>1. Len(s) # 0
      BY <1>4, CabalVacio
  <2>2. QED
      BY <1>4, <2>1
<1>6. PICK t : Bien(t) /\ Len(t) \in Nat /\ Len(t) < n /\ (Cabal(t) => Cabal(s))
    BY <1>4, <1>5, CabalSinElPrimero
<1>7. Len(t) \in Malos
    BY <1>4, <1>6
<1>8. n <= Len(t)
  <2> HIDE DEF Malos
  <2>1. QED
      BY <1>3, <1>7
<1>9. QED
    BY <1>5, <1>6, <1>8

-----------------------------------------------------------------------------
(* What the answers A say that was done with a species at a position.      *)
Puestos(A, f, l) ==
    {m \in DOMAIN A : m.especie = f /\ m.lugar = l /\ m.tipo = "NEW" /\ A[m] = 1}
Quitados(A, f, l) ==
    {m \in DOMAIN A : m.especie = f /\ m.lugar = l /\ m.tipo = "CATCH" /\ A[m] = 1}
Cantidades(S) == [m \in S |-> m.cant]
Saldo(A, f, l) ==
    Total(Puestos(A, f, l), Cantidades(Puestos(A, f, l))) - Cardinality(Quitados(A, f, l))

(* Libro is that, of the answers so far.                                   *)
LEMMA LibroEs == HilosInv => \A f, l : Libro(f, l) = Saldo(Contestados, f, l)
<1> SUFFICES ASSUME HilosInv, NEW f, NEW l PROVE Libro(f, l) = Saldo(Contestados, f, l)
    OBVIOUS
<1> DEFINE A == Contestados
           S == Sumadas(f, l)
           E(F) == F = [s \in SUBSET S |->
                          IF s = {} THEN 0
                          ELSE (CHOOSE x \in s : TRUE).cant + F[s \ {CHOOSE x \in s : TRUE}]]
<1>1. /\ DOMAIN A = {u \in DOMAIN hilo : hilo[u].rta # NULL}
      /\ \A m \in DOMAIN A : m.tipo # "GET" => A[m] = hilo[m].rta
    BY DEF Contestados
<1>2. NULL # 1
    BY TallGrassAssumption
<1> HIDE DEF A
<1>3. S = Puestos(A, f, l)
    BY <1>1, <1>2 DEF Puestos, Sumadas
<1>4. Atrapadas(f, l) = Quitados(A, f, l)
    BY <1>1, <1>2 DEF Quitados, Atrapadas
<1>6. ASSUME NEW F PROVE E(F) <=> EsSuma(S, Cantidades(S), F)
  <2>1. \A s \in SUBSET S : s # {} =>
           (CHOOSE x \in s : TRUE).cant = Cantidades(S)[CHOOSE x \in s : TRUE]
    <3>1. \A s \in SUBSET S : s # {} => (CHOOSE x \in s : TRUE) \in S
        OBVIOUS
    <3>2. QED
        BY <3>1 DEF Cantidades
  <2>2. [s \in SUBSET S |->
            IF s = {} THEN 0
            ELSE (CHOOSE x \in s : TRUE).cant + F[s \ {CHOOSE x \in s : TRUE}]]
        = [s \in SUBSET S |->
            IF s = {} THEN 0
            ELSE Cantidades(S)[CHOOSE x \in s : TRUE] + F[s \ {CHOOSE x \in s : TRUE}]]
      BY <2>1
  <2>3. QED
      BY <2>2 DEF EsSuma
<1>7. (CHOOSE F : E(F)) = (CHOOSE F : EsSuma(S, Cantidades(S), F))
  <2> HIDE DEF E, S
  <2>1. QED
      BY <1>6, Zenon
<1>8. Libro(f, l) = (CHOOSE F : E(F))[S] - Cardinality(Atrapadas(f, l))
    BY DEF Libro, FoldSet, MapThenFoldSet
<1> HIDE DEF E, S
<1>9. (CHOOSE F : E(F))[S] = Total(S, Cantidades(S))
    BY <1>7 DEF Total
<1>10. QED
    BY <1>3, <1>4, <1>8, <1>9 DEF Saldo, A

(* And after a step.                                                       *)
LEMMA LibroDespues == HilosInv' => \A f, l : Libro(f, l)' = Saldo(Contestados', f, l)
<1>1. (HilosInv => \A f, l : Libro(f, l) = Saldo(Contestados, f, l))'
    BY LibroEs, PTL
<1>2. QED
    BY <1>1 DEF Saldo, Puestos, Quitados, Cantidades

(* What one more answer adds to what was done, and what it takes.          *)
Vale(p, n) == IF p THEN n ELSE 0
Respuestas(A) == IsFiniteSet(DOMAIN A) /\ \A u \in DOMAIN A : u.cant \in Int
Suma(A, m, r, B) ==
    /\ m \notin DOMAIN A /\ m.cant \in Int
    /\ B = [u \in DOMAIN A \union {m} |-> IF u = m THEN r ELSE A[u]]

LEMMA SaldoSigue ==
    ASSUME NEW A, Respuestas(A), NEW m, NEW r, NEW B, Suma(A, m, r, B), NEW f, NEW l
    PROVE  LET aqui == m.especie = f /\ m.lugar = l IN
           /\ Saldo(A, f, l) \in Int
           /\ Saldo(B, f, l) = Saldo(A, f, l) + Vale(aqui /\ m.tipo = "NEW" /\ r = 1, m.cant)
                                 - Vale(aqui /\ m.tipo = "CATCH" /\ r = 1, 1)
<1> DEFINE aqui == m.especie = f /\ m.lugar = l
           mas == aqui /\ m.tipo = "NEW" /\ r = 1
           menos == aqui /\ m.tipo = "CATCH" /\ r = 1
           P == Puestos(A, f, l)
           Q == Quitados(A, f, l)
<1>0. /\ IsFiniteSet(DOMAIN A) /\ \A u \in DOMAIN A : u.cant \in Int
      /\ m \notin DOMAIN A /\ m.cant \in Int
    BY DEF Respuestas, Suma
<1>1. /\ DOMAIN B = DOMAIN A \union {m} /\ B[m] = r
      /\ \A u \in DOMAIN A : B[u] = A[u]
    BY <1>0 DEF Suma
<1>2. P \subseteq DOMAIN A /\ Q \subseteq DOMAIN A
    BY DEF Puestos, Quitados
<1>3. IsFiniteSet(P) /\ IsFiniteSet(Q) /\ m \notin P /\ m \notin Q
    BY <1>0, <1>2, FS_Subset
<1>4. Puestos(B, f, l) = IF mas THEN P \union {m} ELSE P
    BY <1>1 DEF Puestos
<1>5. Quitados(B, f, l) = IF menos THEN Q \union {m} ELSE Q
    BY <1>1 DEF Quitados
<1>6. Cantidades(P) \in [P -> Int]
    BY <1>0, <1>2 DEF Cantidades
<1> HIDE DEF P, Q, aqui, mas, menos
<1>7. Total(P, Cantidades(P)) \in Int /\ Cardinality(Q) \in Int
    BY <1>3, <1>6, TotalTipo, FS_CardinalityType
<1>8. Total(Puestos(B, f, l), Cantidades(Puestos(B, f, l)))
        = Total(P, Cantidades(P)) + Vale(mas, m.cant)
  <2>1. CASE mas
    <3> DEFINE S == P \union {m}
    <3>1. IsFiniteSet(S) /\ S \ {m} = P /\ m \in S
        BY <1>3, FS_AddElement
    <3>2. Cantidades(S) \in [S -> Int] /\ Cantidades(S)[m] = m.cant
        BY <1>0, <1>2 DEF Cantidades
    <3>3. \A y \in P : Cantidades(P)[y] = Cantidades(S)[y]
        BY DEF Cantidades
    <3> HIDE DEF S
    <3>4. Total(S, Cantidades(S)) = Cantidades(S)[m] + Total(P, Cantidades(P))
        BY <1>6, <3>1, <3>2, <3>3, TotalSin
    <3>5. Puestos(B, f, l) = S
        BY <1>4, <2>1 DEF S
    <3>6. Vale(mas, m.cant) = m.cant
        BY <2>1 DEF Vale
    <3>7. QED
      <4>1. Total(S, Cantidades(S)) = m.cant + Total(P, Cantidades(P))
          BY <3>2, <3>4
      <4>2. m.cant + Total(P, Cantidades(P)) = Total(P, Cantidades(P)) + m.cant
          BY <1>0, <1>7
      <4>3. QED
          BY <3>5, <3>6, <4>1, <4>2
  <2>2. CASE ~mas
      BY <1>4, <1>7, <2>2 DEF Vale
  <2>3. QED
      BY <2>1, <2>2
<1>9. Cardinality(Quitados(B, f, l)) = Cardinality(Q) + Vale(menos, 1)
  <2>1. CASE menos
    <3>1. Vale(menos, 1) = 1
        BY <2>1 DEF Vale
    <3>2. Quitados(B, f, l) = Q \union {m}
        BY <1>5, <2>1
    <3>3. Cardinality(Q \union {m}) = Cardinality(Q) + 1
        BY <1>3, FS_AddElement
    <3>4. QED
        BY <3>1, <3>2, <3>3
  <2>2. CASE ~menos
      BY <1>5, <1>7, <2>2 DEF Vale
  <2>3. QED
      BY <2>1, <2>2
<1>10. Vale(mas, m.cant) \in Int /\ Vale(menos, 1) \in Int
    BY <1>0 DEF Vale
<1>11. /\ Saldo(A, f, l) = Total(P, Cantidades(P)) - Cardinality(Q)
       /\ Saldo(B, f, l) = (Total(P, Cantidades(P)) + Vale(mas, m.cant))
                             - (Cardinality(Q) + Vale(menos, 1))
    BY <1>8, <1>9 DEF Saldo, P, Q
<1>12. QED
    BY <1>7, <1>10, <1>11 DEF aqui, mas, menos

(* Nobody did anything yet.                                                *)
LEMMA SaldoInicial ==
    ASSUME NEW A, DOMAIN A = {}, NEW f, NEW l
    PROVE  Saldo(A, f, l) = 0
<1>1. Puestos(A, f, l) = {} /\ Quitados(A, f, l) = {}
    BY DEF Puestos, Quitados
<1>2. Cantidades({}) \in [{} -> Int]
    BY DEF Cantidades
<1>3. Total({}, Cantidades({})) = 0 /\ Cardinality({}) = 0
    BY <1>2, TotalVacio, FS_EmptySet
<1>4. QED
    BY <1>1, <1>3 DEF Saldo

-----------------------------------------------------------------------------
(* The files hold what was done to them: no NEW is lost, none counts twice,*)
(* and a CATCH that succeeded is always discounted.                        *)
Cuadra == \A f \in ESPECIES, l \in LUGARES : Cuenta[f][l] = Saldo(Contestados, f, l)

(* A step of the promise keeps it so.                                      *)
LEMMA PasoCuadra ==
    ASSUME EnOrden, EnOrden', Cuadra,
           UNCHANGED <<Contestados, Cuenta>> \/ \E m \in MENSAJES : W!Atiende(m)
    PROVE  Cuadra'
<1>1. \A f \in ESPECIES, l \in LUGARES : Cuenta[f][l] \in Nat
    BY TiposDeCuenta
<1>2. Cuenta \in [ESPECIES -> [LUGARES -> Nat]]
  <2>1. Cuenta = [f \in ESPECIES |-> [l \in LUGARES |-> Cuenta[f][l]]]
      BY DEF Cuenta, Cuentas
  <2> HIDE DEF Cuenta
  <2>2. QED
      BY <1>1, <2>1
<1>3. /\ IsFiniteSet(DOMAIN Contestados)
      /\ \A u \in DOMAIN Contestados : u.cant \in Int
  <2>1. DOMAIN Contestados \subseteq DOMAIN hilo
      BY DEF Contestados
  <2>2. /\ IsFiniteSet(DOMAIN hilo)
        /\ \A u \in DOMAIN hilo : u.cant \in 1 .. 9
      BY SusMensajes DEF EnOrden
  <2>3. IsFiniteSet(DOMAIN Contestados)
      BY <2>1, <2>2, FS_Subset
  <2>4. \A x \in 1 .. 9 : x \in Int
      OBVIOUS
  <2>5. QED
      BY <2>1, <2>2, <2>3, <2>4
<1> HIDE DEF Cuenta, Contestados
<1>4. CASE UNCHANGED <<Contestados, Cuenta>>
    BY <1>4 DEF Cuadra
<1>5. ASSUME NEW m \in MENSAJES, NEW r, W!Contesta(m, r)
      PROVE  \A f \in ESPECIES, l \in LUGARES :
               LET aqui == m.especie = f /\ m.lugar = l IN
               /\ Saldo(Contestados, f, l) \in Int
               /\ Saldo(Contestados', f, l)
                    = Saldo(Contestados, f, l) + Vale(aqui /\ m.tipo = "NEW" /\ r = 1, m.cant)
                        - Vale(aqui /\ m.tipo = "CATCH" /\ r = 1, 1)
  <2>1. /\ m \notin DOMAIN Contestados
        /\ Contestados' = [u \in DOMAIN Contestados \union {m} |->
                             IF u = m THEN r ELSE Contestados[u]]
      BY <1>5 DEF W!Contesta
  <2>2. m.cant \in Int
      BY TallGrassAssumption
  <2>3. ASSUME NEW A, A = Contestados, NEW B, B = Contestados', NEW f, NEW l
        PROVE  LET aqui == m.especie = f /\ m.lugar = l IN
               /\ Saldo(A, f, l) \in Int
               /\ Saldo(B, f, l)
                    = Saldo(A, f, l) + Vale(aqui /\ m.tipo = "NEW" /\ r = 1, m.cant)
                        - Vale(aqui /\ m.tipo = "CATCH" /\ r = 1, 1)
    <3>1. Respuestas(A)
        BY <1>3, <2>3 DEF Respuestas
    <3>2. Suma(A, m, r, B)
        BY <2>1, <2>2, <2>3 DEF Suma
    <3>3. QED
        BY ONLY <3>1, <3>2, SaldoSigue
  <2>4. QED
      BY <2>3
<1>6. ASSUME NEW m \in MENSAJES, W!Aparecen(m) PROVE Cuadra'
  <2>1. /\ m.tipo = "NEW" /\ W!Contesta(m, 1) /\ m.cant \in Int
        /\ Cuenta' = [Cuenta EXCEPT ![m.especie][m.lugar] = @ + m.cant]
      BY <1>6, TallGrassAssumption DEF W!Aparecen
  <2>2. ASSUME NEW f \in ESPECIES, NEW l \in LUGARES
        PROVE  Cuenta'[f][l] = Saldo(Contestados', f, l)
    <3> DEFINE aqui == m.especie = f /\ m.lugar = l
    <3>1. /\ Saldo(Contestados, f, l) \in Int
          /\ Saldo(Contestados', f, l)
               = Saldo(Contestados, f, l) + Vale(aqui /\ m.tipo = "NEW" /\ 1 = 1, m.cant)
                   - Vale(aqui /\ m.tipo = "CATCH" /\ 1 = 1, 1)
        BY <1>5, <2>1
    <3>2. /\ Vale(aqui /\ m.tipo = "NEW" /\ 1 = 1, m.cant) = IF aqui THEN m.cant ELSE 0
          /\ Vale(aqui /\ m.tipo = "CATCH" /\ 1 = 1, 1) = 0
        BY <2>1 DEF Vale
    <3>3. Cuenta'[f][l] = IF aqui THEN Cuenta[f][l] + m.cant ELSE Cuenta[f][l]
      <4>1. Cuenta'[f][l] = IF aqui THEN Cuenta[m.especie][m.lugar] + m.cant ELSE Cuenta[f][l]
        <5> DEFINE c == Cuenta[m.especie][m.lugar] + m.cant
        <5>1. Cuenta' = [Cuenta EXCEPT ![m.especie][m.lugar] = c]
            BY <2>1
        <5> HIDE DEF c
        <5>2. Cuenta'[f][l] = IF m.especie = f /\ m.lugar = l THEN c ELSE Cuenta[f][l]
            BY <1>2, <5>1
        <5>3. QED
            BY <5>2 DEF c
      <4>2. QED
          BY <4>1
    <3>4. Cuenta[f][l] = Saldo(Contestados, f, l)
        BY DEF Cuadra
    <3> HIDE DEF aqui
    <3>5. QED
        BY <2>1, <3>1, <3>2, <3>3, <3>4
  <2>3. QED
      BY <2>2 DEF Cuadra
<1>7. ASSUME NEW m \in MENSAJES, W!Atrapan(m) PROVE Cuadra'
  <2>1. /\ m.tipo = "CATCH" /\ W!Contesta(m, 1) /\ m.cant \in Int
        /\ Cuenta' = [Cuenta EXCEPT ![m.especie][m.lugar] = @ - 1]
      BY <1>7, TallGrassAssumption DEF W!Atrapan
  <2>2. Cuenta' = [Cuenta EXCEPT ![m.especie][m.lugar] = @ + (-1)]
    <3>1. /\ m.especie \in ESPECIES /\ m.lugar \in LUGARES
        BY TallGrassAssumption
    <3>2. Cuenta[m.especie][m.lugar] - 1 = Cuenta[m.especie][m.lugar] + (-1)
        BY <1>1, <3>1
    <3>3. QED
        BY <2>1, <3>2
  <2>3. ASSUME NEW f \in ESPECIES, NEW l \in LUGARES
        PROVE  Cuenta'[f][l] = Saldo(Contestados', f, l)
    <3> DEFINE aqui == m.especie = f /\ m.lugar = l
    <3>1. /\ Saldo(Contestados, f, l) \in Int
          /\ Saldo(Contestados', f, l)
               = Saldo(Contestados, f, l) + Vale(aqui /\ m.tipo = "NEW" /\ 1 = 1, m.cant)
                   - Vale(aqui /\ m.tipo = "CATCH" /\ 1 = 1, 1)
        BY <1>5, <2>1
    <3>2. /\ Vale(aqui /\ m.tipo = "NEW" /\ 1 = 1, m.cant) = 0
          /\ Vale(aqui /\ m.tipo = "CATCH" /\ 1 = 1, 1) = IF aqui THEN 1 ELSE 0
        BY <2>1 DEF Vale
    <3>3. Cuenta'[f][l] = IF aqui THEN Cuenta[f][l] + (-1) ELSE Cuenta[f][l]
      <4>1. Cuenta'[f][l] = IF aqui THEN Cuenta[m.especie][m.lugar] + (-1) ELSE Cuenta[f][l]
        <5> DEFINE c == Cuenta[m.especie][m.lugar] + (-1)
        <5>1. Cuenta' = [Cuenta EXCEPT ![m.especie][m.lugar] = c]
            BY <2>2
        <5> HIDE DEF c
        <5>2. Cuenta'[f][l] = IF m.especie = f /\ m.lugar = l THEN c ELSE Cuenta[f][l]
            BY <1>2, <5>1
        <5>3. QED
            BY <5>2 DEF c
      <4>2. QED
          BY <4>1
    <3>4. Cuenta[f][l] = Saldo(Contestados, f, l)
        BY DEF Cuadra
    <3> HIDE DEF aqui
    <3>5. QED
        BY <3>1, <3>2, <3>3, <3>4
  <2>4. QED
      BY <2>3 DEF Cuadra
<1>8. ASSUME NEW m \in MENSAJES, W!SeEscapo(m) \/ W!Localizan(m) PROVE Cuadra'
  <2>1. PICK r : /\ W!Contesta(m, r) /\ UNCHANGED Cuenta
                 /\ m.tipo # "NEW" /\ (m.tipo = "CATCH" => r = 0)
      BY <1>8 DEF W!SeEscapo, W!Localizan
  <2>2. ASSUME NEW f \in ESPECIES, NEW l \in LUGARES
        PROVE  Cuenta'[f][l] = Saldo(Contestados', f, l)
    <3> DEFINE aqui == m.especie = f /\ m.lugar = l
    <3>1. /\ Saldo(Contestados, f, l) \in Int
          /\ Saldo(Contestados', f, l)
               = Saldo(Contestados, f, l) + Vale(aqui /\ m.tipo = "NEW" /\ r = 1, m.cant)
                   - Vale(aqui /\ m.tipo = "CATCH" /\ r = 1, 1)
        BY <1>5, <2>1
    <3>2. /\ Vale(aqui /\ m.tipo = "NEW" /\ r = 1, m.cant) = 0
          /\ Vale(aqui /\ m.tipo = "CATCH" /\ r = 1, 1) = 0
        BY <2>1 DEF Vale
    <3>3. QED
        BY <2>1, <3>1, <3>2 DEF Cuadra
  <2>3. QED
      BY <2>2 DEF Cuadra
<1>9. QED
    BY <1>4, <1>6, <1>7, <1>8 DEF W!Atiende

(* At first there is nothing, and nobody did anything.                     *)
LEMMA InicioCuadra == ASSUME Init PROVE Cuadra
<1>1. Cuenta = W!Ninguno /\ Contestados = [m \in {} |-> 0]
    BY InicioMundo DEF W!InitMundo
<1>2. DOMAIN Contestados = {}
    BY <1>1
<1> HIDE DEF Cuenta, Contestados
<1>3. \A f \in ESPECIES, l \in LUGARES : Cuenta[f][l] = 0
    BY <1>1 DEF W!Ninguno
<1>4. QED
    BY <1>2, <1>3, SaldoInicial DEF Cuadra

(* Until the promise is broken.                                            *)
LEMMA CuadraSigue ==
    ASSUME IInv, IInv', Sano => Cuadra, [Next]_vars
    PROVE  Sano' => Cuadra'
<1> SUFFICES ASSUME Sano' PROVE Cuadra'
    OBVIOUS
<1>1. [W!NextMundo]_<<~Sano, Contestados, Cuenta>>
    BY PasoMundo
<1>2. Sano
  <2>1. CASE Next
      BY <2>1, SanoAntes DEF Next, Paso
  <2>2. CASE UNCHANGED vars
      BY <2>2 DEF vars, historia, Sano
  <2>3. QED
      BY <2>1, <2>2
<1>3. EnOrden /\ EnOrden' /\ Cuadra
    BY <1>2 DEF IInv
<1>4. ~W!Rompe
    BY DEF W!Rompe
<1>5. UNCHANGED <<Contestados, Cuenta>> \/ \E m \in MENSAJES : W!Atiende(m)
    BY <1>1, <1>4 DEF W!NextMundo
<1>6. QED
    BY <1>3, <1>5, PasoCuadra

(* A file nobody is writing, then, has the records of that and no others.  *)
LEMMA CuadraExacto == IInv /\ (Sano => Cuadra) => ContenidoExacto
<1> SUFFICES ASSUME EnOrden, Cuadra, NEW f \in ESPECIES,
                    De(f, {"libera", "vuelcaLibre", "escribe", "vuelca"}) = {}
             PROVE  LET s == Contenido(f)
                        hay == {l \in LUGARES : Libro(f, l) > 0} IN
                    /\ \A l \in hay : \E i \in DOMAIN s :
                         IsPrefix(Registro(l, Libro(f, l)), SubSeq(s, i, Len(s)))
                    /\ Len(s) = FoldSet(LAMBDA l, n : Len(Registro(l, Libro(f, l))) + n, 0, hay)
  <2>1. EnOrden => fin \notin {"ilegible", "bloque_doble"}
      BY DEF EnOrden, MapaInv, Finales
  <2>2. QED
      BY <2>1 DEF ContenidoExacto, IInv
<1> DEFINE s == Contenido(f)
           hay == {l \in LUGARES : Libro(f, l) > 0}
           E(F) == F = [q \in SUBSET hay |->
                          IF q = {} THEN 0
                          ELSE LET x == CHOOSE x \in q : TRUE
                               IN  Len(Registro(x, Libro(f, x))) + F[q \ {x}]]
<1>1. s = Todo(f)
  <2>1. Vista(f) = Contenido(f)
      BY DEF Vista
  <2>2. QED
      BY <2>1, VistaEs
<1>2. Bien(s)
    BY <1>1 DEF EnOrden, ContenidoInv, Entero
<1>3. \A l \in LUGARES : Libro(f, l) = Cuentas(s)[l]
  <2>1. \A l \in LUGARES : Cuenta[f][l] = Cuentas(Todo(f))[l]
      BY TiposDeCuenta
  <2>2. \A l \in LUGARES : Libro(f, l) = Saldo(Contestados, f, l)
      BY LibroEs DEF EnOrden
  <2>3. \A l \in LUGARES : Cuenta[f][l] = Saldo(Contestados, f, l)
      BY DEF Cuadra
  <2> HIDE DEF s
  <2>4. QED
      BY <1>1, <2>1, <2>2, <2>3
<1> HIDE DEF s
<1>4. hay = Hay(s)
    BY <1>3 DEF Hay
<1>5. ASSUME NEW l \in hay
      PROVE  \E i \in DOMAIN s : IsPrefix(Registro(l, Libro(f, l)), SubSeq(s, i, Len(s)))
  <2>1. l \in Hay(s) /\ Libro(f, l) = Cuentas(s)[l]
      BY <1>3, <1>4
  <2>2. QED
      BY <1>2, <2>1, SuPrefijo
<1>6. Len(s) = Total(hay, Largos(s))
    BY <1>2, <1>4, TodoEsRegistros DEF Cabal
<1>7. FoldSet(LAMBDA l, n : Len(Registro(l, Libro(f, l))) + n, 0, hay) = (CHOOSE F : E(F))[hay]
    BY DEF FoldSet, MapThenFoldSet
<1>8. (CHOOSE F : E(F))[hay] = Total(hay, Largos(s))
  <2>1. ASSUME NEW F PROVE E(F) <=> EsSuma(hay, Largos(s), F)
    <3>1. \A q \in SUBSET hay : q # {} => (CHOOSE x \in q : TRUE) \in hay
        OBVIOUS
    <3>2. \A x \in hay : Len(Registro(x, Libro(f, x))) = Largos(s)[x]
        BY <1>3, <1>4 DEF Largos
    <3> HIDE DEF hay
    <3>3. [q \in SUBSET hay |->
              IF q = {} THEN 0
              ELSE LET x == CHOOSE x \in q : TRUE
                   IN  Len(Registro(x, Libro(f, x))) + F[q \ {x}]]
          = [q \in SUBSET hay |->
              IF q = {} THEN 0
              ELSE Largos(s)[CHOOSE x \in q : TRUE] + F[q \ {CHOOSE x \in q : TRUE}]]
        BY <3>1, <3>2
    <3>4. QED
        BY <3>3 DEF EsSuma
  <2> HIDE DEF E
  <2>2. (CHOOSE F : E(F)) = (CHOOSE F : EsSuma(hay, Largos(s), F))
      BY <2>1, Zenon
  <2>3. QED
      BY <2>2 DEF Total
<1>9. QED
    BY <1>5, <1>6, <1>7, <1>8 DEF s

(* Until a file is opened twice or two files get the same block, handlers  *)
(* find their files well formed, and one nobody is writing holds exactly   *)
(* one record for each position that has any, with the count the handled   *)
(* messages add up to, and not a byte more, whatever was shifted, cut and  *)
(* appended in its blocks. After that nothing is said: two handlers of the *)
(* same file overwrite what each other saved.                              *)
THEOREM LosArchivosSonExactos == Spec => []ContenidoExacto
<1>1. Init => (Sano => Cuadra)
    BY InicioCuadra
<1>2. IInv /\ IInv' /\ (Sano => Cuadra) /\ [Next]_vars => (Sano => Cuadra)'
    BY CuadraSigue
<1>3. IInv /\ (Sano => Cuadra) => ContenidoExacto
    BY CuadraExacto
<1>4. QED
    BY <1>1, <1>2, <1>3, Invariante, PTL DEF Spec
=============================================================================
