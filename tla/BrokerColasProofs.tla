-------------------------- MODULE BrokerColasProofs --------------------------
(***************************************************************************)
(* Proofs about BrokerColas, for every number of threads, subscribers,     *)
(* queues and messages.                                                    *)
(***************************************************************************)
EXTENDS BrokerColas, SequenceTheorems, TLAPS

-----------------------------------------------------------------------------
(* A publisher's thread is storing the message asunto[h].                  *)
Guardando(h) ==
    \/ pc[h] \in {"lugar", "desalojar"}
    \/ pc[h] \in {"recursar", "mandando"} /\ vuelta[h] = "desalojar"

(* Messages are numbered as they are published.                            *)
Numeracion ==
    /\ \A m \in IDS : tipo[m] # NULL <=> m < ident
    /\ \A m \in mensajes : m < ident

(* Who stores a message and who answers a subscription holds M_PROCESO; the*)
(* message being stored has no past.                                       *)
Turnos ==
    /\ \A h \in PUBS : Guardando(h) =>
         /\ mProceso = h
         /\ asunto[h] \in IDS /\ asunto[h] < ident /\ asunto[h] \notin mensajes
         /\ \A s \in SUBS : /\ Relaciones(<<asunto[h], s>>) = 0
                            /\ envios[<<asunto[h], s>>] = 0
    /\ \A h \in CONEXIONES :
         pc[h] \in {"responder", "recursar", "mandando"} => mProceso = h

(* A queue holds subscribers of it, that are subscribed or about to be.    *)
Suscripciones ==
    /\ \A q \in QUEUES : \A s \in colas[q] :
         /\ <<s, q>> \in CONEXIONES
         /\ altas[<<s, q>>] > 0 \/ pc[<<s, q>>] = "responder"
    /\ \A h \in CONEXIONES : pc[h] = "responder" => h[1] \in colas[h[2]]

(* At most one confirmation is on its way through a connection, and none   *)
(* once the client read it or before the Broker answers.                   *)
Canales ==
    \A h \in CONEXIONES :
      /\ cliente[h] = "abajo" => canal[h] = << >>
      /\ pc[h] \in {"suscribir", "responder"} => cliente[h] # "arriba"
      /\ cliente[h] = "arriba" \/ pc[h] \in {"suscribir", "responder"} =>
           \A k \in DOMAIN canal[h] : canal[h][k] # OK
      /\ \A j, k \in DOMAIN canal[h] :
           canal[h][j] = OK /\ canal[h][k] = OK => j = k

(* A socket the Broker can write to is a connection its client reads.      *)
Sockets ==
    \A s \in SUBS : fdVivo[s] =>
      /\ <<s, socket[s]>> \in CONEXIONES
      /\ cliente[<<s, socket[s]>>] # "abajo"

(* The copies of a pair that were sent, and the one to be sent.            *)
Debidas(p) == envios[p] + (IF pendientes[p] > 0 THEN 1 ELSE 0)

(* Every copy sent or to be sent has its subscription.                     *)
Copias ==
    \A p \in PARES : envios[p] > 0 \/ Relaciones(p) > 0 =>
      /\ tipo[p[1]] # NULL /\ p[2] \in colas[tipo[p[1]]]
      /\ Debidas(p) <= altas[<<p[2], tipo[p[1]]>>]

(* The inductive invariant.                                                *)
IInv ==
    /\ TypeOK /\ Numeracion /\ Turnos /\ Suscripciones
    /\ Canales /\ Sockets /\ Copias /\ NadieSePierde

-----------------------------------------------------------------------------
(* Pairs and connections are what they are made of.                        *)
LEMMA Pares ==
    /\ \A m \in IDS, s \in SUBS : <<m, s>> \in PARES
    /\ \A p \in PARES : p = <<p[1], p[2]>> /\ p[1] \in IDS /\ p[2] \in SUBS
    /\ \A h \in CONEXIONES :
         h = <<h[1], h[2]>> /\ h[1] \in SUBS /\ h[2] \in QUEUES
BY ConexionesAssumption DEF PARES, SUBS

(* NULL is nobody, no queue and no message.                                *)
LEMMA Nulos ==
    /\ CONEXIONES \subseteq HILOS /\ PUBS \subseteq HILOS
    /\ NULL \notin QUEUES /\ NULL \notin HILOS
    /\ IDS \subseteq Nat /\ OK \notin IDS /\ OK \in Nat
BY ConexionesAssumption, CotasAssumption DEF HILOS, IDS, OK

(* Relations and copies are counted with naturals.                         *)
LEMMA Contadores ==
    TypeOK => \A p \in PARES :
      /\ Relaciones(p) \in Nat /\ envios[p] \in Nat
      /\ pendientes[p] \in Nat /\ enviadas[p] \in Nat
      /\ Relaciones(p) = pendientes[p] + enviadas[p]
BY DEF TypeOK, Relaciones

(* A message that is in memory was published, in a queue.                  *)
LEMMA Publicado ==
    TypeOK /\ Numeracion => \A m \in mensajes : m \in IDS /\ tipo[m] \in QUEUES
BY Nulos DEF TypeOK, Numeracion

(* What a step has to leave alone so that nobody is forgotten.             *)
LEMMA NadieMarco ==
    ASSUME IInv, mensajes' \subseteq mensajes, colas' = colas,
           \A m \in mensajes : tipo'[m] = tipo[m],
           ackeados \subseteq ackeados',
           \A p \in PARES : p[1] \in mensajes' /\ Relaciones(p) > 0 =>
                            Relaciones(p)' > 0 \/ p \in ackeados',
           \A g \in CONEXIONES : pc[g] = "responder" => pc'[g] = "responder"
    PROVE  NadieSePierde'
<1> SUFFICES ASSUME NEW m \in mensajes', NEW s \in colas[tipo[m]]
             PROVE  \/ Relaciones(<<m, s>>)' > 0
                    \/ <<m, s>> \in ackeados'
                    \/ pc'[<<s, tipo[m]>>] = "responder"
    BY DEF NadieSePierde
<1>1. m \in mensajes /\ m \in IDS /\ tipo[m] \in QUEUES
    BY Publicado DEF IInv
<1>2. <<s, tipo[m]>> \in CONEXIONES /\ s \in SUBS
    BY <1>1 DEF IInv, Suscripciones, TypeOK
<1>3. <<m, s>> \in PARES /\ <<m, s>>[1] = m
    BY <1>1, <1>2, Pares
<1>4. \/ Relaciones(<<m, s>>) > 0
      \/ <<m, s>> \in ackeados
      \/ pc[<<s, tipo[m]>>] = "responder"
    BY <1>1 DEF IInv, NadieSePierde
<1>5. QED
    BY <1>2, <1>3, <1>4

(* What a step has to respect so that no copy is sent without reason.      *)
LEMMA CopiasMarco ==
    ASSUME IInv, TypeOK',
           \A q \in QUEUES : colas[q] \subseteq colas'[q],
           \A g \in CONEXIONES : altas[g] <= altas'[g],
           \A p \in PARES : envios'[p] > 0 \/ Relaciones(p)' > 0 =>
             /\ envios[p] > 0 \/ Relaciones(p) > 0
             /\ tipo'[p[1]] = tipo[p[1]]
             /\ Debidas(p)' <= Debidas(p)
    PROVE  Copias'
<1> SUFFICES ASSUME NEW p \in PARES, envios'[p] > 0 \/ Relaciones(p)' > 0
             PROVE  /\ tipo'[p[1]] # NULL /\ p[2] \in colas'[tipo'[p[1]]]
                    /\ Debidas(p)' <= altas'[<<p[2], tipo'[p[1]]>>]
    BY DEF Copias
<1>1. /\ tipo'[p[1]] = tipo[p[1]] /\ Debidas(p)' <= Debidas(p)
      /\ tipo[p[1]] # NULL /\ p[2] \in colas[tipo[p[1]]]
      /\ Debidas(p) <= altas[<<p[2], tipo[p[1]]>>]
    BY DEF IInv, Copias
<1>2. tipo[p[1]] \in QUEUES
    BY <1>1, Pares DEF IInv, TypeOK
<1> DEFINE g == <<p[2], tipo[p[1]]>>
<1>3. g \in CONEXIONES
    BY <1>1, <1>2 DEF IInv, Suscripciones
<1>4. altas[g] \in Nat /\ altas'[g] \in Nat /\ altas[g] <= altas'[g]
    BY <1>3 DEF IInv, TypeOK
<1>5. Debidas(p) \in Nat /\ Debidas(p)' \in Nat
    BY DEF IInv, TypeOK, Debidas
<1> HIDE DEF g
<1>6. Debidas(p)' <= altas'[g]
  <2>1. Debidas(p) <= altas[g]
      BY <1>1 DEF g
  <2>2. QED
      BY <1>1, <1>4, <1>5, <2>1
<1>7. QED
    BY <1>1, <1>2, <1>6 DEF g

(* Deleting relations leaves naturals and never adds one.                  *)
LEMMA Borra ==
    ASSUME pendientes \in [PARES -> Nat], enviadas \in [PARES -> Nat],
           NEW B, BorrarPrimera(B)
    PROVE  /\ pendientes' \in [PARES -> Nat] /\ enviadas' \in [PARES -> Nat]
           /\ \A p \in PARES : /\ pendientes'[p] <= pendientes[p]
                               /\ enviadas'[p] <= enviadas[p]
           /\ \A p \in PARES \ B : /\ pendientes'[p] = pendientes[p]
                                   /\ enviadas'[p] = enviadas[p]
BY DEF BorrarPrimera

(* Adding relations adds one to each pair.                                 *)
LEMMA Crea ==
    ASSUME pendientes \in [PARES -> Nat], NEW B, CrearRelaciones(B)
    PROVE  /\ pendientes' \in [PARES -> Nat] /\ enviadas' = enviadas
           /\ vistos' = vistos \ B
           /\ \A p \in PARES \ B : pendientes'[p] = pendientes[p]
           /\ \A p \in PARES \intersect B : pendientes'[p] = pendientes[p] + 1
BY DEF CrearRelaciones

(* The invariant holds when the Broker starts.                             *)
LEMMA Inicio == Init => IInv
<1> SUFFICES ASSUME Init PROVE IInv
    OBVIOUS
<1> USE Pares, Nulos DEF Init
<1>1. TypeOK
  <2>1. \A S : << >> \in Seq(S)
      OBVIOUS
  <2>2. ident \in 1 .. MAX_MSGS + 1 /\ cortes \in 0 .. MAX_CORTES
      BY CotasAssumption
  <2>3. QED
      BY <2>1, <2>2 DEF TypeOK
<1>2. Numeracion
    BY DEF Numeracion, IDS
<1>3. Turnos
    BY DEF Turnos, Guardando
<1>4. Suscripciones
    BY DEF Suscripciones
<1>5. Canales
    BY DEF Canales
<1>6. Sockets
    BY DEF Sockets
<1>7. Copias
    BY DEF Copias, Relaciones
<1>8. NadieSePierde
    BY DEF NadieSePierde
<1>9. QED
    BY <1>1, <1>2, <1>3, <1>4, <1>5, <1>6, <1>7, <1>8 DEF IInv

-----------------------------------------------------------------------------
(* A publication preserves the invariant: its number was never used.       *)
LEMMA PasoPublicar ==
    ASSUME IInv, NEW h \in PUBS, NEW q \in QUEUES, Publicar(h, q)
    PROVE  IInv'
<1> USE Pares, Nulos
        DEF IInv, Publicar, Ir, abonados, relaciones, red, historia
<1>1. TypeOK'
  <2>1. ident \in 1 .. MAX_MSGS /\ ident' \in 1 .. MAX_MSGS + 1
      BY CotasAssumption DEF IDS, TypeOK
  <2>2. QED
      BY <2>1 DEF TypeOK, IDS
<1>2. Numeracion'
  <2>1. ident \in IDS /\ ident \in Nat /\ ident' = ident + 1
      OBVIOUS
  <2>2. /\ tipo'[ident] = q /\ q # NULL
        /\ \A m \in IDS \ {ident} : tipo'[m] = tipo[m]
      BY DEF TypeOK
  <2>3. \A m \in IDS : tipo'[m] # NULL <=> m < ident'
      BY <2>1, <2>2 DEF Numeracion
  <2>4. \A m \in mensajes' : m < ident'
      BY <2>1 DEF Numeracion, TypeOK
  <2>5. QED
      BY <2>3, <2>4 DEF Numeracion
<1>3. tipo[ident] = NULL /\ ident \notin mensajes
    BY DEF Numeracion, IDS
<1>4. \A s \in SUBS : /\ Relaciones(<<ident, s>>) = 0
                      /\ envios[<<ident, s>>] = 0
  <2>1. ASSUME NEW s \in SUBS
        PROVE  ~(envios[<<ident, s>>] > 0 \/ Relaciones(<<ident, s>>) > 0)
    <3>1. <<ident, s>> \in PARES /\ <<ident, s>>[1] = ident
        OBVIOUS
    <3>2. QED
        BY <1>3, <3>1 DEF Copias
  <2>2. QED
      BY <2>1, Contadores
<1>5. Turnos'
    BY <1>3, <1>4 DEF Turnos, Guardando, Relaciones, TypeOK, IDS, HILOS
<1>6. Suscripciones'
    BY DEF Suscripciones, TypeOK
<1>7. Canales'
    BY DEF Canales, TypeOK
<1>8. Sockets'
    BY DEF Sockets
<1>9. Copias'
  <2>1. ASSUME NEW p \in PARES, envios[p] > 0 \/ Relaciones(p) > 0
        PROVE  p[1] # ident /\ tipo'[p[1]] = tipo[p[1]]
    <3>1. p[1] # ident
        BY <1>3, <2>1 DEF Copias
    <3>2. QED
        BY <3>1 DEF TypeOK
  <2>2. \A p \in PARES : /\ Relaciones(p)' = Relaciones(p)
                        /\ Debidas(p)' = Debidas(p) /\ Debidas(p) \in Nat
      BY DEF Relaciones, Debidas, TypeOK
  <2>3. \A g \in CONEXIONES : altas[g] <= altas'[g]
      BY DEF TypeOK
  <2>4. QED
      BY <2>1, <2>2, <2>3, <1>1, CopiasMarco
<1>10. NadieSePierde'
  <2>1. \A m \in mensajes : tipo'[m] = tipo[m]
      BY <1>3 DEF TypeOK
  <2>2. \A g \in CONEXIONES : pc'[g] = pc[g]
      BY ConexionesAssumption DEF TypeOK
  <2>3. QED
      BY <2>1, <2>2, NadieMarco DEF Relaciones
<1>11. QED
    BY <1>1, <1>2, <1>5, <1>6, <1>7, <1>8, <1>9, <1>10

(* Storing a message preserves the invariant: each subscriber of its queue *)
(* gets a relation.                                                        *)
LEMMA PasoGuardar == ASSUME IInv, NEW h \in PUBS, Guardar(h) PROVE IInv'
<1> SUFFICES ASSUME NEW m, m = asunto[h] PROVE IInv'
    OBVIOUS
<1> USE Pares, Nulos DEF IInv, Guardar, Ir, abonados, red, historia
<1> DEFINE B == {p \in PARES : /\ p[1] = m /\ p[2] \in colas[tipo[m]]
                              /\ Relaciones(p) = 0}
<1>1. /\ mProceso = h /\ m \in IDS /\ m < ident /\ m \notin mensajes
      /\ tipo[m] \in QUEUES
      /\ \A s \in SUBS : Relaciones(<<m, s>>) = 0 /\ envios[<<m, s>>] = 0
    BY DEF Turnos, Guardando, Numeracion, TypeOK
<1>2. /\ pendientes' \in [PARES -> Nat] /\ enviadas' = enviadas
      /\ vistos' = vistos \ B
      /\ \A p \in PARES \ B : pendientes'[p] = pendientes[p]
      /\ \A p \in PARES \intersect B : pendientes'[p] = pendientes[p] + 1
    BY Crea DEF TypeOK
<1>3. /\ mensajes' = mensajes \union {m}
      /\ B \subseteq PARES
      /\ \A p \in B : p[1] = m /\ p[2] \in colas[tipo[m]]
      /\ \A s \in colas[tipo[m]] : <<m, s>> \in B
  <2>1. colas[tipo[m]] \subseteq SUBS
      BY <1>1 DEF TypeOK
  <2>2. QED
      BY <1>1, <2>1
<1>4. \A g \in CONEXIONES : pc'[g] = pc[g] /\ pc[g] # "responder"
    BY <1>1, ConexionesAssumption DEF TypeOK, Turnos
<1> HIDE DEF B
<1>5. TypeOK'
    BY <1>1, <1>2, <1>3 DEF TypeOK
<1>6. Numeracion'
    BY <1>1, <1>3 DEF Numeracion
<1>7. Turnos'
  <2>1. ASSUME NEW g \in PUBS PROVE ~Guardando(g)'
      BY <1>1, ConexionesAssumption DEF Turnos, Guardando, TypeOK
  <2>2. ASSUME NEW g \in CONEXIONES
        PROVE  pc'[g] \notin {"responder", "recursar", "mandando"}
      BY <1>1, <1>4, ConexionesAssumption DEF Turnos, TypeOK
  <2>3. QED
      BY <2>1, <2>2 DEF Turnos
<1>8. Suscripciones'
    BY <1>4 DEF Suscripciones
<1>9. Canales'
    BY <1>4 DEF Canales
<1>10. Sockets'
    BY DEF Sockets
<1>11. Copias'
  <2>1. ASSUME NEW p \in PARES, envios[p] > 0 \/ Relaciones(p)' > 0
        PROVE  /\ tipo[p[1]] # NULL /\ p[2] \in colas[tipo[p[1]]]
               /\ Debidas(p)' <= altas[<<p[2], tipo[p[1]]>>]
    <3>1. CASE p \in B
      <4>1. /\ p[1] = m /\ p[2] \in colas[tipo[m]] /\ tipo[m] # NULL
            /\ p = <<m, p[2]>> /\ p[2] \in SUBS
          BY <1>1, <1>3, <3>1
      <4>2. envios[p] = 0
          BY <1>1, <4>1
      <4>3. Debidas(p)' <= 1
          BY <4>2 DEF Debidas
      <4>4. <<p[2], tipo[m]>> \in CONEXIONES /\ altas[<<p[2], tipo[m]>>] > 0
          BY <1>1, <1>4, <4>1 DEF Suscripciones
      <4>5. Debidas(p)' \in Nat /\ altas[<<p[2], tipo[m]>>] \in Nat
          BY <4>2, <4>4 DEF Debidas, TypeOK
      <4>6. QED
          BY <4>1, <4>3, <4>4, <4>5
    <3>2. CASE p \notin B
      <4>1. Relaciones(p)' = Relaciones(p) /\ Debidas(p)' = Debidas(p)
          BY <1>2, <3>2 DEF Relaciones, Debidas
      <4>2. QED
          BY <2>1, <4>1 DEF Copias
    <3>3. QED
        BY <3>1, <3>2
  <2>2. QED
      BY <2>1 DEF Copias
<1>12. NadieSePierde'
  <2>1. ASSUME NEW n \in mensajes, NEW s \in colas[tipo[n]]
        PROVE  Relaciones(<<n, s>>)' > 0 \/ <<n, s>> \in ackeados
    <3>1. n \in IDS /\ tipo[n] \in QUEUES
        BY Publicado
    <3>2. <<s, tipo[n]>> \in CONEXIONES /\ s \in SUBS
        BY <3>1 DEF Suscripciones, TypeOK
    <3>3. Relaciones(<<n, s>>) > 0 \/ <<n, s>> \in ackeados
        BY <1>4, <3>2 DEF NadieSePierde
    <3>4. <<n, s>> \notin B /\ <<n, s>> \in PARES
        BY <1>1, <1>3, <3>1, <3>2
    <3>5. Relaciones(<<n, s>>)' = Relaciones(<<n, s>>)
        BY <1>2, <3>4 DEF Relaciones
    <3>6. QED
        BY <3>3, <3>5
  <2>2. ASSUME NEW s \in colas[tipo[m]]
        PROVE  Relaciones(<<m, s>>)' > 0
    <3>1. <<m, s>> \in B /\ <<m, s>> \in PARES
        BY <1>3
    <3>2. pendientes'[<<m, s>>] = pendientes[<<m, s>>] + 1
        BY <1>2, <3>1
    <3>3. enviadas'[<<m, s>>] = enviadas[<<m, s>>]
        BY <1>2
    <3>4. QED
        BY <3>1, <3>2, <3>3 DEF Relaciones, TypeOK
  <2>3. QED
      BY <1>3, <2>1, <2>2 DEF NadieSePierde
<1>13. QED
    BY <1>5, <1>6, <1>7, <1>8, <1>9, <1>10, <1>11, <1>12

(* A search without room only moves the thread.                            *)
LEMMA PasoFaltaLugar == ASSUME IInv, NEW h \in PUBS, FaltaLugar(h) PROVE IInv'
<1> USE Pares, Nulos
        DEF IInv, FaltaLugar, Ir, memoria, abonados, relaciones, red, historia
<1>1. \A g \in CONEXIONES : pc'[g] = pc[g]
    BY ConexionesAssumption DEF TypeOK
<1>2. TypeOK'
    BY DEF TypeOK
<1>3. Numeracion'
    BY DEF Numeracion
<1>4. Turnos'
  <2>1. \A g \in PUBS : Guardando(g)' => Guardando(g)
      BY DEF Guardando, TypeOK
  <2>2. QED
      BY <1>1, <2>1 DEF Turnos, Relaciones
<1>5. Suscripciones'
    BY <1>1 DEF Suscripciones
<1>6. Canales'
    BY <1>1 DEF Canales
<1>7. Sockets'
    BY DEF Sockets
<1>8. Copias'
    BY DEF Copias, Relaciones, Debidas
<1>9. NadieSePierde'
    BY <1>1, NadieMarco DEF Relaciones
<1>10. QED
    BY <1>2, <1>3, <1>4, <1>5, <1>6, <1>7, <1>8, <1>9

(* An eviction preserves it: the relations that go are of the victim.      *)
LEMMA PasoDesalojar == ASSUME IInv, NEW h \in PUBS, Desalojar(h) PROVE IInv'
<1> SUFFICES ASSUME NEW v \in mensajes,
                    NEW B, B = {p \in PARES : p[1] = v /\ p[2] \in colas[tipo[v]]},
                    BorrarPrimera(B), mensajes' = mensajes \ {v}
             PROVE  IInv'
    BY DEF Desalojar
<1> USE Pares, Nulos
        DEF IInv, Desalojar, Ir, abonados, red, historia
<1>1. \A g \in CONEXIONES : pc'[g] = pc[g]
    BY ConexionesAssumption DEF TypeOK
<1>2. /\ pendientes' \in [PARES -> Nat] /\ enviadas' \in [PARES -> Nat]
      /\ \A p \in PARES : /\ pendientes'[p] <= pendientes[p]
                          /\ enviadas'[p] <= enviadas[p]
      /\ \A p \in PARES \ B : /\ pendientes'[p] = pendientes[p]
                              /\ enviadas'[p] = enviadas[p]
    BY Borra DEF TypeOK
<1>3. TypeOK'
    BY <1>2 DEF TypeOK
<1>4. \A p \in PARES : /\ Relaciones(p)' \in Nat
                      /\ Relaciones(p)' <= Relaciones(p)
                      /\ Debidas(p)' <= Debidas(p)
    BY <1>2, SMTT(30) DEF Relaciones, Debidas, TypeOK
<1>5. Numeracion'
    BY DEF Numeracion
<1>6. Turnos'
  <2>1. \A g \in PUBS : Guardando(g)' => Guardando(g)
      BY DEF Guardando, TypeOK
  <2>2. ASSUME NEW g \in PUBS, Guardando(g)', NEW s \in SUBS
        PROVE  Relaciones(<<asunto[g], s>>)' = 0
    <3>1. <<asunto[g], s>> \in PARES /\ Relaciones(<<asunto[g], s>>) = 0
        BY <2>1, <2>2 DEF Turnos
    <3>2. QED
        BY <1>4, <3>1
  <2>3. QED
      BY <1>1, <2>1, <2>2 DEF Turnos
<1>7. Suscripciones'
    BY <1>1 DEF Suscripciones
<1>8. Canales'
    BY <1>1 DEF Canales
<1>9. Sockets'
    BY DEF Sockets
<1>10. Copias'
  <2>1. ASSUME NEW p \in PARES, Relaciones(p)' > 0
        PROVE  Relaciones(p) > 0
      BY <1>4, <2>1, Contadores
  <2>2. \A g \in CONEXIONES : altas[g] <= altas'[g]
      BY DEF TypeOK
  <2>3. QED
      BY <1>3, <1>4, <2>1, <2>2, CopiasMarco
<1>11. NadieSePierde'
  <2>1. ASSUME NEW p \in PARES, p[1] \in mensajes', Relaciones(p) > 0
        PROVE  Relaciones(p)' > 0
    <3>1. p \notin B
        BY <2>1
    <3>2. QED
        BY <1>2, <2>1, <3>1 DEF Relaciones
  <2>2. QED
      BY <1>1, <2>1, NadieMarco
<1>12. QED
    BY <1>3, <1>5, <1>6, <1>7, <1>8, <1>9, <1>10, <1>11

(* A subscriber that is written down is about to be answered.              *)
LEMMA PasoRegistrar ==
    ASSUME IInv, NEW h \in CONEXIONES, Registrar(h)
    PROVE  IInv'
<1> SUFFICES ASSUME NEW s, s = h[1], NEW q, q = h[2] PROVE IInv'
    OBVIOUS
<1> USE Pares, Nulos DEF IInv, Registrar, Ir, memoria, relaciones, historia
<1>1. /\ s \in SUBS /\ q \in QUEUES /\ h = <<s, q>>
      /\ colas'[q] = colas[q] \union {s}
      /\ \A r \in QUEUES \ {q} : colas'[r] = colas[r]
      /\ pc[h] = "suscribir" /\ pc'[h] = "responder"
      /\ \A g \in HILOS \ {h} : pc'[g] = pc[g]
    BY DEF TypeOK
<1>2. TypeOK'
    BY <1>1 DEF TypeOK
<1>3. Numeracion'
    BY DEF Numeracion
<1>4. Turnos'
  <2>1. ASSUME NEW g \in PUBS PROVE ~Guardando(g)'
      BY <1>1, ConexionesAssumption DEF Turnos, Guardando
  <2>2. ASSUME NEW g \in CONEXIONES,
               pc'[g] \in {"responder", "recursar", "mandando"}
        PROVE  mProceso' = g
      BY <1>1, <2>2 DEF Turnos
  <2>3. QED
      BY <2>1, <2>2 DEF Turnos
<1>5. Suscripciones'
  <2>1. ASSUME NEW r \in QUEUES, NEW t \in colas'[r]
        PROVE  /\ <<t, r>> \in CONEXIONES
               /\ altas'[<<t, r>>] > 0 \/ pc'[<<t, r>>] = "responder"
    <3>1. CASE t \in colas[r]
        BY <1>1, <3>1 DEF Suscripciones
    <3>2. CASE t \notin colas[r]
        BY <1>1, <2>1, <3>2
    <3>3. QED
        BY <3>1, <3>2
  <2>2. ASSUME NEW g \in CONEXIONES, pc'[g] = "responder"
        PROVE  g[1] \in colas'[g[2]]
    <3>1. CASE g = h
        BY <1>1, <3>1
    <3>2. CASE g # h
        BY <1>1, <2>2, <3>2 DEF Suscripciones
    <3>3. QED
        BY <3>1, <3>2
  <2>3. QED
      BY <2>1, <2>2 DEF Suscripciones
<1>6. Canales'
    BY <1>1 DEF Canales
<1>7. Sockets'
  <2>1. ASSUME NEW t \in SUBS, fdVivo'[t]
        PROVE  <<t, socket'[t]>> \in CONEXIONES
               /\ cliente[<<t, socket'[t]>>] # "abajo"
    <3>1. CASE t = s
        BY <1>1, <2>1, <3>1 DEF TypeOK
    <3>2. CASE t # s
        BY <2>1, <3>2 DEF Sockets, TypeOK
    <3>3. QED
        BY <3>1, <3>2
  <2>2. QED
      BY <2>1 DEF Sockets
<1>8. Copias'
  <2>1. \A p \in PARES : /\ Relaciones(p)' = Relaciones(p)
                        /\ Debidas(p)' = Debidas(p) /\ Debidas(p) \in Nat
      BY DEF Relaciones, Debidas, TypeOK
  <2>2. \A g \in CONEXIONES : altas[g] <= altas'[g]
      BY DEF TypeOK
  <2>3. \A r \in QUEUES : colas[r] \subseteq colas'[r]
      BY <1>1
  <2>4. QED
      BY <1>2, <2>1, <2>2, <2>3, CopiasMarco
<1>9. NadieSePierde'
  <2> SUFFICES ASSUME NEW m \in mensajes', NEW t \in colas'[tipo'[m]]
               PROVE  \/ Relaciones(<<m, t>>)' > 0
                      \/ <<m, t>> \in ackeados'
                      \/ pc'[<<t, tipo'[m]>>] = "responder"
      BY DEF NadieSePierde
  <2>1. m \in mensajes /\ m \in IDS /\ tipo[m] \in QUEUES /\ tipo' = tipo
      BY Publicado
  <2>2. CASE t \in colas[tipo[m]]
    <3>1. <<t, tipo[m]>> \in CONEXIONES
        BY <2>1, <2>2 DEF Suscripciones
    <3>2. \/ Relaciones(<<m, t>>) > 0 \/ <<m, t>> \in ackeados
          \/ pc[<<t, tipo[m]>>] = "responder"
        BY <2>1, <2>2 DEF NadieSePierde
    <3>3. Relaciones(<<m, t>>)' = Relaciones(<<m, t>>)
        BY DEF Relaciones
    <3>4. QED
        BY <1>1, <2>1, <3>1, <3>2, <3>3
  <2>3. CASE t \notin colas[tipo[m]]
      BY <1>1, <2>1, <2>3
  <2>4. QED
      BY <2>2, <2>3
<1>10. QED
    BY <1>2, <1>3, <1>4, <1>5, <1>6, <1>7, <1>8, <1>9

(* The answer to a subscription preserves the invariant: every message of  *)
(* the queue that is in memory gets a relation, and the copies that may be *)
(* sent grow as the subscriptions do.                                      *)
LEMMA PasoResponder ==
    ASSUME IInv, NEW h \in CONEXIONES, Responder(h)
    PROVE  IInv'
<1> SUFFICES ASSUME NEW s, s = h[1], NEW q, q = h[2], NEW B, B = Antiguos(h)
             PROVE  IInv'
    OBVIOUS
<1> USE Pares, Nulos DEF IInv, Responder, Ir, memoria, abonados
<1>1. /\ s \in SUBS /\ q \in QUEUES /\ h = <<s, q>>
      /\ pc[h] = "responder" /\ pc'[h] = "recursar"
      /\ \A g \in HILOS \ {h} : pc'[g] = pc[g]
      /\ mProceso = h /\ s \in colas[q]
      /\ altas'[h] = altas[h] + 1
      /\ \A g \in CONEXIONES \ {h} : altas'[g] = altas[g]
    BY DEF TypeOK, Turnos, Suscripciones
<1>2. /\ pendientes' \in [PARES -> Nat] /\ enviadas' = enviadas
      /\ vistos' = vistos \ B
      /\ \A p \in PARES \ B : pendientes'[p] = pendientes[p]
      /\ \A p \in PARES \intersect B : pendientes'[p] = pendientes[p] + 1
    BY Crea DEF TypeOK
<1>3. /\ \A p \in B : p \in PARES /\ p[1] \in mensajes /\ tipo[p[1]] = q /\ p[2] = s
      /\ \A m \in mensajes : tipo[m] = q => <<m, s>> \in B
    BY <1>1 DEF Antiguos, TypeOK
<1>4. TypeOK'
  <2>1. canal' \in [CONEXIONES -> Seq(IDS \union {OK})]
      BY DEF TypeOK
  <2>2. altas' \in [CONEXIONES -> Nat] /\ pc' \in [HILOS -> {"ocioso",
            "lugar", "desalojar", "recursar", "mandando", "suscribir",
            "responder"}]
      BY DEF TypeOK
  <2>3. QED
      BY <1>2, <2>1, <2>2 DEF TypeOK
<1>5. Numeracion'
    BY DEF Numeracion
<1>6. Turnos'
  <2>1. ASSUME NEW g \in PUBS PROVE ~Guardando(g)'
      BY <1>1, ConexionesAssumption DEF Turnos, Guardando, TypeOK
  <2>2. ASSUME NEW g \in CONEXIONES,
               pc'[g] \in {"responder", "recursar", "mandando"}
        PROVE  mProceso' = g
      BY <1>1, <2>2 DEF Turnos
  <2>3. QED
      BY <2>1, <2>2 DEF Turnos
<1>7. Suscripciones'
  <2>1. ASSUME NEW r \in QUEUES, NEW t \in colas[r]
        PROVE  /\ <<t, r>> \in CONEXIONES
               /\ altas'[<<t, r>>] > 0 \/ pc'[<<t, r>>] = "responder"
    <3>1. <<t, r>> \in CONEXIONES
        BY DEF Suscripciones
    <3>2. CASE <<t, r>> = h
      <4>1. altas'[h] > 0
          BY <1>1 DEF TypeOK
      <4>2. QED
          BY <3>2, <4>1
    <3>3. CASE <<t, r>> # h
        BY <1>1, <3>1, <3>3 DEF Suscripciones
    <3>4. QED
        BY <3>1, <3>2, <3>3
  <2>2. ASSUME NEW g \in CONEXIONES, pc'[g] = "responder"
        PROVE  g[1] \in colas[g[2]]
      BY <1>1, <2>2 DEF Suscripciones
  <2>3. QED
      BY <2>1, <2>2 DEF Suscripciones
<1>8. Canales'
  <2>1. \A g \in CONEXIONES \ {h} : canal'[g] = canal[g] /\ pc'[g] = pc[g]
      BY <1>1 DEF TypeOK
  <2>2. CASE cliente[h] = "pidiendo"
    <3>1. canal[h] \in Seq(IDS \union {OK}) /\ canal'[h] = Append(canal[h], OK)
        BY <2>2 DEF TypeOK
    <3>2. \A k \in DOMAIN canal[h] : canal[h][k] # OK
        BY <1>1 DEF Canales
    <3>3. \A j, k \in DOMAIN canal'[h] :
            canal'[h][j] = OK /\ canal'[h][k] = OK => j = k
        BY <3>1, <3>2
    <3>4. cliente'[h] = "pidiendo" /\ pc'[h] = "recursar"
        BY <1>1, <2>2
    <3>5. \A g \in CONEXIONES \ {h} :
            canal'[g] = canal[g] /\ pc'[g] = pc[g] /\ cliente'[g] = cliente[g]
        BY <2>1
    <3>6. QED
        BY <3>3, <3>4, <3>5 DEF Canales
  <2>3. CASE cliente[h] # "pidiendo"
      BY <1>1, <2>1, <2>3 DEF Canales
  <2>4. QED
      BY <2>2, <2>3
<1>9. Sockets'
    BY DEF Sockets
<1>10. Copias'
  <2>1. ASSUME NEW p \in PARES, envios[p] > 0 \/ Relaciones(p)' > 0
        PROVE  /\ tipo[p[1]] # NULL /\ p[2] \in colas[tipo[p[1]]]
               /\ Debidas(p)' <= altas'[<<p[2], tipo[p[1]]>>]
    <3>1. CASE p \in B
      <4>1. tipo[p[1]] = q /\ p[2] = s /\ q # NULL
          BY <1>1, <1>3, <3>1
      <4>2. Debidas(p)' <= envios[p] + 1 /\ envios[p] \in Nat
          BY DEF Debidas, TypeOK
      <4>3. altas[h] \in Nat /\ altas'[h] = altas[h] + 1
          BY <1>1 DEF TypeOK
      <4>4. envios[p] <= altas[h]
        <5>1. CASE envios[p] > 0
          <6>1. Debidas(p) <= altas[<<p[2], tipo[p[1]]>>]
              BY <5>1 DEF Copias
          <6>2. <<p[2], tipo[p[1]]>> = h
              BY <1>1, <4>1
          <6>3. envios[p] <= Debidas(p) /\ Debidas(p) \in Nat
              BY <4>2 DEF Debidas
          <6>4. QED
              BY <4>2, <4>3, <6>1, <6>2, <6>3
        <5>2. CASE envios[p] = 0
            BY <4>3, <5>2
        <5>3. QED
            BY <4>2, <5>1, <5>2
      <4>5. Debidas(p)' \in Nat
          BY <1>2, <4>2 DEF Debidas
      <4>6. Debidas(p)' <= altas'[h]
          BY <4>2, <4>3, <4>4, <4>5
      <4>7. QED
          BY <1>1, <4>1, <4>6
    <3>2. CASE p \notin B
      <4>1. Relaciones(p)' = Relaciones(p) /\ Debidas(p)' = Debidas(p)
          BY <1>2, <3>2 DEF Relaciones, Debidas
      <4>2. /\ tipo[p[1]] # NULL /\ p[2] \in colas[tipo[p[1]]]
            /\ Debidas(p) <= altas[<<p[2], tipo[p[1]]>>]
          BY <2>1, <4>1 DEF Copias
      <4>3. <<p[2], tipo[p[1]]>> \in CONEXIONES
          BY <4>2 DEF Suscripciones, TypeOK
      <4>4. Debidas(p) \in Nat
          BY SMTT(30) DEF Debidas, TypeOK
      <4>5. ASSUME NEW g \in CONEXIONES
            PROVE  /\ altas[g] \in Nat /\ altas'[g] \in Nat
                   /\ altas[g] <= altas'[g]
        <5>1. altas[g] \in Nat
            BY DEF TypeOK
        <5>2. CASE g = h
            BY <1>1, <5>1, <5>2
        <5>3. CASE g # h
            BY <1>1, <5>1, <5>3
        <5>4. QED
            BY <5>2, <5>3
      <4>6. Debidas(p) <= altas'[<<p[2], tipo[p[1]]>>]
        <5> DEFINE g == <<p[2], tipo[p[1]]>>
        <5>1. /\ altas[g] \in Nat /\ altas'[g] \in Nat
              /\ altas[g] <= altas'[g] /\ Debidas(p) <= altas[g]
            BY <4>2, <4>3, <4>5
        <5> HIDE DEF g
        <5>2. Debidas(p) <= altas'[g]
            BY <4>4, <5>1
        <5>3. QED
            BY <5>2 DEF g
      <4>7. QED
          BY <4>1, <4>2, <4>6
    <3>3. QED
        BY <3>1, <3>2
  <2>2. QED
      BY <2>1 DEF Copias
<1>11. NadieSePierde'
  <2> SUFFICES ASSUME NEW m \in mensajes', NEW t \in colas'[tipo'[m]]
               PROVE  \/ Relaciones(<<m, t>>)' > 0
                      \/ <<m, t>> \in ackeados'
                      \/ pc'[<<t, tipo'[m]>>] = "responder"
      BY DEF NadieSePierde
  <2>1. /\ m \in mensajes /\ m \in IDS /\ tipo[m] \in QUEUES /\ tipo' = tipo
        /\ t \in colas[tipo[m]] /\ ackeados' = ackeados
      BY Publicado
  <2>2. <<t, tipo[m]>> \in CONEXIONES /\ t \in SUBS /\ <<m, t>> \in PARES
      BY <2>1 DEF Suscripciones, TypeOK
  <2>3. CASE <<t, tipo[m]>> = h
    <3>1. <<m, t>> \in B
        BY <1>1, <1>3, <2>1, <2>3
    <3>2. pendientes'[<<m, t>>] = pendientes[<<m, t>>] + 1
        BY <1>2, <2>2, <3>1
    <3>3. QED
        BY <1>2, <2>2, <3>2, SMTT(30) DEF Relaciones, TypeOK
  <2>4. CASE <<t, tipo[m]>> # h
    <3>1. \/ Relaciones(<<m, t>>) > 0 \/ <<m, t>> \in ackeados
          \/ pc'[<<t, tipo[m]>>] = "responder"
        BY <1>1, <2>1, <2>2, <2>4 DEF NadieSePierde
    <3>2. <<m, t>> \notin B
        BY <1>1, <1>3, <2>1, <2>2, <2>4
    <3>3. Relaciones(<<m, t>>)' = Relaciones(<<m, t>>)
        BY <1>2, <2>2, <3>2 DEF Relaciones
    <3>4. QED
        BY <2>1, <3>1, <3>3
  <2>5. QED
      BY <2>3, <2>4
<1>12. QED
    BY <1>4, <1>5, <1>6, <1>7, <1>8, <1>9, <1>10, <1>11

(* An ACK takes a relation from the pair that it acknowledges.             *)
LEMMA PasoAck == ASSUME IInv, NEW h \in CONEXIONES, Ack(h) PROVE IInv'
<1> SUFFICES ASSUME NEW a, a = <<Head(acks[h]), h[1]>>
             PROVE  IInv'
    OBVIOUS
<1> USE Pares, Nulos DEF IInv, Ack, memoria, abonados, hilos
<1>1. a \in PARES
  <2>1. acks[h] \in Seq(IDS) /\ acks[h] # << >>
      BY DEF TypeOK
  <2>2. QED
      BY <2>1
<1>2. /\ pendientes' \in [PARES -> Nat] /\ enviadas' \in [PARES -> Nat]
      /\ \A p \in PARES : /\ pendientes'[p] <= pendientes[p]
                          /\ enviadas'[p] <= enviadas[p]
      /\ \A p \in PARES \ {a} : /\ pendientes'[p] = pendientes[p]
                                /\ enviadas'[p] = enviadas[p]
    BY Borra DEF TypeOK
<1>3. TypeOK'
  <2>1. acks' \in [CONEXIONES -> Seq(IDS)]
      BY DEF TypeOK
  <2>2. QED
      BY <1>1, <1>2, <2>1 DEF TypeOK
<1>4. ASSUME NEW p \in PARES
      PROVE  /\ Relaciones(p)' \in Nat
             /\ Relaciones(p)' <= Relaciones(p)
             /\ Debidas(p)' <= Debidas(p)
  <2>1. /\ pendientes'[p] \in Nat /\ enviadas'[p] \in Nat
        /\ pendientes'[p] <= pendientes[p] /\ enviadas'[p] <= enviadas[p]
      BY <1>2
  <2>2. pendientes[p] \in Nat /\ enviadas[p] \in Nat /\ envios[p] \in Nat
      BY Contadores
  <2>3. QED
      BY <2>1, <2>2, SMTT(30) DEF Relaciones, Debidas
<1>5. Numeracion'
    BY DEF Numeracion
<1>6. Turnos'
  <2>1. \A g \in PUBS : Guardando(g)' = Guardando(g)
      BY DEF Guardando
  <2>2. ASSUME NEW g \in PUBS, Guardando(g), NEW s \in SUBS
        PROVE  Relaciones(<<asunto[g], s>>)' = 0
    <3>1. <<asunto[g], s>> \in PARES /\ Relaciones(<<asunto[g], s>>) = 0
        BY <2>2 DEF Turnos
    <3>2. QED
        BY <1>4, <3>1
  <2>3. QED
      BY <2>1, <2>2 DEF Turnos
<1>7. Suscripciones'
    BY DEF Suscripciones
<1>8. Canales'
    BY DEF Canales
<1>9. Sockets'
    BY DEF Sockets
<1>10. Copias'
  <2>1. ASSUME NEW p \in PARES, Relaciones(p)' > 0
        PROVE  Relaciones(p) > 0
      BY <1>4, <2>1, Contadores
  <2>2. \A g \in CONEXIONES : altas[g] <= altas'[g]
      BY DEF TypeOK
  <2>3. QED
      BY <1>3, <1>4, <2>1, <2>2, CopiasMarco
<1>11. NadieSePierde'
  <2>1. ASSUME NEW p \in PARES, Relaciones(p) > 0
        PROVE  Relaciones(p)' > 0 \/ p \in ackeados'
    <3>1. CASE p = a
        BY <3>1
    <3>2. CASE p # a
        BY <1>2, <2>1, <3>2 DEF Relaciones
    <3>3. QED
        BY <3>1, <3>2
  <2>2. QED
      BY <2>1, NadieMarco
<1>12. QED
    BY <1>3, <1>5, <1>6, <1>7, <1>8, <1>9, <1>10, <1>11

(* A subscriber that is marked as disconnected keeps its relations.         *)
LEMMA PasoPerdida == ASSUME IInv, NEW s \in SUBS, Perdida(s) PROVE IInv'
<1> USE Pares, Nulos
        DEF IInv, Perdida, memoria, relaciones, hilos, red, historia
<1>1. TypeOK'
    BY DEF TypeOK
<1>2. Numeracion'
    BY DEF Numeracion
<1>3. Turnos'
    BY DEF Turnos, Guardando, Relaciones
<1>4. Suscripciones'
    BY DEF Suscripciones
<1>5. Canales'
    BY DEF Canales
<1>6. Sockets'
    BY DEF Sockets
<1>7. Copias'
    BY DEF Copias, Relaciones, Debidas
<1>8. NadieSePierde'
    BY NadieMarco DEF Relaciones
<1>9. QED
    BY <1>1, <1>2, <1>3, <1>4, <1>5, <1>6, <1>7, <1>8

(* A walk over the relations begins.                                       *)
LEMMA PasoEmpezarRecorrido ==
    ASSUME IInv, NEW h \in HILOS, Recursar(h)
    PROVE  IInv'
<1> USE Pares, Nulos
        DEF IInv, Recursar, Ir, memoria, abonados, relaciones, red, historia
<1>1. /\ \A g \in HILOS \ {h} : pc'[g] = pc[g]
      /\ pc[h] = "recursar" /\ pc'[h] = "mandando"
    BY DEF TypeOK
<1>2. TypeOK'
    BY DEF TypeOK
<1>3. Numeracion'
    BY DEF Numeracion
<1>4. Turnos'
  <2>1. \A g \in PUBS : Guardando(g)' => Guardando(g)
      BY <1>1 DEF Guardando
  <2>2. ASSUME NEW g \in CONEXIONES,
               pc'[g] \in {"responder", "recursar", "mandando"}
        PROVE  mProceso' = g
      BY <1>1, <2>2 DEF Turnos
  <2>3. QED
      BY <2>1, <2>2 DEF Turnos, Relaciones
<1>5. \A g \in CONEXIONES : pc[g] = "responder" <=> pc'[g] = "responder"
    BY <1>1
<1>6. Suscripciones'
    BY <1>5 DEF Suscripciones
<1>7. Canales'
    BY <1>1 DEF Canales
<1>8. Sockets'
    BY DEF Sockets
<1>9. Copias'
    BY DEF Copias, Relaciones, Debidas
<1>10. NadieSePierde'
    BY <1>5, NadieMarco DEF Relaciones
<1>11. QED
    BY <1>2, <1>3, <1>4, <1>6, <1>7, <1>8, <1>9, <1>10

(* The end of a walk: a subscription gives M_PROCESO back.                 *)
LEMMA PasoFinRecorrido ==
    ASSUME IInv, NEW h \in HILOS, FinRecursar(h)
    PROVE  IInv'
<1> USE Pares, Nulos
        DEF IInv, FinRecursar, Ir, memoria, abonados, relaciones, red, historia
<1>1. /\ \A g \in HILOS \ {h} : pc'[g] = pc[g]
      /\ pc[h] = "mandando" /\ pc'[h] = vuelta[h]
      /\ vuelta[h] \in {"ocioso", "desalojar"}
    BY DEF TypeOK
<1>2. TypeOK'
    BY <1>1 DEF TypeOK
<1>3. Numeracion'
    BY DEF Numeracion
<1>4. Turnos'
  <2>1. ASSUME NEW g \in PUBS, Guardando(g)'
        PROVE  Guardando(g) /\ mProceso' = g
    <3>1. Guardando(g)
        BY <1>1, <2>1 DEF Guardando
    <3>2. mProceso = g
        BY <3>1 DEF Turnos
    <3>3. h \in CONEXIONES => mProceso = h
        BY <1>1 DEF Turnos
    <3>4. QED
        BY <3>1, <3>2, <3>3, ConexionesAssumption
  <2>2. ASSUME NEW g \in CONEXIONES,
               pc'[g] \in {"responder", "recursar", "mandando"}
        PROVE  mProceso' = g
    <3>1. g # h /\ pc[g] = pc'[g]
        BY <1>1, <2>2
    <3>2. mProceso = g
        BY <2>2, <3>1 DEF Turnos
    <3>3. h \notin CONEXIONES
        BY <1>1, <3>1, <3>2 DEF Turnos
    <3>4. QED
        BY <3>2, <3>3
  <2>3. QED
      BY <2>1, <2>2 DEF Turnos, Relaciones
<1>5. \A g \in CONEXIONES : pc[g] = "responder" <=> pc'[g] = "responder"
    BY <1>1
<1>6. Suscripciones'
    BY <1>5 DEF Suscripciones
<1>7. Canales'
    BY <1>1 DEF Canales
<1>8. Sockets'
    BY DEF Sockets
<1>9. Copias'
    BY DEF Copias, Relaciones, Debidas
<1>10. NadieSePierde'
    BY <1>5, NadieMarco DEF Relaciones
<1>11. QED
    BY <1>2, <1>3, <1>4, <1>6, <1>7, <1>8, <1>9, <1>10

(* flag_enviado neither makes nor deletes a relation.                      *)
LEMMA Marca ==
    ASSUME TypeOK, NEW p \in PARES, pendientes[p] > 0, MarcarEnviada(p)
    PROVE  /\ pendientes' \in [PARES -> Nat] /\ enviadas' \in [PARES -> Nat]
           /\ envios' \in [PARES -> Nat]
           /\ \A r \in PARES : /\ Relaciones(r)' = Relaciones(r)
                               /\ Debidas(r)' <= Debidas(r)
           /\ \A r \in PARES \ {p} : envios'[r] = envios[r]
<1>1. /\ pendientes \in [PARES -> Nat] /\ enviadas \in [PARES -> Nat]
      /\ envios \in [PARES -> Nat]
    BY DEF TypeOK
<1>2. /\ pendientes' \in [PARES -> Nat] /\ enviadas' \in [PARES -> Nat]
      /\ envios' \in [PARES -> Nat]
    BY <1>1 DEF MarcarEnviada
<1>3. /\ pendientes'[p] = 0 /\ enviadas'[p] = enviadas[p] + pendientes[p]
      /\ envios'[p] = envios[p] + 1
      /\ \A r \in PARES \ {p} : /\ pendientes'[r] = pendientes[r]
                                /\ enviadas'[r] = enviadas[r]
                                /\ envios'[r] = envios[r]
    BY <1>1 DEF MarcarEnviada
<1>4. ASSUME NEW r \in PARES
      PROVE  Relaciones(r)' = Relaciones(r) /\ Debidas(r)' <= Debidas(r)
  <2>1. CASE r = p
      BY <1>1, <1>3, <2>1 DEF Relaciones, Debidas
  <2>2. CASE r # p
      BY <1>1, <1>3, <2>2 DEF Relaciones, Debidas
  <2>3. QED
      BY <2>1, <2>2
<1>5. QED
    BY <1>2, <1>3, <1>4

(* Sending a message, or not being able to, preserves the invariant.       *)
LEMMA PasoMandar == ASSUME IInv, NEW h \in HILOS, Mandar(h) PROVE IInv'
<1> SUFFICES ASSUME NEW p \in PARES, pendientes[p] > 0,
                    NEW f, f = <<p[2], socket[p[2]]>>,
                    vistos' = vistos \union {p},
                    \/ UNCHANGED <<relaciones, envios>>
                    \/ MarcarEnviada(p) /\ p[1] \in mensajes,
                    \/ UNCHANGED canal
                    \/ /\ fdVivo[p[2]]
                       /\ canal' = [canal EXCEPT ![f] = Append(@, p[1])],
                    UNCHANGED <<memoria, abonados, mProceso, mRecursar, pc,
                                vuelta, asunto, fdVivo, cliente, acks, cortes,
                                recibidos, ackeados, altas>>
             PROVE  IInv'
    BY DEF Mandar, PorVisitar, NoSePuede
<1> USE Pares, Nulos DEF IInv, memoria, abonados
<1>1. /\ pendientes' \in [PARES -> Nat] /\ enviadas' \in [PARES -> Nat]
      /\ envios' \in [PARES -> Nat]
      /\ \A r \in PARES : /\ Relaciones(r)' = Relaciones(r)
                          /\ Debidas(r)' <= Debidas(r)
      /\ \A r \in PARES : r[1] \notin mensajes => envios'[r] = envios[r]
  <2>1. CASE UNCHANGED <<relaciones, envios>>
    <3>1. \A r \in PARES : Debidas(r) \in Nat
        BY DEF Debidas, TypeOK
    <3>2. QED
        BY <2>1, <3>1 DEF relaciones, Relaciones, Debidas, TypeOK
  <2>2. CASE MarcarEnviada(p) /\ p[1] \in mensajes
      BY <2>2, Marca
  <2>3. QED
      BY <2>1, <2>2
<1>2. /\ canal' \in [CONEXIONES -> Seq(IDS \union {OK})]
      /\ \A g \in CONEXIONES :
           \/ canal'[g] = canal[g]
           \/ /\ cliente[g] # "abajo"
              /\ canal'[g] = Append(canal[g], p[1])
  <2>1. CASE UNCHANGED canal
      BY <2>1 DEF TypeOK
  <2>2. CASE fdVivo[p[2]] /\ canal' = [canal EXCEPT ![f] = Append(@, p[1])]
    <3>1. f \in CONEXIONES /\ cliente[f] # "abajo"
        BY <2>2 DEF Sockets
    <3>2. canal \in [CONEXIONES -> Seq(IDS \union {OK})] /\ p[1] \in IDS
        BY DEF TypeOK
    <3>3. Append(canal[f], p[1]) \in Seq(IDS \union {OK})
        BY <3>1, <3>2, AppendProperties
    <3>4. canal'[f] = Append(canal[f], p[1])
        BY <2>2, <3>1, <3>2
    <3>5. \A g \in CONEXIONES \ {f} : canal'[g] = canal[g]
        BY <2>2, <3>2
    <3>6. canal' \in [CONEXIONES -> Seq(IDS \union {OK})]
        BY <2>2, <3>1, <3>2, <3>3
    <3>7. QED
        BY <3>1, <3>4, <3>5, <3>6
  <2>3. QED
      BY <2>1, <2>2
<1>3. TypeOK'
    BY <1>1, <1>2 DEF TypeOK
<1>4. Numeracion'
    BY DEF Numeracion
<1>5. Turnos'
  <2>1. \A g \in PUBS : Guardando(g)' = Guardando(g)
      BY DEF Guardando
  <2>2. ASSUME NEW g \in PUBS, Guardando(g), NEW s \in SUBS
        PROVE  /\ Relaciones(<<asunto[g], s>>)' = 0
               /\ envios'[<<asunto[g], s>>] = 0
    <3>1. /\ asunto[g] \in IDS /\ asunto[g] \notin mensajes
          /\ Relaciones(<<asunto[g], s>>) = 0 /\ envios[<<asunto[g], s>>] = 0
        BY <2>2 DEF Turnos
    <3>2. <<asunto[g], s>> \in PARES /\ <<asunto[g], s>>[1] = asunto[g]
        BY <3>1
    <3>3. asunto' = asunto
        OBVIOUS
    <3>4. Relaciones(<<asunto[g], s>>)' = Relaciones(<<asunto[g], s>>)
        BY <1>1, <3>2, <3>3 DEF Relaciones
    <3>5. QED
        BY <1>1, <3>1, <3>2, <3>4
  <2>3. QED
      BY <2>1, <2>2 DEF Turnos
<1>6. Suscripciones'
    BY DEF Suscripciones
<1>7. Canales'
  <2>1. p[1] \in IDS
      OBVIOUS
  <2>2. ASSUME NEW g \in CONEXIONES
        PROVE  /\ cliente[g] = "abajo" => canal'[g] = << >>
               /\ cliente[g] = "arriba" \/ pc[g] \in {"suscribir", "responder"} =>
                    \A k \in DOMAIN canal'[g] : canal'[g][k] # OK
               /\ \A j, k \in DOMAIN canal'[g] :
                    canal'[g][j] = OK /\ canal'[g][k] = OK => j = k
    <3>1. CASE canal'[g] = canal[g]
        BY <3>1 DEF Canales
    <3>2. CASE cliente[g] # "abajo" /\ canal'[g] = Append(canal[g], p[1])
      <4>1. /\ cliente[g] = "arriba" \/ pc[g] \in {"suscribir", "responder"} =>
                 \A k \in DOMAIN canal[g] : canal[g][k] # OK
            /\ \A j, k \in DOMAIN canal[g] :
                 canal[g][j] = OK /\ canal[g][k] = OK => j = k
            /\ canal[g] \in Seq(IDS \union {OK})
          BY DEF Canales, TypeOK
      <4>2. /\ DOMAIN canal'[g] = 1 .. Len(canal[g]) + 1
            /\ DOMAIN canal[g] = 1 .. Len(canal[g]) /\ Len(canal[g]) \in Nat
            /\ \A k \in DOMAIN canal[g] : canal'[g][k] = canal[g][k]
            /\ canal'[g][Len(canal[g]) + 1] = p[1]
          BY <2>1, <3>2, <4>1
      <4>3. \A k \in DOMAIN canal'[g] :
              canal'[g][k] = OK => k \in DOMAIN canal[g]
          BY <2>1, <4>2
      <4>4. QED
          BY <3>2, <4>1, <4>2, <4>3
    <3>3. QED
        BY <1>2, <3>1, <3>2
  <2>3. QED
      BY <2>2 DEF Canales
<1>8. Sockets'
    BY DEF Sockets
<1>9. Copias'
  <2>1. ASSUME NEW r \in PARES, envios'[r] > 0 \/ Relaciones(r)' > 0
        PROVE  envios[r] > 0 \/ Relaciones(r) > 0
    <3>1. CASE r = p
        BY <3>1 DEF Relaciones, TypeOK
    <3>2. CASE r # p
        BY <1>1, <2>1, <3>2 DEF MarcarEnviada, TypeOK
    <3>3. QED
        BY <3>1, <3>2
  <2>2. \A g \in CONEXIONES : altas[g] <= altas'[g]
      BY DEF TypeOK
  <2>3. QED
      BY <1>1, <1>3, <2>1, <2>2, CopiasMarco
<1>10. NadieSePierde'
    BY <1>1, NadieMarco
<1>11. QED
    BY <1>3, <1>4, <1>5, <1>6, <1>7, <1>8, <1>9, <1>10

-----------------------------------------------------------------------------
(* What a client does changes no message, relation nor subscription.        *)
LEMMA ClienteMarco ==
    ASSUME IInv,
           UNCHANGED <<memoria, abonados, relaciones, mProceso, mRecursar,
                       vistos, vuelta, asunto, ackeados, envios, altas>>,
           \A g \in PUBS : pc'[g] = pc[g],
           \A g \in CONEXIONES : pc'[g] \in {pc[g], "suscribir"},
           \A g \in CONEXIONES : pc[g] = "responder" => pc'[g] = "responder"
    PROVE  Numeracion' /\ Turnos' /\ Suscripciones' /\ Copias' /\ NadieSePierde'
<1> USE Pares, Nulos DEF IInv, memoria, abonados, relaciones
<1>1. Numeracion'
    BY DEF Numeracion
<1>2. Turnos'
  <2>1. \A g \in PUBS : Guardando(g)' = Guardando(g)
      BY DEF Guardando
  <2>2. ASSUME NEW g \in CONEXIONES,
               pc'[g] \in {"responder", "recursar", "mandando"}
        PROVE  mProceso' = g
      BY <2>2 DEF Turnos
  <2>3. QED
      BY <2>1, <2>2 DEF Turnos, Relaciones
<1>3. Suscripciones'
  <2>1. \A g \in CONEXIONES : pc[g] = "responder" <=> pc'[g] = "responder"
      OBVIOUS
  <2>2. QED
      BY <2>1 DEF Suscripciones
<1>4. Copias'
    BY DEF Copias, Relaciones, Debidas
<1>5. NadieSePierde'
    BY NadieMarco DEF Relaciones
<1>6. QED
    BY <1>1, <1>2, <1>3, <1>4, <1>5

(* A client that stops reading a connection leaves it empty and unused.     *)
LEMMA Abandona ==
    ASSUME TypeOK, Sockets, NEW h \in CONEXIONES, Abandonar(h),
           socket' = socket
    PROVE  /\ cliente' \in [CONEXIONES -> {"abajo", "pidiendo", "arriba"}]
           /\ canal' \in [CONEXIONES -> Seq(IDS \union {OK})]
           /\ fdVivo' \in [SUBS -> BOOLEAN]
           /\ cliente'[h] = "abajo" /\ canal'[h] = << >>
           /\ \A g \in CONEXIONES \ {h} :
                cliente'[g] = cliente[g] /\ canal'[g] = canal[g]
           /\ Sockets'
<1> USE Pares, Nulos DEF Abandonar
<1>1. /\ cliente' \in [CONEXIONES -> {"abajo", "pidiendo", "arriba"}]
      /\ cliente'[h] = "abajo"
      /\ \A g \in CONEXIONES \ {h} : cliente'[g] = cliente[g]
    BY DEF TypeOK
<1>2. /\ canal' \in [CONEXIONES -> Seq(IDS \union {OK})]
      /\ canal'[h] = << >>
      /\ \A g \in CONEXIONES \ {h} : canal'[g] = canal[g]
    BY DEF TypeOK
<1>3. /\ fdVivo' \in [SUBS -> BOOLEAN]
      /\ fdVivo'[h[1]] => fdVivo[h[1]] /\ socket[h[1]] # h[2]
      /\ \A s \in SUBS \ {h[1]} : fdVivo'[s] = fdVivo[s]
    BY DEF TypeOK
<1>4. ASSUME NEW s \in SUBS, fdVivo'[s]
      PROVE  /\ <<s, socket[s]>> \in CONEXIONES \ {h}
             /\ cliente[<<s, socket[s]>>] # "abajo"
  <2>1. fdVivo[s]
      BY <1>3, <1>4
  <2>2. <<s, socket[s]>> # h
    <3>1. CASE s = h[1]
        BY <1>3, <1>4, <3>1
    <3>2. CASE s # h[1]
        BY <3>2
    <3>3. QED
        BY <3>1, <3>2
  <2>3. QED
      BY <2>1, <2>2 DEF Sockets
<1>5. Sockets'
    BY <1>1, <1>4 DEF Sockets
<1>6. QED
    BY <1>1, <1>2, <1>3, <1>5

(* A client connects: its connection was empty.                            *)
LEMMA PasoPedir == ASSUME IInv, NEW h \in CONEXIONES, Pedir(h) PROVE IInv'
<1> USE Pares, Nulos
        DEF IInv, Pedir, Ir, memoria, abonados, relaciones, historia
<1>1. /\ pc[h] = "ocioso" /\ pc'[h] = "suscribir"
      /\ cliente[h] = "abajo" /\ cliente'[h] = "pidiendo"
      /\ \A g \in HILOS \ {h} : pc'[g] = pc[g]
      /\ \A g \in CONEXIONES \ {h} : cliente'[g] = cliente[g]
    BY DEF TypeOK
<1>2. TypeOK'
    BY DEF TypeOK
<1>3. Numeracion' /\ Turnos' /\ Suscripciones' /\ Copias' /\ NadieSePierde'
    BY <1>1, ClienteMarco, ConexionesAssumption
<1>4. Canales'
  <2>1. canal[h] = << >> /\ DOMAIN canal[h] = {}
      BY <1>1 DEF Canales
  <2>2. QED
      BY <1>1, <2>1 DEF Canales
<1>5. Sockets'
    BY <1>1 DEF Sockets
<1>6. QED
    BY <1>2, <1>3, <1>4, <1>5

(* The first thing that is read: after the confirmation there is no other. *)
LEMMA PasoLeerConfirmacion ==
    ASSUME IInv, NEW h \in CONEXIONES, LeerConfirmacion(h)
    PROVE  IInv'
<1> USE Pares, Nulos
        DEF IInv, LeerConfirmacion, memoria, abonados, relaciones, hilos,
            historia
<1>1. Numeracion' /\ Turnos' /\ Suscripciones' /\ Copias' /\ NadieSePierde'
    BY ClienteMarco
<1>2. canal[h] \in Seq(IDS \union {OK}) /\ canal[h] # << >>
    BY DEF TypeOK
<1>3. CASE Head(canal[h]) = OK
  <2>1. /\ cliente' \in [CONEXIONES -> {"abajo", "pidiendo", "arriba"}]
        /\ cliente'[h] = "arriba" /\ fdVivo' = fdVivo
        /\ \A g \in CONEXIONES \ {h} : cliente'[g] = cliente[g]
      BY <1>3 DEF TypeOK
  <2>2. /\ canal' \in [CONEXIONES -> Seq(IDS \union {OK})]
        /\ canal'[h] = Tail(canal[h])
        /\ \A g \in CONEXIONES \ {h} : canal'[g] = canal[g]
    <3>1. Tail(canal[h]) \in Seq(IDS \union {OK})
        BY <1>2
    <3>2. canal' = [canal EXCEPT ![h] = Tail(canal[h])]
        BY <1>3
    <3>3. canal \in [CONEXIONES -> Seq(IDS \union {OK})]
        BY DEF TypeOK
    <3> QED
        BY <3>1, <3>2, <3>3
  <2>3. TypeOK'
      BY <2>1, <2>2 DEF TypeOK
  <2>4. Canales'
    <3>1. /\ \A k \in DOMAIN Tail(canal[h]) :
                /\ k + 1 \in DOMAIN canal[h] /\ k + 1 # 1
                /\ Tail(canal[h])[k] = canal[h][k + 1]
          /\ 1 \in DOMAIN canal[h] /\ canal[h][1] = OK
        BY <1>2, <1>3
    <3>2. \A k \in DOMAIN canal'[h] : canal'[h][k] # OK
        BY <2>2, <3>1 DEF Canales
    <3>3. pc[h] \notin {"suscribir", "responder"}
        BY <3>1 DEF Canales
    <3>4. QED
        BY <2>1, <2>2, <3>2, <3>3 DEF Canales
  <2>5. Sockets'
      BY <2>1 DEF Sockets
  <2>6. QED
      BY <1>1, <2>3, <2>4, <2>5
<1>4. CASE Head(canal[h]) # OK
  <2>1. Abandonar(h) /\ socket' = socket
      BY <1>4
  <2>2. TypeOK' /\ Sockets'
      BY <2>1, Abandona DEF TypeOK
  <2>3. Canales'
      BY <2>1, Abandona DEF Canales
  <2>4. QED
      BY <1>1, <2>2, <2>3
<1>5. QED
    BY <1>3, <1>4

(* A message is read and acknowledged.                                     *)
LEMMA PasoLeerMensaje ==
    ASSUME IInv, NEW h \in CONEXIONES, LeerMensaje(h)
    PROVE  IInv'
<1> USE Pares, Nulos
        DEF IInv, LeerMensaje, memoria, abonados, relaciones, hilos
<1>1. Numeracion' /\ Turnos' /\ Suscripciones' /\ Copias' /\ NadieSePierde'
    BY ClienteMarco
<1>2. canal[h] \in Seq(IDS \union {OK}) /\ canal[h] # << >>
    BY DEF TypeOK
<1>3. /\ \A k \in DOMAIN Tail(canal[h]) :
            /\ k + 1 \in DOMAIN canal[h]
            /\ Tail(canal[h])[k] = canal[h][k + 1]
      /\ 1 \in DOMAIN canal[h] /\ canal[h][1] = Head(canal[h])
      /\ Tail(canal[h]) \in Seq(IDS \union {OK})
      /\ Head(canal[h]) \in IDS \union {OK}
    BY <1>2
<1>4. Head(canal[h]) \in IDS
    BY <1>3 DEF Canales
<1>5. /\ canal' \in [CONEXIONES -> Seq(IDS \union {OK})]
      /\ canal'[h] = Tail(canal[h])
      /\ \A g \in CONEXIONES \ {h} : canal'[g] = canal[g]
    BY <1>3 DEF TypeOK
<1>6. TypeOK'
  <2>1. acks' \in [CONEXIONES -> Seq(IDS)]
    <3>1. acks \in [CONEXIONES -> Seq(IDS)]
        BY DEF TypeOK
    <3>2. Append(acks[h], Head(canal[h])) \in Seq(IDS)
        BY <1>4, <3>1, AppendProperties
    <3>3. QED
        BY <3>1, <3>2
  <2>2. recibidos' \subseteq PARES
      BY <1>4 DEF TypeOK
  <2>3. QED
      BY <1>5, <2>1, <2>2 DEF TypeOK
<1>7. Canales'
  <2>1. \A k \in DOMAIN canal'[h] : canal'[h][k] # OK
      BY <1>3, <1>5 DEF Canales
  <2>2. QED
      BY <1>5, <2>1 DEF Canales
<1>8. Sockets'
    BY DEF Sockets
<1>9. QED
    BY <1>1, <1>6, <1>7, <1>8

(* A connection breaks.                                                    *)
LEMMA PasoCortar == ASSUME IInv, NEW h \in CONEXIONES, Cortar(h) PROVE IInv'
<1> USE Pares, Nulos
        DEF IInv, Cortar, memoria, abonados, relaciones, hilos, historia
<1>1. Numeracion' /\ Turnos' /\ Suscripciones' /\ Copias' /\ NadieSePierde'
    BY ClienteMarco
<1>2. socket' = socket
    OBVIOUS
<1>3. TypeOK' /\ Sockets'
  <2>1. acks' \in [CONEXIONES -> Seq(IDS)]
    <3>1. acks \in [CONEXIONES -> Seq(IDS)] /\ << >> \in Seq(IDS)
        BY DEF TypeOK
    <3>2. CASE UNCHANGED acks
        BY <3>1, <3>2
    <3>3. CASE acks' = [acks EXCEPT ![h] = << >>]
        BY <3>1, <3>3
    <3>4. QED
        BY <3>2, <3>3
  <2>2. cortes' \in 0 .. MAX_CORTES
    <3>1. cortes \in 0 .. MAX_CORTES /\ cortes < MAX_CORTES
        BY DEF TypeOK
    <3>2. cortes' = cortes + 1
        OBVIOUS
    <3>3. QED
        BY <3>1, <3>2, CotasAssumption
  <2>3. QED
      BY <1>2, <2>1, <2>2, Abandona DEF TypeOK
<1>4. Canales'
    BY <1>2, Abandona DEF Canales
<1>5. QED
    BY <1>1, <1>3, <1>4

-----------------------------------------------------------------------------
(* Every step preserves the invariant: one case per action.                *)
LEMMA PasoInv == IInv /\ [Next]_vars => IInv'
<1> SUFFICES ASSUME IInv, [Next]_vars PROVE IInv'
    OBVIOUS
<1>1. ASSUME NEW h \in PUBS, NEW q \in QUEUES, Publicar(h, q) PROVE IInv'
    BY <1>1, PasoPublicar
<1>2. ASSUME NEW h \in PUBS, PasoPublicador(h) PROVE IInv'
    BY <1>2, PasoGuardar, PasoFaltaLugar, PasoDesalojar DEF PasoPublicador
<1>3. ASSUME NEW h \in CONEXIONES, PasoConexion(h) PROVE IInv'
    BY <1>3, PasoRegistrar, PasoResponder, PasoAck DEF PasoConexion
<1>4. ASSUME NEW h \in CONEXIONES, PasoCliente(h) PROVE IInv'
    BY <1>4, PasoPedir, PasoLeerConfirmacion, PasoLeerMensaje DEF PasoCliente
<1>5. ASSUME NEW h \in CONEXIONES, Cortar(h) PROVE IInv'
    BY <1>5, PasoCortar
<1>6. ASSUME NEW h \in HILOS, PasoRecursar(h) PROVE IInv'
    BY <1>6, PasoEmpezarRecorrido, PasoMandar, PasoFinRecorrido
       DEF PasoRecursar
<1>7. ASSUME NEW s \in SUBS, Perdida(s) PROVE IInv'
    BY <1>7, PasoPerdida
<1>8. CASE UNCHANGED vars
  <2> USE <1>8 DEF IInv, vars, memoria, abonados, relaciones, hilos, red, historia
  <2>1. Numeracion' /\ Turnos' /\ Suscripciones' /\ Copias' /\ NadieSePierde'
      BY ClienteMarco
  <2>2. TypeOK'
      BY DEF TypeOK
  <2>3. Canales' /\ Sockets'
      BY DEF Canales, Sockets
  <2>4. QED
      BY <2>1, <2>2, <2>3
<1>9. QED
    BY <1>1, <1>2, <1>3, <1>4, <1>5, <1>6, <1>7, <1>8 DEF Next

(* The invariant holds in every state of every behaviour of the queues.    *)
THEOREM Invariante == Spec => []IInv
<1>1. QED
    BY Inicio, PasoInv, PTL DEF Spec

(* Every variable of the queues always has its type: among others, a client*)
(* never takes a confirmation for a message to acknowledge.                *)
THEOREM TiposSiempre == Spec => []TypeOK
<1>1. IInv => TypeOK
    BY DEF IInv
<1>2. QED
    BY <1>1, Invariante, PTL

(* Whatever threads publish, subscribe, evict and acknowledge, and whatever*)
(* connections break, no subscriber of a message in memory is forgotten.   *)
THEOREM NadieSePierdeNunca == Spec => []NadieSePierde
<1>1. IInv => NadieSePierde
    BY DEF IInv
<1>2. QED
    BY <1>1, Invariante, PTL

(* cargar_mensaje and subscribir_a_cola only relate a message to the       *)
(* subscribers of its queue.                                               *)
THEOREM SoloSuscriptosSiempre == Spec => []SoloSuscriptos
<1>1. IInv => SoloSuscriptos
    BY DEF IInv, Copias, SoloSuscriptos
<1>2. QED
    BY <1>1, Invariante, PTL

(* A subscriber gets at most one copy of a message per subscription to its *)
(* queue, with any number of threads walking the relations.                *)
THEOREM SinReenvioSiempre == Spec => []SinReenvioEspurio
<1>1. IInv => SinReenvioEspurio
  <2> SUFFICES ASSUME IInv, NEW p \in PARES, envios[p] > 0
               PROVE  envios[p] <= altas[<<p[2], tipo[p[1]]>>]
      BY DEF SinReenvioEspurio
  <2>1. TypeOK /\ Copias /\ Suscripciones
      BY DEF IInv
  <2>2. /\ tipo[p[1]] # NULL /\ p[2] \in colas[tipo[p[1]]]
        /\ Debidas(p) <= altas[<<p[2], tipo[p[1]]>>]
      BY <2>1 DEF Copias
  <2>3. tipo[p[1]] \in QUEUES
      BY <2>1, <2>2, Pares DEF TypeOK
  <2> SUFFICES ASSUME NEW g \in CONEXIONES, g = <<p[2], tipo[p[1]]>>
               PROVE  envios[p] <= altas[g]
      BY <2>1, <2>2, <2>3 DEF Suscripciones
  <2>4. /\ altas[g] \in Nat /\ envios[p] \in Nat
        /\ pendientes[p] \in Nat
      BY <2>1 DEF TypeOK
  <2>5. Debidas(p) <= altas[g]
      BY <2>2
  <2>6. QED
      BY <2>4, <2>5 DEF Debidas
<1>2. QED
    BY <1>1, Invariante, PTL
=============================================================================
