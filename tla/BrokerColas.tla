----------------------------- MODULE BrokerColas -----------------------------
(***************************************************************************)
(* The queues of the Broker: messages, subscribers and the relations       *)
(* between them (MENSAJE_SUBSCRIPTORE) of Broker/broker.c, with one thread *)
(* per connection as start_multithread_server of commLib/connections.c     *)
(* makes them, the two mutexes that order those threads (M_PROCESO and     *)
(* M_RECURSAR) and the subscribers at the other end of the sockets.        *)
(*                                                                         *)
(* A subscriber opens one connection per queue it is interested in and uses*)
(* the same id in all of them, as Team and Gamecard do; the Broker keeps   *)
(* one socket per id. The memory is a number of messages (Particiones and  *)
(* Buddy model how it is managed): a search for room may fail whenever     *)
(* something can be evicted.                                               *)
(***************************************************************************)
EXTENDS Integers, FiniteSets, Sequences

CONSTANTS
    PUBS,           \* threads that serve the publishers' connections
    CONEXIONES,     \* the connections <<subscriber, queue>> of the clients
    QUEUES,         \* the queues (NEW_POK, APPEARED_POK, ...)
    CAPACIDAD,      \* messages that fit in the memory
    MAX_MSGS,       \* bound: messages published
    MAX_CORTES,     \* bound: connections cut
    NULL            \* nobody, nothing

SUBS == {h[1] : h \in CONEXIONES}
IDS == 1 .. MAX_MSGS
HILOS == PUBS \union CONEXIONES
PARES == IDS \X SUBS
OK == 0     \* the confirmation of a subscription

ASSUME ConexionesAssumption ==
    /\ CONEXIONES \subseteq {h[1] : h \in CONEXIONES} \X QUEUES
    /\ PUBS \intersect CONEXIONES = {}
    /\ NULL \notin PUBS \union CONEXIONES \union QUEUES
ASSUME CotasAssumption ==
    CAPACIDAD \in Nat \ {0} /\ MAX_MSGS \in Nat /\ MAX_CORTES \in Nat

VARIABLES
    ident,          \* IDENTIFICADOR_MENSAJE
    tipo,           \* the queue of each message, NULL before it is published
    mensajes,       \* MENSAJES: the messages in memory
    subscriptores,  \* SUBSCRIPTORES
    colas,          \* LIST_NEW_POKEMON, ...: the subscribers of each queue
    socket,         \* the connection whose fd the subscriber's struct holds
    fdVivo,         \* the client still reads from that fd
    conectado,      \* the flag of the subscriber's struct
    pendientes,     \* relations of each pair not sent yet
    enviadas,       \* relations of each pair already sent
    mProceso,       \* the owner of M_PROCESO
    mRecursar,      \* the owner of M_RECURSAR
    vistos,         \* pairs recursar_operativos has already visited
    pc, vuelta,     \* where each thread is, and where recursar returns to
    asunto,         \* the message a publisher's thread is storing
    cliente,        \* the client's end of each connection
    canal,          \* what the Broker sent and the client has not read
    acks,           \* the ACKs the client sent and the Broker has not read
    cortes,         \* connections cut so far
    recibidos,      \* history: pairs the client has received
    ackeados,       \* history: pairs whose ACK the Broker processed
    envios,         \* history: times each pair was sent
    altas           \* history: subscriptions to each connection's queue

memoria == <<ident, tipo, mensajes>>
abonados == <<subscriptores, colas, socket, conectado>>
relaciones == <<pendientes, enviadas>>
hilos == <<mProceso, mRecursar, vistos, pc, vuelta, asunto>>
red == <<fdVivo, cliente, canal, acks, cortes>>
historia == <<recibidos, ackeados, envios, altas>>
vars == <<memoria, abonados, relaciones, hilos, red, historia>>

Init ==
    /\ ident = 1
    /\ tipo = [m \in IDS |-> NULL]
    /\ mensajes = {}
    /\ subscriptores = {}
    /\ colas = [q \in QUEUES |-> {}]
    /\ socket = [s \in SUBS |-> NULL]
    /\ fdVivo = [s \in SUBS |-> FALSE]
    /\ conectado = [s \in SUBS |-> FALSE]
    /\ pendientes = [p \in PARES |-> 0]
    /\ enviadas = [p \in PARES |-> 0]
    /\ mProceso = NULL /\ mRecursar = NULL
    /\ vistos = {}
    /\ pc = [h \in HILOS |-> "ocioso"]
    /\ vuelta = [h \in HILOS |-> "ocioso"]
    /\ asunto = [h \in PUBS |-> NULL]
    /\ cliente = [h \in CONEXIONES |-> "abajo"]
    /\ canal = [h \in CONEXIONES |-> << >>]
    /\ acks = [h \in CONEXIONES |-> << >>]
    /\ cortes = 0
    /\ recibidos = {} /\ ackeados = {}
    /\ envios = [p \in PARES |-> 0]
    /\ altas = [h \in CONEXIONES |-> 0]

-----------------------------------------------------------------------------
(* The relations of a pair.                                                *)

Relaciones(p) == pendientes[p] + enviadas[p]

Ir(h, etapa) == pc' = [pc EXCEPT ![h] = etapa]

(* Mutant of BorrarPrimera: it does not look whether there is a relation.  *)
BorrarSinMirar(B) ==
    /\ enviadas' = [p \in PARES |->
         IF p \in B /\ enviadas[p] > 0 THEN enviadas[p] - 1 ELSE enviadas[p]]
    /\ pendientes' = [p \in PARES |->
         IF p \in B /\ enviadas[p] = 0 THEN pendientes[p] - 1
         ELSE pendientes[p]]

(* mensaje_subscriptor_delete for every pair of B: it removes the first    *)
(* relation of the pair, and flag_enviado marks every relation there is, so*)
(* the first one is a sent one whenever there is any.                      *)
BorrarPrimera(B) ==
    /\ enviadas' = [p \in PARES |->
         IF p \in B /\ enviadas[p] > 0 THEN enviadas[p] - 1 ELSE enviadas[p]]
    /\ pendientes' = [p \in PARES |->
         IF p \in B /\ enviadas[p] = 0 /\ pendientes[p] > 0
         THEN pendientes[p] - 1 ELSE pendientes[p]]

(* mensaje_subscriptor_create for every pair of B. A relation made while   *)
(* recursar_operativos runs is still ahead of it.                          *)
CrearRelaciones(B) ==
    /\ pendientes' = [p \in PARES |->
         IF p \in B THEN pendientes[p] + 1 ELSE pendientes[p]]
    /\ vistos' = vistos \ B
    /\ UNCHANGED enviadas

-----------------------------------------------------------------------------
(* A publisher sends a message: incoming takes M_PROCESO and mensaje_create*)
(* gives it an id.                                                         *)
Publicar(h, q) ==
    /\ pc[h] = "ocioso" /\ mProceso = NULL
    /\ ident \in IDS
    /\ ident' = ident + 1
    /\ tipo' = [tipo EXCEPT ![ident] = q]
    /\ asunto' = [asunto EXCEPT ![h] = ident]
    /\ mProceso' = h
    /\ Ir(h, "lugar")
    /\ UNCHANGED <<mensajes, abonados, relaciones, mRecursar, vistos, vuelta,
                   red, historia>>

(* There is room: the message enters MENSAJES, cargar_mensaje relates it to*)
(* the subscribers of its queue, the id is sent back, M_PROCESO is released*)
(* and the pending messages are sent.                                      *)
Guardar(h) ==
    /\ pc[h] = "lugar"
    /\ Cardinality(mensajes) < CAPACIDAD
    /\ mensajes' = mensajes \union {asunto[h]}
    /\ CrearRelaciones({p \in PARES : /\ p[1] = asunto[h]
                                      /\ p[2] \in colas[tipo[asunto[h]]]
                                      /\ Relaciones(p) = 0})
    /\ asunto' = [asunto EXCEPT ![h] = NULL]
    /\ mProceso' = NULL
    /\ vuelta' = [vuelta EXCEPT ![h] = "ocioso"]
    /\ Ir(h, "recursar")
    /\ UNCHANGED <<ident, tipo, abonados, mRecursar, red, historia>>

(* There is no room: algoritmo_de_reemplazo first sends what is pending.   *)
FaltaLugar(h) ==
    /\ pc[h] = "lugar"
    /\ mensajes # {}
    /\ vuelta' = [vuelta EXCEPT ![h] = "desalojar"]
    /\ Ir(h, "recursar")
    /\ UNCHANGED <<memoria, abonados, relaciones, mProceso, mRecursar, vistos,
                   asunto, red, historia>>

(* Then, under M_RECURSAR, a victim loses one relation per subscriber of   *)
(* its queue (descargar_mensaje) and leaves the memory (mensaje_destroy).  *)
Desalojar(h) ==
    /\ pc[h] = "desalojar" /\ mRecursar = NULL
    /\ \E v \in mensajes :
         /\ BorrarPrimera({p \in PARES : p[1] = v /\ p[2] \in colas[tipo[v]]})
         /\ mensajes' = mensajes \ {v}
    /\ Ir(h, "lugar")
    /\ UNCHANGED <<ident, tipo, abonados, mProceso, mRecursar, vistos, vuelta,
                   asunto, red, historia>>

-----------------------------------------------------------------------------
(* subscribir_a_cola, up to the answer: M_PROCESO is taken and the struct  *)
(* of the subscriber, made or found, gets the new fd.                      *)
Registrar(h) ==
    LET s == h[1]  q == h[2] IN
    /\ pc[h] = "suscribir" /\ mProceso = NULL
    /\ mProceso' = h
    /\ subscriptores' = subscriptores \union {s}
    /\ colas' = [colas EXCEPT ![q] = @ \union {s}]
    /\ socket' = [socket EXCEPT ![s] = q]
    /\ conectado' = [conectado EXCEPT ![s] = TRUE]
    /\ fdVivo' = [fdVivo EXCEPT ![s] = cliente[h] = "pidiendo"]
    /\ Ir(h, "responder")
    /\ UNCHANGED <<memoria, relaciones, mRecursar, vistos, vuelta, asunto,
                   cliente, canal, acks, cortes, historia>>

(* Mutants of Antiguos: the messages already in memory are not looked for; *)
(* the ones of every queue are taken; only the ones without a relation are,*)
(* as in cargar_mensaje.                                                   *)
AntiguosNinguno(h) == {}
AntiguosDeTodas(h) == {p \in PARES : p[1] \in mensajes /\ p[2] = h[1]}
AntiguosSinRelacion(h) ==
    {p \in PARES : /\ p[1] \in mensajes /\ tipo[p[1]] = h[2]
                   /\ p[2] = h[1] /\ Relaciones(p) = 0}

(* The messages of the queue that are in memory, whether they are related  *)
(* to the subscriber already or not.                                       *)
Antiguos(h) ==
    {p \in PARES : p[1] \in mensajes /\ tipo[p[1]] = h[2] /\ p[2] = h[1]}

(* The answer, one relation more for every message of that queue that is   *)
(* in memory, and recursar_operativos with M_PROCESO still taken.          *)
Responder(h) ==
    /\ pc[h] = "responder"
    /\ canal' = IF cliente[h] = "pidiendo"
                THEN [canal EXCEPT ![h] = Append(@, OK)] ELSE canal
    /\ CrearRelaciones(Antiguos(h))
    /\ altas' = [altas EXCEPT ![h] = @ + 1]
    /\ vuelta' = [vuelta EXCEPT ![h] = "ocioso"]
    /\ Ir(h, "recursar")
    /\ UNCHANGED <<memoria, abonados, mProceso, mRecursar, asunto, fdVivo,
                   cliente, acks, cortes, recibidos, ackeados, envios>>

(* An ACK: under M_RECURSAR, flag_ack deletes one relation of the pair.    *)
Ack(h) ==
    /\ pc[h] = "ocioso" /\ mRecursar = NULL
    /\ acks[h] # << >>
    /\ LET p == <<Head(acks[h]), h[1]>> IN
         /\ BorrarPrimera({p})
         /\ ackeados' = ackeados \union {p}
    /\ acks' = [acks EXCEPT ![h] = Tail(@)]
    /\ UNCHANGED <<memoria, abonados, hilos, fdVivo, cliente, canal, cortes,
                   recibidos, envios, altas>>

(* recv returns 0: lost looks for the subscriber with that fd and marks it *)
(* as disconnected. The thread of the connection must be done with what it *)
(* was doing, and an fd that was replaced by a new subscription finds      *)
(* nobody.                                                                 *)
Perdida(s) ==
    /\ conectado[s] /\ ~fdVivo[s]
    /\ pc[<<s, socket[s]>>] \in {"ocioso", "suscribir"}
    /\ conectado' = [conectado EXCEPT ![s] = FALSE]
    /\ UNCHANGED <<memoria, subscriptores, colas, socket, relaciones, hilos,
                   red, historia>>

-----------------------------------------------------------------------------
(* recursar_operativos takes M_RECURSAR and walks the relations.           *)
Recursar(h) ==
    /\ pc[h] = "recursar" /\ mRecursar = NULL
    /\ mRecursar' = h
    /\ vistos' = {}
    /\ Ir(h, "mandando")
    /\ UNCHANGED <<memoria, abonados, relaciones, mProceso, vuelta, asunto,
                   red, historia>>

PorVisitar == {p \in PARES \ vistos : pendientes[p] > 0}

(* Mutant of MarcarEnviada: the relations are not marked.                  *)
SinMarcar(p) ==
    /\ UNCHANGED relaciones
    /\ envios' = [envios EXCEPT ![p] = @ + 1]

(* mandar_mensaje sends and flag_enviado marks every relation of the pair. *)
MarcarEnviada(p) ==
    /\ pendientes' = [pendientes EXCEPT ![p] = 0]
    /\ enviadas' = [enviadas EXCEPT ![p] = @ + pendientes[p]]
    /\ envios' = [envios EXCEPT ![p] = @ + 1]

(* The message or the connection is not there: nothing is sent.            *)
NoSePuede(p) == p[1] \notin mensajes \/ ~conectado[p[2]]

(* mandar_mensaje for one relation not sent yet.                           *)
Mandar(h) ==
    /\ pc[h] = "mandando"
    /\ \E p \in PorVisitar :
         /\ vistos' = vistos \union {p}
         /\ LET f == <<p[2], socket[p[2]]>> IN
            \/ /\ NoSePuede(p)
               /\ UNCHANGED <<relaciones, canal, envios>>
            \/ /\ ~NoSePuede(p) /\ fdVivo[p[2]]
               /\ canal' = [canal EXCEPT ![f] = Append(@, p[1])]
               /\ MarcarEnviada(p)
            \/ \* the peer is gone: send may take the bytes or fail
               /\ ~NoSePuede(p) /\ ~fdVivo[p[2]]
               /\ \/ MarcarEnviada(p)
                  \/ UNCHANGED <<relaciones, envios>>
               /\ UNCHANGED canal
    /\ UNCHANGED <<memoria, abonados, mProceso, mRecursar, pc, vuelta, asunto,
                   fdVivo, cliente, acks, cortes, recibidos, ackeados, altas>>

(* The end of the walk. A subscription releases M_PROCESO after it.        *)
FinRecursar(h) ==
    /\ pc[h] = "mandando"
    /\ PorVisitar = {}
    /\ mRecursar' = NULL
    /\ mProceso' = IF h \in CONEXIONES THEN NULL ELSE mProceso
    /\ Ir(h, vuelta[h])
    /\ UNCHANGED <<memoria, abonados, relaciones, vistos, vuelta, asunto, red,
                   historia>>

-----------------------------------------------------------------------------
(* The client: subscribe_to_queue_thread of Team and Gamecard.             *)

(* It connects and asks for the queue, the first time or after a failure.  *)
Pedir(h) ==
    /\ cliente[h] = "abajo" /\ pc[h] = "ocioso"
    /\ cliente' = [cliente EXCEPT ![h] = "pidiendo"]
    /\ Ir(h, "suscribir")
    /\ UNCHANGED <<memoria, abonados, relaciones, mProceso, mRecursar, vistos,
                   vuelta, asunto, fdVivo, canal, acks, cortes, historia>>

(* The client stops reading connection h.                                  *)
Abandonar(h) ==
    /\ cliente' = [cliente EXCEPT ![h] = "abajo"]
    /\ canal' = [canal EXCEPT ![h] = << >>]
    /\ fdVivo' = [fdVivo EXCEPT ![h[1]] = @ /\ socket[h[1]] # h[2]]

(* The first thing it reads has to be the confirmation: with anything else *)
(* subscribe_to_queue returns false and the client connects again.         *)
LeerConfirmacion(h) ==
    /\ cliente[h] = "pidiendo" /\ canal[h] # << >>
    /\ IF Head(canal[h]) = OK
       THEN /\ cliente' = [cliente EXCEPT ![h] = "arriba"]
            /\ canal' = [canal EXCEPT ![h] = Tail(@)]
            /\ UNCHANGED fdVivo
       ELSE Abandonar(h)
    /\ UNCHANGED <<memoria, abonados, relaciones, hilos, acks, cortes,
                   historia>>

(* It reads a message, handles it and sends the ACK on the same socket.    *)
LeerMensaje(h) ==
    /\ cliente[h] = "arriba" /\ canal[h] # << >>
    /\ canal' = [canal EXCEPT ![h] = Tail(@)]
    /\ recibidos' = recibidos \union {<<Head(canal[h]), h[1]>>}
    /\ acks' = [acks EXCEPT ![h] = Append(@, Head(canal[h]))]
    /\ UNCHANGED <<memoria, abonados, relaciones, hilos, fdVivo, cliente,
                   cortes, ackeados, envios, altas>>

(* The connection breaks: what was not read is lost, the ACKs on their way *)
(* may be lost too.                                                        *)
Cortar(h) ==
    /\ cortes < MAX_CORTES
    /\ cliente[h] # "abajo"
    /\ cortes' = cortes + 1
    /\ Abandonar(h)
    /\ \/ UNCHANGED acks
       \/ acks' = [acks EXCEPT ![h] = << >>]
    /\ UNCHANGED <<memoria, abonados, relaciones, hilos, historia>>

-----------------------------------------------------------------------------
PasoPublicador(h) ==
    Guardar(h) \/ FaltaLugar(h) \/ Desalojar(h)

PasoConexion(h) == Registrar(h) \/ Responder(h) \/ Ack(h)

PasoRecursar(h) == Recursar(h) \/ Mandar(h) \/ FinRecursar(h)

PasoCliente(h) == Pedir(h) \/ LeerConfirmacion(h) \/ LeerMensaje(h)

Next ==
    \/ \E h \in PUBS : (\E q \in QUEUES : Publicar(h, q)) \/ PasoPublicador(h)
    \/ \E h \in CONEXIONES : PasoConexion(h) \/ PasoCliente(h) \/ Cortar(h)
    \/ \E h \in HILOS : PasoRecursar(h)
    \/ \E s \in SUBS : Perdida(s)

Spec == Init /\ [][Next]_vars

(* Every thread keeps running while it is not waiting for a mutex, and the *)
(* clients read and reconnect. Nobody is obliged to publish or to lose a   *)
(* connection.                                                             *)
Fairness ==
    /\ \A h \in PUBS : WF_vars(PasoPublicador(h))
    /\ \A h \in CONEXIONES : WF_vars(PasoConexion(h)) /\ WF_vars(PasoCliente(h))
    /\ \A h \in HILOS : WF_vars(PasoRecursar(h))

FairSpec == Spec /\ Fairness

-----------------------------------------------------------------------------
(* Every variable has its type.                                            *)
TypeOK ==
    /\ ident \in 1 .. MAX_MSGS + 1
    /\ tipo \in [IDS -> QUEUES \union {NULL}]
    /\ mensajes \subseteq IDS
    /\ subscriptores \subseteq SUBS
    /\ colas \in [QUEUES -> SUBSET SUBS]
    /\ socket \in [SUBS -> QUEUES \union {NULL}]
    /\ fdVivo \in [SUBS -> BOOLEAN]
    /\ conectado \in [SUBS -> BOOLEAN]
    /\ pendientes \in [PARES -> Nat]
    /\ enviadas \in [PARES -> Nat]
    /\ mProceso \in HILOS \union {NULL}
    /\ mRecursar \in HILOS \union {NULL}
    /\ vistos \subseteq PARES
    /\ pc \in [HILOS -> {"ocioso", "lugar", "desalojar", "recursar",
                         "mandando", "suscribir", "responder"}]
    /\ vuelta \in [HILOS -> {"ocioso", "desalojar"}]
    /\ asunto \in [PUBS -> IDS \union {NULL}]
    /\ cliente \in [CONEXIONES -> {"abajo", "pidiendo", "arriba"}]
    /\ canal \in [CONEXIONES -> Seq(IDS \union {OK})]
    /\ acks \in [CONEXIONES -> Seq(IDS)]
    /\ cortes \in 0 .. MAX_CORTES
    /\ recibidos \subseteq PARES
    /\ ackeados \subseteq PARES
    /\ envios \in [PARES -> Nat]
    /\ altas \in [CONEXIONES -> Nat]

(* Nobody is forgotten: while a message is in memory, every subscriber of  *)
(* its queue has a relation with it or has acknowledged it. Publications,  *)
(* subscriptions, evictions and ACKs of several threads may interleave; the*)
(* only gap is inside subscribir_a_cola, with M_PROCESO taken.             *)
NadieSePierde ==
    \A m \in mensajes : \A s \in colas[tipo[m]] :
        \/ Relaciones(<<m, s>>) > 0
        \/ <<m, s>> \in ackeados
        \/ pc[<<s, tipo[m]>>] = "responder"

(* Relations join a message only to the subscribers of its queue.          *)
SoloSuscriptos ==
    \A p \in PARES :
        Relaciones(p) > 0 => tipo[p[1]] # NULL /\ p[2] \in colas[tipo[p[1]]]

(* A message goes to a subscriber at most once per subscription to its     *)
(* queue: neither two threads walking the relations nor flag_enviado over  *)
(* duplicated relations make a spurious copy.                              *)
SinReenvioEspurio ==
    \A p \in PARES :
        envios[p] > 0 => envios[p] <= altas[<<p[2], tipo[p[1]]>>]

(* The answer to a subscription is the first thing that reaches the client *)
(* through the connection (README.md:39).                                  *)
ConfirmacionPrimero ==
    \A h \in CONEXIONES :
        cliente[h] = "pidiendo" /\ canal[h] # << >> => Head(canal[h]) = OK

(* Every relation belongs to a message in memory, except for the message   *)
(* being evicted (broker.c:795).                                           *)
RelacionDeMensajeVivo ==
    \A p \in PARES : Relaciones(p) > 0 => p[1] \in mensajes

(* A message that stays in memory reaches the subscribers of its queue that*)
(* keep a single connection, whatever is cut and reconnected.              *)
ConexionesDe(s) == {h \in CONEXIONES : h[1] = s}

EntregaEventual ==
    \A p \in PARES :
      Cardinality(ConexionesDe(p[2])) = 1 =>
        ((p[1] \in mensajes /\ p[2] \in colas[tipo[p[1]]])
            ~> (p \in recibidos \/ p[1] \notin mensajes))
=============================================================================
