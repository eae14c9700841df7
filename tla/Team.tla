-------------------------------- MODULE Team --------------------------------
(***************************************************************************)
(* The Team process, Team/team.c: one thread per trainer, the planners they*)
(* call, the algorithms that hand pokemons out (algoritmo_de_cercania) and *)
(* pair trainers up (algoritmo_deadlock), the threads that send each CATCH,*)
(* and the threads that receive APPEARED, LOCALIZED and CAUGHT.            *)
(*                                                                         *)
(* A thread is in one place (hilo[h].pc) and a procedure it calls returns  *)
(* to hilo[h].vuelta. One step is the code between two points where another*)
(* thread's step can change what it reads: a semaphore, a mutex, or an     *)
(* unprotected read of a list followed by its use. An operation on a list  *)
(* or a dictionary is one step.                                            *)
(***************************************************************************)
EXTENDS Entrenadores

CONSTANTS
    MENSAJES,       \* the APPEARED and LOCALIZED that may arrive
    CICLOS,         \* retardo_simulacion: cycles of an exchange, 5 in the code
    FALLAS          \* bound, by planner: connections lost, messages delivered again
                    \* and pokemons that get away

CANALES == {"appeared", "localized", "gameboy"}
Semaforos == {"new_ready", "ready_exec", "block_ready", "block_catch", "ready_exec_cd"}

ASSUME MensajesAssumption ==
    /\ MENSAJES \subseteq [n : Nat, canal : CANALES, especie : ESPECIES, lugares : Seq(PUNTOS)]
    /\ \A m \in MENSAJES : m.canal # "localized" => Len(m.lugares) = 1
    /\ ENTRENADORES \intersect CANALES = {} /\ NULL \notin CANALES
    /\ CICLOS \in Nat \ {0} 
    /\ FALLAS \in [Planificadores -> Nat]

VARIABLES
    algoritmo,      \* config.algoritmo_planificacion
    caida,          \* what the process crashed of, "no" while it lives
    ent,            \* the struct of each trainer
    hilo,           \* where each thread is, and the cycles of a journey left
    nuevos,         \* estado_new
    ready,          \* estado_ready: every planner sorts it before it takes from it
    exec,           \* estado_exec
    block,          \* estado_block
    terminados,     \* estado_finish
    llegada,        \* the trainers with a tiempo_llegada, oldest first
    sem,            \* the five arrays of semaphores
    mPlan,          \* the owner of mutex_planificador
    cerc,           \* algoritmo_de_cercania: owner of its mutex, and its locals
    objetivo,       \* objetivo_global
    pokemons,       \* the pokemons to hand out
    recibidos,      \* pokemons_received: species a LOCALIZED was used of
    entrantes,      \* messages on their way to a thread that receives
    fallas,         \* how many of those so far
    catches,        \* the CATCH the Broker took: who sent it, and its answer
    envio,          \* the thread that sends each trainer's CATCH
    waiting,        \* waiting_list: the ids of the CATCH to be answered
    perdidos        \* history: ids answered before they were in waiting_list

listas == <<nuevos, ready, exec, block, terminados>>
mundo == <<objetivo, pokemons, recibidos>>
correo == <<entrantes, fallas, catches, envio, waiting, perdidos>>
vars == <<algoritmo, caida, ent, hilo, listas, llegada, sem, mPlan, cerc, mundo, correo>>

HILOS == ENTRENADORES \union CANALES
SinCercania == [duenio |-> NULL, cands |-> {}, quedan |-> 0, movio |-> FALSE]

Init ==
    /\ algoritmo \in ALGORITMOS
    /\ caida = "no"
    /\ ent = [t \in ENTRENADORES |-> EntrenadorNuevo(t)]
    /\ hilo = [h \in HILOS |->
                 [pc |-> IF h \in ENTRENADORES THEN "nuevo" ELSE "libre",
                  vuelta |-> "libre", tramo |-> "viaje", falta |-> 0]]
    /\ nuevos = ENTRENADORES /\ terminados = {}
    /\ ready = [t \in ENTRENADORES |-> 0]
    /\ exec = <<>> /\ block = <<>> /\ llegada = <<>>
    /\ sem = [k \in Semaforos |-> [t \in ENTRENADORES |-> 0]]
    /\ mPlan = NULL
    /\ cerc = SinCercania
    /\ objetivo = GlobalInicial
    /\ pokemons = <<>> /\ recibidos = {}
    /\ entrantes = MENSAJES /\ fallas = 0
    /\ catches = <<>> /\ waiting = {} /\ perdidos = {}
    /\ envio = [t \in ENTRENADORES |-> [est |-> "no", id |-> 0]]

-----------------------------------------------------------------------------
\* Helpers.

En(h, p) == caida = "no" /\ hilo[h].pc = p
Sigue(h, p) == hilo' = [hilo EXCEPT ![h].pc = p]
Llama(h, p, v) == hilo' = [hilo EXCEPT ![h].pc = p, ![h].vuelta = v]

\* The process dies of a null or an invalid pointer: nothing else happens.
Muere(motivo) ==
    /\ caida' = motivo
    /\ UNCHANGED <<algoritmo, ent, hilo, listas, llegada, sem, mPlan, cerc, mundo>>
Cae(motivo) == Muere(motivo) /\ UNCHANGED correo

Con(k, t) == [sem EXCEPT ![k][t] = @ + 1]
Espera(k, t) == sem[k][t] > 0 /\ sem' = [sem EXCEPT ![k][t] = @ - 1]

HayReady == \E t \in ENTRENADORES : ready[t] > 0
EnReady == {t \in ENTRENADORES : ready[t] > 0}
EnLista(t, s) == \E i \in DOMAIN s : s[i] = t

\* list_remove_by_condition: the first element that is t, if there is one.
Quitar(s, t) ==
    IF ~EnLista(t, s) THEN s
    ELSE LET i == CHOOSE j \in DOMAIN s : s[j] = t /\ \A k \in 1 .. j - 1 : s[k] # t
         IN SubSeq(s, 1, i - 1) \o SubSeq(s, i + 1, Len(s))

\* *(tiempo_llegada) = get_time()
ConHora(t) == Append(Quitar(llegada, t), t)

-----------------------------------------------------------------------------
\* The planners: call_planner.

\* Mutant of Mira: no planner takes mutex_planificador.
MiraSinMutex(t) ==
    /\ En(t, "mira")
    /\ IF HayReady /\ (exec = <<>> \/ algoritmo = "SJF_CD")
       THEN Sigue(t, "elige")
       ELSE Sigue(t, hilo[t].vuelta)
    /\ UNCHANGED <<algoritmo, caida, ent, listas, llegada, sem, mPlan, cerc, mundo, correo>>

\* Mutant of Mira: a planner that does not see that Exec is busy.
MiraSoloReady(t) ==
    /\ En(t, "mira")
    /\ EsSJF(algoritmo) => mPlan = NULL
    /\ IF HayReady
       THEN Sigue(t, "elige") /\ mPlan' = IF EsSJF(algoritmo) THEN t ELSE mPlan
       ELSE Sigue(t, hilo[t].vuelta) /\ UNCHANGED mPlan
    /\ UNCHANGED <<algoritmo, caida, ent, listas, llegada, sem, cerc, mundo, correo>>

\* fifo_planner, rr_planner, sjf_sd_planner: is there something to do? Only the
\* last takes mutex_planificador. sjf_cd_planner also goes on when Exec is busy.
Mira(t) ==
    /\ En(t, "mira")
    /\ EsSJF(algoritmo) => mPlan = NULL
    /\ IF HayReady /\ (exec = <<>> \/ algoritmo = "SJF_CD")
       THEN Sigue(t, "elige") /\ mPlan' = IF EsSJF(algoritmo) THEN t ELSE mPlan
       ELSE Sigue(t, hilo[t].vuelta) /\ UNCHANGED mPlan
    /\ UNCHANGED <<algoritmo, caida, ent, listas, llegada, sem, cerc, mundo, correo>>

Vuelve(t) ==
    /\ Sigue(t, hilo[t].vuelta)
    /\ mPlan' = IF mPlan = t THEN NULL ELSE mPlan
    /\ UNCHANGED <<algoritmo, caida, nuevos, block, terminados, cerc, mundo, correo>>

\* The semaphore that wakes the chosen trainer: the one of a trainer that was
\* preempted, or the one of a trainer that starts.
Despierta(e, x) ==
    IF algoritmo \in {"RR", "SJF_CD"} /\ x.vengo THEN Con("ready_exec_cd", e)
    ELSE Con("ready_exec", e)

AExec(x) ==
    IF algoritmo = "SJF_CD" THEN [x EXCEPT !.estado = "EXEC", !.desalojar = FALSE] ELSE x

EstimadosAlDia ==
    [u \in ENTRENADORES |->
        IF EsSJF(algoritmo) /\ ready[u] > 0 THEN ConEstimado(ent[u]) ELSE ent[u]]

\* The chosen trainer e goes from Ready to an idle Exec.
Despacha(e, E) ==
    /\ ready' = [ready EXCEPT ![e] = @ - 1]
    /\ exec' = Append(exec, e)
    /\ ent' = [E EXCEPT ![e] = AExec(@)]
    /\ sem' = Despierta(e, E[e])
    /\ UNCHANGED llegada

\* sjf_cd_planner with Exec busy: e takes the place of the first trainer in Exec,
\* which goes back to Ready only if it has already begun to run.
Expropia(e, E) ==
    LET x == Head(exec) IN
    /\ Desaloja(E[x], E[e])
    /\ sem' = Despierta(e, E[e])
    /\ IF E[x].vengo
       THEN /\ ready' = [ready EXCEPT ![e] = @ - 1, ![x] = @ + 1]
            /\ exec' = Append(Tail(exec), e)
            /\ llegada' = ConHora(x)
            /\ ent' = [E EXCEPT ![x].estado = "READY", ![x].desalojar = TRUE,
                                ![e] = AExec(@)]
       ELSE /\ ready' = [ready EXCEPT ![e] = @ - 1]
            /\ exec' = Append(exec, e)
            /\ ent' = [E EXCEPT ![e] = AExec(@)]
            /\ UNCHANGED llegada

NoExpropia(e, E) ==
    /\ ~Desaloja(E[Head(exec)], E[e])
    /\ ent' = E
    /\ UNCHANGED <<ready, exec, llegada, sem>>

Elige(t) ==
    /\ En(t, "elige") /\ HayReady
    /\ LET E == EstimadosAlDia IN
       \E e \in Primeros(algoritmo, llegada, EnReady, E) :
          IF algoritmo = "SJF_CD" /\ exec # <<>>
          THEN Expropia(e, E) \/ NoExpropia(e, E)
          ELSE Despacha(e, E)
    /\ Vuelve(t)

\* The sort reads a tiempo_llegada that is not there, or list_remove finds Ready
\* empty because another thread's planner took the trainer it had counted.
EligeYCae(t) ==
    /\ En(t, "elige")
    /\ \/ ComparaSinHora(algoritmo, llegada, EnReady, EstimadosAlDia) /\ Cae("hora")
       \/ ~HayReady /\ Cae("ready_vacia")

-----------------------------------------------------------------------------
\* trainer_thread.

\* From NEW: some algoritmo_de_cercania gave the trainer a pokemon.
SaleDeNew(t) ==
    /\ En(t, "nuevo") /\ Espera("new_ready", t) /\ Sigue(t, "llega")
    /\ UNCHANGED <<algoritmo, caida, ent, listas, llegada, mPlan, cerc, mundo, correo>>

MarcaLlegada(t) ==
    /\ En(t, "llega")
    /\ llegada' = ConHora(t)
    /\ Llama(t, "mira", "esperaExec")
    /\ UNCHANGED <<algoritmo, caida, ent, listas, sem, mPlan, cerc, mundo, correo>>

Destino(t) ==
    IF ent[t].mov = "CATCH" THEN ent[t].lugar ELSE ent[ent[t].socio].pos

Empieza(t) ==
    /\ En(t, "esperaExec") /\ Espera("ready_exec", t)
    /\ ent' = [ent EXCEPT ![t].vengo = TRUE]
    /\ hilo' = [hilo EXCEPT ![t].pc = "anda", ![t].tramo = "viaje",
                            ![t].falta = Distancia(ent[t].pos, Destino(t))]
    /\ UNCHANGED <<algoritmo, caida, listas, llegada, mPlan, cerc, mundo, correo>>

\* verificar_desalojo before each cycle. Round robin: the quantum is over.
FinDeQuantum(t) ==
    /\ En(t, "anda") /\ hilo[t].falta > 0 /\ QuantumCumplido(algoritmo, ent[t])
    /\ IF exec = <<>> THEN Cae("exec_vacia")
       ELSE /\ exec' = Tail(exec)
            /\ ready' = [ready EXCEPT ![t] = @ + 1]
            /\ ent' = [ent EXCEPT ![t].estado = "READY"]
            /\ llegada' = ConHora(t)
            /\ Llama(t, "mira", "esperaCd")
            /\ UNCHANGED <<algoritmo, caida, nuevos, block, terminados, sem, mPlan,
                           cerc, mundo, correo>>

\* verificar_desalojo: a planner took this trainer out of Exec.
CedeElPaso(t) ==
    /\ En(t, "anda") /\ hilo[t].falta > 0 /\ Desalojado(algoritmo, ent[t])
    /\ Sigue(t, "esperaCd")
    /\ UNCHANGED <<algoritmo, caida, ent, listas, llegada, sem, mPlan, cerc, mundo, correo>>

Retoma(t) ==
    /\ En(t, "esperaCd") /\ Espera("ready_exec_cd", t)
    /\ ent' = IF algoritmo = "RR" THEN [ent EXCEPT ![t].acum = 0] ELSE ent
    /\ Sigue(t, "ciclo")
    /\ UNCHANGED <<algoritmo, caida, listas, llegada, mPlan, cerc, mundo, correo>>

PuedeCiclo(t) ==
    \/ En(t, "ciclo")
    \/ /\ En(t, "anda") /\ hilo[t].falta > 0
       /\ ~QuantumCumplido(algoritmo, ent[t]) /\ ~Desalojado(algoritmo, ent[t])

\* One cycle of the journey or of the exchange.
Ciclo(t) ==
    /\ PuedeCiclo(t) /\ hilo[t].tramo # "captura"
    /\ ent' = [ent EXCEPT ![t].acum = @ + 1]
    /\ hilo' = [hilo EXCEPT ![t].pc = "anda", ![t].falta = @ - 1]
    /\ UNCHANGED <<algoritmo, caida, listas, llegada, sem, mPlan, cerc, mundo, correo>>

Arriba(t) ==
    /\ En(t, "anda") /\ hilo[t].tramo = "viaje" /\ hilo[t].falta = 0
    /\ ent' = [ent EXCEPT ![t].pos = Destino(t)]
    /\ hilo' = IF ent[t].mov = "CATCH"
               THEN [hilo EXCEPT ![t].tramo = "captura", ![t].falta = 1]
               ELSE [hilo EXCEPT ![t].tramo = "canje", ![t].falta = CICLOS]
    /\ UNCHANGED <<algoritmo, caida, listas, llegada, sem, mPlan, cerc, mundo, correo>>

\* The cycle of the CATCH: from here on nobody preempts this trainer.
Pide(t) ==
    /\ PuedeCiclo(t) /\ hilo[t].tramo = "captura"
    /\ ent' = [ent EXCEPT ![t].vengo = FALSE]
    /\ Sigue(t, "suelta")
    /\ UNCHANGED <<algoritmo, caida, listas, llegada, sem, mPlan, cerc, mundo, correo>>

FinDeRafaga(x, n) == [x EXCEPT !.ultima = x.acum + n, !.acum = 0, !.calcular = TRUE]

\* Mutant of Suelta: the trainers that are in Ready are not looked at.
SueltaSinPlanificar(t) ==
    /\ En(t, "suelta")
    /\ IF exec = <<>> THEN Cae("exec_vacia")
       ELSE /\ exec' = Tail(exec)
            /\ block' = Append(block, t)
            /\ ent' = [ent EXCEPT ![t] = [FinDeRafaga(ent[t], 1) EXCEPT
                          !.estado = "BLOCK", !.razon = "ESPERANDO_CATCH"]]
            /\ Llama(t, "cercania", "envia")
            /\ UNCHANGED <<algoritmo, caida, nuevos, ready, terminados, llegada, sem,
                           mPlan, cerc, mundo, correo>>

\* The trainer leaves Exec -by position- for Block, and hands the processor over: to
\* a trainer in Ready, or to whoever algoritmo_de_cercania finds.
Suelta(t) ==
    /\ En(t, "suelta")
    /\ IF exec = <<>> THEN Cae("exec_vacia")
       ELSE /\ exec' = Tail(exec)
            /\ block' = Append(block, t)
            /\ ent' = [ent EXCEPT ![t] = [FinDeRafaga(ent[t], 1) EXCEPT
                          !.estado = "BLOCK", !.razon = "ESPERANDO_CATCH"]]
            /\ Llama(t, IF HayReady THEN "mira" ELSE "cercania", "envia")
            /\ UNCHANGED <<algoritmo, caida, nuevos, ready, terminados, llegada, sem,
                           mPlan, cerc, mundo, correo>>

\* send_message_thread, and the wait for the answer.
Envia(t) ==
    /\ En(t, "envia") /\ Sigue(t, "esperaCatch")
    /\ envio' = [envio EXCEPT ![t].est = "conecta"]
    /\ UNCHANGED <<algoritmo, caida, ent, listas, llegada, sem, mPlan, cerc, mundo,
                   entrantes, fallas, catches, waiting, perdidos>>

RecibeRespuesta(t) ==
    /\ En(t, "esperaCatch") /\ Espera("block_catch", t) /\ Sigue(t, "evalua")
    /\ UNCHANGED <<algoritmo, caida, ent, listas, llegada, mPlan, cerc, mundo, correo>>

\* The exchange: t gets ent[t].especie and gives its partner ent[s].especie. The
\* code reads both dictionaries before it checks that the key is there.
Canje(t) ==
    LET s == ent[t].socio
        mia == ent[t].especie
        suya == ent[s].especie
        st == Mas(ent[t].stock, mia)
        ss == Mas(ent[s].stock, suya) IN
    /\ En(t, "anda") /\ hilo[t].tramo = "canje" /\ hilo[t].falta = 0
    /\ IF st[suya] = 0 \/ ss[mia] = 0 THEN Cae("canje")
       ELSE IF exec = <<>> THEN Cae("exec_vacia")
       ELSE /\ exec' = Tail(exec)
            /\ block' = Append(block, t)
            /\ ent' = [ent EXCEPT
                 ![t] = [FinDeRafaga(ent[t], 0) EXCEPT !.vengo = FALSE,
                            !.razon = "SIN_ESPACIO", !.stock = Menos(st, suya)],
                 ![s].razon = "SIN_ESPACIO", ![s].stock = Menos(ss, mia)]
            /\ Sigue(t, "evalua")
            /\ UNCHANGED <<algoritmo, caida, nuevos, ready, terminados, llegada, sem,
                           mPlan, cerc, mundo, correo>>

\* Mutant of Cumple: the partner is not woken up.
CumpleCallado(t) ==
    LET s == ent[t].socio
        ambos == /\ ent[t].mov = "RESOLUCION_DEADLOCK"
                 /\ ObjetivosCumplidos(s, ent[s])
        fin == IF ambos THEN {t, s} ELSE {t} IN
    /\ En(t, "evalua") /\ ObjetivosCumplidos(t, ent[t])
    /\ block' = IF ambos THEN Quitar(Quitar(block, s), t) ELSE Quitar(block, t)
    /\ terminados' = terminados \union fin
    /\ ent' = [u \in ENTRENADORES |->
                  IF u \in fin THEN [ent[u] EXCEPT !.estado = "FINISH"] ELSE ent[u]]
    /\ Sigue(t, "sale")
    /\ UNCHANGED <<algoritmo, caida, nuevos, ready, exec, llegada, sem, mPlan, cerc, mundo,
                   correo>>

\* Mutant of Cumple: the partner stays in Block.
CumpleEnBlock(t) ==
    LET s == ent[t].socio
        ambos == /\ ent[t].mov = "RESOLUCION_DEADLOCK"
                 /\ ObjetivosCumplidos(s, ent[s])
        fin == IF ambos THEN {t, s} ELSE {t} IN
    /\ En(t, "evalua") /\ ObjetivosCumplidos(t, ent[t])
    /\ block' = Quitar(block, t)
    /\ terminados' = terminados \union fin
    /\ ent' = [u \in ENTRENADORES |->
                  IF u \in fin THEN [ent[u] EXCEPT !.estado = "FINISH"] ELSE ent[u]]
    /\ sem' = IF ambos THEN Con("block_ready", s) ELSE sem
    /\ Sigue(t, "sale")
    /\ UNCHANGED <<algoritmo, caida, nuevos, ready, exec, llegada, mPlan, cerc, mundo, correo>>

\* The trainer has what it wants: it finishes, and so does the partner of an
\* exchange that has what it wants too.
Cumple(t) ==
    LET s == ent[t].socio
        ambos == /\ ent[t].mov = "RESOLUCION_DEADLOCK"
                 /\ ObjetivosCumplidos(s, ent[s])
        fin == IF ambos THEN {t, s} ELSE {t} IN
    /\ En(t, "evalua") /\ ObjetivosCumplidos(t, ent[t])
    /\ block' = IF ambos THEN Quitar(Quitar(block, s), t) ELSE Quitar(block, t)
    /\ terminados' = terminados \union fin
    /\ ent' = [u \in ENTRENADORES |->
                  IF u \in fin THEN [ent[u] EXCEPT !.estado = "FINISH"] ELSE ent[u]]
    /\ sem' = IF ambos THEN Con("block_ready", s) ELSE sem
    /\ Sigue(t, "sale")
    /\ UNCHANGED <<algoritmo, caida, nuevos, ready, exec, llegada, mPlan, cerc, mundo, correo>>

\* It does not, and it has room: it waits for another pokemon. Or it has no room: it
\* looks for somebody to exchange with.
NoCumple(t) ==
    /\ En(t, "evalua") /\ ~ObjetivosCumplidos(t, ent[t])
    /\ IF CantStock(ent[t]) < CantObjetivos(t)
       THEN /\ ent' = [ent EXCEPT ![t].razon = "ESPERANDO_POKEMON"]
            /\ Llama(t, "cercania", "esperaBlock")
       ELSE /\ ent' = [ent EXCEPT ![t].razon = "SIN_ESPACIO", ![t].estado = "BLOCK"]
            /\ Llama(t, "traba", "esperaBlock")
    /\ UNCHANGED <<algoritmo, caida, listas, llegada, sem, mPlan, cerc, mundo, correo>>

SaleDeBlock(t) ==
    /\ En(t, "esperaBlock") /\ Espera("block_ready", t)
    /\ Sigue(t, IF ent[t].estado = "FINISH" THEN "sale" ELSE "llega")
    /\ UNCHANGED <<algoritmo, caida, ent, listas, llegada, mPlan, cerc, mundo, correo>>

\* A trainer that finished lets another one run before its thread ends.
Sale(t) ==
    /\ \/ En(t, "sale") /\ Llama(t, IF HayReady THEN "mira" ELSE "cercania",
                                    IF HayReady THEN "fin" ELSE "saleDos")
       \/ En(t, "saleDos") /\ Llama(t, IF HayReady THEN "mira" ELSE "traba", "fin")
    /\ UNCHANGED <<algoritmo, caida, ent, listas, llegada, sem, mPlan, cerc, mundo, correo>>

-----------------------------------------------------------------------------
\* algoritmo_deadlock, under mutex_deadlock from its first line to its last.

\* The places in Block of the trainers without room: those a previous run chose are
\* left out.
SinMargen ==
    {i \in DOMAIN block : /\ CantObjetivos(block[i]) = CantStock(ent[block[i]])
                          /\ ent[block[i]].razon # "DEADLOCK"}

\* Two of them, such that the second has to spare what the first needs; the code takes
\* the first such pair.
Pares ==
    {p \in SinMargen \X SinMargen :
        /\ p[1] < p[2]
        /\ LET t == block[p[1]]
               u == block[p[2]]
           IN Necesita(t, ent[t]) \intersect Sobran(u, ent[u]) # {}}
PrimerPar ==
    CHOOSE p \in Pares : \A q \in Pares : p[1] < q[1] \/ (p[1] = q[1] /\ p[2] <= q[2])

\* The first of the pair moves: it gets what it lacks and gives something it has to
\* spare. Which one of several depends on the order of a hash table.
Aparea(t, u) ==
    /\ \E e \in Necesita(t, ent[t]) \intersect Sobran(u, ent[u]), f \in Sobran(t, ent[t]) :
          ent' = [ent EXCEPT
              ![t].socio = u, ![t].especie = e, ![t].mov = "RESOLUCION_DEADLOCK",
              ![t].razon = "DEADLOCK", ![t].estado = "READY",
              ![u].especie = f, ![u].razon = "DEADLOCK"]
    /\ block' = Quitar(block, t)
    /\ ready' = [ready EXCEPT ![t] = @ + 1]
    /\ sem' = Con("block_ready", t)

\* A trainer that found nobody, or that is ending, calls the planner afterwards.
Deadlock(t) ==
    /\ En(t, "traba")
    /\ IF Pares # {}
       THEN /\ LET p == PrimerPar IN Aparea(block[p[1]], block[p[2]])
            /\ Sigue(t, IF hilo[t].vuelta = "fin" THEN "mira" ELSE hilo[t].vuelta)
       ELSE /\ Sigue(t, "mira")
            /\ UNCHANGED <<ent, block, ready, sem>>
    /\ UNCHANGED <<algoritmo, caida, nuevos, exec, terminados, llegada, mPlan, cerc,
                   mundo, correo>>

-----------------------------------------------------------------------------
\* algoritmo_de_cercania, called by trainers and by the threads that receive.

\* Where its caller goes on: only a trainer that waits for a pokemon looks at the
\* answer, and calls the planner when it is false.
TrasCercania(h, movio) ==
    IF hilo[h].vuelta = "esperaBlock" /\ ~movio THEN "mira" ELSE hilo[h].vuelta

ConMargen(t) ==
    CantStock(ent[t]) < CantObjetivos(t) /\ ent[t].razon = "ESPERANDO_POKEMON"

\* With no pokemon the function ends without a return statement: the build without
\* optimisation leaves the 0 of list_size in the register, that is, false.
SinPokemons(h) ==
    /\ En(h, "cercania") /\ pokemons = <<>>
    /\ Sigue(h, TrasCercania(h, FALSE))
    /\ UNCHANGED <<algoritmo, caida, ent, listas, llegada, sem, mPlan, cerc, mundo, correo>>

\* It takes the mutex and the trainers that may go: every one in NEW, and those in
\* Block that have room and wait for a pokemon.
Filtra(h) ==
    /\ En(h, "cercania") /\ pokemons # <<>> /\ cerc.duenio = NULL
    /\ cerc' = [duenio |-> h, quedan |-> Len(pokemons), movio |-> FALSE,
                cands |-> nuevos \union {t \in ENTRENADORES : EnLista(t, block) /\ ConMargen(t)}]
    /\ Sigue(h, "reparte")
    /\ UNCHANGED <<algoritmo, caida, ent, listas, llegada, sem, mPlan, mundo, correo>>

\* The first pokemon goes to the nearest candidate. One that is neither in NEW nor
\* in BLOCK gets it as its target and nothing else.
Asigna(h) ==
    LET p == Head(pokemons) IN
    /\ En(h, "reparte") /\ cerc.quedan > 0 /\ cerc.cands # {}
    /\ pokemons' = Tail(pokemons)
    /\ \E c \in MasCercanos(cerc.cands, p.lugar, ent) :
        /\ cerc' = [cerc EXCEPT !.cands = @ \ {c}, !.quedan = @ - 1, !.movio = TRUE]
        /\ IF ent[c].estado \in {"NEW", "BLOCK"}
           THEN /\ ent' = [ent EXCEPT ![c].especie = p.especie, ![c].lugar = p.lugar,
                                      ![c].mov = "CATCH", ![c].estado = "READY"]
                /\ ready' = [ready EXCEPT ![c] = @ + 1]
                /\ IF ent[c].estado = "NEW"
                   THEN nuevos' = nuevos \ {c} /\ sem' = Con("new_ready", c) /\ UNCHANGED block
                   ELSE block' = Quitar(block, c) /\ sem' = Con("block_ready", c)
                        /\ UNCHANGED nuevos
           ELSE /\ ent' = [ent EXCEPT ![c].especie = p.especie, ![c].lugar = p.lugar]
                /\ UNCHANGED <<ready, nuevos, block, sem>>
    /\ UNCHANGED <<algoritmo, caida, hilo, exec, terminados, llegada, mPlan, objetivo,
                   recibidos, correo>>

TerminaCercania(h) ==
    /\ En(h, "reparte") /\ (cerc.quedan = 0 \/ cerc.cands = {})
    /\ cerc' = SinCercania
    /\ Sigue(h, TrasCercania(h, cerc.movio))
    /\ UNCHANGED <<algoritmo, caida, ent, listas, llegada, sem, mPlan, mundo, correo>>

-----------------------------------------------------------------------------
\* What arrives. The Broker sends a message again when it misses its ACK.

Falla == fallas < FALLAS[algoritmo] /\ fallas' = fallas + 1

Toma(m, entrega) ==
    \/ entrantes' = entrantes \ {m} /\ UNCHANGED fallas
    \/ entrega /\ Falla /\ UNCHANGED entrantes

\* appeared_pokemon: used if some of the species is still needed.
Appeared(m) ==
    /\ m.canal \in {"appeared", "gameboy"} /\ En(m.canal, "libre")
    /\ IF m.especie \in DOMAIN objetivo /\ objetivo[m.especie] > 0
       THEN /\ pokemons' = Append(pokemons, [especie |-> m.especie, lugar |-> m.lugares[1]])
            /\ Llama(m.canal, "cercania", "libre")
       ELSE UNCHANGED <<pokemons, hilo>>
    /\ Toma(m, m.canal = "appeared")
    /\ UNCHANGED <<algoritmo, caida, ent, listas, llegada, sem, mPlan, cerc, objetivo,
                   recibidos, catches, envio, waiting, perdidos>>

\* LOCALIZED: used once per species that is a global objective, from the last
\* coordinate to the first.
Localized(m) ==
    LET nuevo(i) == [especie |-> m.especie, lugar |-> m.lugares[Len(m.lugares) + 1 - i]] IN
    /\ m.canal = "localized" /\ En("localized", "libre")
    /\ IF /\ m.especie \in DOMAIN objetivo /\ m.lugares # <<>>
          /\ m.especie \notin recibidos
       THEN /\ pokemons' = pokemons \o [i \in DOMAIN m.lugares |-> nuevo(i)]
            /\ recibidos' = recibidos \union {m.especie}
            /\ Llama("localized", "cercania", "libre")
       ELSE UNCHANGED <<pokemons, recibidos, hilo>>
    /\ Toma(m, TRUE)
    /\ UNCHANGED <<algoritmo, caida, ent, listas, llegada, sem, mPlan, cerc, objetivo,
                   catches, envio, waiting, perdidos>>

\* Mutant of CaughtPokemon: the need of the species is not discounted on one path.
CaughtSinDescontar(t, atrapado) ==
    LET e == ent[t].especie IN
    IF ~EnLista(t, block) THEN Muere("sin_entrenador")
    ELSE IF atrapado = 1 /\ e \notin DOMAIN objetivo THEN Muere("sin_objetivo")
    ELSE /\ IF atrapado = 1
            THEN /\ ent' = [ent EXCEPT ![t].stock[e] = @ + 1]
                 /\ objetivo' = IF objetivo[e] > 1 THEN Descontado(objetivo, e) ELSE objetivo
            ELSE UNCHANGED <<ent, objetivo>>
         /\ sem' = Con("block_catch", t)
         /\ UNCHANGED <<algoritmo, caida, hilo, listas, llegada, mPlan, cerc, pokemons,
                        recibidos>>

\* caught_pokemon. The trainer must be in Block, and the species must still be a
\* global objective when it was caught: the code follows both pointers unchecked.
CaughtPokemon(t, atrapado) ==
    LET e == ent[t].especie IN
    IF ~EnLista(t, block) THEN Muere("sin_entrenador")
    ELSE IF atrapado = 1 /\ e \notin DOMAIN objetivo THEN Muere("sin_objetivo")
    ELSE /\ IF atrapado = 1
            THEN /\ ent' = [ent EXCEPT ![t].stock[e] = @ + 1]
                 /\ objetivo' = Descontado(objetivo, e)
            ELSE UNCHANGED <<ent, objetivo>>
         /\ sem' = Con("block_catch", t)
         /\ UNCHANGED <<algoritmo, caida, hilo, listas, llegada, mPlan, cerc, pokemons,
                        recibidos>>

\* Mutant of EnvioFalla: no default, the trainer is not told.
EnvioFallaCallado(t) ==
    /\ caida = "no" /\ envio[t].est \in {"conecta", "aceptado"}
    /\ envio' = [envio EXCEPT ![t] = [est |-> "no", id |-> 0]]
    /\ Falla
    /\ UNCHANGED <<algoritmo, caida, ent, hilo, listas, llegada, sem, mPlan, cerc, mundo,
                   entrantes, catches, waiting, perdidos>>

\* message_function: the Broker cannot be reached, or it goes away before it says
\* which id it gave the CATCH. By default the pokemon was caught.
EnvioFalla(t) ==
    /\ caida = "no" /\ envio[t].est \in {"conecta", "aceptado"}
    /\ envio' = [envio EXCEPT ![t] = [est |-> "no", id |-> 0]]
    /\ Falla
    /\ CaughtPokemon(t, 1)
    /\ UNCHANGED <<entrantes, catches, waiting, perdidos>>

\* The Broker takes the CATCH and gives it an id.
BrokerAcepta(t) ==
    /\ caida = "no" /\ envio[t].est = "conecta"
    /\ catches' = Append(catches, [tid |-> t, est |-> "pendiente", rta |-> 0])
    /\ envio' = [envio EXCEPT ![t] = [est |-> "aceptado", id |-> Len(catches) + 1]]
    /\ UNCHANGED <<algoritmo, caida, ent, hilo, listas, llegada, sem, mPlan, cerc, mundo,
                   entrantes, fallas, waiting, perdidos>>

\* The id arrives: it is one of the answers to wait for.
AnotaId(t) ==
    /\ caida = "no" /\ envio[t].est = "aceptado"
    /\ waiting' = waiting \union {envio[t].id}
    /\ envio' = [envio EXCEPT ![t] = [est |-> "no", id |-> 0]]
    /\ UNCHANGED <<algoritmo, caida, ent, hilo, listas, llegada, sem, mPlan, cerc, mundo,
                   entrantes, fallas, catches, perdidos>>

\* Gamecard answers a CATCH, through the Broker, whenever it likes: the pokemon was
\* caught (1), or it was not there any more (0).
GamecardResponde(id) ==
    LET contesta(r) ==
          catches' = [catches EXCEPT ![id].est = "contestada", ![id].rta = r] IN
    /\ caida = "no" /\ catches[id].est = "pendiente"
    /\ \/ contesta(1) /\ UNCHANGED fallas
       \/ contesta(0) /\ Falla
    /\ UNCHANGED <<algoritmo, caida, ent, hilo, listas, llegada, sem, mPlan, cerc, mundo,
                   entrantes, envio, waiting, perdidos>>

\* Mutant of Caught: the id stays in waiting_list.
CaughtSinSacar(id) ==
    LET t == catches[id].tid IN
    /\ caida = "no" /\ catches[id].est = "contestada"
    /\ \/ catches' = [catches EXCEPT ![id].est = "entregada"] /\ UNCHANGED fallas
       \/ Falla /\ UNCHANGED catches
    /\ UNCHANGED waiting
    /\ IF id \in waiting
       THEN CaughtPokemon(t, catches[id].rta) /\ UNCHANGED perdidos
       ELSE /\ perdidos' = IF envio[t].est = "aceptado" /\ envio[t].id = id
                           THEN perdidos \union {id} ELSE perdidos
            /\ UNCHANGED <<algoritmo, caida, ent, hilo, listas, llegada, sem, mPlan, cerc, mundo>>
    /\ UNCHANGED <<entrantes, envio>>

\* CAUGHT: it wakes the trainer whose CATCH has that id in waiting_list, and it is
\* thrown away when there is none.
Caught(id) ==
    LET t == catches[id].tid IN
    /\ caida = "no" /\ catches[id].est = "contestada"
    /\ \/ catches' = [catches EXCEPT ![id].est = "entregada"] /\ UNCHANGED fallas
       \/ Falla /\ UNCHANGED catches
    /\ waiting' = waiting \ {id}
    /\ IF id \in waiting
       THEN CaughtPokemon(t, catches[id].rta) /\ UNCHANGED perdidos
       ELSE /\ perdidos' = IF envio[t].est = "aceptado" /\ envio[t].id = id
                           THEN perdidos \union {id} ELSE perdidos
            /\ UNCHANGED <<algoritmo, caida, ent, hilo, listas, llegada, sem, mPlan, cerc, mundo>>
    /\ UNCHANGED <<entrantes, envio>>

-----------------------------------------------------------------------------
Cercania(h) == SinPokemons(h) \/ Filtra(h) \/ Asigna(h) \/ TerminaCercania(h)

Planifica(t) == Mira(t) \/ Elige(t) \/ EligeYCae(t)

Corre(t) ==
    \/ SaleDeNew(t) \/ MarcaLlegada(t) \/ Empieza(t)
    \/ FinDeQuantum(t) \/ CedeElPaso(t) \/ Retoma(t)
    \/ Ciclo(t) \/ Arriba(t) \/ Pide(t) \/ Suelta(t) \/ Envia(t) \/ RecibeRespuesta(t)
    \/ Canje(t) \/ Cumple(t) \/ NoCumple(t) \/ SaleDeBlock(t) \/ Sale(t) \/ Deadlock(t)

EntrenadorPaso(t) == Corre(t) \/ Planifica(t) \/ Cercania(t)
MensajePaso(t) == EnvioFalla(t) \/ BrokerAcepta(t) \/ AnotaId(t)
Recibe(m) == Appeared(m) \/ Localized(m)

Next ==
    \/ \E t \in ENTRENADORES : EntrenadorPaso(t) \/ MensajePaso(t)
    \/ \E c \in CANALES : Cercania(c)
    \/ \E m \in entrantes : Recibe(m)
    \/ \E id \in DOMAIN catches : GamecardResponde(id) \/ Caught(id)

Spec == Init /\ [][Next]_vars

\* The process does not stop while some thread can run or something sent can arrive.
\* Every step uses something up, so this is all the fairness there is to ask for.
FairSpec == Spec /\ WF_vars(Next)

-----------------------------------------------------------------------------
\* Properties.

\* Every variable has its type.
TypeOK ==
    /\ algoritmo \in ALGORITMOS
    /\ caida \in {"no", "hora", "ready_vacia", "exec_vacia", "canje", "sin_entrenador",
                  "sin_objetivo"}
    /\ ent \in [ENTRENADORES -> Entrenador]
    /\ \A h \in HILOS : hilo[h].falta \in Nat /\ hilo[h].tramo \in {"viaje", "captura", "canje"}
    /\ nuevos \subseteq ENTRENADORES /\ terminados \subseteq ENTRENADORES
    /\ ready \in [ENTRENADORES -> Nat]
    /\ exec \in Seq(ENTRENADORES) /\ block \in Seq(ENTRENADORES)
    /\ llegada \in Seq(ENTRENADORES)
    /\ sem \in [Semaforos -> [ENTRENADORES -> Nat]]
    /\ mPlan \in ENTRENADORES \union {NULL}
    /\ cerc \in [duenio : HILOS \union {NULL}, cands : SUBSET ENTRENADORES,
                 quedan : Nat, movio : BOOLEAN]
    /\ pokemons \in Seq([especie : ESPECIES, lugar : PUNTOS])
    /\ DOMAIN objetivo \subseteq ESPECIES /\ recibidos \subseteq ESPECIES
    /\ entrantes \subseteq MENSAJES /\ fallas \in 0 .. FALLAS[algoritmo]
    /\ \A id \in DOMAIN catches : catches[id].tid \in ENTRENADORES
    /\ envio \in [ENTRENADORES -> [est : {"no", "conecta", "aceptado"}, id : Nat]]
    /\ waiting \subseteq DOMAIN catches /\ perdidos \subseteq DOMAIN catches

\* Without desalojo the processor is one: a trainer that runs is alone in estado_exec,
\* and so it is itself whom it removes from there by position (list_remove(estado_exec, 0)).
Corriendo(t) == hilo[t].pc \in {"anda", "ciclo", "suelta"}
UnoEnExec ==
    algoritmo = "SJF_SD" => \A t \in ENTRENADORES : Corriendo(t) => exec = <<t>>

\* Without desalojo a trainer is in one place of New, Ready, Exec and Block until it
\* finishes, and never in two, whatever the threads of the handlers, the planners and
\* the exchanges do with the lists. Between two trainers, whoever is in estado_finish is
\* in no other list; with more, one that an exchange finishes may be chosen for another.
VecesEn(t, s) == Cardinality({i \in DOMAIN s : s[i] = t})
PuestosDe(t) ==
    (IF t \in nuevos THEN 1 ELSE 0) + ready[t] + VecesEn(t, exec) + VecesEn(t, block)
CadaUnoEnUnaLista ==
    algoritmo = "SJF_SD" =>
        \A t \in ENTRENADORES :
            /\ PuestosDe(t) <= 1
            /\ t \notin terminados => PuestosDe(t) = 1
            /\ Cardinality(ENTRENADORES) = 2 /\ t \in terminados => PuestosDe(t) = 0

\* What is still to be caught of a species and what the trainers have add up to what
\* they want, through every CAUGHT, lost connection, exchange and repeated message: to
\* more only if nobody lacked the species to begin with (a LOCALIZED is used of every
\* key of objetivo_global, whatever its value).
Falta(e) == IF e \in DOMAIN objetivo THEN objetivo[e] ELSE 0
Tienen(e) == Suma([t \in ENTRENADORES |-> ent[t].stock[e]])
Quieren(e) == Suma([t \in ENTRENADORES |-> OBJETIVOS[t][e]])
Conservacion ==
    \A e \in EspeciesGlobales :
        /\ Falta(e) + Tienen(e) >= Quieren(e)
        /\ GlobalInicial[e] > 0 => Falta(e) + Tienen(e) = Quieren(e)

\* Nobody ends up with more pokemons than it has room for (cant_objetivos): room is
\* looked at before a pokemon is handed out and filled when its CAUGHT arrives, two
\* threads and many steps later, and meanwhile razon_bloqueo is all that holds the
\* trainer back.
SinExceso == \A t \in ENTRENADORES : Suma(ent[t].stock) <= CantObjetivos(t)

\* A trainer that waits for the answer to its CATCH gets one: its thread is still
\* talking to the Broker, or its id is in waiting_list, once. The answers that came
\* before the id did are the only ones lost.
SuyosEn(t, ids) == {id \in ids : catches[id].tid = t}
CatchEsperado ==
    /\ \A t \in ENTRENADORES :
        /\ Cardinality(SuyosEn(t, waiting)) <= 1
        /\ En(t, "esperaCatch") /\ sem["block_catch"][t] = 0 =>
               envio[t].est # "no" \/ SuyosEn(t, waiting) # {}
    /\ \A id \in waiting \ perdidos : catches[id].est # "entregada"

\* With sjf_sd_planner, which takes a mutex, nobody takes the first trainer of an empty
\* Ready or of an empty Exec; every CAUGHT finds its trainer in Block; and, between two
\* trainers, what one gives in an exchange is still there. With three a trainer may be
\* chosen for two exchanges (NadieEnDosCanjes), and the process dies of the second.
SinListaVacia == algoritmo = "SJF_SD" => caida \notin {"ready_vacia", "exec_vacia"}
CaidaConocida ==
    /\ SinListaVacia
    /\ algoritmo = "SJF_SD" => caida # "sin_entrenador"
    /\ algoritmo = "SJF_SD" /\ Cardinality(ENTRENADORES) = 2 => caida # "canje"

\* Ready empties: whoever has to notice that the processor is free does (the runs are
\* finite, so nobody keeps waiting in a Ready that fills up again).
SinEsperaEterna == HayReady ~> (~HayReady \/ caida # "no")

\* If the process lives, every CATCH succeeds and no answer overtakes its id, all the
\* trainers get what they want, the exchange between two of them included.
TodoAtrapado == \A id \in DOMAIN catches : catches[id].est # "pendiente" => catches[id].rta = 1
TodosTerminan ==
    [](caida = "no" /\ perdidos = {} /\ TodoAtrapado) => <>(\A t \in ENTRENADORES : hilo[t].pc = "fin")

\* Nobody is part of two exchanges at once: algoritmo_deadlock leaves out the trainers
\* that an earlier run chose.
EnCanje(t) ==
    /\ ent[t].mov = "RESOLUCION_DEADLOCK" /\ ent[t].estado = "READY"
    /\ ready[t] > 0 \/ EnLista(t, exec)
NadieEnDosCanjes ==
    \A t, u \in ENTRENADORES :
        t # u /\ EnCanje(t) /\ EnCanje(u) =>
            {t, ent[t].socio} \intersect {u, ent[u].socio} = {}
=============================================================================
