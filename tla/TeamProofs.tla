----------------------------- MODULE TeamProofs -----------------------------
(***************************************************************************)
(* Theorems about Team, for any trainers, species, planners and messages.  *)
(* Four inductive invariants, each on the ones before it: Tipos, the type  *)
(* of every variable; Pendientes, the CATCH a trainer waits for;           *)
(* Procesador, the trainer that runs with sjf_sd_planner, whose mutex is   *)
(* all that makes the processor one; Marcha, for the planners without      *)
(* desalojo, which list a trainer is in at each place of its thread, and   *)
(* what makes two trainers a pair of an exchange. Inventario is about no   *)
(* thread: it adds up the pokemons.                                        *)
(***************************************************************************)
EXTENDS Team, Lemas

\* Where a thread may be, and where a procedure it called may return.
Lugares ==
    {"nuevo", "libre", "llega", "mira", "elige", "esperaExec", "esperaCd", "anda", "ciclo",
     "suelta", "cercania", "reparte", "envia", "esperaCatch", "evalua", "traba",
     "esperaBlock", "sale", "saleDos", "fin"}
Vueltas == {"libre", "esperaExec", "esperaCd", "envia", "esperaBlock", "saleDos", "fin"}
Tramos == {"viaje", "captura", "canje"}

\* The parts of TypeOK, with the threads and the CATCH in full.
Ents == ent \in [ENTRENADORES -> Entrenador]
Hilos == hilo \in [HILOS -> [pc : Lugares, vuelta : Vueltas, tramo : Tramos, falta : Nat]]
Listas ==
    /\ nuevos \subseteq ENTRENADORES /\ terminados \subseteq ENTRENADORES
    /\ ready \in [ENTRENADORES -> Nat]
    /\ exec \in Seq(ENTRENADORES) /\ block \in Seq(ENTRENADORES)
    /\ llegada \in Seq(ENTRENADORES)
Sems == sem \in [Semaforos -> [ENTRENADORES -> Nat]]
Planes ==
    /\ algoritmo \in ALGORITMOS
    /\ caida \in {"no", "hora", "ready_vacia", "exec_vacia", "canje", "sin_entrenador",
                  "sin_objetivo"}
    /\ mPlan \in ENTRENADORES \union {NULL}
Reparto ==
    /\ cerc \in [duenio : HILOS \union {NULL}, cands : SUBSET ENTRENADORES,
                 quedan : Nat, movio : BOOLEAN]
    /\ pokemons \in Seq([especie : ESPECIES, lugar : PUNTOS])
    /\ cerc.quedan <= Len(pokemons)
    /\ DOMAIN objetivo \subseteq ESPECIES /\ recibidos \subseteq ESPECIES
Correo ==
    /\ entrantes \subseteq MENSAJES /\ fallas \in 0 .. FALLAS[algoritmo]
    /\ catches \in Seq([tid : ENTRENADORES, est : {"pendiente", "contestada", "entregada"},
                        rta : {0, 1}])
    /\ envio \in [ENTRENADORES -> [est : {"no", "conecta", "aceptado"}, id : Nat]]
    /\ \A t \in ENTRENADORES : envio[t].est = "aceptado" => envio[t].id \in DOMAIN catches
    /\ waiting \subseteq DOMAIN catches /\ perdidos \subseteq DOMAIN catches

\* A trainer that gives way has cycles to go, so no journey runs below zero.
LeFalta(h) ==
    /\ hilo[h].pc \in {"esperaCd", "ciclo"} => hilo[h].falta > 0
    /\ hilo[h].pc \in {"mira", "elige"} /\ hilo[h].vuelta = "esperaCd" => hilo[h].falta > 0
    /\ hilo[h].pc \in {"cercania", "reparte", "traba"} => hilo[h].vuelta # "esperaCd"

\* Whoever goes to an exchange has a partner, and both know what to give.
SocioSabido(t) ==
    /\ ent[t].mov = "RESOLUCION_DEADLOCK" \/ hilo[t].tramo = "canje" => ent[t].socio # NULL
    /\ ent[t].socio # NULL =>
           ent[t].especie # NULL /\ ent[ent[t].socio].especie # NULL

Rutas ==
    /\ Hilos /\ \A h \in HILOS : LeFalta(h)
    /\ \A t \in ENTRENADORES : SocioSabido(t)

Tipos == Ents /\ Rutas /\ Listas /\ Sems /\ Planes /\ Reparto /\ Correo

\* The CATCH of t is being sent, or t waits for the answer to one.
SinCatch(t) == envio[t].est = "no" /\ \A id \in waiting : catches[id].tid # t
UnCatch(t) ==
    /\ envio[t].est = "aceptado" =>
         /\ envio[t].id \in DOMAIN catches \ waiting
         /\ catches[envio[t].id].tid = t
         /\ catches[envio[t].id].est = "entregada" => envio[t].id \in perdidos
    /\ envio[t].est # "no" => \A id \in waiting : catches[id].tid # t
    /\ hilo[t].pc # "esperaCatch" => SinCatch(t) /\ sem["block_catch"][t] = 0
    /\ sem["block_catch"][t] > 0 => SinCatch(t)
    /\ sem["block_catch"][t] <= 1
    /\ caida = "no" /\ hilo[t].pc = "esperaCatch" /\ sem["block_catch"][t] = 0 => ~SinCatch(t)
Pendientes ==
    /\ \A t \in ENTRENADORES : UnCatch(t)
    /\ \A i, j \in waiting : catches[i].tid = catches[j].tid => i = j
    /\ \A id \in waiting \ perdidos : catches[id].est # "entregada"

\* With sjf_sd_planner: the processor is of the one trainer in Exec, from the moment the
\* planner wakes it up to the one it lets it go, and the planner that holds the mutex sees
\* Ready and Exec as it saw them first.
Turno(t) ==
    /\ Corriendo(t) \/ sem["ready_exec"][t] > 0 <=> exec = <<t>>
    /\ Corriendo(t) => sem["ready_exec"][t] = 0
    /\ sem["ready_exec"][t] <= 1 /\ sem["ready_exec_cd"][t] = 0
    /\ hilo[t].pc = "elige" => mPlan = t /\ exec = <<>> /\ HayReady
    /\ hilo[t].pc \notin {"esperaCd", "ciclo"} /\ hilo[t].vuelta # "esperaCd"
Procesador ==
    /\ algoritmo = "SJF_SD" => /\ \A t \in ENTRENADORES : Turno(t)
                               /\ exec = <<>> \/ \E t \in ENTRENADORES : exec = <<t>>
    /\ SinListaVacia

-----------------------------------------------------------------------------
(* Who is a thread, and NULL is nobody.                                    *)
LEMMA Nombres ==
    /\ ENTRENADORES \subseteq HILOS /\ CANALES \subseteq HILOS
    /\ NULL \notin HILOS /\ NULL \notin ESPECIES /\ NULL \notin ENTRENADORES
    /\ CICLOS \in Nat
BY EntrenadoresAssumption, MensajesAssumption DEF HILOS

(* To go on is to call with the return that was there.                     *)
LEMMA SigueLlama ==
    ASSUME Hilos, NEW h \in HILOS, NEW p, Sigue(h, p)
    PROVE  hilo[h].vuelta \in Vueltas /\ Llama(h, p, hilo[h].vuelta)
BY DEF Hilos, Sigue, Llama

(* A thread calls a procedure: the others stay where they are.             *)
LEMMA LlamaTipo ==
    ASSUME Hilos, NEW h \in HILOS, NEW p \in Lugares, NEW v \in Vueltas, Llama(h, p, v)
    PROVE  /\ Hilos'
           /\ hilo'[h].pc = p /\ hilo'[h].vuelta = v
           /\ hilo'[h].tramo = hilo[h].tramo /\ hilo'[h].falta = hilo[h].falta
           /\ \A g \in HILOS \ {h} : hilo'[g] = hilo[g]
BY DEF Hilos, Llama

(* What the way of a thread depends on in the trainers.                    *)
MismoPlan ==
    \A u \in ENTRENADORES : /\ ent'[u].mov = ent[u].mov /\ ent'[u].socio = ent[u].socio
                            /\ ent'[u].especie = ent[u].especie

\* Where h may be told to go.
Cuerda(h, p, v) ==
    /\ p \in Lugares /\ v \in Vueltas
    /\ p \in {"esperaCd", "ciclo"} => hilo[h].falta > 0
    /\ p \in {"mira", "elige"} /\ v = "esperaCd" => hilo[h].falta > 0
    /\ p \in {"cercania", "reparte", "traba"} => v # "esperaCd"

(* Partners are trainers.                                                  *)
LEMMA Socios ==
    Ents => \A u \in ENTRENADORES : ent[u].socio \in ENTRENADORES \union {NULL}
BY DEF Ents, Entrenador

\* A plan may get a target, or a partner that has one.
PlanSigue ==
    \A u \in ENTRENADORES :
      /\ ent[u].especie # NULL => ent'[u].especie # NULL
      /\ ent'[u].mov = "RESOLUCION_DEADLOCK" =>
            ent[u].mov = "RESOLUCION_DEADLOCK" \/ ent'[u].socio # NULL
      /\ ent'[u].socio # ent[u].socio =>
            ent'[u].socio # NULL /\ ent'[u].especie # NULL /\ ent'[ent'[u].socio].especie # NULL

(* Such plans keep partners known, while nobody starts an exchange.        *)
LEMMA PlanRutas ==
    ASSUME Tipos, PlanSigue,
           \A u \in ENTRENADORES : hilo'[u].tramo = hilo[u].tramo
    PROVE  \A u \in ENTRENADORES : SocioSabido(u)'
<1>1. ASSUME NEW u \in ENTRENADORES
      PROVE  SocioSabido(u)'
  <2>1. CASE ent'[u].socio # ent[u].socio
      BY <2>1 DEF PlanSigue, SocioSabido
  <2>2. CASE ent'[u].socio = ent[u].socio
    <3>1. ent[u].socio \in ENTRENADORES \union {NULL} /\ SocioSabido(u)
        BY Socios DEF Tipos, Rutas
    <3>2. QED
        BY <2>2, <3>1 DEF PlanSigue, SocioSabido
  <2>3. QED
      BY <2>1, <2>2
<1>2. QED
    BY <1>1

(* A call keeps what is known of each thread.                              *)
LEMMA LlamaPlan ==
    ASSUME Tipos, PlanSigue, NEW h \in HILOS, NEW p, NEW v, Llama(h, p, v), Cuerda(h, p, v)
    PROVE  Rutas'
<1>1. /\ Hilos'
      /\ hilo'[h].pc = p /\ hilo'[h].vuelta = v
      /\ hilo'[h].tramo = hilo[h].tramo /\ hilo'[h].falta = hilo[h].falta
      /\ \A g \in HILOS \ {h} : hilo'[g] = hilo[g]
    BY LlamaTipo DEF Tipos, Rutas, Cuerda
<1>2. \A u \in HILOS : LeFalta(u)'
    BY <1>1, Nombres DEF Tipos, Rutas, LeFalta, Cuerda
<1>3. \A u \in ENTRENADORES : SocioSabido(u)'
    BY <1>1, Nombres, PlanRutas
<1>4. QED
    BY <1>1, <1>2, <1>3 DEF Rutas

(* A call keeps it too when no trainer changes its plan.                   *)
LEMMA LlamaRutas ==
    ASSUME Tipos, MismoPlan, NEW h \in HILOS, NEW p, NEW v, Llama(h, p, v), Cuerda(h, p, v)
    PROVE  Rutas'
<1>1. PlanSigue
    BY DEF MismoPlan, PlanSigue
<1>2. QED
    BY <1>1, LlamaPlan

(* So does going on.                                                       *)
LEMMA SigueRutas ==
    ASSUME Tipos, MismoPlan, NEW h \in HILOS, NEW p, Sigue(h, p),
           Cuerda(h, p, hilo[h].vuelta)
    PROVE  Rutas'
BY SigueLlama, LlamaRutas DEF Tipos, Rutas

(* So does a trainer that walks.                                           *)
LEMMA AndaRutas ==
    ASSUME Tipos, MismoPlan, NEW t \in ENTRENADORES, NEW p \in {"anda", "suelta"},
           NEW r \in Tramos, NEW n \in Nat,
           hilo' = [hilo EXCEPT ![t].pc = p, ![t].tramo = r, ![t].falta = n],
           r = "canje" => ent[t].socio # NULL
    PROVE  Rutas'
<1>1. Hilos /\ t \in HILOS /\ p \in Lugares
    BY Nombres DEF Tipos, Rutas, Lugares
<1>2. /\ Hilos'
      /\ hilo'[t].pc = p /\ hilo'[t].tramo = r
      /\ \A g \in HILOS \ {t} : hilo'[g] = hilo[g]
    BY <1>1 DEF Hilos
<1>3. \A u \in HILOS : LeFalta(u)'
    BY <1>2, Nombres DEF Tipos, Rutas, LeFalta
<1>4. ASSUME NEW u \in ENTRENADORES
      PROVE  SocioSabido(u)'
  <2>1. /\ SocioSabido(u) /\ ent[u].socio \in ENTRENADORES \union {NULL}
        /\ hilo'[u].tramo = "canje" => hilo[u].tramo = "canje" \/ ent[u].socio # NULL
      BY <1>2, Nombres, Socios DEF Tipos, Rutas
  <2>2. QED
      BY <2>1 DEF SocioSabido, MismoPlan
<1>5. QED
    BY <1>2, <1>3, <1>4 DEF Rutas

(* A semaphore is posted.                                                  *)
LEMMA ConTipo ==
    ASSUME Sems, NEW k \in Semaforos, NEW t \in ENTRENADORES, sem' = Con(k, t)
    PROVE  /\ Sems'
           /\ sem'[k][t] = sem[k][t] + 1
           /\ \A j \in Semaforos, u \in ENTRENADORES :
                j # k \/ u # t => sem'[j][u] = sem[j][u]
BY DEF Sems, Con

(* A semaphore is waited for.                                              *)
LEMMA EsperaTipo ==
    ASSUME Sems, NEW k \in Semaforos, NEW t \in ENTRENADORES, Espera(k, t)
    PROVE  /\ Sems'
           /\ sem[k][t] > 0 /\ sem'[k][t] = sem[k][t] - 1
           /\ \A j \in Semaforos, u \in ENTRENADORES :
                j # k \/ u # t => sem'[j][u] = sem[j][u]
BY DEF Sems, Espera

(* A list loses the first place of a trainer, or has one put at its end.   *)
LEMMA QuitarTipo ==
    ASSUME NEW s \in Seq(ENTRENADORES), NEW t \in ENTRENADORES
    PROVE  Quitar(s, t) \in Seq(ENTRENADORES)
<1>1. CASE ~EnLista(t, s)
    BY <1>1 DEF Quitar
<1>2. CASE EnLista(t, s)
  <2> DEFINE P(j) == s[j] = t /\ \A k \in 1 .. j - 1 : s[k] # t
             i == CHOOSE j \in DOMAIN s : P(j)
  <2>1. \E j \in DOMAIN s : P(j)
    <3> DEFINE S == {j \in DOMAIN s : s[j] = t}
    <3>1. S \in SUBSET Nat /\ S # {}
        BY <1>2 DEF EnLista
    <3>2. PICK j \in S : \A k \in S : j <= k
        BY <3>1, MinimoNat, Zenon
    <3>3. QED
        BY <3>2
  <2>2. i \in DOMAIN s
    <3> HIDE DEF P
    <3>1. QED
        BY <2>1
  <2>3. Quitar(s, t) = SubSeq(s, 1, i - 1) \o SubSeq(s, i + 1, Len(s))
      BY <1>2 DEF Quitar
  <2> HIDE DEF i
  <2>4. SubSeq(s, 1, i - 1) \in Seq(ENTRENADORES)
      BY <2>2, SubSeqProperties
  <2>5. SubSeq(s, i + 1, Len(s)) \in Seq(ENTRENADORES)
      BY <2>2, SubSeqProperties
  <2>6. QED
      BY <2>3, <2>4, <2>5, ConcatProperties
<1>3. QED
    BY <1>1, <1>2

(* A new tiempo_llegada goes at the end of the order of arrival.           *)
LEMMA ConHoraTipo ==
    ASSUME llegada \in Seq(ENTRENADORES), NEW t \in ENTRENADORES
    PROVE  ConHora(t) \in Seq(ENTRENADORES)
BY QuitarTipo, AppendProperties DEF ConHora

-----------------------------------------------------------------------------
(* Types: what each step of the planners keeps.                            *)
LEMMA MiraTipos ==
    ASSUME Tipos, NEW t \in ENTRENADORES, Mira(t)
    PROVE  Tipos'
<1>1. PICK p \in {"elige", hilo[t].vuelta} : Sigue(t, p) /\ mPlan' \in {t, mPlan}
    BY DEF Mira
<1>2. Cuerda(t, p, hilo[t].vuelta)
    BY <1>1, Nombres
       DEF Tipos, Rutas, Hilos, LeFalta, Cuerda, Mira, En, Vueltas, Lugares
<1>3. MismoPlan
    BY DEF Mira, MismoPlan
<1>4. Rutas'
    BY <1>1, <1>2, <1>3, Nombres, SigueRutas
<1>5. Ents' /\ Listas' /\ Sems' /\ Reparto' /\ Correo'
    BY DEF Tipos, Mira, Ents, Listas, Sems, Reparto, Correo, listas, mundo, correo
<1>6. Planes'
    BY <1>1 DEF Tipos, Mira, Planes
<1>7. QED
    BY <1>4, <1>5, <1>6 DEF Tipos

(* The trainer a planner chooses, and the one it preempts, stay trainers.  *)
LEMMA EligeTipos ==
    ASSUME Tipos, NEW t \in ENTRENADORES, Elige(t)
    PROVE  Tipos'
<1>1. PICK E, e : /\ E = EstimadosAlDia /\ e \in EnReady
                  /\ \/ exec # <<>> /\ (Expropia(e, E) \/ NoExpropia(e, E))
                     \/ Despacha(e, E)
  <2>1. \A E : \A x \in Primeros(algoritmo, llegada, EnReady, E) : x \in EnReady
      BY DEF Primeros, MenorEstimado
  <2>2. QED
      BY <2>1 DEF Elige
<1>2. E \in [ENTRENADORES -> Entrenador]
  <2>1. \A x \in Entrenador : ConEstimado(x) \in Entrenador
    <3>1. ASSUME NEW x \in Entrenador
          PROVE  ALPHA * x.ultima + (1 - ALPHA) * x.estimado \in Nat
      <4>1. x.ultima \in Nat /\ x.estimado \in Nat
          BY DEF Entrenador
      <4>2. CASE ALPHA = 0
          BY <4>1, <4>2
      <4>3. CASE ALPHA = 1
          BY <4>1, <4>3
      <4>4. QED
          BY <4>2, <4>3, PlanificadorAssumption
    <3>2. ASSUME NEW x \in Entrenador, NEW n \in Nat
          PROVE  [x EXCEPT !.estimado = n, !.calcular = FALSE] \in Entrenador
        BY DEF Entrenador
    <3>3. QED
        BY <3>1, <3>2 DEF ConEstimado
  <2>2. QED
      BY <1>1, <2>1 DEF EstimadosAlDia, Tipos, Ents
<1>3. /\ e \in ENTRENADORES /\ ready[e] > 0
      /\ \A u \in ENTRENADORES : /\ E[u].mov = ent[u].mov /\ E[u].socio = ent[u].socio
                                 /\ E[u].especie = ent[u].especie
  <2>1. \A x \in Entrenador : LET y == ConEstimado(x) IN
            y.mov = x.mov /\ y.socio = x.socio /\ y.especie = x.especie
      BY DEF ConEstimado, Entrenador
  <2>2. QED
      BY <1>1, <2>1 DEF EnReady, EstimadosAlDia, Tipos, Ents
<1>4. /\ Ents'
      /\ MismoPlan
  <2> USE DEF MismoPlan
  <2>1. \A x \in Entrenador : LET y == AExec(x) IN
            /\ y \in Entrenador
            /\ y.mov = x.mov /\ y.socio = x.socio /\ y.especie = x.especie
    <3>1. \A x \in Entrenador : LET y == [x EXCEPT !.estado = "EXEC", !.desalojar = FALSE] IN
              /\ y \in Entrenador
              /\ y.mov = x.mov /\ y.socio = x.socio /\ y.especie = x.especie
        BY DEF Entrenador
    <3>2. QED
        BY <3>1 DEF AExec
  <2>2. \A x \in Entrenador : LET y == [x EXCEPT !.estado = "READY", !.desalojar = TRUE] IN
            /\ y \in Entrenador
            /\ y.mov = x.mov /\ y.socio = x.socio /\ y.especie = x.especie
      BY DEF Entrenador
  <2> DEFINE h == Head(exec)
             F == [E EXCEPT ![e] = AExec(@)]
             y == [E[h] EXCEPT !.estado = "READY", !.desalojar = TRUE]
             G == [E EXCEPT ![h] = y]
  <2>3. ent' = E \/ ent' = F \/ (h \in ENTRENADORES /\ ent' = [G EXCEPT ![e] = AExec(@)])
    <3>1. exec # <<>> => h \in ENTRENADORES
        BY HeadTailProperties DEF Tipos, Listas
    <3>2. CASE Despacha(e, E)
        BY <3>2 DEF Despacha
    <3>3. CASE exec # <<>> /\ NoExpropia(e, E)
        BY <3>3 DEF NoExpropia
    <3>4. CASE exec # <<>> /\ Expropia(e, E)
        BY <3>1, <3>4, <1>2 DEF Expropia
    <3>5. QED
        BY <1>1, <3>2, <3>3, <3>4
  <2>4. CASE ent' = E
      BY <1>2, <1>3, <2>4 DEF Ents
  <2>5. CASE ent' = F
      BY <1>2, <1>3, <2>1, <2>5 DEF Ents
  <2>6. CASE h \in ENTRENADORES /\ ent' = [G EXCEPT ![e] = AExec(@)]
    <3> HIDE DEF h, y
    <3>1. /\ y \in Entrenador
          /\ y.mov = E[h].mov /\ y.socio = E[h].socio /\ y.especie = E[h].especie
        BY <1>2, <2>2, <2>6 DEF y
    <3>2. /\ G \in [ENTRENADORES -> Entrenador]
          /\ \A u \in ENTRENADORES : /\ G[u].mov = E[u].mov /\ G[u].socio = E[u].socio
                                     /\ G[u].especie = E[u].especie
        BY <1>2, <2>6, <3>1
    <3> HIDE DEF G
    <3>3. QED
        BY <1>3, <2>1, <2>6, <3>2 DEF Ents
  <2>7. QED
      BY <2>3, <2>4, <2>5, <2>6
<1>5. /\ Listas' /\ Sems'
  <2>1. sem' = sem \/ \E k \in Semaforos : sem' = Con(k, e)
      BY <1>1 DEF Despacha, Expropia, NoExpropia, Despierta, Semaforos
  <2>2. Sems'
      BY <1>3, <2>1, ConTipo DEF Tipos, Sems
  <2>3. \A s \in Seq(ENTRENADORES) : Append(s, e) \in Seq(ENTRENADORES)
      BY <1>3, AppendProperties
  <2>4. /\ nuevos' = nuevos /\ terminados' = terminados /\ block' = block
      BY DEF Elige, Vuelve
  <2>5. Listas
      BY DEF Tipos
  <2>6. CASE Despacha(e, E)
      BY <1>3, <2>2, <2>3, <2>4, <2>5, <2>6 DEF Despacha, Listas
  <2>7. CASE exec # <<>> /\ NoExpropia(e, E)
      BY <2>2, <2>4, <2>5, <2>7 DEF NoExpropia, Listas
  <2>8. CASE exec # <<>> /\ Expropia(e, E)
    <3>1. Head(exec) \in ENTRENADORES /\ Tail(exec) \in Seq(ENTRENADORES)
        BY <2>5, <2>8, HeadTailProperties DEF Listas
    <3>2. ConHora(Head(exec)) \in Seq(ENTRENADORES)
        BY <2>5, <3>1, ConHoraTipo DEF Listas
    <3>3. exec' \in Seq(ENTRENADORES) /\ llegada' \in Seq(ENTRENADORES)
        BY <2>3, <2>5, <2>8, <3>1, <3>2 DEF Expropia, Listas
    <3>4. ready' \in [ENTRENADORES -> Nat]
      <4> DEFINE h == Head(exec)
                 r == [ready EXCEPT ![e] = @ - 1]
      <4>1. r \in [ENTRENADORES -> Nat]
          BY <1>3, <2>5 DEF Listas
      <4>2. ready' = r \/ ready' = [r EXCEPT ![h] = @ + 1]
          BY <2>8 DEF Expropia
      <4> HIDE DEF r, h
      <4>3. h \in ENTRENADORES
          BY <3>1 DEF h
      <4>4. QED
          BY <4>1, <4>2, <4>3
    <3>5. QED
        BY <2>2, <2>4, <2>5, <3>3, <3>4 DEF Listas
  <2>9. QED
      BY <1>1, <2>2, <2>6, <2>7, <2>8
<1>6. Rutas'
  <2>1. Sigue(t, hilo[t].vuelta)
      BY DEF Elige, Vuelve
  <2>2. Cuerda(t, hilo[t].vuelta, hilo[t].vuelta)
      BY Nombres DEF Tipos, Rutas, Hilos, LeFalta, Cuerda, Elige, En, Vueltas, Lugares
  <2>3. QED
      BY <1>4, <2>1, <2>2, Nombres, SigueRutas
<1>7. Planes' /\ Reparto' /\ Correo'
    BY Nombres DEF Tipos, Elige, Vuelve, Planes, Reparto, Correo, mundo, correo
<1>8. QED
    BY <1>4, <1>5, <1>6, <1>7 DEF Tipos

(* A step that ends the process changes nothing else.                      *)
LEMMA CaeTipos ==
    ASSUME Tipos, NEW m \in {"hora", "ready_vacia", "exec_vacia", "canje"}, Cae(m)
    PROVE  Tipos'
<1>1. Ents' /\ Listas' /\ Sems' /\ Reparto' /\ Correo' /\ Planes'
    BY DEF Tipos, Cae, Muere, Ents, Listas, Sems, Reparto, Correo, Planes,
           listas, mundo, correo
<1>2. Rutas'
    BY DEF Tipos, Cae, Muere, Rutas, Hilos, LeFalta, SocioSabido
<1>3. QED
    BY <1>1, <1>2 DEF Tipos

(* The steps of a trainer that change nothing but where it is, the         *)
(* semaphore it waited for and the time it came to Ready.                  *)
LEMMA PasaTipos ==
    ASSUME Tipos, NEW t \in ENTRENADORES,
           \/ SaleDeNew(t) \/ RecibeRespuesta(t) \/ SaleDeBlock(t)
           \/ CedeElPaso(t) \/ Sale(t) \/ MarcaLlegada(t)
    PROVE  Tipos'
<1>1. /\ \/ \E p : Sigue(t, p) /\ Cuerda(t, p, hilo[t].vuelta)
         \/ \E p, v : Llama(t, p, v) /\ Cuerda(t, p, v)
  <2>1. hilo[t].vuelta \in Vueltas
      BY Nombres DEF Tipos, Rutas, Hilos
  <2>2. QED
      BY <2>1 DEF SaleDeNew, RecibeRespuesta, SaleDeBlock, CedeElPaso, Sale, MarcaLlegada,
           En, Cuerda, Lugares, Vueltas
<1>2. UNCHANGED ent /\ MismoPlan
    BY DEF SaleDeNew, RecibeRespuesta, SaleDeBlock, CedeElPaso, Sale, MarcaLlegada, MismoPlan
<1>3. Rutas'
    BY <1>1, <1>2, Nombres, SigueRutas, LlamaRutas
<1>4. Sems'
  <2>1. sem' = sem \/ \E k \in Semaforos : Espera(k, t)
      BY DEF SaleDeNew, RecibeRespuesta, SaleDeBlock, CedeElPaso, Sale, MarcaLlegada,
             Semaforos
  <2>2. QED
      BY <2>1, EsperaTipo DEF Tipos, Sems
<1>5. Listas'
    BY ConHoraTipo DEF Tipos, Listas, listas,
       SaleDeNew, RecibeRespuesta, SaleDeBlock, CedeElPaso, Sale, MarcaLlegada
<1>6. Ents' /\ Planes' /\ Reparto' /\ Correo'
    BY <1>2 DEF Tipos, Ents, Planes, Reparto, Correo, mundo, correo,
       SaleDeNew, RecibeRespuesta, SaleDeBlock, CedeElPaso, Sale, MarcaLlegada
<1>7. QED
    BY <1>3, <1>4, <1>5, <1>6 DEF Tipos

(* What a trainer is made of.                                              *)
LEMMA Campos ==
    ASSUME Ents, NEW t \in ENTRENADORES
    PROVE  /\ ent[t] \in Entrenador
           /\ ent[t].acum \in Nat /\ ent[t].pos \in PUNTOS /\ ent[t].lugar \in PUNTOS
           /\ ent[t].stock \in Dicc /\ ent[t].estimado \in Nat
           /\ ent[t].especie \in ESPECIES \union {NULL}
           /\ ent[t].socio \in ENTRENADORES \union {NULL}
           /\ ent[t].mov \in {"CATCH", "RESOLUCION_DEADLOCK"}
BY DEF Ents, Entrenador

(* A trainer changes, and its plan does not.                               *)
LEMMA OtroEnt ==
    ASSUME Ents, NEW t \in ENTRENADORES, NEW x \in Entrenador, ent' = [ent EXCEPT ![t] = x],
           x.mov = ent[t].mov, x.socio = ent[t].socio, x.especie = ent[t].especie
    PROVE  Ents' /\ MismoPlan
BY DEF Ents, MismoPlan

(* The end of a burst.                                                     *)
LEMMA RafagaTipo ==
    ASSUME NEW x \in Entrenador, NEW n \in Nat
    PROVE  /\ FinDeRafaga(x, n) \in Entrenador
           /\ FinDeRafaga(x, n).mov = x.mov /\ FinDeRafaga(x, n).socio = x.socio
           /\ FinDeRafaga(x, n).especie = x.especie
<1>1. x.acum + n \in Nat
    BY DEF Entrenador
<1>2. \A m \in Nat : LET y == [x EXCEPT !.ultima = m, !.acum = 0, !.calcular = TRUE] IN
        y \in Entrenador /\ y.mov = x.mov /\ y.socio = x.socio /\ y.especie = x.especie
    BY DEF Entrenador
<1>3. QED
    BY <1>1, <1>2 DEF FinDeRafaga

(* Where a trainer goes is a place, and it is some cycles away.            *)
LEMMA DestinoTipo ==
    ASSUME Tipos, NEW t \in ENTRENADORES
    PROVE  Destino(t) \in PUNTOS /\ Distancia(ent[t].pos, Destino(t)) \in Nat
<1>1. Destino(t) \in PUNTOS
    BY Campos DEF Tipos, Rutas, SocioSabido, Destino
<1>2. \A p, q \in PUNTOS : Distancia(p, q) \in Nat
  <2>1. \A n \in Int : Abs(n) \in Nat
      BY DEF Abs
  <2>2. \A p, q \in PUNTOS : p[1] - q[1] \in Int /\ p[2] - q[2] \in Int
      BY DEF PUNTOS
  <2>3. QED
      BY <2>1, <2>2 DEF Distancia
<1>3. QED
    BY <1>1, <1>2, Campos DEF Tipos

(* A trainer that walks, or makes its CATCH.                               *)
LEMMA AndaTipos ==
    ASSUME Tipos, NEW t \in ENTRENADORES,
           Empieza(t) \/ Retoma(t) \/ Ciclo(t) \/ Arriba(t) \/ Pide(t)
    PROVE  Tipos'
<1>1. Ents' /\ MismoPlan
  <2>1. Ents /\ ent[t] \in Entrenador
      BY Campos DEF Tipos
  <2>2. PICK n \in Nat, q \in PUNTOS, v \in BOOLEAN : ent' \in
            {ent, [ent EXCEPT ![t] = [ent[t] EXCEPT !.vengo = v]],
             [ent EXCEPT ![t] = [ent[t] EXCEPT !.acum = n]],
             [ent EXCEPT ![t] = [ent[t] EXCEPT !.pos = q]]}
    <3>1. ent[t].acum + 1 \in Nat /\ 0 \in Nat /\ ent[t].pos \in PUNTOS
        BY Campos DEF Tipos
    <3>2. CASE Empieza(t)
        BY <3>1, <3>2 DEF Empieza
    <3>3. CASE Retoma(t)
        BY <3>1, <3>3 DEF Retoma
    <3>4. CASE Ciclo(t)
        BY <3>1, <3>4 DEF Ciclo
    <3>5. CASE Arriba(t)
        BY <3>1, <3>5, DestinoTipo DEF Arriba
    <3>6. CASE Pide(t)
        BY <3>1, <3>6 DEF Pide
    <3>7. QED
        BY <3>2, <3>3, <3>4, <3>5, <3>6
  <2>3. \A x \in {[ent[t] EXCEPT !.vengo = v], [ent[t] EXCEPT !.acum = n],
                 [ent[t] EXCEPT !.pos = q]} :
            /\ x \in Entrenador
            /\ x.mov = ent[t].mov /\ x.socio = ent[t].socio /\ x.especie = ent[t].especie
      BY <2>1 DEF Entrenador
  <2>4. CASE ent' = ent
      BY <2>1, <2>4 DEF Ents, MismoPlan
  <2>5. CASE ent' # ent
      BY <2>1, <2>2, <2>3, <2>5, OtroEnt
  <2>6. QED
      BY <2>4, <2>5
<1>2. Rutas'
  <2>1. Hilos /\ t \in HILOS /\ hilo[t].tramo \in Tramos /\ hilo[t].falta \in Nat
      BY Nombres DEF Tipos, Rutas, Hilos
  <2>2. CASE Empieza(t)
    <3>1. hilo' = [hilo EXCEPT ![t].pc = "anda", ![t].tramo = "viaje",
                               ![t].falta = Distancia(ent[t].pos, Destino(t))]
        BY <2>2 DEF Empieza
    <3>2. QED
        BY <3>1, <1>1, DestinoTipo, AndaRutas DEF Tramos
  <2>3. CASE Retoma(t)
    <3>1. Sigue(t, "ciclo") /\ Cuerda(t, "ciclo", hilo[t].vuelta)
        BY <2>1, <2>3 DEF Retoma, En, Cuerda, Tipos, Rutas, Hilos, LeFalta, Lugares
    <3>2. QED
        BY <3>1, <2>1, <1>1, SigueRutas
  <2>4. CASE Ciclo(t)
    <3>1. hilo[t].falta > 0
        BY <2>4, Nombres DEF Ciclo, PuedeCiclo, En, Tipos, Rutas, LeFalta
    <3>2. hilo' = [hilo EXCEPT ![t].pc = "anda", ![t].tramo = hilo[t].tramo,
                               ![t].falta = hilo[t].falta - 1]
        BY <2>1, <2>4 DEF Ciclo, Hilos
    <3>3. hilo[t].tramo = "canje" => ent[t].socio # NULL
        BY DEF Tipos, Rutas, SocioSabido
    <3>4. hilo[t].falta - 1 \in Nat
        BY <2>1, <3>1
    <3>5. QED
        BY <3>2, <3>3, <3>4, <2>1, <1>1, AndaRutas
  <2>5. CASE Arriba(t)
    <3>1. PICK r \in Tramos, n \in Nat :
            /\ hilo' = [hilo EXCEPT ![t].pc = "anda", ![t].tramo = r, ![t].falta = n]
            /\ r = "canje" => ent[t].mov # "CATCH"
      <4>1. CASE ent[t].mov = "CATCH"
        <5>1. hilo' = [hilo EXCEPT ![t].pc = "anda", ![t].tramo = "captura", ![t].falta = 1]
            BY <2>1, <2>5, <4>1 DEF Arriba, En, Hilos
        <5>2. QED
            BY <4>1, <5>1 DEF Tramos
      <4>2. CASE ent[t].mov # "CATCH"
        <5>1. hilo' = [hilo EXCEPT ![t].pc = "anda", ![t].tramo = "canje",
                                   ![t].falta = CICLOS]
            BY <2>1, <2>5, <4>2 DEF Arriba, En, Hilos
        <5>2. QED
            BY <4>2, <5>1, Nombres DEF Tramos
      <4>3. QED
          BY <4>1, <4>2
    <3>2. r = "canje" => ent[t].socio # NULL
        BY <3>1, Campos DEF Tipos, Rutas, SocioSabido
    <3>3. QED
        BY <3>1, <3>2, <1>1, AndaRutas
  <2>6. CASE Pide(t)
    <3>1. hilo' = [hilo EXCEPT ![t].pc = "suelta", ![t].tramo = hilo[t].tramo,
                               ![t].falta = hilo[t].falta]
        BY <2>1, <2>6 DEF Pide, Sigue, Hilos
    <3>2. hilo[t].tramo # "canje"
        BY <2>6 DEF Pide
    <3>3. QED
        BY <3>1, <3>2, <2>1, <1>1, AndaRutas
  <2>7. QED
      BY <2>2, <2>3, <2>4, <2>5, <2>6
<1>3. Sems'
  <2>1. sem' = sem \/ \E k \in Semaforos : Espera(k, t)
      BY DEF Empieza, Retoma, Ciclo, Arriba, Pide, Semaforos
  <2>2. QED
      BY <2>1, EsperaTipo DEF Tipos, Sems
<1>4. Listas' /\ Planes' /\ Reparto' /\ Correo'
    BY DEF Tipos, Listas, Planes, Reparto, Correo, listas, mundo, correo,
       Empieza, Retoma, Ciclo, Arriba, Pide
<1>5. QED
    BY <1>1, <1>2, <1>3, <1>4 DEF Tipos

(* A trainer at the end of its quantum.                                    *)
LEMMA QuantumTipos ==
    ASSUME Tipos, NEW t \in ENTRENADORES, FinDeQuantum(t)
    PROVE  Tipos'
<1>1. CASE exec = <<>>
    BY <1>1, CaeTipos DEF FinDeQuantum
<1>2. CASE exec # <<>>
  <2>1. Ents' /\ MismoPlan
    <3>1. Ents /\ ent[t] \in Entrenador
        BY Campos DEF Tipos
    <3>2. ent' = [ent EXCEPT ![t] = [ent[t] EXCEPT !.estado = "READY"]]
        BY <1>2 DEF FinDeQuantum
    <3>3. LET x == [ent[t] EXCEPT !.estado = "READY"] IN
            /\ x \in Entrenador
            /\ x.mov = ent[t].mov /\ x.socio = ent[t].socio /\ x.especie = ent[t].especie
        BY <3>1 DEF Entrenador
    <3>4. QED
        BY <3>1, <3>2, <3>3, OtroEnt
  <2>2. Llama(t, "mira", "esperaCd") /\ Cuerda(t, "mira", "esperaCd")
      BY <1>2 DEF FinDeQuantum, Cuerda, Lugares, Vueltas
  <2>3. Rutas'
      BY <2>1, <2>2, Nombres, LlamaRutas
  <2>4. Listas'
    <3>1. Listas
        BY DEF Tipos
    <3>2. /\ exec' = Tail(exec) /\ llegada' = ConHora(t) /\ ready' = [ready EXCEPT ![t] = @ + 1]
          /\ nuevos' = nuevos /\ terminados' = terminados /\ block' = block
        BY <1>2 DEF FinDeQuantum
    <3>3. exec' \in Seq(ENTRENADORES) /\ llegada' \in Seq(ENTRENADORES)
        BY <1>2, <3>1, <3>2, HeadTailProperties, ConHoraTipo DEF Listas
    <3>4. QED
        BY <3>1, <3>2, <3>3 DEF Listas
  <2>5. Sems' /\ Planes' /\ Reparto' /\ Correo'
      BY <1>2 DEF FinDeQuantum, Tipos, Sems, Planes, Reparto, Correo, mundo, correo
  <2>6. QED
      BY <2>1, <2>3, <2>4, <2>5 DEF Tipos
<1>3. QED
    BY <1>1, <1>2

(* A trainer that leaves Exec for Block.                                   *)
LEMMA SueltaTipos ==
    ASSUME Tipos, NEW t \in ENTRENADORES, Suelta(t)
    PROVE  Tipos'
<1>1. CASE exec = <<>>
    BY <1>1, CaeTipos DEF Suelta
<1>2. CASE exec # <<>>
  <2>1. Ents' /\ MismoPlan
    <3> DEFINE x == FinDeRafaga(ent[t], 1)
               y == [x EXCEPT !.estado = "BLOCK", !.razon = "ESPERANDO_CATCH"]
    <3>1. Ents /\ ent[t] \in Entrenador
        BY Campos DEF Tipos
    <3>2. ent' = [ent EXCEPT ![t] = y]
        BY <1>2 DEF Suelta
    <3>3. /\ x \in Entrenador
          /\ x.mov = ent[t].mov /\ x.socio = ent[t].socio /\ x.especie = ent[t].especie
        BY <3>1, RafagaTipo
    <3> HIDE DEF x
    <3>4. /\ y \in Entrenador
          /\ y.mov = ent[t].mov /\ y.socio = ent[t].socio /\ y.especie = ent[t].especie
        BY <3>3 DEF Entrenador
    <3>5. QED
        BY <3>1, <3>2, <3>4, OtroEnt
  <2>2. \E p : Llama(t, p, "envia") /\ Cuerda(t, p, "envia")
      BY <1>2 DEF Suelta, Cuerda, Lugares, Vueltas
  <2>3. Rutas'
      BY <2>1, <2>2, Nombres, LlamaRutas
  <2>4. Listas'
    <3>1. Listas
        BY DEF Tipos
    <3>2. /\ exec' = Tail(exec) /\ block' = Append(block, t)
          /\ UNCHANGED <<nuevos, ready, terminados, llegada>>
        BY <1>2 DEF Suelta
    <3>3. exec' \in Seq(ENTRENADORES) /\ block' \in Seq(ENTRENADORES)
        BY <1>2, <3>1, <3>2, HeadTailProperties, AppendProperties DEF Listas
    <3>4. QED
        BY <3>1, <3>2, <3>3 DEF Listas
  <2>5. Sems' /\ Planes' /\ Reparto' /\ Correo'
      BY <1>2 DEF Suelta, Tipos, Sems, Planes, Reparto, Correo, mundo, correo
  <2>6. QED
      BY <2>1, <2>3, <2>4, <2>5 DEF Tipos
<1>3. QED
    BY <1>1, <1>2

(* One change of one trainer.                                              *)
LEMMA CambiaEnt ==
    ASSUME NEW F \in [ENTRENADORES -> Entrenador], NEW t \in ENTRENADORES, NEW x \in Entrenador,
           x.mov = F[t].mov, x.socio = F[t].socio, x.especie = F[t].especie
    PROVE  /\ [F EXCEPT ![t] = x] \in [ENTRENADORES -> Entrenador]
           /\ \A u \in ENTRENADORES : LET y == [F EXCEPT ![t] = x][u] IN
                y.mov = F[u].mov /\ y.socio = F[u].socio /\ y.especie = F[u].especie
OBVIOUS

(* The exchange.                                                           *)
LEMMA CanjeTipos ==
    ASSUME Tipos, NEW t \in ENTRENADORES, Canje(t)
    PROVE  Tipos'
<1> DEFINE s == ent[t].socio
           mia == ent[t].especie
           suya == ent[s].especie
           st == Mas(ent[t].stock, mia)
           ss == Mas(ent[s].stock, suya)
<1>1. CASE st[suya] = 0 \/ ss[mia] = 0 \/ exec = <<>>
    BY <1>1, CaeTipos DEF Canje
<1>2. CASE ~(st[suya] = 0 \/ ss[mia] = 0 \/ exec = <<>>)
  <2>1. s \in ENTRENADORES /\ mia \in ESPECIES /\ suya \in ESPECIES
    <3>1. s # NULL /\ mia # NULL /\ suya # NULL
        BY DEF Canje, Tipos, Rutas, SocioSabido
    <3>2. QED
        BY <3>1, Campos DEF Tipos
  <2>2. Menos(st, suya) \in Dicc /\ Menos(ss, mia) \in Dicc
    <3>1. \A d \in Dicc, e \in ESPECIES : Mas(d, e) \in Dicc
        BY DEF Mas, Dicc
    <3>2. \A d \in Dicc, e \in ESPECIES : d[e] # 0 => Menos(d, e) \in Dicc
        BY DEF Menos, Dicc
    <3>3. ent[t].stock \in Dicc /\ ent[s].stock \in Dicc
        BY <2>1, Campos DEF Tipos
    <3>4. st \in Dicc /\ ss \in Dicc
        BY <2>1, <3>1, <3>3
    <3> HIDE DEF st, ss
    <3>5. QED
        BY <1>2, <2>1, <3>2, <3>4
  <2>3. Ents' /\ MismoPlan
    <3> DEFINE x == FinDeRafaga(ent[t], 0)
               y == [x EXCEPT !.vengo = FALSE, !.razon = "SIN_ESPACIO",
                              !.stock = Menos(st, suya)]
               F == [ent EXCEPT ![t] = y]
               z == [F[s] EXCEPT !.razon = "SIN_ESPACIO"]
               G == [F EXCEPT ![s] = z]
               w == [G[s] EXCEPT !.stock = Menos(ss, mia)]
    <3>1. ent' = [G EXCEPT ![s] = w]
        BY <1>2 DEF Canje
    <3>2. Ents /\ ent[t] \in Entrenador
        BY Campos DEF Tipos
    <3>3. /\ x \in Entrenador
          /\ x.mov = ent[t].mov /\ x.socio = ent[t].socio /\ x.especie = ent[t].especie
        BY <3>2, RafagaTipo
    <3> HIDE DEF x
    <3>4. /\ y \in Entrenador
          /\ y.mov = ent[t].mov /\ y.socio = ent[t].socio /\ y.especie = ent[t].especie
        BY <2>2, <3>3 DEF Entrenador
    <3> HIDE DEF y
    <3>5. /\ F \in [ENTRENADORES -> Entrenador]
          /\ \A u \in ENTRENADORES : /\ F[u].mov = ent[u].mov /\ F[u].socio = ent[u].socio
                                     /\ F[u].especie = ent[u].especie
        BY <3>2, <3>4, CambiaEnt DEF Ents
    <3> HIDE DEF F
    <3>6. /\ z \in Entrenador
          /\ z.mov = F[s].mov /\ z.socio = F[s].socio /\ z.especie = F[s].especie
        BY <2>1, <3>5 DEF Entrenador
    <3> HIDE DEF z
    <3>7. /\ G \in [ENTRENADORES -> Entrenador]
          /\ \A u \in ENTRENADORES : /\ G[u].mov = F[u].mov /\ G[u].socio = F[u].socio
                                     /\ G[u].especie = F[u].especie
        BY <2>1, <3>5, <3>6, CambiaEnt
    <3> HIDE DEF G
    <3>8. /\ w \in Entrenador
          /\ w.mov = G[s].mov /\ w.socio = G[s].socio /\ w.especie = G[s].especie
        BY <2>1, <2>2, <3>7 DEF Entrenador
    <3> HIDE DEF w
    <3>9. /\ ent' \in [ENTRENADORES -> Entrenador]
          /\ \A u \in ENTRENADORES : /\ ent'[u].mov = G[u].mov /\ ent'[u].socio = G[u].socio
                                     /\ ent'[u].especie = G[u].especie
        BY <2>1, <3>1, <3>7, <3>8, CambiaEnt
    <3>10. QED
        BY <3>5, <3>7, <3>9 DEF Ents, MismoPlan
  <2>4. Rutas'
    <3>1. Sigue(t, "evalua") /\ Cuerda(t, "evalua", hilo[t].vuelta)
        BY <1>2, Nombres DEF Canje, Cuerda, Lugares, Tipos, Rutas, Hilos
    <3>2. QED
        BY <2>3, <3>1, Nombres, SigueRutas
  <2>5. Listas'
    <3>1. Listas
        BY DEF Tipos
    <3>2. /\ exec' = Tail(exec) /\ block' = Append(block, t)
          /\ UNCHANGED <<nuevos, ready, terminados, llegada>>
        BY <1>2 DEF Canje
    <3>3. exec' \in Seq(ENTRENADORES) /\ block' \in Seq(ENTRENADORES)
        BY <1>2, <3>1, <3>2, HeadTailProperties, AppendProperties DEF Listas
    <3>4. QED
        BY <3>1, <3>2, <3>3 DEF Listas
  <2>6. Sems' /\ Planes' /\ Reparto' /\ Correo'
      BY <1>2 DEF Canje, Tipos, Sems, Planes, Reparto, Correo, mundo, correo
  <2>7. QED
      BY <2>3, <2>4, <2>5, <2>6 DEF Tipos
<1>3. QED
    BY <1>1, <1>2

(* A trainer that sends its CATCH.                                         *)
LEMMA EnviaTipos ==
    ASSUME Tipos, NEW t \in ENTRENADORES, Envia(t)
    PROVE  Tipos'
<1>1. MismoPlan
    BY DEF Envia, MismoPlan
<1>2. Sigue(t, "esperaCatch") /\ Cuerda(t, "esperaCatch", hilo[t].vuelta)
    BY Nombres DEF Envia, Cuerda, Lugares, Tipos, Rutas, Hilos
<1>3. Rutas'
    BY <1>1, <1>2, Nombres, SigueRutas
<1>4. Correo'
    BY DEF Envia, Tipos, Correo
<1>5. Ents' /\ Listas' /\ Sems' /\ Planes' /\ Reparto'
    BY DEF Envia, Tipos, Ents, Listas, Sems, Planes, Reparto, listas, mundo
<1>6. QED
    BY <1>3, <1>4, <1>5 DEF Tipos

(* A trainer that finishes, with its partner or alone.                     *)
LEMMA CumpleTipos ==
    ASSUME Tipos, NEW t \in ENTRENADORES, Cumple(t)
    PROVE  Tipos'
<1> DEFINE s == ent[t].socio
           ambos == /\ ent[t].mov = "RESOLUCION_DEADLOCK"
                    /\ ObjetivosCumplidos(s, ent[s])
           fin == IF ambos THEN {t, s} ELSE {t}
<1>1. ambos => s \in ENTRENADORES
  <2>1. ambos => s # NULL
      BY DEF Tipos, Rutas, SocioSabido
  <2>2. QED
      BY <2>1, Campos DEF Tipos
<1> HIDE DEF s
<1>2. /\ block' = IF ambos THEN Quitar(Quitar(block, s), t) ELSE Quitar(block, t)
      /\ terminados' = terminados \union fin
      /\ ent' = [u \in ENTRENADORES |->
                  IF u \in fin THEN [ent[u] EXCEPT !.estado = "FINISH"] ELSE ent[u]]
      /\ sem' = IF ambos THEN Con("block_ready", s) ELSE sem
      /\ Sigue(t, "sale")
      /\ UNCHANGED <<algoritmo, caida, nuevos, ready, exec, llegada, mPlan, cerc, mundo, correo>>
    BY DEF Cumple, s
<1>3. fin \subseteq ENTRENADORES
    BY <1>1
<1> HIDE DEF fin, ambos
<1>4. Ents' /\ MismoPlan
  <2>1. \A x \in Entrenador : LET y == [x EXCEPT !.estado = "FINISH"] IN
          y \in Entrenador /\ y.mov = x.mov /\ y.socio = x.socio /\ y.especie = x.especie
      BY DEF Entrenador
  <2>2. QED
      BY <1>2, <2>1 DEF Tipos, Ents, MismoPlan
<1>5. Rutas'
  <2>1. Cuerda(t, "sale", hilo[t].vuelta)
      BY Nombres DEF Cuerda, Lugares, Tipos, Rutas, Hilos
  <2>2. QED
      BY <1>2, <1>4, <2>1, Nombres, SigueRutas
<1>6. Listas'
  <2>1. block' \in Seq(ENTRENADORES)
      BY <1>1, <1>2, QuitarTipo DEF Tipos, Listas
  <2>2. QED
      BY <1>2, <1>3, <2>1 DEF Tipos, Listas
<1>7. Sems'
  <2>1. CASE ambos
      BY <1>1, <1>2, <2>1, ConTipo DEF Tipos, Semaforos
  <2>2. CASE ~ambos
      BY <1>2, <2>2 DEF Tipos, Sems
  <2>3. QED
      BY <2>1, <2>2
<1>8. Planes' /\ Reparto' /\ Correo'
    BY <1>2 DEF Tipos, Planes, Reparto, Correo, mundo, correo
<1>9. QED
    BY <1>4, <1>5, <1>6, <1>7, <1>8 DEF Tipos

(* A trainer that has to wait.                                             *)
LEMMA NoCumpleTipos ==
    ASSUME Tipos, NEW t \in ENTRENADORES, NoCumple(t)
    PROVE  Tipos'
<1>1. Ents' /\ MismoPlan
  <2> DEFINE y == [ent[t] EXCEPT !.razon = "ESPERANDO_POKEMON"]
             z == [ent[t] EXCEPT !.razon = "SIN_ESPACIO"]
             w == [z EXCEPT !.estado = "BLOCK"]
  <2>1. Ents /\ ent[t] \in Entrenador
      BY Campos DEF Tipos
  <2>2. ent' = [ent EXCEPT ![t] = y] \/ ent' = [ent EXCEPT ![t] = w]
      BY <2>1 DEF NoCumple, Ents
  <2>3. /\ y \in Entrenador
        /\ y.mov = ent[t].mov /\ y.socio = ent[t].socio /\ y.especie = ent[t].especie
      BY <2>1 DEF Entrenador
  <2>4. /\ w \in Entrenador
        /\ w.mov = ent[t].mov /\ w.socio = ent[t].socio /\ w.especie = ent[t].especie
      BY <2>1 DEF Entrenador
  <2>5. QED
      BY <2>1, <2>2, <2>3, <2>4, OtroEnt
<1>2. \E p \in {"cercania", "traba"} : Llama(t, p, "esperaBlock") /\ Cuerda(t, p, "esperaBlock")
    BY DEF NoCumple, Cuerda, Lugares, Vueltas
<1>3. Rutas'
    BY <1>1, <1>2, Nombres, LlamaRutas
<1>4. Listas' /\ Sems' /\ Planes' /\ Reparto' /\ Correo'
    BY DEF NoCumple, Tipos, Listas, Sems, Planes, Reparto, Correo, listas, mundo, correo
<1>5. QED
    BY <1>1, <1>3, <1>4 DEF Tipos

(* Two trainers chosen for an exchange.                                    *)
LEMMA ApareaTipos ==
    ASSUME Tipos, NEW t \in ENTRENADORES, NEW u \in ENTRENADORES, Aparea(t, u)
    PROVE  /\ Ents' /\ PlanSigue /\ Sems'
           /\ block' \in Seq(ENTRENADORES) /\ ready' \in [ENTRENADORES -> Nat]
<1>1. PICK e \in ESPECIES, f \in ESPECIES :
          ent' = [ent EXCEPT
              ![t].socio = u, ![t].especie = e, ![t].mov = "RESOLUCION_DEADLOCK",
              ![t].razon = "DEADLOCK", ![t].estado = "READY",
              ![u].especie = f, ![u].razon = "DEADLOCK"]
    BY DEF Aparea, Necesita, Sobran
<1> DEFINE x == [ent[t] EXCEPT !.socio = u, !.especie = e, !.mov = "RESOLUCION_DEADLOCK",
                               !.razon = "DEADLOCK", !.estado = "READY"]
           F == [ent EXCEPT ![t] = x]
           y == [F[u] EXCEPT !.especie = f, !.razon = "DEADLOCK"]
           G == [F EXCEPT ![u] = y]
<1>2. ent' = G
    BY <1>1 DEF Tipos, Ents
<1>3. ent[t] \in Entrenador /\ Ents /\ NULL \notin ESPECIES /\ u # NULL
    BY Campos, Nombres DEF Tipos
<1>4. x \in Entrenador /\ x.socio = u /\ x.especie = e
    BY <1>3 DEF Entrenador
<1> HIDE DEF x
<1>5. F \in [ENTRENADORES -> Entrenador] /\ F[t] = x
      /\ \A v \in ENTRENADORES \ {t} : F[v] = ent[v]
    BY <1>3, <1>4 DEF Ents
<1> HIDE DEF F
<1>6. y \in Entrenador /\ y.socio = F[u].socio /\ y.especie = f /\ y.mov = F[u].mov
  <2>1. F[u] \in Entrenador
      BY <1>5
  <2>2. QED
      BY <2>1 DEF Entrenador
<1> HIDE DEF y
<1>7. G \in [ENTRENADORES -> Entrenador] /\ G[u] = y
      /\ \A v \in ENTRENADORES \ {u} : G[v] = F[v]
    BY <1>5, <1>6
<1> HIDE DEF G
<1>8. Ents'
    BY <1>2, <1>7 DEF Ents
<1>9. PlanSigue
  <2>1. \A v \in ENTRENADORES \ {t} : /\ ent'[v].mov = ent[v].mov /\ ent'[v].socio = ent[v].socio
                                      /\ ent'[v].especie \in {ent[v].especie, f}
      BY <1>2, <1>5, <1>6, <1>7
  <2>2. ent'[t].socio = u /\ ent'[t].especie \in {e, f} /\ ent'[u].especie = f
      BY <1>2, <1>4, <1>5, <1>6, <1>7
  <2>3. QED
      BY <1>3, <2>1, <2>2 DEF PlanSigue
<1>10. Sems'
    BY ConTipo DEF Aparea, Tipos, Semaforos
<1>11. block' \in Seq(ENTRENADORES)
    BY QuitarTipo DEF Aparea, Tipos, Listas
<1>12. ready' \in [ENTRENADORES -> Nat]
    BY DEF Aparea, Tipos, Listas
<1>13. QED
    BY <1>8, <1>9, <1>10, <1>11, <1>12

(* There is a first pair.                                                  *)
LEMMA PrimerParEs ==
    ASSUME Tipos, Pares # {}
    PROVE  PrimerPar \in Pares
<1>1. PICK p \in Pares : \A q \in Pares : p[1] < q[1] \/ (p[1] = q[1] /\ p[2] <= q[2])
  <2> DEFINE S == {i \in DOMAIN block : \E q \in Pares : q[1] = i}
  <2>1. \A q \in Pares : q \in (DOMAIN block) \X (DOMAIN block)
      BY DEF Pares, SinMargen
  <2>2. DOMAIN block \in SUBSET Nat
      BY DEF Tipos, Listas
  <2>3. PICK i \in S : \A k \in S : i <= k
      BY <2>1, <2>2, MinimoNat
  <2> DEFINE T == {j \in DOMAIN block : <<i, j>> \in Pares}
  <2>4. \A q \in Pares : q = <<q[1], q[2]>> /\ q[1] \in S /\ (q[1] = i => q[2] \in T)
      BY <2>1
  <2>5. T # {}
      BY <2>3, <2>4
  <2>6. PICK j \in T : \A k \in T : j <= k
      BY <2>2, <2>5, MinimoNat
  <2>7. \A q \in Pares : i < q[1] \/ (i = q[1] /\ j <= q[2])
    <3> TAKE q \in Pares
    <3>1. i \in Nat /\ j \in Nat /\ q[1] \in Nat /\ i <= q[1]
        BY <2>2, <2>3, <2>4, <2>6
    <3>2. q[1] = i => j <= q[2]
        BY <2>4, <2>6
    <3> HIDE DEF T, S
    <3>3. QED
        BY <3>1, <3>2
  <2>8. QED
      BY <2>6, <2>7
<1>2. QED
    BY <1>1 DEF PrimerPar

(* It is a pair of trainers of Block.                                      *)
LEMMA ParTipo ==
    ASSUME Tipos, Pares # {}
    PROVE  block[PrimerPar[1]] \in ENTRENADORES /\ block[PrimerPar[2]] \in ENTRENADORES
<1>1. PICK p \in Pares : p = PrimerPar
    BY PrimerParEs
<1>2. p[1] \in DOMAIN block /\ p[2] \in DOMAIN block
    BY DEF Pares, SinMargen
<1>3. \A i \in DOMAIN block : block[i] \in ENTRENADORES
    BY DEF Tipos, Listas
<1>4. QED
    BY <1>1, <1>2, <1>3

(* A run of algoritmo_deadlock.                                            *)
LEMMA DeadlockTipos ==
    ASSUME Tipos, NEW t \in ENTRENADORES, Deadlock(t)
    PROVE  Tipos'
<1>1. /\ Ents' /\ PlanSigue /\ Sems'
      /\ block' \in Seq(ENTRENADORES) /\ ready' \in [ENTRENADORES -> Nat]
  <2>1. CASE Pares # {}
    <3>1. block[PrimerPar[1]] \in ENTRENADORES /\ block[PrimerPar[2]] \in ENTRENADORES
        BY <2>1, ParTipo
    <3>2. Aparea(block[PrimerPar[1]], block[PrimerPar[2]])
        BY <2>1 DEF Deadlock
    <3>3. QED
        BY <3>1, <3>2, ApareaTipos
  <2>2. CASE Pares = {}
      BY <2>2 DEF Deadlock, PlanSigue, Tipos, Ents, Sems, Listas
  <2>3. QED
      BY <2>1, <2>2
<1>2. \E p : Sigue(t, p) /\ Cuerda(t, p, hilo[t].vuelta)
    BY Nombres DEF Deadlock, En, Tipos, Rutas, Hilos, LeFalta, Cuerda, Lugares, Vueltas
<1>3. Rutas'
    BY <1>1, <1>2, Nombres, SigueLlama, LlamaPlan DEF Tipos, Rutas
<1>4. Listas'
    BY <1>1 DEF Deadlock, Tipos, Listas
<1>5. Planes' /\ Reparto' /\ Correo'
    BY DEF Deadlock, Tipos, Planes, Reparto, Correo, mundo, correo
<1>6. QED
    BY <1>1, <1>3, <1>4, <1>5 DEF Tipos

-----------------------------------------------------------------------------
(* Types: what each step of algoritmo_de_cercania keeps, whoever calls it. *)
LEMMA RecorreTipos ==
    ASSUME Tipos, NEW h \in HILOS, SinPokemons(h) \/ Filtra(h) \/ TerminaCercania(h)
    PROVE  Tipos'
<1>1. MismoPlan
    BY DEF SinPokemons, Filtra, TerminaCercania, MismoPlan
<1>2. \E p : Sigue(h, p) /\ Cuerda(h, p, hilo[h].vuelta)
  <2>1. hilo[h].pc \in {"cercania", "reparte"} => hilo[h].vuelta # "esperaCd"
      BY DEF Tipos, Rutas, LeFalta
  <2>2. QED
      BY <2>1 DEF SinPokemons, Filtra, TerminaCercania, TrasCercania, En, Tipos, Rutas,
                  Hilos, Cuerda, Lugares, Vueltas
<1>3. Rutas'
    BY <1>1, <1>2, Nombres, SigueRutas
<1>4. Reparto'
  <2>1. pokemons \in Seq([especie : ESPECIES, lugar : PUNTOS]) => Len(pokemons) \in Nat
      BY LenProperties
  <2>2. cerc' \in [duenio : HILOS \union {NULL}, cands : SUBSET ENTRENADORES,
                    quedan : Nat, movio : BOOLEAN]
    <3>1. CASE SinPokemons(h)
        BY <3>1 DEF SinPokemons, Tipos, Reparto
    <3>2. CASE Filtra(h)
        BY <2>1, <3>2 DEF Filtra, Tipos, Reparto, Listas
    <3>3. CASE TerminaCercania(h)
        BY <3>3 DEF TerminaCercania, SinCercania
    <3>4. QED
        BY <3>1, <3>2, <3>3
  <2>3. cerc'.quedan <= Len(pokemons)
    <3>1. pokemons \in Seq([especie : ESPECIES, lugar : PUNTOS]) /\ cerc.quedan <= Len(pokemons)
        BY DEF Tipos, Reparto
    <3>2. CASE SinPokemons(h)
        BY <3>1, <3>2 DEF SinPokemons
    <3>3. CASE Filtra(h)
        BY <2>1, <3>1, <3>3 DEF Filtra
    <3>4. CASE TerminaCercania(h)
        BY <2>1, <3>1, <3>4 DEF TerminaCercania, SinCercania
    <3>5. QED
        BY <3>2, <3>3, <3>4
  <2>4. QED
      BY <2>2, <2>3 DEF SinPokemons, Filtra, TerminaCercania, Tipos, Reparto, mundo
<1>5. Ents' /\ Listas' /\ Sems' /\ Planes' /\ Correo'
    BY DEF SinPokemons, Filtra, TerminaCercania, Tipos, Ents, Listas, Sems, Planes, Correo,
           listas, mundo, correo
<1>6. QED
    BY <1>3, <1>4, <1>5 DEF Tipos

(* A pokemon handed out by algoritmo_de_cercania.                          *)
LEMMA AsignaTipos ==
    ASSUME Tipos, NEW h \in HILOS, Asigna(h)
    PROVE  Tipos'
<1> DEFINE p == Head(pokemons)
<1>1. PICK c \in cerc.cands :
        /\ cerc' = [cerc EXCEPT !.cands = @ \ {c}, !.quedan = @ - 1, !.movio = TRUE]
        /\ \/ /\ ent' = [ent EXCEPT ![c].especie = p.especie, ![c].lugar = p.lugar,
                                    ![c].mov = "CATCH", ![c].estado = "READY"]
              /\ ready' = [ready EXCEPT ![c] = @ + 1]
              /\ nuevos' \subseteq nuevos /\ block' \in {block, Quitar(block, c)}
              /\ sem' \in {Con("new_ready", c), Con("block_ready", c)}
           \/ /\ ent' = [ent EXCEPT ![c].especie = p.especie, ![c].lugar = p.lugar]
              /\ UNCHANGED <<ready, nuevos, block, sem>>
  <2>1. \A c \in MasCercanos(cerc.cands, p.lugar, ent) : c \in cerc.cands
      BY DEF MasCercanos
  <2> HIDE DEF p
  <2>2. PICK c \in MasCercanos(cerc.cands, p.lugar, ent) :
        /\ cerc' = [cerc EXCEPT !.cands = @ \ {c}, !.quedan = @ - 1, !.movio = TRUE]
        /\ IF ent[c].estado \in {"NEW", "BLOCK"}
           THEN /\ ent' = [ent EXCEPT ![c].especie = p.especie, ![c].lugar = p.lugar,
                                      ![c].mov = "CATCH", ![c].estado = "READY"]
                /\ ready' = [ready EXCEPT ![c] = @ + 1]
                /\ IF ent[c].estado = "NEW"
                   THEN nuevos' = nuevos \ {c} /\ sem' = Con("new_ready", c) /\ UNCHANGED block
                   ELSE block' = Quitar(block, c) /\ sem' = Con("block_ready", c)
                        /\ UNCHANGED nuevos
           ELSE /\ ent' = [ent EXCEPT ![c].especie = p.especie, ![c].lugar = p.lugar]
                /\ UNCHANGED <<ready, nuevos, block, sem>>
      BY DEF Asigna, p
  <2>3. CASE ent[c].estado \in {"NEW", "BLOCK"}
      BY <2>1, <2>2, <2>3
  <2>4. CASE ent[c].estado \notin {"NEW", "BLOCK"}
      BY <2>1, <2>2, <2>4
  <2>5. QED
      BY <2>3, <2>4
<1>2. c \in ENTRENADORES /\ cerc.quedan \in Nat /\ cerc.quedan > 0
    BY DEF Asigna, Tipos, Reparto
<1>3. /\ p \in [especie : ESPECIES, lugar : PUNTOS]
      /\ pokemons' \in Seq([especie : ESPECIES, lugar : PUNTOS])
      /\ Len(pokemons') = Len(pokemons) - 1
  <2> DEFINE P == [especie : ESPECIES, lugar : PUNTOS]
  <2>1. pokemons \in Seq(P) /\ pokemons # <<>> /\ pokemons' = Tail(pokemons)
      BY <1>2, EmptySeq DEF Tipos, Reparto, Asigna
  <2> HIDE DEF P
  <2>2. QED
      BY <2>1, HeadTailProperties DEF P
<1> HIDE DEF p
<1>4. Reparto'
  <2>1. cerc' \in [duenio : HILOS \union {NULL}, cands : SUBSET ENTRENADORES,
                   quedan : Nat, movio : BOOLEAN]
    <3>1. /\ cerc \in [duenio : HILOS \union {NULL}, cands : SUBSET ENTRENADORES,
                       quedan : Nat, movio : BOOLEAN]
          /\ cerc.quedan - 1 \in Nat
        BY <1>2 DEF Tipos, Reparto
    <3>2. cerc' = [cerc EXCEPT !.cands = cerc.cands \ {c}, !.quedan = cerc.quedan - 1,
                               !.movio = TRUE]
        BY <1>1, <3>1
    <3>3. QED
        BY <3>1, <3>2
  <2>2. cerc'.quedan = cerc.quedan - 1
      BY <1>1, <1>2 DEF Tipos, Reparto
  <2>3. cerc'.quedan <= Len(pokemons')
      BY <1>2, <1>3, <2>2, LenProperties DEF Tipos, Reparto
  <2>4. UNCHANGED <<objetivo, recibidos>>
      BY DEF Asigna
  <2>5. QED
      BY <1>3, <2>1, <2>3, <2>4 DEF Tipos, Reparto
<1>5. Ents' /\ PlanSigue
  <2> DEFINE x == [ent[c] EXCEPT !.especie = p.especie, !.lugar = p.lugar]
             y == [x EXCEPT !.mov = "CATCH", !.estado = "READY"]
  <2>1. Ents /\ ent[c] \in Entrenador /\ NULL \notin ESPECIES
      BY <1>2, Campos, Nombres DEF Tipos
  <2>2. /\ x \in Entrenador
        /\ x.mov = ent[c].mov /\ x.socio = ent[c].socio /\ x.especie = p.especie
      BY <1>3, <2>1 DEF Entrenador
  <2>3. ent' = [ent EXCEPT ![c] = y] \/ ent' = [ent EXCEPT ![c] = x]
      BY <1>1, <1>2, <2>1 DEF Ents
  <2> HIDE DEF x
  <2>4. /\ y \in Entrenador
        /\ y.mov = "CATCH" /\ y.socio = ent[c].socio /\ y.especie = p.especie
      BY <2>2 DEF Entrenador
  <2> HIDE DEF y
  <2>5. QED
      BY <1>2, <1>3, <2>1, <2>2, <2>3, <2>4 DEF Ents, PlanSigue
<1>6. Rutas'
  <2>1. UNCHANGED hilo
      BY DEF Asigna
  <2>2. \A u \in ENTRENADORES : SocioSabido(u)'
      BY <1>5, <2>1, PlanRutas
  <2>3. QED
      BY <2>1, <2>2 DEF Tipos, Rutas, Hilos, LeFalta
<1>7. Listas'
  <2>1. Quitar(block, c) \in Seq(ENTRENADORES)
      BY <1>2, QuitarTipo DEF Tipos, Listas
  <2>2. UNCHANGED <<exec, terminados, llegada>>
      BY DEF Asigna
  <2>3. QED
    <3>1. Listas
        BY DEF Tipos
    <3>2. ready' \in [ENTRENADORES -> Nat]
      <4>1. ready' = ready \/ ready' = [ready EXCEPT ![c] = ready[c] + 1]
          BY <1>1
      <4>2. QED
        <5>1. ready \in [ENTRENADORES -> Nat]
            BY <3>1 DEF Listas
        <5>2. QED
            BY <1>2, <4>1, <5>1
    <3>3. block' \in Seq(ENTRENADORES) /\ nuevos' \subseteq ENTRENADORES
        BY <1>1, <2>1, <3>1 DEF Listas
    <3>4. QED
        BY <2>2, <3>1, <3>2, <3>3 DEF Listas
<1>8. Sems'
  <2>1. sem' = sem \/ \E k \in Semaforos : sem' = Con(k, c)
      BY <1>1 DEF Semaforos
  <2>2. QED
      BY <1>2, <2>1, ConTipo DEF Tipos, Sems
<1>9. Planes' /\ Correo'
    BY DEF Asigna, Tipos, Planes, Correo, correo
<1>10. QED
    BY <1>4, <1>5, <1>6, <1>7, <1>8, <1>9 DEF Tipos

-----------------------------------------------------------------------------
(* Types: what each message that arrives keeps.                            *)

(* A message is taken, or it will come again.                              *)
LEMMA TomaTipos ==
    ASSUME Tipos, NEW m \in entrantes, NEW b \in BOOLEAN, Toma(m, b),
           UNCHANGED <<algoritmo, catches, envio, waiting, perdidos>>
    PROVE  Correo'
<1>1. FALLAS[algoritmo] \in Nat
    BY MensajesAssumption, PlanificadorAssumption DEF Tipos, Planes
<1>2. fallas' \in 0 .. FALLAS[algoritmo]
    BY <1>1 DEF Toma, Falla, Tipos, Correo
<1>3. QED
    BY <1>2 DEF Toma, Tipos, Correo

(* An APPEARED brings one pokemon.                                         *)
LEMMA AppearedTipos ==
    ASSUME Tipos, NEW m \in entrantes, Appeared(m)
    PROVE  Tipos'
<1>1. m.canal \in HILOS /\ m.especie \in ESPECIES /\ m.lugares[1] \in PUNTOS
  <2>1. m \in MENSAJES
      BY DEF Tipos, Correo
  <2>2. /\ m.canal \in CANALES /\ m.especie \in ESPECIES /\ m.lugares \in Seq(PUNTOS)
        /\ m.canal # "localized" => Len(m.lugares) = 1
      BY <2>1, MensajesAssumption
  <2>3. Len(m.lugares) = 1
      BY <2>2 DEF Appeared
  <2>4. QED
      BY <2>2, <2>3, Nombres, ElementOfSeq
<1>2. MismoPlan
    BY DEF Appeared, MismoPlan
<1>3. Rutas'
  <2>1. CASE UNCHANGED hilo
      BY <2>1 DEF Appeared, Tipos, Rutas, Hilos, LeFalta, SocioSabido
  <2>2. CASE Llama(m.canal, "cercania", "libre")
      BY <1>1, <1>2, <2>2, LlamaRutas DEF Cuerda, Lugares, Vueltas
  <2>3. QED
      BY <2>1, <2>2 DEF Appeared
<1>4. Reparto'
  <2> DEFINE P == [especie : ESPECIES, lugar : PUNTOS]
             n == [especie |-> m.especie, lugar |-> m.lugares[1]]
  <2>1. pokemons \in Seq(P) /\ n \in P /\ (pokemons' = pokemons \/ pokemons' = Append(pokemons, n))
      BY <1>1 DEF Tipos, Reparto, Appeared
  <2> HIDE DEF P, n
  <2>2. pokemons' \in Seq(P) /\ Len(pokemons) <= Len(pokemons') /\ Len(pokemons) \in Nat
        /\ Len(pokemons') \in Nat
      BY <2>1, AppendProperties, LenProperties
  <2>3. QED
      BY <2>2 DEF Tipos, Reparto, Appeared, P
<1>5. Correo'
    BY TomaTipos DEF Appeared
<1>6. Ents' /\ Listas' /\ Sems' /\ Planes'
    BY DEF Appeared, Tipos, Ents, Listas, Sems, Planes, listas
<1>7. QED
    BY <1>3, <1>4, <1>5, <1>6 DEF Tipos

(* A LOCALIZED brings one pokemon per place.                               *)
LEMMA LocalizedTipos ==
    ASSUME Tipos, NEW m \in entrantes, Localized(m)
    PROVE  Tipos'
<1>1. /\ "localized" \in HILOS /\ m.especie \in ESPECIES /\ m.lugares \in Seq(PUNTOS)
    BY Nombres, MensajesAssumption DEF Tipos, Correo, CANALES
<1>2. MismoPlan
    BY DEF Localized, MismoPlan
<1>3. Rutas'
  <2>1. CASE UNCHANGED hilo
      BY <2>1 DEF Localized, Tipos, Rutas, Hilos, LeFalta, SocioSabido
  <2>2. CASE Llama("localized", "cercania", "libre")
      BY <1>1, <1>2, <2>2, LlamaRutas DEF Cuerda, Lugares, Vueltas
  <2>3. QED
      BY <2>1, <2>2 DEF Localized
<1>4. Reparto'
  <2> DEFINE P == [especie : ESPECIES, lugar : PUNTOS]
             n == [i \in DOMAIN m.lugares |->
                     [especie |-> m.especie, lugar |-> m.lugares[Len(m.lugares) + 1 - i]]]
  <2>1. pokemons \in Seq(P) /\ (pokemons' = pokemons \/ pokemons' = pokemons \o n)
      BY DEF Tipos, Reparto, Localized
  <2>2. n \in Seq(P)
    <3>1. \A i \in 1 .. Len(m.lugares) : Len(m.lugares) + 1 - i \in 1 .. Len(m.lugares)
        BY <1>1, LenProperties
    <3>2. \A i \in 1 .. Len(m.lugares) : m.lugares[Len(m.lugares) + 1 - i] \in PUNTOS
        BY <1>1, <3>1, ElementOfSeq
    <3>3. n \in [1 .. Len(m.lugares) -> P]
        BY <1>1, <3>2
    <3> HIDE DEF n, P
    <3>4. QED
        BY <1>1, <3>3, SeqDeFuncion, LenProperties
  <2> HIDE DEF P, n
  <2>3. pokemons' \in Seq(P) /\ Len(pokemons) <= Len(pokemons') /\ Len(pokemons) \in Nat
        /\ Len(pokemons') \in Nat
    <3>1. Len(pokemons) \in Nat /\ Len(n) \in Nat
        BY <2>1, <2>2, LenProperties
    <3>2. pokemons \o n \in Seq(P) /\ Len(pokemons \o n) = Len(pokemons) + Len(n)
        BY <2>1, <2>2, ConcatProperties
    <3>3. QED
      <4>1. CASE pokemons' = pokemons
          BY <2>1, <3>1, <4>1
      <4>2. CASE pokemons' = pokemons \o n
          BY <3>1, <3>2, <4>2
      <4>3. QED
          BY <2>1, <4>1, <4>2
  <2>4. QED
      BY <1>1, <2>3 DEF Tipos, Reparto, Localized, P
<1>5. Correo'
    BY TomaTipos DEF Localized
<1>6. Ents' /\ Listas' /\ Sems' /\ Planes'
    BY DEF Localized, Tipos, Ents, Listas, Sems, Planes, listas
<1>7. QED
    BY <1>3, <1>4, <1>5, <1>6 DEF Tipos

(* The answer to a CATCH.                                                  *)
LEMMA CaughtPokemonTipos ==
    ASSUME Tipos, NEW t \in ENTRENADORES, NEW r \in {0, 1}, CaughtPokemon(t, r)
    PROVE  Ents' /\ Rutas' /\ Listas' /\ Sems' /\ Planes' /\ Reparto'
<1> DEFINE e == ent[t].especie
<1>1. CASE \E m \in {"sin_entrenador", "sin_objetivo"} : Muere(m)
  <2>1. Ents' /\ Listas' /\ Sems' /\ Planes' /\ Reparto'
      BY <1>1 DEF Muere, Tipos, Ents, Listas, Sems, Planes, Reparto, listas, mundo
  <2>2. Rutas'
      BY <1>1 DEF Muere, Tipos, Rutas, Hilos, LeFalta, SocioSabido
  <2>3. QED
      BY <2>1, <2>2
<1>2. CASE ~\E m \in {"sin_entrenador", "sin_objetivo"} : Muere(m)
  <2>1. /\ \/ /\ e \in DOMAIN objetivo
              /\ ent' = [ent EXCEPT ![t].stock[e] = @ + 1]
              /\ objetivo' = Descontado(objetivo, e)
           \/ UNCHANGED <<ent, objetivo>>
        /\ sem' = Con("block_catch", t)
        /\ UNCHANGED <<algoritmo, caida, hilo, listas, llegada, mPlan, cerc, pokemons,
                       recibidos>>
      BY <1>2 DEF CaughtPokemon
  <2>2. Ents' /\ MismoPlan
    <3>1. CASE UNCHANGED ent
        BY <3>1 DEF Tipos, Ents, MismoPlan
    <3>2. CASE e \in DOMAIN objetivo /\ ent' = [ent EXCEPT ![t].stock[e] = @ + 1]
      <4> DEFINE d == [ent[t].stock EXCEPT ![e] = @ + 1]
                 x == [ent[t] EXCEPT !.stock = d]
      <4>1. Ents /\ ent[t] \in Entrenador /\ ent[t].stock \in Dicc /\ e \in ESPECIES
          BY <3>2, Campos DEF Tipos, Reparto
      <4>2. d \in Dicc
          BY <4>1 DEF Dicc
      <4>3. ent' = [ent EXCEPT ![t] = x]
          BY <3>2, <4>1 DEF Ents
      <4> HIDE DEF d
      <4>4. /\ x \in Entrenador
            /\ x.mov = ent[t].mov /\ x.socio = ent[t].socio /\ x.especie = ent[t].especie
          BY <4>1, <4>2 DEF Entrenador
      <4>5. QED
          BY <4>1, <4>3, <4>4, OtroEnt
    <3>3. QED
        BY <2>1, <3>1, <3>2
  <2>3. Rutas'
    <3>1. PlanSigue
        BY <2>2 DEF MismoPlan, PlanSigue
    <3>2. UNCHANGED hilo
        BY <2>1
    <3>3. \A u \in ENTRENADORES : SocioSabido(u)'
        BY <3>1, <3>2, PlanRutas
    <3>4. QED
        BY <3>2, <3>3 DEF Tipos, Rutas, Hilos, LeFalta
  <2>4. Sems'
      BY <2>1, ConTipo DEF Tipos, Semaforos
  <2>5. Reparto'
    <3>1. DOMAIN objetivo' \subseteq DOMAIN objetivo
        BY <2>1 DEF Descontado
    <3>2. QED
        BY <2>1, <3>1 DEF Tipos, Reparto
  <2>6. Listas' /\ Planes'
      BY <2>1 DEF Tipos, Listas, Planes, listas
  <2>7. QED
      BY <2>2, <2>3, <2>4, <2>5, <2>6
<1>3. QED
    BY <1>1, <1>2

(* The connection that sends a CATCH.                                      *)
LEMMA EnvioTipos ==
    ASSUME Tipos, NEW t \in ENTRENADORES, EnvioFalla(t) \/ BrokerAcepta(t) \/ AnotaId(t)
    PROVE  Tipos'
<1>1. Correo
    BY DEF Tipos
<1>2. CASE EnvioFalla(t)
  <2>1. FALLAS[algoritmo] \in Nat /\ algoritmo' = algoritmo
      BY <1>2, MensajesAssumption, PlanificadorAssumption
         DEF Tipos, Planes, EnvioFalla, CaughtPokemon, Muere
  <2>2. Correo'
      BY <1>1, <1>2, <2>1 DEF EnvioFalla, Falla, Correo
  <2>3. CaughtPokemon(t, 1)
      BY <1>2 DEF EnvioFalla
  <2>4. QED
      BY <2>2, <2>3, CaughtPokemonTipos DEF Tipos
<1>3. CASE BrokerAcepta(t) \/ AnotaId(t)
  <2>1. Ents' /\ Listas' /\ Sems' /\ Planes' /\ Reparto'
      BY <1>3 DEF BrokerAcepta, AnotaId, Tipos, Ents, Listas, Sems, Planes, Reparto,
                  listas, mundo
  <2>2. Rutas'
      BY <1>3 DEF BrokerAcepta, AnotaId, Tipos, Rutas, Hilos, LeFalta, SocioSabido
  <2>3. Correo'
    <3>1. CASE BrokerAcepta(t)
      <4> DEFINE C == [tid : ENTRENADORES, est : {"pendiente", "contestada", "entregada"},
                       rta : {0, 1}]
                 n == [tid |-> t, est |-> "pendiente", rta |-> 0]
      <4>1. catches \in Seq(C) /\ n \in C /\ catches' = Append(catches, n)
          BY <1>1, <3>1 DEF Correo, BrokerAcepta
      <4> HIDE DEF C, n
      <4>2. /\ catches' \in Seq(C) /\ DOMAIN catches \subseteq DOMAIN catches'
            /\ Len(catches) + 1 \in Nat /\ Len(catches) + 1 \in DOMAIN catches'
          BY <4>1, AppendProperties, LenProperties
      <4>3. /\ envio' \in [ENTRENADORES -> [est : {"no", "conecta", "aceptado"}, id : Nat]]
            /\ \A u \in ENTRENADORES :
                 envio'[u].est = "aceptado" => envio'[u].id \in DOMAIN catches'
          BY <1>1, <3>1, <4>2 DEF Correo, BrokerAcepta
      <4>4. QED
          BY <1>1, <3>1, <4>2, <4>3 DEF Correo, BrokerAcepta, C
    <3>2. CASE AnotaId(t)
        BY <1>1, <3>2 DEF Correo, AnotaId
    <3>3. QED
        BY <1>3, <3>1, <3>2
  <2>4. QED
      BY <2>1, <2>2, <2>3 DEF Tipos
<1>4. QED
    BY <1>2, <1>3

(* What a sequence holds.                                                  *)
LEMMA DeSeq ==
    ASSUME NEW C, NEW s \in Seq(C)
    PROVE  /\ DOMAIN s = 1 .. Len(s) /\ Len(s) \in Nat
           /\ \A i \in DOMAIN s : s[i] \in C
BY LenProperties, ElementOfSeq

(* The answer of Gamecard, and its arrival.                                *)
LEMMA RespuestaTipos ==
    ASSUME Tipos, NEW id \in DOMAIN catches, GamecardResponde(id) \/ Caught(id)
    PROVE  Tipos'
<1> DEFINE C == [tid : ENTRENADORES, est : {"pendiente", "contestada", "entregada"},
                 rta : {0, 1}]
           t == catches[id].tid
<1>1. Correo /\ catches \in Seq(C) /\ t \in ENTRENADORES /\ catches[id].rta \in {0, 1}
  <2>1. Correo /\ catches \in Seq(C)
      BY DEF Tipos, Correo
  <2>2. catches[id] \in C
      BY <2>1, DeSeq, Zenon
  <2>3. QED
      BY <2>1, <2>2
<1>2. /\ Ents' /\ Rutas' /\ Listas' /\ Sems' /\ Planes' /\ Reparto'
      /\ algoritmo' = algoritmo
  <2>1. CASE CaughtPokemon(t, catches[id].rta)
      BY <1>1, <2>1, CaughtPokemonTipos DEF CaughtPokemon, Muere
  <2>2. CASE UNCHANGED <<algoritmo, caida, ent, hilo, listas, llegada, sem, mPlan, cerc, mundo>>
    <3>1. Ents' /\ Listas' /\ Sems' /\ Planes' /\ Reparto'
        BY <2>2 DEF Tipos, Ents, Listas, Sems, Planes, Reparto, listas, mundo
    <3>2. Rutas'
        BY <2>2 DEF Tipos, Rutas, Hilos, LeFalta, SocioSabido
    <3>3. QED
        BY <2>2, <3>1, <3>2
  <2>3. QED
      BY <2>1, <2>2 DEF GamecardResponde, Caught
<1>3. catches' \in Seq(C) /\ DOMAIN catches' = DOMAIN catches
  <2>1. PICK r \in {0, 1} : catches' \in
            {catches, [catches EXCEPT ![id] = [catches[id] EXCEPT !.est = "entregada"]],
             [catches EXCEPT ![id] = [catches[id] EXCEPT !.est = "contestada", !.rta = r]]}
    <3>1. CASE Caught(id)
        BY <3>1 DEF Caught
    <3>2. CASE GamecardResponde(id)
        BY <1>1, <3>2 DEF GamecardResponde
    <3>3. QED
        BY <3>1, <3>2
  <2>2. \A x \in C : /\ [x EXCEPT !.est = "entregada"] \in C
                     /\ [x EXCEPT !.est = "contestada", !.rta = r] \in C
      OBVIOUS
  <2>3. catches[id] \in C
      BY <1>1, DeSeq, Zenon
  <2> HIDE DEF C
  <2>4. PICK x \in C : catches' = catches \/ catches' = [catches EXCEPT ![id] = x]
      BY <2>1, <2>2, <2>3
  <2>5. QED
      BY <1>1, <2>4, ExceptSeq, DeSeq
<1>4. fallas' \in 0 .. FALLAS[algoritmo']
  <2>1. FALLAS[algoritmo] \in Nat
      BY MensajesAssumption, PlanificadorAssumption DEF Tipos, Planes
  <2>2. fallas' = fallas \/ Falla
      BY DEF GamecardResponde, Caught
  <2>3. QED
      BY <1>1, <1>2, <2>1, <2>2 DEF Falla, Correo
<1>5. /\ waiting' \subseteq waiting /\ perdidos' \subseteq perdidos \union {id}
      /\ UNCHANGED <<entrantes, envio>>
    BY DEF GamecardResponde, Caught
<1>6. Correo'
    BY <1>1, <1>3, <1>4, <1>5 DEF Correo
<1>7. QED
    BY <1>2, <1>6 DEF Tipos

-----------------------------------------------------------------------------
(* The types hold at the start, and every step keeps them.                 *)
LEMMA InicioTipos == Init => Tipos
<1> SUFFICES ASSUME Init PROVE Tipos
    OBVIOUS
<1>1. Ents /\ \A t \in ENTRENADORES : ent[t].mov = "CATCH" /\ ent[t].socio = NULL
  <2>1. ASSUME NEW t \in ENTRENADORES
        PROVE  /\ EntrenadorNuevo(t) \in Entrenador
               /\ EntrenadorNuevo(t).mov = "CATCH" /\ EntrenadorNuevo(t).socio = NULL
      BY EntrenadoresAssumption, PlanificadorAssumption DEF EntrenadorNuevo, Entrenador
  <2>2. QED
      BY <2>1 DEF Init, Ents
<1>2. Rutas
    BY <1>1, Nombres DEF Init, Rutas, Hilos, LeFalta, SocioSabido, Lugares, Vueltas, Tramos
<1>3. Listas /\ Sems /\ Planes
    BY DEF Init, Listas, Sems, Planes
<1>4. Reparto
  <2>1. DOMAIN objetivo \subseteq ESPECIES
      BY DEF Init, GlobalInicial, EspeciesGlobales
  <2>2. QED
      BY <2>1 DEF Init, Reparto, SinCercania
<1>5. Correo
  <2>1. FALLAS[algoritmo] \in Nat
      BY MensajesAssumption, PlanificadorAssumption DEF Init
  <2>2. QED
      BY <2>1 DEF Init, Correo
<1>6. QED
    BY <1>1, <1>2, <1>3, <1>4, <1>5 DEF Tipos

(* Tipos is inductive.                                                     *)
LEMMA PasoTipos == Tipos /\ [Next]_vars => Tipos'
<1> SUFFICES ASSUME Tipos, [Next]_vars PROVE Tipos'
    OBVIOUS
<1>1. ASSUME NEW t \in ENTRENADORES, Corre(t)
      PROVE  Tipos'
    BY <1>1, PasaTipos, AndaTipos, QuantumTipos, SueltaTipos, EnviaTipos, CanjeTipos,
       CumpleTipos, NoCumpleTipos, DeadlockTipos DEF Corre
<1>2. ASSUME NEW t \in ENTRENADORES, Planifica(t)
      PROVE  Tipos'
    BY <1>2, MiraTipos, EligeTipos, CaeTipos DEF Planifica, EligeYCae
<1>3. ASSUME NEW h \in HILOS, Cercania(h)
      PROVE  Tipos'
    BY <1>3, RecorreTipos, AsignaTipos DEF Cercania
<1>4. ASSUME NEW t \in ENTRENADORES, MensajePaso(t)
      PROVE  Tipos'
    BY <1>4, EnvioTipos DEF MensajePaso
<1>5. ASSUME NEW m \in entrantes, Recibe(m)
      PROVE  Tipos'
    BY <1>5, AppearedTipos, LocalizedTipos DEF Recibe
<1>6. ASSUME NEW id \in DOMAIN catches, GamecardResponde(id) \/ Caught(id)
      PROVE  Tipos'
    BY <1>6, RespuestaTipos
<1>7. CASE UNCHANGED vars
    BY <1>7 DEF Tipos, vars, Ents, Rutas, Hilos, LeFalta, SocioSabido, Listas, Sems, Planes,
                Reparto, Correo, listas, mundo, correo
<1>8. QED
    BY <1>1, <1>2, <1>3, <1>4, <1>5, <1>6, <1>7, Nombres DEF Next, EntrenadorPaso

(* The types of the process are the types of its parts.                    *)
LEMMA TiposTypeOK == Tipos => TypeOK
<1> SUFFICES ASSUME Tipos PROVE TypeOK
    OBVIOUS
<1>1. \A h \in HILOS : hilo[h].falta \in Nat /\ hilo[h].tramo \in {"viaje", "captura", "canje"}
    BY DEF Tipos, Rutas, Hilos, Tramos
<1>2. \A id \in DOMAIN catches : catches[id].tid \in ENTRENADORES
  <2> DEFINE C == [tid : ENTRENADORES, est : {"pendiente", "contestada", "entregada"},
                   rta : {0, 1}]
  <2>1. catches \in Seq(C)
      BY DEF Tipos, Correo
  <2>2. \A id \in DOMAIN catches : catches[id] \in C
      BY <2>1, DeSeq, Zenon
  <2>3. QED
      BY <2>2
<1>3. /\ nuevos \subseteq ENTRENADORES /\ terminados \subseteq ENTRENADORES
      /\ ready \in [ENTRENADORES -> Nat]
      /\ exec \in Seq(ENTRENADORES) /\ block \in Seq(ENTRENADORES)
      /\ llegada \in Seq(ENTRENADORES)
    BY DEF Tipos, Listas
<1>4. /\ cerc \in [duenio : HILOS \union {NULL}, cands : SUBSET ENTRENADORES,
                   quedan : Nat, movio : BOOLEAN]
      /\ pokemons \in Seq([especie : ESPECIES, lugar : PUNTOS])
      /\ DOMAIN objetivo \subseteq ESPECIES /\ recibidos \subseteq ESPECIES
    BY DEF Tipos, Reparto
<1>5. /\ entrantes \subseteq MENSAJES /\ fallas \in 0 .. FALLAS[algoritmo]
      /\ envio \in [ENTRENADORES -> [est : {"no", "conecta", "aceptado"}, id : Nat]]
      /\ waiting \subseteq DOMAIN catches /\ perdidos \subseteq DOMAIN catches
    BY DEF Tipos, Correo
<1>6. Ents /\ Sems /\ Planes
    BY DEF Tipos
<1>7. QED
    BY <1>1, <1>2, <1>3, <1>4, <1>5, <1>6, Zenon DEF TypeOK, Ents, Sems, Planes

(* Every variable of the process always has its type: no semaphore, place  *)
(* in Ready or journey goes below zero, and nobody takes a pokemon to hand *)
(* out, or a partner, that is not there.                                   *)
THEOREM TiposSiempre == Spec => []TypeOK
<1>1. Spec => []Tipos
    BY InicioTipos, PasoTipos, PTL DEF Spec
<1>2. QED
    BY <1>1, TiposTypeOK, PTL

-----------------------------------------------------------------------------
(* The CATCH of each trainer.                                              *)

\* What has nothing to do with a CATCH.
OtraCosa ==
    /\ UNCHANGED <<catches, envio, waiting, perdidos>>
    /\ caida' = "no" => caida = "no"
    /\ \A t \in ENTRENADORES :
         /\ sem'["block_catch"][t] = sem["block_catch"][t]
         /\ hilo'[t].pc = "esperaCatch" <=> hilo[t].pc = "esperaCatch"

(* Such a step leaves every CATCH as it was.                               *)
LEMMA OtraCosaPendientes ==
    ASSUME Pendientes, OtraCosa
    PROVE  Pendientes'
<1>1. \A t \in ENTRENADORES : SinCatch(t)' <=> SinCatch(t)
    BY DEF OtraCosa, SinCatch
<1>2. \A t \in ENTRENADORES : UnCatch(t)'
    BY <1>1 DEF Pendientes, OtraCosa, UnCatch
<1>3. QED
    BY <1>2 DEF Pendientes, OtraCosa

(* One thread moves, from a place where it waits for no CATCH to another.  *)
Mueve(h) ==
    /\ hilo[h].pc # "esperaCatch" /\ hilo'[h].pc # "esperaCatch"
    /\ \A g \in HILOS \ {h} : hilo'[g] = hilo[g]

(* To go on anywhere but to the wait for an answer is such a move.         *)
LEMMA MueveBien ==
    ASSUME Hilos, NEW h \in HILOS, hilo[h].pc # "esperaCatch"
    PROVE  /\ \A p : Sigue(h, p) /\ p # "esperaCatch" => Mueve(h)
           /\ UNCHANGED hilo => Mueve(h)
BY DEF Hilos, Mueve, Sigue

(* A semaphore that is not block_catch answers no CATCH.                   *)
LEMMA SemAjeno ==
    ASSUME Sems, NEW t \in ENTRENADORES, NEW k \in Semaforos \ {"block_catch"},
           sem' = Con(k, t) \/ Espera(k, t)
    PROVE  \A u \in ENTRENADORES : sem'["block_catch"][u] = sem["block_catch"][u]
BY ConTipo, EsperaTipo DEF Semaforos

(* A trainer that neither sends a CATCH nor gets its answer.               *)
LEMMA CorreOtraCosa ==
    ASSUME Tipos, NEW t \in ENTRENADORES, Corre(t), ~Envia(t), ~RecibeRespuesta(t)
    PROVE  OtraCosa
<1>1. Hilos /\ t \in HILOS /\ hilo[t].vuelta # "esperaCatch"
    BY Nombres DEF Tipos, Rutas, Hilos, Vueltas
<1>2. /\ UNCHANGED <<catches, envio, waiting, perdidos>>
      /\ caida' = "no" => caida = "no"
    BY DEF Corre, SaleDeNew, MarcaLlegada, Empieza, FinDeQuantum, CedeElPaso, Retoma, Ciclo,
       Arriba, Pide, Suelta, Canje, Cumple, NoCumple, SaleDeBlock, Sale, Deadlock, Cae,
       Muere, correo
<1>3. hilo[t].pc # "esperaCatch"
    BY DEF Corre, SaleDeNew, MarcaLlegada, Empieza, FinDeQuantum, CedeElPaso, Retoma, Ciclo,
       Arriba, Pide, Suelta, Canje, Cumple, NoCumple, SaleDeBlock, Sale, Deadlock,
       PuedeCiclo, En
<1>4. Mueve(t)
  <2>1. hilo[t] \in [pc : Lugares, vuelta : Vueltas, tramo : Tramos, falta : Nat]
      BY <1>1 DEF Hilos
  <2> USE DEF Mueve, Sigue, Llama
  <2>2. CASE SaleDeNew(t) \/ MarcaLlegada(t) \/ CedeElPaso(t) \/ Retoma(t)
      BY <1>1, <1>3, <2>1, <2>2 DEF Hilos, SaleDeNew, MarcaLlegada, CedeElPaso, Retoma
  <2>3. CASE Empieza(t) \/ Ciclo(t) \/ Arriba(t)
      BY <1>1, <1>3, <2>1, <2>3 DEF Hilos, Empieza, Ciclo, Arriba
  <2>4. CASE FinDeQuantum(t) \/ Suelta(t) \/ Canje(t)
    <3>1. CASE FinDeQuantum(t)
        BY <1>1, <1>3, <2>1, <3>1 DEF Hilos, FinDeQuantum, Cae, Muere
    <3>2. CASE Suelta(t)
        BY <1>1, <1>3, <2>1, <3>2 DEF Hilos, Suelta, Cae, Muere
    <3>3. CASE Canje(t)
      <4>1. UNCHANGED hilo \/ Sigue(t, "evalua")
          BY <3>3 DEF Canje, Cae, Muere
      <4>2. QED
          BY <1>1, <1>3, <2>1, <4>1 DEF Hilos
    <3>4. QED
        BY <2>4, <3>1, <3>2, <3>3
  <2>5. CASE Pide(t) \/ Cumple(t) \/ NoCumple(t)
      BY <1>1, <1>3, <2>1, <2>5 DEF Hilos, Pide, Cumple, NoCumple
  <2>6. CASE SaleDeBlock(t) \/ Sale(t) \/ Deadlock(t)
      BY <1>1, <1>3, <2>1, <2>6 DEF Hilos, SaleDeBlock, Sale, Deadlock
  <2>7. QED
      BY <2>2, <2>3, <2>4, <2>5, <2>6 DEF Corre
<1>5. \A u \in ENTRENADORES : sem'["block_catch"][u] = sem["block_catch"][u]
  <2>1. CASE UNCHANGED sem
      BY <2>1
  <2>2. CASE SaleDeNew(t) \/ Empieza(t) \/ Retoma(t) \/ SaleDeBlock(t)
    <3>1. \E k \in Semaforos \ {"block_catch"} : Espera(k, t)
        BY <2>2 DEF SaleDeNew, Empieza, Retoma, SaleDeBlock, Semaforos
    <3>2. QED
        BY <3>1, SemAjeno DEF Tipos
  <2>3. CASE Cumple(t)
    <3>1. UNCHANGED sem \/ (ent[t].mov = "RESOLUCION_DEADLOCK" /\ sem' = Con("block_ready", ent[t].socio))
        BY <2>3 DEF Cumple
    <3>2. ent[t].mov = "RESOLUCION_DEADLOCK" => ent[t].socio \in ENTRENADORES
        BY Campos DEF Tipos, Rutas, SocioSabido
    <3>3. QED
        BY <3>1, <3>2, SemAjeno DEF Tipos, Semaforos
  <2>4. CASE Deadlock(t)
    <3>1. UNCHANGED sem \/ (Pares # {} /\ Aparea(block[PrimerPar[1]], block[PrimerPar[2]]))
        BY <2>4 DEF Deadlock
    <3>2. CASE Pares # {} /\ Aparea(block[PrimerPar[1]], block[PrimerPar[2]])
      <4>1. sem' = Con("block_ready", block[PrimerPar[1]])
          BY <3>2 DEF Aparea
      <4>2. QED
          BY <3>2, <4>1, SemAjeno, ParTipo DEF Tipos, Semaforos
    <3>3. QED
        BY <3>1, <3>2
  <2>5. QED
      BY <2>1, <2>2, <2>3, <2>4
         DEF Corre, MarcaLlegada, FinDeQuantum, CedeElPaso, Ciclo, Arriba, Pide, Suelta, Canje,
             NoCumple, Sale, Cae, Muere
<1>6. QED
    BY <1>2, <1>3, <1>4, <1>5, Nombres DEF OtraCosa, Mueve

(* A planner.                                                              *)
LEMMA PlanificaOtraCosa ==
    ASSUME Tipos, NEW t \in ENTRENADORES, Planifica(t)
    PROVE  OtraCosa
<1>1. Hilos /\ t \in HILOS /\ hilo[t].vuelta # "esperaCatch"
    BY Nombres DEF Tipos, Rutas, Hilos, Vueltas
<1>2. /\ UNCHANGED <<catches, envio, waiting, perdidos>>
      /\ caida' = "no" => caida = "no"
      /\ hilo[t].pc # "esperaCatch"
    BY DEF Planifica, Mira, Elige, EligeYCae, Vuelve, Cae, Muere, En, correo
<1>3. Mueve(t)
  <2>1. UNCHANGED hilo \/ \E p : Sigue(t, p) /\ p # "esperaCatch"
      BY <1>1 DEF Planifica, Mira, Elige, EligeYCae, Vuelve, Cae, Muere
  <2>2. QED
      BY <1>1, <1>2, <2>1, MueveBien
<1>4. \A u \in ENTRENADORES : sem'["block_catch"][u] = sem["block_catch"][u]
  <2>1. CASE UNCHANGED sem
      BY <2>1
  <2>2. CASE Elige(t)
    <3>1. UNCHANGED sem \/ \E e \in ENTRENADORES, k \in Semaforos \ {"block_catch"} :
                             sem' = Con(k, e)
      <4>1. \A E : \A x \in Primeros(algoritmo, llegada, EnReady, E) : x \in ENTRENADORES
          BY DEF Primeros, MenorEstimado, EnReady
      <4>2. QED
          BY <2>2, <4>1 DEF Elige, Despacha, Expropia, NoExpropia, Despierta, Semaforos
    <3>2. QED
        BY <3>1, SemAjeno DEF Tipos
  <2>3. QED
      BY <2>1, <2>2 DEF Planifica, Mira, EligeYCae, Cae, Muere
<1>5. QED
    BY <1>2, <1>3, <1>4, Nombres DEF OtraCosa, Mueve

(* A step of algoritmo_de_cercania.                                        *)
LEMMA CercaniaOtraCosa ==
    ASSUME Tipos, NEW h \in HILOS, Cercania(h)
    PROVE  OtraCosa
<1>1. Hilos /\ hilo[h].vuelta # "esperaCatch"
    BY DEF Tipos, Rutas, Hilos, Vueltas
<1>2. /\ UNCHANGED <<catches, envio, waiting, perdidos, caida>>
      /\ hilo[h].pc # "esperaCatch"
    BY DEF Cercania, SinPokemons, Filtra, Asigna, TerminaCercania, En, correo
<1>3. Mueve(h)
  <2>1. hilo[h] \in [pc : Lugares, vuelta : Vueltas, tramo : Tramos, falta : Nat]
      BY <1>1 DEF Hilos
  <2>2. QED
    <3> USE <1>1, <1>2, <2>1 DEF Hilos, Mueve, Sigue
    <3>1. CASE SinPokemons(h)
        BY <3>1 DEF SinPokemons, TrasCercania
    <3>2. CASE Filtra(h) \/ Asigna(h)
        BY <3>2 DEF Filtra, Asigna
    <3>3. CASE TerminaCercania(h)
        BY <3>3 DEF TerminaCercania, TrasCercania
    <3>4. QED
        BY <3>1, <3>2, <3>3 DEF Cercania
<1>4. \A u \in ENTRENADORES : sem'["block_catch"][u] = sem["block_catch"][u]
  <2>1. UNCHANGED sem \/ \E e \in ENTRENADORES, k \in Semaforos \ {"block_catch"} :
                           sem' = Con(k, e)
    <3>1. \A p : MasCercanos(cerc.cands, p, ent) \subseteq ENTRENADORES
        BY DEF MasCercanos, Tipos, Reparto
    <3>2. QED
        BY <3>1 DEF Cercania, SinPokemons, Filtra, Asigna, TerminaCercania, Semaforos
  <2>2. QED
      BY <2>1, SemAjeno DEF Tipos
<1>5. QED
    BY <1>2, <1>3, <1>4, Nombres DEF OtraCosa, Mueve

(* An APPEARED or a LOCALIZED that arrives.                                *)
LEMMA RecibeOtraCosa ==
    ASSUME Tipos, NEW m \in entrantes, Recibe(m)
    PROVE  OtraCosa
<1>1. m.canal \in CANALES
    BY MensajesAssumption DEF Tipos, Correo
<1>2. UNCHANGED <<catches, envio, waiting, perdidos, caida, sem>>
    BY DEF Recibe, Appeared, Localized
<1>3. \A t \in ENTRENADORES : hilo'[t].pc = hilo[t].pc
  <2>1. UNCHANGED hilo \/ \E p, v : Llama(m.canal, p, v)
      BY DEF Recibe, Appeared, Localized
  <2>2. Hilos /\ \A t \in ENTRENADORES : t # m.canal /\ t \in HILOS
      BY <1>1, MensajesAssumption, Nombres DEF Tipos, Rutas
  <2>3. QED
      BY <2>1, <2>2 DEF Hilos, Llama
<1>4. QED
    BY <1>2, <1>3 DEF OtraCosa

(* The answer to a CATCH that is waited for: it was t's only one.          *)
LEMMA CaughtPokemonSem ==
    ASSUME Tipos, NEW t \in ENTRENADORES, NEW r \in {0, 1}, CaughtPokemon(t, r)
    PROVE  /\ UNCHANGED hilo /\ Sems'
           /\ \A u \in ENTRENADORES \ {t} : sem'["block_catch"][u] = sem["block_catch"][u]
           /\ \/ caida' # "no" /\ UNCHANGED sem
              \/ sem'["block_catch"][t] = sem["block_catch"][t] + 1
           /\ caida' = "no" => caida = "no"
<1>1. CASE \E m \in {"sin_entrenador", "sin_objetivo"} : Muere(m)
    BY <1>1 DEF Muere, Tipos, Sems
<1>2. CASE ~\E m \in {"sin_entrenador", "sin_objetivo"} : Muere(m)
  <2>1. sem' = Con("block_catch", t) /\ UNCHANGED <<hilo, caida>>
      BY <1>2 DEF CaughtPokemon
  <2>2. QED
      BY <2>1, ConTipo DEF Tipos, Semaforos
<1>3. QED
    BY <1>1, <1>2

(* The default when there is no Broker is the only answer.                 *)
LEMMA EnvioFallaPendientes ==
    ASSUME Tipos, Pendientes, NEW t \in ENTRENADORES, EnvioFalla(t)
    PROVE  Pendientes'
<1>1. /\ UNCHANGED hilo
      /\ \A u \in ENTRENADORES \ {t} : sem'["block_catch"][u] = sem["block_catch"][u]
      /\ \/ caida' # "no" /\ sem'["block_catch"][t] = sem["block_catch"][t]
         \/ sem'["block_catch"][t] = sem["block_catch"][t] + 1
      /\ caida' = "no" => caida = "no"
    BY CaughtPokemonSem DEF EnvioFalla
<1>2. /\ UNCHANGED <<catches, waiting, perdidos>>
      /\ envio[t].est # "no" /\ envio'[t].est = "no"
      /\ \A u \in ENTRENADORES \ {t} : envio'[u] = envio[u]
    BY DEF EnvioFalla, Tipos, Correo
<1>3. sem["block_catch"][t] \in Nat
    BY DEF Tipos, Sems, Semaforos
<1>4. /\ SinCatch(t)' /\ sem["block_catch"][t] = 0
      /\ hilo[t].pc = "esperaCatch"
    BY <1>2, <1>3 DEF Pendientes, UnCatch, SinCatch
<1>5. UnCatch(t)'
    BY <1>1, <1>2, <1>4 DEF UnCatch
<1>6. \A u \in ENTRENADORES \ {t} : UnCatch(u)'
    BY <1>1, <1>2 DEF Pendientes, UnCatch, SinCatch
<1>7. QED
    BY <1>2, <1>5, <1>6 DEF Pendientes

(* A trainer sends its CATCH, or wakes with the answer to it.              *)
LEMMA EnviaPendientes ==
    ASSUME Tipos, Pendientes, NEW t \in ENTRENADORES, Envia(t) \/ RecibeRespuesta(t)
    PROVE  Pendientes'
<1>1. Hilos /\ ENTRENADORES \subseteq HILOS /\ Sems
    BY Nombres DEF Tipos, Rutas
<1>2. UNCHANGED <<catches, waiting, perdidos, caida>>
      /\ \A u \in ENTRENADORES \ {t} : envio'[u] = envio[u]
    BY DEF Envia, RecibeRespuesta, correo, Tipos, Correo
<1>3. \A u \in ENTRENADORES \ {t} : hilo'[u].pc = hilo[u].pc
    BY <1>1 DEF Hilos, Envia, RecibeRespuesta, Sigue
<1>4. \A u \in ENTRENADORES \ {t} : sem'["block_catch"][u] = sem["block_catch"][u]
    BY <1>1, EsperaTipo DEF Envia, RecibeRespuesta, Semaforos
<1>5. \A u \in ENTRENADORES \ {t} : UnCatch(u)'
    BY <1>2, <1>3, <1>4 DEF Pendientes, UnCatch, SinCatch
<1>6. CASE Envia(t)
  <2>1. hilo[t].pc = "envia" /\ hilo'[t].pc = "esperaCatch" /\ UNCHANGED sem
        /\ envio'[t].est = "conecta"
      BY <1>1, <1>6 DEF Hilos, Envia, En, Sigue, Tipos, Correo
  <2>2. SinCatch(t) /\ sem["block_catch"][t] = 0
      BY <2>1 DEF Pendientes, UnCatch
  <2>3. UnCatch(t)'
      BY <1>2, <2>1, <2>2 DEF UnCatch, SinCatch
  <2>4. QED
      BY <1>2, <1>5, <2>3 DEF Pendientes
<1>7. CASE RecibeRespuesta(t)
  <2>1. hilo'[t].pc = "evalua" /\ UNCHANGED envio
      BY <1>1, <1>7 DEF Hilos, RecibeRespuesta, En, Sigue, correo
  <2>2. sem["block_catch"][t] > 0 /\ sem'["block_catch"][t] = sem["block_catch"][t] - 1
        /\ sem["block_catch"][t] \in Nat
      BY <1>1, <1>7, EsperaTipo DEF RecibeRespuesta, Semaforos, Sems
  <2>3. SinCatch(t) /\ sem["block_catch"][t] <= 1
      BY <2>2 DEF Pendientes, UnCatch
  <2>4. UnCatch(t)'
      BY <1>2, <2>1, <2>2, <2>3 DEF UnCatch, SinCatch
  <2>5. QED
      BY <1>2, <1>5, <2>4 DEF Pendientes
<1>8. QED
    BY <1>6, <1>7

(* The Broker gives the CATCH a new id.                                    *)
LEMMA BrokerPendientes ==
    ASSUME Tipos, Pendientes, NEW t \in ENTRENADORES, BrokerAcepta(t)
    PROVE  Pendientes'
<1> DEFINE n == Len(catches) + 1
<1>1. /\ n \in DOMAIN catches' /\ n \notin DOMAIN catches
      /\ catches'[n].tid = t /\ catches'[n].est = "pendiente"
      /\ \A i \in DOMAIN catches : i \in DOMAIN catches' /\ catches'[i] = catches[i]
  <2> DEFINE C == [tid : ENTRENADORES, est : {"pendiente", "contestada", "entregada"},
                   rta : {0, 1}]
             x == [tid |-> t, est |-> "pendiente", rta |-> 0]
  <2>1. catches \in Seq(C) /\ x \in C /\ catches' = Append(catches, x)
      BY DEF BrokerAcepta, Tipos, Correo
  <2>2. x.tid = t /\ x.est = "pendiente"
      OBVIOUS
  <2> HIDE DEF C, x
  <2>3. QED
      BY <2>1, <2>2, AppendProperties, DeSeq
<1>2. /\ UNCHANGED <<waiting, perdidos, caida, hilo, sem>>
      /\ waiting \subseteq DOMAIN catches
      /\ \A u \in ENTRENADORES : envio[u].est = "aceptado" => envio[u].id \in DOMAIN catches
      /\ envio[t].est = "conecta" /\ envio'[t] = [est |-> "aceptado", id |-> n]
      /\ \A u \in ENTRENADORES \ {t} : envio'[u] = envio[u]
    BY DEF BrokerAcepta, Tipos, Correo
<1> HIDE DEF n
<1>3. \A id \in waiting : catches'[id] = catches[id]
    BY <1>1, <1>2
<1>4. ASSUME NEW u \in ENTRENADORES \ {t}
      PROVE  UnCatch(u)'
  <2>1. SinCatch(u)' <=> SinCatch(u)
      BY <1>2, <1>3 DEF SinCatch
  <2>2. envio[u].est = "aceptado" => catches'[envio[u].id] = catches[envio[u].id]
                                     /\ envio[u].id \in DOMAIN catches'
      BY <1>1, <1>2
  <2>3. QED
      BY <1>2, <1>3, <2>1, <2>2 DEF Pendientes, UnCatch
<1>5. UnCatch(t)'
  <2>1. sem["block_catch"][t] \in Nat
      BY DEF Tipos, Sems, Semaforos
  <2>2. /\ hilo[t].pc = "esperaCatch" /\ sem["block_catch"][t] = 0
        /\ \A id \in waiting : catches[id].tid # t
      BY <1>2, <2>1 DEF Pendientes, UnCatch, SinCatch
  <2>3. envio'[t].est = "aceptado" /\ envio'[t].id = n
      BY <1>2
  <2>4. ~SinCatch(t)'
      BY <2>3 DEF SinCatch
  <2>5. QED
    <3>1. n \in DOMAIN catches' \ waiting' /\ catches'[n].tid = t
          /\ catches'[n].est # "entregada"
        BY <1>1, <1>2
    <3>2. \A id \in waiting' : catches'[id].tid # t
        BY <1>2, <1>3, <2>2
    <3>3. hilo'[t].pc = "esperaCatch" /\ sem'["block_catch"][t] = 0
        BY <1>2, <2>2
    <3>4. QED
      <4>1. /\ envio'[t].id \in DOMAIN catches' \ waiting'
            /\ catches'[envio'[t].id].tid = t
            /\ catches'[envio'[t].id].est # "entregada"
          BY <2>3, <3>1
      <4>2. QED
          BY <2>4, <3>2, <3>3, <4>1 DEF UnCatch
<1>6. QED
    BY <1>2, <1>3, <1>4, <1>5 DEF Pendientes

(* The id enters waiting_list, where its trainer had none.                 *)
LEMMA AnotaPendientes ==
    ASSUME Tipos, Pendientes, NEW t \in ENTRENADORES, AnotaId(t)
    PROVE  Pendientes'
<1> DEFINE n == envio[t].id
<1>1. /\ UNCHANGED <<catches, perdidos, caida, hilo, sem>>
      /\ waiting' = waiting \union {n}
      /\ envio[t].est = "aceptado" /\ envio'[t].est = "no"
      /\ \A u \in ENTRENADORES \ {t} : envio'[u] = envio[u]
    BY DEF AnotaId, Tipos, Correo
<1>2. /\ n \notin waiting /\ catches[n].tid = t
      /\ catches[n].est = "entregada" => n \in perdidos
      /\ \A id \in waiting : catches[id].tid # t
    BY <1>1 DEF Pendientes, UnCatch
<1> HIDE DEF n
<1>3. sem["block_catch"][t] \in Nat
    BY DEF Tipos, Sems, Semaforos
<1>4. hilo[t].pc = "esperaCatch" /\ sem["block_catch"][t] = 0
    BY <1>1, <1>3 DEF Pendientes, UnCatch, SinCatch
<1>5. UnCatch(t)'
    BY <1>1, <1>2, <1>4 DEF UnCatch, SinCatch
<1>6. ASSUME NEW u \in ENTRENADORES \ {t}
      PROVE  UnCatch(u)'
  <2>1. SinCatch(u)' <=> SinCatch(u)
      BY <1>1, <1>2 DEF SinCatch
  <2>2. envio[u].est = "aceptado" => envio[u].id # n
      BY <1>2 DEF Pendientes, UnCatch
  <2>3. QED
      BY <1>1, <1>2, <2>1, <2>2 DEF Pendientes, UnCatch
<1>7. QED
    BY <1>1, <1>2, <1>5, <1>6 DEF Pendientes

(* Gamecard answers: nobody is told yet.                                   *)
LEMMA GamecardPendientes ==
    ASSUME Tipos, Pendientes, NEW id \in DOMAIN catches, GamecardResponde(id)
    PROVE  Pendientes'
<1>1. /\ DOMAIN catches' = DOMAIN catches
      /\ \A i \in DOMAIN catches : catches'[i].tid = catches[i].tid
      /\ \A i \in DOMAIN catches : catches'[i].est = "entregada" => catches[i].est = "entregada"
  <2>1. \A i \in DOMAIN catches :
          catches[i] \in [tid : ENTRENADORES, est : {"pendiente", "contestada", "entregada"},
                          rta : {0, 1}]
      BY DeSeq DEF Tipos, Correo
  <2>2. QED
      BY <2>1 DEF GamecardResponde
<1>2. /\ UNCHANGED <<envio, waiting, perdidos, caida, hilo, sem>>
      /\ waiting \subseteq DOMAIN catches
      /\ \A u \in ENTRENADORES : envio[u].est = "aceptado" => envio[u].id \in DOMAIN catches
    BY DEF GamecardResponde, Tipos, Correo
<1>3. \A u \in ENTRENADORES : SinCatch(u)' <=> SinCatch(u)
    BY <1>1, <1>2 DEF SinCatch
<1>4. \A u \in ENTRENADORES : UnCatch(u)'
    BY <1>1, <1>2, <1>3 DEF Pendientes, UnCatch
<1>5. QED
    BY <1>1, <1>2, <1>4 DEF Pendientes

(* A CAUGHT wakes the trainer that waits for it, or finds no id.           *)
LEMMA CaughtPendientes ==
    ASSUME Tipos, Pendientes, NEW id \in DOMAIN catches, Caught(id)
    PROVE  Pendientes'
<1>1. \A i \in DOMAIN catches :
          catches[i] \in [tid : ENTRENADORES, est : {"pendiente", "contestada", "entregada"},
                          rta : {0, 1}]
    BY DeSeq DEF Tipos, Correo
<1> PICK t \in ENTRENADORES : t = catches[id].tid
    BY <1>1
<1>2. /\ DOMAIN catches' = DOMAIN catches
      /\ \A i \in DOMAIN catches : catches'[i].tid = catches[i].tid
      /\ \A i \in DOMAIN catches \ {id} : catches'[i] = catches[i]
    BY <1>1 DEF Caught
<1>3. /\ UNCHANGED envio /\ waiting' = waiting \ {id}
      /\ perdidos \subseteq perdidos'
      /\ waiting \subseteq DOMAIN catches
      /\ \A u \in ENTRENADORES : envio[u].est = "aceptado" => envio[u].id \in DOMAIN catches
      /\ catches[id].rta \in {0, 1}
    BY <1>1 DEF Caught, Tipos, Correo
<1>4. \A i \in waiting' \ perdidos' : catches'[i].est # "entregada"
    BY <1>2, <1>3 DEF Pendientes
<1>5. \A i, j \in waiting' : catches'[i].tid = catches'[j].tid => i = j
    BY <1>2, <1>3 DEF Pendientes
<1>6. CASE id \in waiting
  <2>1. CaughtPokemon(t, catches[id].rta) /\ UNCHANGED perdidos
      BY <1>6 DEF Caught
  <2>2. /\ UNCHANGED hilo
        /\ \A u \in ENTRENADORES \ {t} : sem'["block_catch"][u] = sem["block_catch"][u]
        /\ \/ caida' # "no" /\ sem'["block_catch"][t] = sem["block_catch"][t]
           \/ sem'["block_catch"][t] = sem["block_catch"][t] + 1
        /\ caida' = "no" => caida = "no"
      BY <1>3, <2>1, CaughtPokemonSem
  <2>3. sem["block_catch"][t] \in Nat
      BY <1>3 DEF Tipos, Sems, Semaforos
  <2>4. /\ envio[t].est = "no" /\ sem["block_catch"][t] = 0
        /\ hilo[t].pc = "esperaCatch"
      BY <1>3, <1>6, <2>3 DEF Pendientes, UnCatch, SinCatch
  <2>5. SinCatch(t)'
      BY <1>2, <1>3, <1>6, <2>4 DEF SinCatch, Pendientes
  <2>6. UnCatch(t)'
    <3>1. hilo'[t].pc = "esperaCatch" /\ envio'[t].est = "no"
          /\ \A i \in waiting' : catches'[i].tid # t
        BY <1>3, <2>2, <2>4, <2>5 DEF SinCatch
    <3>2. sem'["block_catch"][t] = 0 => caida' # "no"
        BY <2>2, <2>4
    <3>3. sem'["block_catch"][t] <= 1
        BY <2>2, <2>4
    <3>4. QED
        BY <2>5, <3>1, <3>2, <3>3 DEF UnCatch
  <2>7. ASSUME NEW u \in ENTRENADORES \ {t}
        PROVE  UnCatch(u)'
    <3>1. SinCatch(u)' <=> SinCatch(u)
        BY <1>2, <1>3, <2>7 DEF SinCatch
    <3>2. envio[u].est = "aceptado" => envio[u].id # id
        BY <1>6 DEF Pendientes, UnCatch
    <3>3. QED
        BY <1>2, <1>3, <2>1, <2>2, <3>1, <3>2 DEF Pendientes, UnCatch
  <2>8. QED
      BY <1>3, <1>4, <1>5, <2>6, <2>7 DEF Pendientes
<1>7. CASE id \notin waiting
  <2>1. /\ UNCHANGED <<hilo, sem, caida>>
        /\ envio[t].est = "aceptado" /\ envio[t].id = id => id \in perdidos'
      BY <1>7 DEF Caught
  <2>2. waiting' = waiting
      BY <1>3, <1>7
  <2>3. ASSUME NEW u \in ENTRENADORES
        PROVE  UnCatch(u)'
    <3>1. SinCatch(u)' <=> SinCatch(u)
        BY <1>2, <1>3, <2>2 DEF SinCatch
    <3>2. envio[u].est = "aceptado" /\ envio[u].id = id => u = t
        BY DEF Pendientes, UnCatch
    <3>3. QED
        BY <1>2, <1>3, <2>1, <2>2, <3>1, <3>2 DEF Pendientes, UnCatch
  <2>4. QED
      BY <1>4, <1>5, <2>3 DEF Pendientes
<1>8. QED
    BY <1>6, <1>7

(* Pendientes is inductive under Tipos.                                    *)
LEMMA PasoPendientes == Tipos /\ Pendientes /\ [Next]_vars => Pendientes'
<1> SUFFICES ASSUME Tipos, Pendientes, [Next]_vars PROVE Pendientes'
    OBVIOUS
<1>1. ASSUME NEW t \in ENTRENADORES, EntrenadorPaso(t)
      PROVE  Pendientes'
    BY <1>1, Nombres, EnviaPendientes, CorreOtraCosa, PlanificaOtraCosa, CercaniaOtraCosa,
       OtraCosaPendientes DEF EntrenadorPaso, Corre
<1>2. ASSUME NEW t \in ENTRENADORES, MensajePaso(t)
      PROVE  Pendientes'
    BY <1>2, EnvioFallaPendientes, BrokerPendientes, AnotaPendientes DEF MensajePaso
<1>3. ASSUME NEW c \in CANALES, Cercania(c)
      PROVE  Pendientes'
    BY <1>3, Nombres, CercaniaOtraCosa, OtraCosaPendientes
<1>4. ASSUME NEW m \in entrantes, Recibe(m)
      PROVE  Pendientes'
    BY <1>4, RecibeOtraCosa, OtraCosaPendientes
<1>5. ASSUME NEW id \in DOMAIN catches, GamecardResponde(id) \/ Caught(id)
      PROVE  Pendientes'
    BY <1>5, GamecardPendientes, CaughtPendientes
<1>6. CASE UNCHANGED vars
  <2>1. OtraCosa
      BY <1>6 DEF OtraCosa, vars, correo
  <2>2. QED
      BY <2>1, OtraCosaPendientes
<1>7. QED
    BY <1>1, <1>2, <1>3, <1>4, <1>5, <1>6 DEF Next

(* At the start there is no CATCH.                                         *)
LEMMA InicioPendientes == Init => Pendientes
BY Nombres DEF Init, Pendientes, UnCatch, SinCatch, Semaforos

(* What a run checks of each CATCH, from what is known of it.              *)
LEMMA PendientesEsperado == Tipos /\ Pendientes => CatchEsperado
<1> SUFFICES ASSUME Tipos, Pendientes PROVE CatchEsperado
    OBVIOUS
<1>1. ASSUME NEW t \in ENTRENADORES
      PROVE  Cardinality(SuyosEn(t, waiting)) <= 1
  <2> DEFINE S == SuyosEn(t, waiting)
  <2>1. \A i, j \in S : i = j
      BY DEF Pendientes, SuyosEn
  <2>2. CASE S = {}
      BY <2>2, FS_EmptySet
  <2>3. CASE S # {}
    <3>1. PICK i \in S : TRUE
        BY <2>3
    <3>2. S = {i}
        BY <2>1, <3>1
    <3> HIDE DEF S
    <3>3. Cardinality(S) = 1
        BY <3>2, FS_Singleton
    <3>4. QED
        BY <3>3 DEF S
  <2>4. QED
      BY <2>2, <2>3
<1>2. ASSUME NEW t \in ENTRENADORES, En(t, "esperaCatch"), sem["block_catch"][t] = 0
      PROVE  envio[t].est # "no" \/ SuyosEn(t, waiting) # {}
    BY <1>2 DEF En, Pendientes, UnCatch, SinCatch, SuyosEn
<1>3. QED
    BY <1>1, <1>2 DEF CatchEsperado, Pendientes

(* A trainer that waits for the answer to its CATCH is owed one, and one   *)
(* only: its thread is still talking to the Broker or its id, once, is in  *)
(* waiting_list, and only an answer that overtook its id has been lost.    *)
THEOREM CadaCatchSeEspera == Spec => []CatchEsperado
<1>1. Init => Tipos /\ Pendientes
    BY InicioTipos, InicioPendientes
<1>2. Tipos /\ Pendientes /\ [Next]_vars => Tipos' /\ Pendientes'
    BY PasoTipos, PasoPendientes
<1>3. Spec => [](Tipos /\ Pendientes)
    BY <1>1, <1>2, PTL DEF Spec
<1>4. QED
    BY <1>3, PendientesEsperado, PTL

-----------------------------------------------------------------------------
(* The processor, with sjf_sd_planner.                                     *)

\* A trainer may be where it was, away from the processor, or go on running.
Aparte(t) ==
    \/ hilo'[t] = hilo[t]
    \/ /\ ~Corriendo(t)
       /\ hilo'[t].pc \notin {"anda", "ciclo", "suelta", "elige", "esperaCd"}
       /\ hilo'[t].vuelta # "esperaCd"
    \/ /\ Corriendo(t) /\ hilo'[t].pc \in {"anda", "suelta"}
       /\ hilo'[t].vuelta = hilo[t].vuelta

\* Nobody wakes t up to run.
MismoTurno(t) ==
    /\ sem'["ready_exec"][t] = sem["ready_exec"][t]
    /\ sem'["ready_exec_cd"][t] = sem["ready_exec_cd"][t]

\* What has nothing to do with the processor.
SinTurno ==
    /\ UNCHANGED <<algoritmo, exec, mPlan>>
    /\ caida' = caida \/ caida' \notin {"ready_vacia", "exec_vacia"}
    /\ HayReady => HayReady'
    /\ \A t \in ENTRENADORES : MismoTurno(t) /\ Aparte(t)

(* It leaves the processor as it was.                                      *)
LEMMA SinTurnoProcesador ==
    ASSUME Procesador, SinTurno
    PROVE  Procesador'
<1> SUFFICES ASSUME algoritmo = "SJF_SD" PROVE Procesador'
    BY DEF SinTurno, Procesador, SinListaVacia
<1>1. SinListaVacia'
    BY DEF Procesador, SinTurno, SinListaVacia
<1>2. ASSUME NEW t \in ENTRENADORES
      PROVE  Turno(t)'
  <2>1. Turno(t) /\ Aparte(t) /\ MismoTurno(t)
      BY DEF Procesador, SinTurno
  <2>2. Corriendo(t)' <=> Corriendo(t)
      BY <2>1 DEF Aparte, Corriendo
  <2>3. hilo'[t].pc = "elige" => hilo[t].pc = "elige"
      BY <2>1 DEF Aparte
  <2>4. hilo'[t].pc \notin {"esperaCd", "ciclo"} /\ hilo'[t].vuelta # "esperaCd"
      BY <2>1 DEF Aparte, Turno
  <2>5. QED
      BY <2>1, <2>2, <2>3, <2>4 DEF SinTurno, MismoTurno, Turno
<1>3. QED
    BY <1>1, <1>2 DEF SinTurno, Procesador

(* The other three semaphores wake nobody who would run.                   *)
LEMMA SemSinTurno ==
    ASSUME Sems, NEW t \in ENTRENADORES, NEW k \in Semaforos \ {"ready_exec", "ready_exec_cd"},
           sem' = Con(k, t) \/ Espera(k, t)
    PROVE  \A u \in ENTRENADORES : MismoTurno(u)
BY ConTipo, EsperaTipo DEF Semaforos, MismoTurno

(* A trainer more in Ready.                                                *)
LEMMA MasReady ==
    ASSUME Listas, NEW t \in ENTRENADORES, ready' = [ready EXCEPT ![t] = @ + 1]
    PROVE  HayReady => HayReady'
BY DEF Listas, HayReady

(* A thread that is told to go where nobody runs or plans.                 *)
LEMMA LlamaAparte ==
    ASSUME Hilos, NEW h \in HILOS,
           \/ UNCHANGED hilo
           \/ \E p, v : /\ Llama(h, p, v) \/ (v = hilo[h].vuelta /\ Sigue(h, p))
                        /\ p \notin {"anda", "ciclo", "suelta", "elige", "esperaCd"}
                        /\ v # "esperaCd" /\ ~Corriendo(h)
    PROVE  \A t \in ENTRENADORES : Aparte(t)
<1>1. CASE UNCHANGED hilo
    BY <1>1 DEF Aparte
<1>2. ASSUME NEW p, NEW v, Llama(h, p, v) \/ (v = hilo[h].vuelta /\ Sigue(h, p)),
             p \notin {"anda", "ciclo", "suelta", "elige", "esperaCd"}, v # "esperaCd",
             ~Corriendo(h)
      PROVE  \A t \in ENTRENADORES : Aparte(t)
  <2>1. /\ hilo'[h].pc = p /\ hilo'[h].vuelta = v
        /\ \A g \in HILOS \ {h} : hilo'[g] = hilo[g]
      BY <1>2 DEF Hilos, Llama, Sigue
  <2>2. QED
      BY <1>2, <2>1, Nombres DEF Aparte
<1>3. QED
    BY <1>1, <1>2

(* A trainer that neither takes nor leaves the processor.                  *)
LEMMA CorreSinTurno ==
    ASSUME Tipos, Procesador, algoritmo = "SJF_SD", NEW t \in ENTRENADORES, Corre(t),
           ~Empieza(t), ~Suelta(t), ~Canje(t)
    PROVE  SinTurno
<1>1. /\ Hilos /\ t \in HILOS /\ hilo[t].vuelta # "esperaCd"
      /\ hilo[t].pc \notin {"esperaCd", "ciclo"}
    BY Nombres DEF Tipos, Rutas, Procesador, Turno
<1>2. ~FinDeQuantum(t) /\ ~CedeElPaso(t) /\ ~Retoma(t)
    BY <1>1 DEF FinDeQuantum, CedeElPaso, Retoma, QuantumCumplido, Desalojado, En
<1>3. UNCHANGED <<algoritmo, exec, mPlan, caida>>
    BY <1>2 DEF Corre, SaleDeNew, MarcaLlegada, Ciclo, Arriba, Pide, Envia, RecibeRespuesta,
       Cumple, NoCumple, SaleDeBlock, Sale, Deadlock, listas
<1>4. ASSUME NEW u \in ENTRENADORES
      PROVE  Aparte(u)
  <2>1. CASE Ciclo(t) \/ Arriba(t) \/ Pide(t)
    <3>1. /\ hilo[t].pc = "anda" /\ hilo'[t].pc \in {"anda", "suelta"}
          /\ hilo'[t].vuelta = hilo[t].vuelta
          /\ \A g \in HILOS \ {t} : hilo'[g] = hilo[g]
      <4>1. hilo[t].pc = "anda"
          BY <1>1, <2>1 DEF Ciclo, Arriba, Pide, PuedeCiclo, En
      <4>2. CASE Ciclo(t)
          BY <1>1, <4>1, <4>2 DEF Hilos, Ciclo
      <4>3. CASE Arriba(t)
          BY <1>1, <4>1, <4>3 DEF Hilos, Arriba
      <4>4. CASE Pide(t)
          BY <1>1, <4>1, <4>4 DEF Hilos, Pide, Sigue
      <4>5. QED
          BY <2>1, <4>2, <4>3, <4>4
    <3>2. QED
        BY <1>1, <3>1, Nombres DEF Aparte, Corriendo
  <2>2. CASE ~(Ciclo(t) \/ Arriba(t) \/ Pide(t))
    <3>0. ~Corriendo(t)
        BY <1>2, <2>2 DEF Corriendo, Corre, En, SaleDeNew, MarcaLlegada, Envia, RecibeRespuesta,
           Cumple, NoCumple, SaleDeBlock, Sale, Deadlock
    <3>1. \E p, v : /\ Llama(t, p, v) \/ (v = hilo[t].vuelta /\ Sigue(t, p))
                    /\ p \notin {"anda", "ciclo", "suelta", "elige", "esperaCd"}
                    /\ v # "esperaCd" /\ ~Corriendo(t)
      <4>1. CASE Sale(t) \/ NoCumple(t) \/ MarcaLlegada(t)
          BY <3>0, <4>1 DEF Sale, NoCumple, MarcaLlegada
      <4>2. CASE Deadlock(t)
        <5>1. \E p \in {"mira", hilo[t].vuelta} : Sigue(t, p)
            BY <4>2 DEF Deadlock
        <5>2. hilo[t].vuelta \in Vueltas
            BY <1>1 DEF Hilos
        <5>3. QED
            BY <1>1, <3>0, <5>1, <5>2 DEF Vueltas
      <4>3. CASE ~(Sale(t) \/ NoCumple(t) \/ MarcaLlegada(t) \/ Deadlock(t))
        <5>1. \E p \in {"llega", "esperaCatch", "evalua", "sale"} : Sigue(t, p)
            BY <1>2, <2>2, <4>3 DEF Corre, SaleDeNew, Envia, RecibeRespuesta, Cumple, SaleDeBlock
        <5>2. QED
            BY <1>1, <3>0, <5>1
      <4>4. QED
          BY <4>1, <4>2, <4>3
    <3>2. QED
        BY <1>1, <3>1, LlamaAparte
  <2>3. QED
      BY <2>1, <2>2
<1>5. \A u \in ENTRENADORES : MismoTurno(u)
  <2>1. CASE UNCHANGED sem
      BY <2>1 DEF MismoTurno
  <2>2. CASE SaleDeNew(t) \/ RecibeRespuesta(t) \/ SaleDeBlock(t)
    <3>1. \E k \in Semaforos \ {"ready_exec", "ready_exec_cd"} : Espera(k, t)
        BY <2>2 DEF SaleDeNew, RecibeRespuesta, SaleDeBlock, Semaforos
    <3>2. QED
        BY <3>1, SemSinTurno DEF Tipos
  <2>3. CASE Cumple(t)
    <3>1. \/ UNCHANGED sem
          \/ ent[t].mov = "RESOLUCION_DEADLOCK" /\ sem' = Con("block_ready", ent[t].socio)
        BY <2>3 DEF Cumple
    <3>2. ent[t].mov = "RESOLUCION_DEADLOCK" => ent[t].socio \in ENTRENADORES
        BY Campos DEF Tipos, Rutas, SocioSabido
    <3>3. QED
        BY <3>1, <3>2, SemSinTurno DEF Tipos, Semaforos, MismoTurno
  <2>4. CASE Deadlock(t) /\ Pares # {}
    <3>1. sem' = Con("block_ready", block[PrimerPar[1]])
        BY <2>4 DEF Deadlock, Aparea
    <3>2. QED
        BY <2>4, <3>1, SemSinTurno, ParTipo DEF Tipos, Semaforos
  <2>5. QED
      BY <1>2, <2>1, <2>2, <2>3, <2>4
         DEF Corre, MarcaLlegada, Ciclo, Arriba, Pide, Envia, NoCumple, Sale, Deadlock
<1>6. HayReady => HayReady'
  <2>1. CASE UNCHANGED ready
      BY <2>1 DEF HayReady
  <2>2. CASE Deadlock(t) /\ Pares # {}
    <3>1. ready' = [ready EXCEPT ![block[PrimerPar[1]]] = @ + 1]
        BY <2>2 DEF Deadlock, Aparea
    <3>2. QED
        BY <2>2, <3>1, MasReady, ParTipo DEF Tipos
  <2>3. QED
      BY <1>2, <2>1, <2>2
         DEF Corre, SaleDeNew, MarcaLlegada, Ciclo, Arriba, Pide, Envia, RecibeRespuesta,
             Cumple, NoCumple, SaleDeBlock, Sale, Deadlock, listas
<1>7. QED
    BY <1>3, <1>4, <1>5, <1>6 DEF SinTurno

(* algoritmo_de_cercania only adds to Ready.                               *)
LEMMA CercaniaSinTurno ==
    ASSUME Tipos, NEW h \in HILOS, Cercania(h)
    PROVE  SinTurno
<1>1. Hilos
    BY DEF Tipos, Rutas
<1>2. UNCHANGED <<algoritmo, exec, mPlan, caida>>
    BY DEF Cercania, SinPokemons, Filtra, Asigna, TerminaCercania, listas
<1>3. hilo[h].vuelta # "esperaCd" /\ hilo[h].vuelta \in Vueltas
    BY <1>1 DEF Hilos, Tipos, Rutas, LeFalta, Cercania, SinPokemons, Filtra, Asigna,
       TerminaCercania, En
<1>3a. ~Corriendo(h)
    BY DEF Corriendo, Cercania, SinPokemons, Filtra, Asigna, TerminaCercania, En
<1>4. \A u \in ENTRENADORES : Aparte(u)
  <2>1. UNCHANGED hilo \/ \E p \in {"reparte", "mira", hilo[h].vuelta} : Sigue(h, p)
      BY DEF Cercania, SinPokemons, Filtra, Asigna, TerminaCercania, TrasCercania
  <2>2. QED
      BY <1>1, <1>3, <1>3a, <2>1, LlamaAparte DEF Vueltas
<1>5. CASE UNCHANGED <<ready, sem>>
    BY <1>2, <1>4, <1>5 DEF SinTurno, MismoTurno, HayReady
<1>6. CASE ~UNCHANGED <<ready, sem>>
  <2>1. PICK c \in ENTRENADORES, k \in Semaforos \ {"ready_exec", "ready_exec_cd"} :
            ready' = [ready EXCEPT ![c] = @ + 1] /\ sem' = Con(k, c)
    <3>1. \A p : MasCercanos(cerc.cands, p, ent) \subseteq ENTRENADORES
        BY DEF MasCercanos, Tipos, Reparto
    <3>2. Asigna(h)
        BY <1>6 DEF Cercania, SinPokemons, Filtra, TerminaCercania, listas
    <3>3. QED
        BY <1>6, <3>1, <3>2 DEF Asigna, Semaforos
  <2>2. QED
      BY <1>2, <1>4, <2>1, MasReady, SemSinTurno DEF SinTurno, Tipos
<1>7. QED
    BY <1>5, <1>6

(* An APPEARED or a LOCALIZED touches neither list.                        *)
LEMMA RecibeSinTurno ==
    ASSUME Tipos, NEW m \in entrantes, Recibe(m)
    PROVE  SinTurno
<1>1. m.canal \in CANALES
    BY MensajesAssumption DEF Tipos, Correo
<1>2. UNCHANGED <<algoritmo, exec, mPlan, caida, sem, ready>>
    BY DEF Recibe, Appeared, Localized, listas
<1>3. \A t \in ENTRENADORES : hilo'[t] = hilo[t]
  <2>1. UNCHANGED hilo \/ \E p, v : Llama(m.canal, p, v)
      BY DEF Recibe, Appeared, Localized
  <2>2. Hilos /\ \A t \in ENTRENADORES : t # m.canal /\ t \in HILOS
      BY <1>1, MensajesAssumption, Nombres DEF Tipos, Rutas
  <2>3. QED
      BY <2>1, <2>2 DEF Hilos, Llama
<1>4. QED
    BY <1>2, <1>3 DEF SinTurno, MismoTurno, Aparte, HayReady

(* Nor does the answer to a CATCH.                                         *)
LEMMA CaughtPokemonSinTurno ==
    ASSUME Tipos, NEW t \in ENTRENADORES, NEW r, CaughtPokemon(t, r)
    PROVE  SinTurno
<1>1. UNCHANGED <<algoritmo, exec, mPlan, hilo, ready>>
    BY DEF CaughtPokemon, Muere, listas
<1>2. /\ caida' = caida \/ caida' \notin {"ready_vacia", "exec_vacia"}
      /\ sem' = sem \/ sem' = Con("block_catch", t)
    BY DEF CaughtPokemon, Muere
<1>3. \A u \in ENTRENADORES : MismoTurno(u)
    BY <1>2, SemSinTurno DEF Tipos, Semaforos, MismoTurno
<1>4. QED
    BY <1>1, <1>2, <1>3 DEF SinTurno, Aparte, HayReady

(* Nor does what is sent and received for a CATCH.                         *)
LEMMA CorreoSinTurno ==
    ASSUME Tipos,
           \/ \E t \in ENTRENADORES : MensajePaso(t)
           \/ \E id \in DOMAIN catches : GamecardResponde(id) \/ Caught(id)
    PROVE  SinTurno
<1>1. CASE UNCHANGED <<algoritmo, caida, hilo, listas, sem, mPlan>>
    BY <1>1 DEF SinTurno, MismoTurno, Aparte, HayReady, listas
<1>2. CASE \E t \in ENTRENADORES : \E r : CaughtPokemon(t, r)
    BY <1>2, CaughtPokemonSinTurno
<1>3. \A id \in DOMAIN catches : catches[id].tid \in ENTRENADORES
  <2>1. \A id \in DOMAIN catches :
          catches[id] \in [tid : ENTRENADORES, est : {"pendiente", "contestada", "entregada"},
                          rta : {0, 1}]
      BY DeSeq DEF Tipos, Correo
  <2>2. QED
      BY <2>1
<1>4. QED
    BY <1>1, <1>2, <1>3
       DEF MensajePaso, EnvioFalla, BrokerAcepta, AnotaId, GamecardResponde, Caught

(* A planner takes the mutex: it will find what it has seen.               *)
LEMMA MiraProcesador ==
    ASSUME Tipos, Procesador, algoritmo = "SJF_SD", NEW t \in ENTRENADORES, Mira(t)
    PROVE  Procesador'
<1>1. /\ Hilos /\ t \in HILOS /\ hilo[t].vuelta \in Vueltas /\ hilo[t].vuelta # "esperaCd"
      /\ mPlan = NULL /\ \A u \in ENTRENADORES : Turno(u)
    BY Nombres DEF Tipos, Rutas, Hilos, Procesador, Turno, Mira, EsSJF
<1>2. UNCHANGED <<algoritmo, caida, exec, ready, sem>>
    BY DEF Mira, listas
<1>3. CASE ~(HayReady /\ exec = <<>>)
  <2>1. UNCHANGED mPlan /\ Sigue(t, hilo[t].vuelta)
      BY <1>3 DEF Mira
  <2>2. \A u \in ENTRENADORES : Aparte(u)
    <3>1. ~Corriendo(t)
        BY DEF Mira, En, Corriendo
    <3>2. QED
        BY <1>1, <2>1, <3>1, LlamaAparte DEF Vueltas
  <2>3. QED
      BY <1>2, <2>1, <2>2, SinTurnoProcesador DEF SinTurno, MismoTurno, HayReady
<1>4. CASE HayReady /\ exec = <<>>
  <2>1. mPlan' = t /\ Sigue(t, "elige")
      BY <1>4 DEF Mira, EsSJF
  <2>2. /\ hilo'[t].pc = "elige" /\ hilo'[t].vuelta = hilo[t].vuelta
        /\ \A u \in ENTRENADORES \ {t} : hilo'[u] = hilo[u]
      BY <1>1, <2>1, Nombres DEF Hilos, Sigue
  <2>3. HayReady'
      BY <1>2, <1>4 DEF HayReady
  <2>4. Turno(t)'
      BY <1>1, <1>2, <1>4, <2>1, <2>2, <2>3 DEF Turno, Corriendo
  <2>5. ASSUME NEW u \in ENTRENADORES \ {t}
        PROVE  Turno(u)'
    <3>1. hilo[u].pc # "elige"
        BY <1>1, Nombres DEF Turno
    <3>2. QED
        BY <1>1, <1>2, <2>2, <3>1 DEF Turno, Corriendo
  <2>6. QED
      BY <1>2, <2>4, <2>5 DEF Procesador, SinListaVacia
<1>5. QED
    BY <1>3, <1>4

(* It wakes the trainer it puts in Exec, and nobody else.                  *)
LEMMA EligeProcesador ==
    ASSUME Tipos, Procesador, algoritmo = "SJF_SD", NEW t \in ENTRENADORES, Elige(t)
    PROVE  Procesador'
<1>1. /\ Hilos /\ t \in HILOS /\ hilo[t].vuelta \in Vueltas /\ hilo[t].vuelta # "esperaCd"
      /\ mPlan = t /\ exec = <<>> /\ \A u \in ENTRENADORES : Turno(u)
    BY Nombres DEF Tipos, Rutas, Hilos, Procesador, Turno, Elige, En
<1>2. PICK e \in ENTRENADORES : exec' = <<e>> /\ sem' = Con("ready_exec", e)
  <2>1. \A E : \A x \in Primeros(algoritmo, llegada, EnReady, E) : x \in ENTRENADORES
      BY DEF Primeros, MenorEstimado, EnReady
  <2>2. PICK e \in ENTRENADORES : Despacha(e, EstimadosAlDia)
    <3>1. PICK e \in Primeros(algoritmo, llegada, EnReady, EstimadosAlDia) :
              IF algoritmo = "SJF_CD" /\ exec # <<>>
              THEN Expropia(e, EstimadosAlDia) \/ NoExpropia(e, EstimadosAlDia)
              ELSE Despacha(e, EstimadosAlDia)
        BY DEF Elige
    <3>2. Despacha(e, EstimadosAlDia)
        BY <3>1
    <3>3. e \in ENTRENADORES
        BY <2>1, <3>1
    <3>4. QED
        BY <3>2, <3>3
  <2>3. Append(<<>>, e) = <<e>>
      BY <2>2
  <2>4. QED
      BY <1>1, <2>2, <2>3 DEF Despacha, Despierta
<1>3. UNCHANGED <<algoritmo, caida>> /\ Sigue(t, hilo[t].vuelta)
    BY DEF Elige, Vuelve
<1>4. /\ sem'["ready_exec"][e] = sem["ready_exec"][e] + 1
      /\ \A u \in ENTRENADORES \ {e} : sem'["ready_exec"][u] = sem["ready_exec"][u]
      /\ sem["ready_exec"] \in [ENTRENADORES -> Nat]
      /\ \A u \in ENTRENADORES : sem'["ready_exec_cd"][u] = sem["ready_exec_cd"][u]
    BY <1>2, ConTipo DEF Tipos, Sems, Semaforos
<1>5. /\ hilo'[t].pc = hilo[t].vuelta /\ hilo'[t].vuelta = hilo[t].vuelta
      /\ \A u \in ENTRENADORES \ {t} : hilo'[u] = hilo[u]
    BY <1>1, <1>3, Nombres DEF Hilos, Sigue
<1>6. ASSUME NEW u \in ENTRENADORES
      PROVE  Turno(u)'
  <2>1. exec # <<u>>
      BY <1>1
  <2>2. ~Corriendo(u) /\ sem["ready_exec"][u] = 0
      BY <1>1, <1>4, <2>1 DEF Turno
  <2>3. hilo'[u].pc # "elige"
      BY <1>1, <1>5 DEF Turno, Vueltas
  <2>4. ~Corriendo(u)' /\ hilo'[u].pc \notin {"esperaCd", "ciclo"} /\ hilo'[u].vuelta # "esperaCd"
      BY <1>1, <1>5, <2>2 DEF Turno, Vueltas, Corriendo
  <2>5. sem'["ready_exec"][u] <= 1 /\ (sem'["ready_exec"][u] > 0 <=> u = e)
      BY <1>4, <2>2
  <2>6. exec' = <<u>> <=> u = e
      BY <1>2
  <2>7. sem'["ready_exec_cd"][u] = 0
      BY <1>1, <1>4 DEF Turno
  <2>8. QED
      BY <2>3, <2>4, <2>5, <2>6, <2>7 DEF Turno
<1>7. QED
    BY <1>2, <1>3, <1>6 DEF Procesador, SinListaVacia

(* The only crash of a planner is the missing time.                        *)
LEMMA EligeYCaeProcesador ==
    ASSUME Tipos, Procesador, algoritmo = "SJF_SD", NEW t \in ENTRENADORES, EligeYCae(t)
    PROVE  Procesador'
<1>1. HayReady
    BY DEF EligeYCae, Procesador, Turno, En
<1>2. Cae("hora")
    BY <1>1 DEF EligeYCae
<1>3. QED
    BY <1>2, SinTurnoProcesador DEF Cae, Muere, SinTurno, MismoTurno, Aparte, HayReady, listas

(* The trainer that was woken runs.                                        *)
LEMMA EmpiezaProcesador ==
    ASSUME Tipos, Procesador, algoritmo = "SJF_SD", NEW t \in ENTRENADORES, Empieza(t)
    PROVE  Procesador'
<1>1. Hilos /\ t \in HILOS /\ \A u \in ENTRENADORES : Turno(u)
    BY Nombres DEF Tipos, Rutas, Procesador
<1>2. UNCHANGED <<algoritmo, caida, exec, ready, mPlan>>
    BY DEF Empieza, listas
<1>3. /\ sem["ready_exec"][t] > 0 /\ sem'["ready_exec"][t] = sem["ready_exec"][t] - 1
      /\ \A u \in ENTRENADORES \ {t} : sem'["ready_exec"][u] = sem["ready_exec"][u]
      /\ sem["ready_exec"] \in [ENTRENADORES -> Nat]
      /\ \A u \in ENTRENADORES : sem'["ready_exec_cd"][u] = sem["ready_exec_cd"][u]
    BY EsperaTipo DEF Empieza, Tipos, Sems, Semaforos
<1>4. exec = <<t>> /\ sem'["ready_exec"][t] = 0
    BY <1>1, <1>3 DEF Turno
<1>5. /\ hilo'[t].pc = "anda" /\ hilo'[t].vuelta = hilo[t].vuelta
      /\ \A u \in ENTRENADORES \ {t} : hilo'[u] = hilo[u]
    BY <1>1, Nombres DEF Empieza, Hilos
<1>6. Turno(t)'
    BY <1>1, <1>2, <1>3, <1>4, <1>5 DEF Turno, Corriendo
<1>7. ASSUME NEW u \in ENTRENADORES \ {t}
      PROVE  Turno(u)'
    BY <1>1, <1>2, <1>3, <1>4, <1>5 DEF Turno, Corriendo, HayReady
<1>8. QED
    BY <1>2, <1>6, <1>7 DEF Procesador, SinListaVacia

(* The trainer that runs is the one it takes out of Exec by position.      *)
LEMMA DejaProcesador ==
    ASSUME Tipos, Procesador, algoritmo = "SJF_SD", NEW t \in ENTRENADORES,
           Suelta(t) \/ Canje(t)
    PROVE  Procesador'
<1>1. Hilos /\ t \in HILOS /\ \A u \in ENTRENADORES : Turno(u)
    BY Nombres DEF Tipos, Rutas, Procesador
<1>2. Corriendo(t)
    BY DEF Suelta, Canje, En, Corriendo
<1>3. exec = <<t>> /\ sem["ready_exec"][t] = 0
    BY <1>1, <1>2 DEF Turno
<1>4. Tail(exec) = <<>> /\ exec # <<>>
    BY <1>3
<1>5. CASE Cae("canje")
    BY <1>5, SinTurnoProcesador DEF Cae, Muere, SinTurno, MismoTurno, Aparte, HayReady, listas
<1>6. CASE ~Cae("canje")
  <2>1. /\ exec' = <<>> /\ UNCHANGED <<algoritmo, caida, ready, sem, mPlan>>
        /\ \/ \E p \in {"mira", "cercania"} : Llama(t, p, "envia")
           \/ Sigue(t, "evalua")
      BY <1>4, <1>6 DEF Suelta, Canje
  <2>2. /\ hilo'[t].pc \in {"mira", "cercania", "evalua"} 
        /\ hilo'[t].vuelta \in {"envia", hilo[t].vuelta}
        /\ \A u \in ENTRENADORES \ {t} : hilo'[u] = hilo[u]
      BY <1>1, <2>1, Nombres DEF Hilos, Sigue, Llama
  <2>3. Turno(t)'
      BY <1>1, <1>3, <2>1, <2>2 DEF Turno, Corriendo
  <2>4. ASSUME NEW u \in ENTRENADORES \ {t}
        PROVE  Turno(u)'
    <3>1. exec # <<u>> /\ exec # <<>>
        BY <1>3
    <3>2. QED
        BY <1>1, <2>1, <2>2, <3>1 DEF Turno, Corriendo
  <2>5. QED
      BY <2>1, <2>3, <2>4 DEF Procesador, SinListaVacia
<1>7. QED
    BY <1>5, <1>6

(* The planner of a Team is the one of its configuration.                  *)
LEMMA SinCambioDeAlgoritmo == [Next]_vars => UNCHANGED algoritmo
<1>1. ASSUME NEW t \in ENTRENADORES, Corre(t)
      PROVE  UNCHANGED algoritmo
  <2>1. CASE FinDeQuantum(t)
      BY <2>1 DEF FinDeQuantum, Cae, Muere
  <2>2. CASE Suelta(t)
      BY <2>2 DEF Suelta, Cae, Muere
  <2>3. CASE Canje(t)
      BY <2>3 DEF Canje, Cae, Muere
  <2>4. CASE Cumple(t)
      BY <2>4 DEF Cumple
  <2>5. CASE ~(FinDeQuantum(t) \/ Suelta(t) \/ Canje(t) \/ Cumple(t))
      BY <1>1, <2>5 DEF Corre, SaleDeNew, MarcaLlegada, Empieza, CedeElPaso, Retoma, Ciclo,
         Arriba, Pide, Envia, RecibeRespuesta, NoCumple, SaleDeBlock, Sale, Deadlock
  <2>6. QED
      BY <2>1, <2>2, <2>3, <2>4, <2>5
<1>2. \A t \in ENTRENADORES : Planifica(t) => UNCHANGED algoritmo
    BY DEF Planifica, Mira, Elige, EligeYCae, Vuelve, Cae, Muere
<1>3. \A h : Cercania(h) => UNCHANGED algoritmo
    BY DEF Cercania, SinPokemons, Filtra, Asigna, TerminaCercania
<1>4. \A t, r : CaughtPokemon(t, r) => UNCHANGED algoritmo
    BY DEF CaughtPokemon, Muere
<1>5. \A t \in ENTRENADORES : MensajePaso(t) => UNCHANGED algoritmo
    BY <1>4 DEF MensajePaso, EnvioFalla, BrokerAcepta, AnotaId
<1>6. \A id \in DOMAIN catches : GamecardResponde(id) \/ Caught(id) => UNCHANGED algoritmo
    BY <1>4 DEF GamecardResponde, Caught
<1>7. \A m \in entrantes : Recibe(m) => UNCHANGED algoritmo
    BY DEF Recibe, Appeared, Localized
<1>8. UNCHANGED vars => UNCHANGED algoritmo
    BY DEF vars
<1>9. QED
    BY <1>1, <1>2, <1>3, <1>5, <1>6, <1>7, <1>8 DEF Next, EntrenadorPaso

(* Procesador is inductive under Tipos.                                    *)
LEMMA PasoProcesador == Tipos /\ Procesador /\ [Next]_vars => Procesador'
<1> SUFFICES ASSUME Tipos, Procesador, [Next]_vars PROVE Procesador'
    OBVIOUS
<1> SUFFICES ASSUME algoritmo = "SJF_SD" PROVE Procesador'
  <2>1. UNCHANGED algoritmo
      BY SinCambioDeAlgoritmo
  <2>2. QED
      BY <2>1 DEF Procesador, SinListaVacia
<1>1. ASSUME NEW t \in ENTRENADORES, EntrenadorPaso(t)
      PROVE  Procesador'
  <2>1. CASE Corre(t)
      BY <2>1, CorreSinTurno, SinTurnoProcesador, EmpiezaProcesador, DejaProcesador
  <2>2. CASE Planifica(t)
      BY <2>2, MiraProcesador, EligeProcesador, EligeYCaeProcesador DEF Planifica
  <2>3. CASE Cercania(t)
      BY <2>3, Nombres, CercaniaSinTurno, SinTurnoProcesador
  <2>4. QED
      BY <1>1, <2>1, <2>2, <2>3 DEF EntrenadorPaso
<1>2. ASSUME \/ \E t \in ENTRENADORES : MensajePaso(t)
             \/ \E id \in DOMAIN catches : GamecardResponde(id) \/ Caught(id)
      PROVE  Procesador'
    BY <1>2, CorreoSinTurno, SinTurnoProcesador
<1>3. ASSUME NEW c \in CANALES, Cercania(c)
      PROVE  Procesador'
    BY <1>3, Nombres, CercaniaSinTurno, SinTurnoProcesador
<1>4. ASSUME NEW m \in entrantes, Recibe(m)
      PROVE  Procesador'
    BY <1>4, RecibeSinTurno, SinTurnoProcesador
<1>5. CASE UNCHANGED vars
  <2>1. SinTurno
      BY <1>5 DEF vars, listas, SinTurno, MismoTurno, Aparte, HayReady
  <2>2. QED
      BY <2>1, SinTurnoProcesador
<1>6. QED
    BY <1>1, <1>2, <1>3, <1>4, <1>5 DEF Next

(* At the start nobody runs.                                               *)
LEMMA InicioProcesador == Init => Procesador
BY Nombres DEF Init, Procesador, Turno, Corriendo, SinListaVacia, Semaforos

\* Procesador is inductive under Tipos.
LEMMA ProcesadorSiempre == Spec => []Procesador
<1>1. Init => Tipos /\ Procesador
    BY InicioTipos, InicioProcesador
<1>2. Tipos /\ Procesador /\ [Next]_vars => Tipos' /\ Procesador'
    BY PasoTipos, PasoProcesador
<1>3. QED
    BY <1>1, <1>2, PTL DEF Spec

(* With sjf_sd_planner the trainer that runs is alone in estado_exec: the  *)
(* one it takes out of there, by position, when it lets the processor go.  *)
THEOREM ElQueCorreEstaSolo == Spec => []UnoEnExec
<1>1. Procesador => UnoEnExec
    BY DEF Procesador, Turno, UnoEnExec
<1>2. QED
    BY <1>1, ProcesadorSiempre, PTL

(* With sjf_sd_planner no thread takes the first of an empty Ready or of   *)
(* an empty Exec: what a planner saw of them under its mutex still holds   *)
(* when it acts, though the other threads change both lists without it.    *)
THEOREM NadieSacaDeLoVacio == Spec => []SinListaVacia
<1>1. Procesador => SinListaVacia
    BY DEF Procesador
<1>2. QED
    BY <1>1, ProcesadorSiempre, PTL

-----------------------------------------------------------------------------
(* What each step does to each trainer, as far as the rest of the theorems *)
(* look: its state, its plan and its stock.                                *)

\* Two trainers with the same plan and the same stock.
Meta(x, y) ==
    /\ y.razon = x.razon /\ y.mov = x.mov /\ y.socio = x.socio
    /\ y.especie = x.especie /\ y.stock = x.stock
MismaMeta(u) == Meta(ent[u], ent'[u])
Mismo(u) == MismaMeta(u) /\ ent'[u].estado = ent[u].estado

(* A planner touches estimates, and with desalojo the state.               *)
LEMMA EligeEnt ==
    ASSUME Tipos, NEW t \in ENTRENADORES, Elige(t)
    PROVE  \A u \in ENTRENADORES : /\ MismaMeta(u)
                                   /\ algoritmo # "SJF_CD" => Mismo(u)
<1>1. PICK E, e : /\ E = EstimadosAlDia
                  /\ \/ algoritmo = "SJF_CD" /\ (Expropia(e, E) \/ NoExpropia(e, E))
                     \/ Despacha(e, E)
    BY DEF Elige
<1>2. /\ E \in [ENTRENADORES -> Entrenador]
      /\ \A u \in ENTRENADORES : Meta(ent[u], E[u]) /\ E[u].estado = ent[u].estado
  <2>1. ASSUME NEW x \in Entrenador
        PROVE  LET y == ConEstimado(x) IN
                 y \in Entrenador /\ Meta(x, y) /\ y.estado = x.estado
    <3>1. x.ultima \in Nat /\ x.estimado \in Nat
        BY DEF Entrenador
    <3>2. ALPHA * x.ultima + (1 - ALPHA) * x.estimado \in Nat
      <4>1. CASE ALPHA = 0
          BY <3>1, <4>1
      <4>2. CASE ALPHA = 1
          BY <3>1, <4>2
      <4>3. QED
          BY <4>1, <4>2, PlanificadorAssumption
    <3>3. ASSUME NEW n \in Nat
          PROVE  LET y == [x EXCEPT !.estimado = n, !.calcular = FALSE] IN
                   y \in Entrenador /\ Meta(x, y) /\ y.estado = x.estado
        BY DEF Entrenador, Meta
    <3>4. QED
        BY <3>2, <3>3 DEF ConEstimado, Meta
  <2>2. \A x \in Entrenador : Meta(x, x)
      BY DEF Meta
  <2>3. QED
      BY <1>1, <2>1, <2>2 DEF EstimadosAlDia, Tipos, Ents
<1>3. \A x \in Entrenador : LET y == AExec(x) IN
        y \in Entrenador /\ Meta(x, y) /\ (algoritmo # "SJF_CD" => y = x)
  <2>1. \A x \in Entrenador : LET y == [x EXCEPT !.estado = "EXEC", !.desalojar = FALSE] IN
          y \in Entrenador /\ Meta(x, y)
      BY DEF Entrenador, Meta
  <2>2. \A x \in Entrenador : Meta(x, x)
      BY DEF Meta
  <2>3. QED
      BY <2>1, <2>2 DEF AExec
<1>4. \A x \in Entrenador : LET y == [x EXCEPT !.estado = "READY", !.desalojar = TRUE] IN
        y \in Entrenador /\ Meta(x, y)
    BY DEF Entrenador, Meta
<1> DEFINE h == Head(exec)
           F == [E EXCEPT ![e] = AExec(@)]
           y == [E[h] EXCEPT !.estado = "READY", !.desalojar = TRUE]
           G == [E EXCEPT ![h] = y]
<1>5. \/ ent' = E
      \/ ent' = F
      \/ algoritmo = "SJF_CD" /\ ent' = [G EXCEPT ![e] = AExec(@)]
  <2>1. CASE Despacha(e, E)
      BY <2>1 DEF Despacha
  <2>2. CASE algoritmo = "SJF_CD" /\ NoExpropia(e, E)
      BY <2>2 DEF NoExpropia
  <2>3. CASE algoritmo = "SJF_CD" /\ Expropia(e, E)
    <3>1. CASE E[h].vengo
        BY <1>2, <2>3, <3>1 DEF Expropia
    <3>2. CASE ~E[h].vengo
        BY <2>3, <3>2 DEF Expropia
    <3>3. QED
        BY <3>1, <3>2
  <2>4. QED
      BY <1>1, <2>1, <2>2, <2>3
<1>6. CASE ent' = E
    BY <1>2, <1>6 DEF MismaMeta, Mismo
<1>7. CASE ent' = F
  <2>1. \A u \in ENTRENADORES : ent'[u] = IF u = e THEN AExec(E[u]) ELSE E[u]
      BY <1>2, <1>7
  <2>2. QED
      BY <1>2, <1>3, <2>1 DEF MismaMeta, Mismo, Meta
<1>8. CASE algoritmo = "SJF_CD" /\ ent' = [G EXCEPT ![e] = AExec(@)]
  <2> HIDE DEF y, h
  <2>1. \A u \in ENTRENADORES : G[u] = IF u = h THEN y ELSE E[u]
      BY <1>2
  <2>2. G = [u \in ENTRENADORES |-> G[u]]
      BY <1>2
  <2>3. h \in ENTRENADORES => y \in Entrenador /\ Meta(E[h], y)
      BY <1>2, <1>4 DEF y
  <2> HIDE DEF G
  <2>4. \A u \in ENTRENADORES : G[u] \in Entrenador /\ Meta(ent[u], G[u])
      BY <1>2, <2>1, <2>3 DEF Meta
  <2>5. \A u \in ENTRENADORES : ent'[u] = IF u = e THEN AExec(G[u]) ELSE G[u]
      BY <1>8, <2>2
  <2>6. QED
      BY <1>3, <1>8, <2>4, <2>5 DEF MismaMeta, Meta
<1>9. QED
    BY <1>5, <1>6, <1>7, <1>8

(* A trainer that walks, or makes its CATCH, keeps its plan.               *)
LEMMA AndaEnt ==
    ASSUME Tipos, NEW t \in ENTRENADORES,
           Empieza(t) \/ Retoma(t) \/ Ciclo(t) \/ Arriba(t) \/ Pide(t)
    PROVE  \A u \in ENTRENADORES : Mismo(u)
<1>1. Ents
    BY DEF Tipos
<1>2. \/ UNCHANGED ent
      \/ \E n : ent' = [ent EXCEPT ![t].acum = n] \/ ent' = [ent EXCEPT ![t].pos = n]
                                                \/ ent' = [ent EXCEPT ![t].vengo = n]
    BY <1>1 DEF Empieza, Retoma, Ciclo, Arriba, Pide, Ents
<1>3. QED
    BY <1>1, <1>2 DEF Ents, Entrenador, Mismo, MismaMeta, Meta

(* A quantum that ends.                                                    *)
LEMMA QuantumEnt ==
    ASSUME Tipos, NEW t \in ENTRENADORES, FinDeQuantum(t)
    PROVE  /\ \A u \in ENTRENADORES : MismaMeta(u)
           /\ \A u \in ENTRENADORES \ {t} : Mismo(u)
           /\ exec # <<>> => ent'[t].estado = "READY"
<1>1. Ents
    BY DEF Tipos
<1>2. \/ exec = <<>> /\ UNCHANGED ent
      \/ ent' = [ent EXCEPT ![t].estado = "READY"]
    BY DEF FinDeQuantum, Cae, Muere
<1>3. QED
    BY <1>1, <1>2 DEF Ents, Entrenador, Mismo, MismaMeta, Meta

(* A trainer that goes to Block to wait for its CATCH.                     *)
LEMMA SueltaEnt ==
    ASSUME Tipos, NEW t \in ENTRENADORES, Suelta(t), exec # <<>>
    PROVE  /\ \A u \in ENTRENADORES \ {t} : Mismo(u)
           /\ ent'[t].estado = "BLOCK" /\ ent'[t].razon = "ESPERANDO_CATCH"
           /\ ent'[t].mov = ent[t].mov /\ ent'[t].socio = ent[t].socio
           /\ ent'[t].especie = ent[t].especie /\ ent'[t].stock = ent[t].stock
<1> DEFINE x == FinDeRafaga(ent[t], 1)
           y == [x EXCEPT !.estado = "BLOCK", !.razon = "ESPERANDO_CATCH"]
<1>1. ent' = [ent EXCEPT ![t] = y]
    BY DEF Suelta, Cae, Muere
<1>2. Ents /\ ent[t] \in Entrenador
    BY Campos DEF Tipos
<1>3. x \in Entrenador /\ Meta(ent[t], x)
  <2>1. ent[t].acum + 1 \in Nat
      BY <1>2 DEF Entrenador
  <2>2. QED
      BY <1>2, <2>1 DEF FinDeRafaga, Entrenador, Meta
<1> HIDE DEF x
<1>4. /\ y.estado = "BLOCK" /\ y.razon = "ESPERANDO_CATCH" /\ y.mov = x.mov
      /\ y.socio = x.socio /\ y.especie = x.especie /\ y.stock = x.stock
    BY <1>3 DEF Entrenador
<1> HIDE DEF y
<1>5. QED
    BY <1>1, <1>2, <1>3, <1>4 DEF Ents, Mismo, MismaMeta, Meta

(* The reason a trainer waits for.                                         *)
LEMMA NoCumpleEnt ==
    ASSUME Tipos, NEW t \in ENTRENADORES, NoCumple(t)
    PROVE  /\ \A u \in ENTRENADORES \ {t} : Mismo(u)
           /\ ent'[t].mov = ent[t].mov /\ ent'[t].socio = ent[t].socio
           /\ ent'[t].especie = ent[t].especie /\ ent'[t].stock = ent[t].stock
           /\ IF CantStock(ent[t]) < CantObjetivos(t)
              THEN ent'[t].razon = "ESPERANDO_POKEMON" /\ ent'[t].estado = ent[t].estado
              ELSE ent'[t].razon = "SIN_ESPACIO" /\ ent'[t].estado = "BLOCK"
<1>1. Ents /\ ent[t] \in Entrenador
    BY Campos DEF Tipos
<1>2. CASE CantStock(ent[t]) < CantObjetivos(t)
  <2>1. ent' = [ent EXCEPT ![t].razon = "ESPERANDO_POKEMON"]
      BY <1>2 DEF NoCumple
  <2>2. QED
      BY <1>1, <1>2, <2>1 DEF Ents, Entrenador, Mismo, MismaMeta, Meta
<1>3. CASE ~(CantStock(ent[t]) < CantObjetivos(t))
  <2>1. ent' = [ent EXCEPT ![t].razon = "SIN_ESPACIO", ![t].estado = "BLOCK"]
      BY <1>3 DEF NoCumple
  <2>2. QED
      BY <1>1, <1>3, <2>1 DEF Ents, Entrenador, Mismo, MismaMeta, Meta
<1>4. QED
    BY <1>2, <1>3

\* The partner of t in an exchange has what it wants.
SocioListo(t) ==
    /\ ent[t].mov = "RESOLUCION_DEADLOCK"
    /\ ObjetivosCumplidos(ent[t].socio, ent[ent[t].socio])

(* The trainers that finish.                                               *)
LEMMA CumpleEnt ==
    ASSUME Tipos, NEW t \in ENTRENADORES, Cumple(t)
    PROVE  /\ \A u \in ENTRENADORES : MismaMeta(u)
           /\ \A u \in ENTRENADORES :
                IF u = t \/ (SocioListo(t) /\ u = ent[t].socio) THEN ent'[u].estado = "FINISH"
                ELSE Mismo(u)
<1>1. SocioListo(t) => ent[t].socio \in ENTRENADORES
    BY Campos DEF Tipos, Rutas, SocioSabido, SocioListo
<1> DEFINE fin == IF SocioListo(t) THEN {t, ent[t].socio} ELSE {t}
<1>2. ent' = [u \in ENTRENADORES |->
                 IF u \in fin THEN [ent[u] EXCEPT !.estado = "FINISH"] ELSE ent[u]]
    BY DEF Cumple, SocioListo
<1>3. \A x \in Entrenador : LET y == [x EXCEPT !.estado = "FINISH"] IN
        Meta(x, y) /\ y.estado = "FINISH"
    BY DEF Entrenador, Meta
<1>4. \A x \in Entrenador : Meta(x, x)
    BY DEF Meta
<1>5. ASSUME NEW u \in ENTRENADORES
      PROVE  /\ MismaMeta(u)
             /\ IF u \in fin THEN ent'[u].estado = "FINISH" ELSE Mismo(u)
  <2> HIDE DEF fin
  <2>1. QED
      BY <1>2, <1>3, <1>4 DEF MismaMeta, Mismo, Tipos, Ents
<1>6. QED
    BY <1>5

\* What an exchange adds to the stock of e of the trainer that gets mia and gives suya.
Trueque(mia, suya, e) == IF mia = suya THEN 0 ELSE IF e = mia THEN 1 ELSE IF e = suya THEN -1 ELSE 0

(* The exchange.                                                           *)
LEMMA CanjeEnt ==
    ASSUME Tipos, NEW t \in ENTRENADORES, Canje(t), ~Cae("canje"), ~Cae("exec_vacia")
    PROVE  LET s == ent[t].socio
               k(e) == Trueque(ent[t].especie, ent[s].especie, e) IN
           /\ s \in ENTRENADORES
           /\ ent[t].especie \in ESPECIES /\ ent[s].especie \in ESPECIES
           /\ \A u \in ENTRENADORES \ {t, s} : Mismo(u)
           /\ \A u \in ENTRENADORES :
                /\ ent'[u].mov = ent[u].mov /\ ent'[u].socio = ent[u].socio
                /\ ent'[u].especie = ent[u].especie /\ ent'[u].estado = ent[u].estado
           /\ ent'[t].razon = "SIN_ESPACIO" /\ ent'[s].razon = "SIN_ESPACIO"
           /\ s = t => ent'[t].stock = ent[t].stock
           /\ s # t => \A e \in ESPECIES :
                /\ ent'[t].stock[e] = ent[t].stock[e] + k(e)
                /\ ent'[s].stock[e] = ent[s].stock[e] - k(e)
<1> DEFINE s == ent[t].socio
           mia == ent[t].especie
           suya == ent[s].especie
           st == Mas(ent[t].stock, mia)
           ss == Mas(ent[s].stock, suya)
<1>1. ~(st[suya] = 0 \/ ss[mia] = 0) /\ exec # <<>>
    BY DEF Canje
<1>2. s \in ENTRENADORES /\ mia \in ESPECIES /\ suya \in ESPECIES
  <2>1. s # NULL /\ mia # NULL /\ suya # NULL
      BY DEF Canje, Tipos, Rutas, SocioSabido
  <2>2. QED
      BY <2>1, Campos DEF Tipos
<1>3. Ents /\ ent[t] \in Entrenador /\ ent[t].stock \in Dicc /\ ent[s].stock \in Dicc
    BY <1>2, Campos DEF Tipos
<1> DEFINE x == FinDeRafaga(ent[t], 0)
           y == [x EXCEPT !.vengo = FALSE, !.razon = "SIN_ESPACIO", !.stock = Menos(st, suya)]
           F == [ent EXCEPT ![t] = y]
           z == [F[s] EXCEPT !.razon = "SIN_ESPACIO", !.stock = Menos(ss, mia)]
<1>4. ent' = [F EXCEPT ![s] = z]
  <2>1. ent' = [ent EXCEPT
                 ![t] = [FinDeRafaga(ent[t], 0) EXCEPT !.vengo = FALSE,
                            !.razon = "SIN_ESPACIO", !.stock = Menos(st, suya)],
                 ![s].razon = "SIN_ESPACIO", ![s].stock = Menos(ss, mia)]
      BY <1>1 DEF Canje
  <2> HIDE DEF s, st, ss, mia, suya
  <2>2. QED
      BY <1>2, <1>3, <2>1 DEF Ents
<1>5. x \in Entrenador /\ Meta(ent[t], x) /\ x.estado = ent[t].estado
  <2>1. ent[t].acum + 0 \in Nat
      BY <1>3 DEF Entrenador
  <2>2. QED
      BY <1>3, <2>1 DEF FinDeRafaga, Entrenador, Meta
<1> DEFINE d == Menos(st, suya)
           g == Menos(ss, mia)
<1>6. /\ s = t => g = ent[t].stock
      /\ \A e \in ESPECIES : d[e] = ent[t].stock[e] + Trueque(mia, suya, e)
      /\ \A e \in ESPECIES : g[e] = ent[s].stock[e] - Trueque(mia, suya, e)
  <2>1. ASSUME NEW c \in Dicc, NEW a \in ESPECIES, NEW b \in ESPECIES
        PROVE  /\ a = b => Menos(Mas(c, a), b) = c
               /\ \A e \in ESPECIES : Menos(Mas(c, a), b)[e] = c[e] + Trueque(a, b, e)
    <3>1. c \in [ESPECIES -> Nat]
        BY DEF Dicc
    <3>2. \A e \in ESPECIES : Menos(Mas(c, a), b)[e]
                              = c[e] + (IF e = a THEN 1 ELSE 0) - (IF e = b THEN 1 ELSE 0)
        BY <3>1 DEF Mas, Menos
    <3>3. Menos(Mas(c, a), b) = [e \in ESPECIES |-> Menos(Mas(c, a), b)[e]]
        BY <3>1 DEF Mas, Menos
    <3>4. \A e \in ESPECIES : Menos(Mas(c, a), b)[e] = c[e] + Trueque(a, b, e)
        BY <3>1, <3>2 DEF Trueque
    <3>5. ASSUME a = b PROVE Menos(Mas(c, a), b) = c
      <4>1. \A e \in ESPECIES : Menos(Mas(c, a), b)[e] = c[e]
          BY <3>1, <3>4, <3>5 DEF Trueque
      <4>2. QED
          BY <3>1, <3>3, <4>1
    <3>6. QED
        BY <3>4, <3>5
  <2>2. \A e : Trueque(suya, mia, e) = -Trueque(mia, suya, e) /\ Trueque(mia, suya, e) \in Int
      BY DEF Trueque
  <2>3. ent[s].stock \in [ESPECIES -> Nat]
      BY <1>3 DEF Dicc
  <2> HIDE DEF s, mia, suya
  <2>4. s = t => mia = suya
      BY DEF s, mia, suya
  <2>5. \A e \in ESPECIES : g[e] = ent[s].stock[e] + Trueque(suya, mia, e)
      BY <1>2, <1>3, <2>1
  <2>6. QED
      BY <1>2, <1>3, <2>1, <2>2, <2>3, <2>4, <2>5
<1> HIDE DEF x, s, mia, suya, st, ss
<1> HIDE DEF d, g
<1>7. /\ y.razon = "SIN_ESPACIO" /\ y.stock = d /\ y.estado = x.estado
      /\ y.mov = x.mov /\ y.socio = x.socio /\ y.especie = x.especie
    BY <1>5 DEF Entrenador, d
<1>8. F[t] = y /\ \A u \in ENTRENADORES \ {t} : F[u] = ent[u]
    BY <1>3 DEF Ents
<1>9. ent'[s] = z /\ \A u \in ENTRENADORES \ {s} : ent'[u] = F[u]
    BY <1>2, <1>3, <1>4 DEF Ents
<1>10. /\ z.razon = "SIN_ESPACIO" /\ z.stock = g /\ z.estado = F[s].estado
       /\ z.mov = F[s].mov /\ z.socio = F[s].socio /\ z.especie = F[s].especie
  <2>1. \E r \in {ent[s], y} : F[s] = r
      BY <1>2, <1>8
  <2>2. QED
      BY <1>2, <1>3, <1>5, <2>1 DEF Entrenador, Ents, g
<1> HIDE DEF y, z, F
<1>11. QED
    BY <1>2, <1>5, <1>6, <1>7, <1>8, <1>9, <1>10 DEF s, mia, suya, Mismo, MismaMeta, Meta

\* A run of algoritmo_deadlock finds t, to move, and u.
Pareja(t, u) ==
    /\ t \in ENTRENADORES /\ u \in ENTRENADORES /\ t # u
    /\ EnLista(t, block) /\ EnLista(u, block)
    /\ CantObjetivos(t) = CantStock(ent[t]) /\ CantObjetivos(u) = CantStock(ent[u])
    /\ ent[t].razon # "DEADLOCK" /\ ent[u].razon # "DEADLOCK"
    /\ Necesita(t, ent[t]) \intersect Sobran(u, ent[u]) # {}

(* Whom it finds.                                                          *)
LEMMA DeadlockPareja ==
    ASSUME Tipos, NEW t \in ENTRENADORES, Deadlock(t), Pares # {}
    PROVE  \E v, u : Pareja(v, u) /\ Aparea(v, u)
<1>1. PrimerPar \in Pares
    BY PrimerParEs
<1>2. PICK p : p = PrimerPar
    OBVIOUS
<1>3. /\ p \in SinMargen \X SinMargen
      /\ Necesita(block[p[1]], ent[block[p[1]]]) \intersect Sobran(block[p[2]], ent[block[p[2]]]) # {}
    BY <1>1, <1>2 DEF Pares
<1>4. p[1] \in SinMargen /\ p[2] \in SinMargen
    BY <1>3
<1>5. block[p[1]] \in ENTRENADORES /\ block[p[2]] \in ENTRENADORES
    BY <1>2, ParTipo
<1>6. block[p[1]] # block[p[2]]
  <2>1. \A v \in ENTRENADORES : Necesita(v, ent[v]) \intersect Sobran(v, ent[v]) = {}
    <3>1. ASSUME NEW v \in ENTRENADORES, NEW e \in ESPECIES,
                 ent[v].stock[e] < OBJETIVOS[v][e], ent[v].stock[e] > OBJETIVOS[v][e]
          PROVE  FALSE
      <4>1. ent[v].stock[e] \in Nat /\ OBJETIVOS[v][e] \in Nat
          BY Campos, EntrenadoresAssumption DEF Tipos, Dicc
      <4>2. QED
          BY <3>1, <4>1
    <3>2. QED
        BY <3>1 DEF Necesita, Sobran
  <2>2. QED
      BY <1>3, <1>5, <2>1
<1>7. Aparea(block[p[1]], block[p[2]])
    BY <1>2 DEF Deadlock
<1>8. Pareja(block[p[1]], block[p[2]])
    BY <1>3, <1>4, <1>5, <1>6 DEF Pareja, SinMargen, EnLista
<1>9. QED
    BY <1>7, <1>8

(* What that does to them.                                                 *)
LEMMA ApareaEnt ==
    ASSUME Tipos, NEW t, NEW u, Pareja(t, u), Aparea(t, u)
    PROVE  /\ \A v \in ENTRENADORES \ {t, u} : Mismo(v)
           /\ ent'[t].mov = "RESOLUCION_DEADLOCK" /\ ent'[t].socio = u
           /\ ent'[t].razon = "DEADLOCK" /\ ent'[t].estado = "READY"
           /\ ent'[t].stock = ent[t].stock
           /\ ent'[t].especie \in Necesita(t, ent[t]) \intersect Sobran(u, ent[u])
           /\ ent'[u].mov = ent[u].mov /\ ent'[u].socio = ent[u].socio
           /\ ent'[u].razon = "DEADLOCK" /\ ent'[u].estado = ent[u].estado
           /\ ent'[u].stock = ent[u].stock
           /\ ent'[u].especie \in Sobran(t, ent[t])
<1>1. Ents /\ ent[t] \in Entrenador /\ ent[u] \in Entrenador /\ t # u
      /\ t \in ENTRENADORES /\ u \in ENTRENADORES
    BY Campos DEF Tipos, Pareja
<1>2. PICK e \in Necesita(t, ent[t]) \intersect Sobran(u, ent[u]), f \in Sobran(t, ent[t]) :
          ent' = [ent EXCEPT
              ![t].socio = u, ![t].especie = e, ![t].mov = "RESOLUCION_DEADLOCK",
              ![t].razon = "DEADLOCK", ![t].estado = "READY",
              ![u].especie = f, ![u].razon = "DEADLOCK"]
    BY DEF Aparea
<1>3. /\ ent'[t] = [ent[t] EXCEPT !.socio = u, !.especie = e, !.mov = "RESOLUCION_DEADLOCK",
                                   !.razon = "DEADLOCK", !.estado = "READY"]
      /\ ent'[u] = [ent[u] EXCEPT !.especie = f, !.razon = "DEADLOCK"]
      /\ \A v \in ENTRENADORES \ {t, u} : ent'[v] = ent[v]
    BY <1>1, <1>2 DEF Ents
<1>4. /\ ent'[t].mov = "RESOLUCION_DEADLOCK" /\ ent'[t].socio = u /\ ent'[t].razon = "DEADLOCK"
      /\ ent'[t].estado = "READY" /\ ent'[t].stock = ent[t].stock /\ ent'[t].especie = e
    BY <1>1, <1>3 DEF Entrenador
<1>4a. /\ ent'[u].mov = ent[u].mov /\ ent'[u].socio = ent[u].socio /\ ent'[u].razon = "DEADLOCK"
       /\ ent'[u].estado = ent[u].estado /\ ent'[u].stock = ent[u].stock /\ ent'[u].especie = f
    BY <1>1, <1>3 DEF Entrenador
<1>5. \A v \in ENTRENADORES \ {t, u} : Mismo(v)
    BY <1>3 DEF Mismo, MismaMeta, Meta
<1>6. e \in Necesita(t, ent[t]) \intersect Sobran(u, ent[u]) /\ f \in Sobran(t, ent[t])
    OBVIOUS
<1>7. QED
    BY <1>4, <1>4a, <1>5, <1>6, Zenon

(* Who gets the pokemon that is handed out, c.                             *)
Recibidor(c) ==
    /\ c \in ENTRENADORES /\ c \in cerc.cands
    /\ \A u \in ENTRENADORES \ {c} : Mismo(u)
    /\ ent'[c].razon = ent[c].razon /\ ent'[c].socio = ent[c].socio
    /\ ent'[c].stock = ent[c].stock
    /\ IF ent[c].estado \in {"NEW", "BLOCK"}
       THEN ent'[c].mov = "CATCH" /\ ent'[c].estado = "READY"
       ELSE ent'[c].mov = ent[c].mov /\ ent'[c].estado = ent[c].estado

(* What handing out a pokemon does.                                        *)
LEMMA AsignaEnt ==
    ASSUME Tipos, NEW h \in HILOS, Asigna(h)
    PROVE  \E c \in cerc.cands :
             /\ Recibidor(c)
             /\ cerc'.cands = cerc.cands \ {c}
             /\ IF ent[c].estado \in {"NEW", "BLOCK"}
                THEN /\ ready' = [ready EXCEPT ![c] = @ + 1]
                     /\ IF ent[c].estado = "NEW"
                        THEN /\ nuevos' = nuevos \ {c} /\ sem' = Con("new_ready", c)
                             /\ UNCHANGED block
                        ELSE /\ block' = Quitar(block, c) /\ sem' = Con("block_ready", c)
                             /\ UNCHANGED nuevos
                ELSE UNCHANGED <<ready, nuevos, block, sem>>
<1>1. PICK p : p = Head(pokemons)
    OBVIOUS
<1>2. PICK c \in MasCercanos(cerc.cands, p.lugar, ent) :
        /\ cerc' = [cerc EXCEPT !.cands = @ \ {c}, !.quedan = @ - 1, !.movio = TRUE]
        /\ IF ent[c].estado \in {"NEW", "BLOCK"}
           THEN /\ ent' = [ent EXCEPT ![c].especie = p.especie, ![c].lugar = p.lugar,
                                      ![c].mov = "CATCH", ![c].estado = "READY"]
                /\ ready' = [ready EXCEPT ![c] = @ + 1]
                /\ IF ent[c].estado = "NEW"
                   THEN nuevos' = nuevos \ {c} /\ sem' = Con("new_ready", c) /\ UNCHANGED block
                   ELSE block' = Quitar(block, c) /\ sem' = Con("block_ready", c)
                        /\ UNCHANGED nuevos
           ELSE /\ ent' = [ent EXCEPT ![c].especie = p.especie, ![c].lugar = p.lugar]
                /\ UNCHANGED <<ready, nuevos, block, sem>>
    BY <1>1 DEF Asigna
<1>3. c \in cerc.cands /\ c \in ENTRENADORES
  <2>1. cerc.cands \subseteq ENTRENADORES
      BY DEF Tipos, Reparto
  <2>2. QED
      BY <2>1 DEF MasCercanos
<1>4. Ents /\ ent[c] \in Entrenador
    BY <1>3, Campos DEF Tipos
<1>5. cerc'.cands = cerc.cands \ {c}
    BY <1>2 DEF Tipos, Reparto
<1>6. Recibidor(c)
  <2>1. CASE ent[c].estado \in {"NEW", "BLOCK"}
    <3>1. ent' = [ent EXCEPT ![c].especie = p.especie, ![c].lugar = p.lugar,
                             ![c].mov = "CATCH", ![c].estado = "READY"]
        BY <1>2, <2>1
    <3>2. ent'[c] = [ent[c] EXCEPT !.especie = p.especie, !.lugar = p.lugar,
                                   !.mov = "CATCH", !.estado = "READY"]
        BY <1>3, <1>4, <3>1 DEF Ents
    <3>3. \A u \in ENTRENADORES \ {c} : ent'[u] = ent[u]
        BY <1>3, <1>4, <3>1 DEF Ents
    <3>4. \A u \in ENTRENADORES \ {c} : Mismo(u)
        BY <3>3 DEF Mismo, MismaMeta, Meta
    <3>5. /\ ent'[c].razon = ent[c].razon /\ ent'[c].socio = ent[c].socio
          /\ ent'[c].stock = ent[c].stock
          /\ ent'[c].mov = "CATCH" /\ ent'[c].estado = "READY"
        BY <1>4, <3>2 DEF Entrenador
    <3>6. QED
        BY <1>3, <2>1, <3>4, <3>5 DEF Recibidor
  <2>2. CASE ent[c].estado \notin {"NEW", "BLOCK"}
    <3>1. ent' = [ent EXCEPT ![c].especie = p.especie, ![c].lugar = p.lugar]
        BY <1>2, <2>2
    <3>2. ent'[c] = [ent[c] EXCEPT !.especie = p.especie, !.lugar = p.lugar]
        BY <1>3, <1>4, <3>1 DEF Ents
    <3>3. \A u \in ENTRENADORES \ {c} : ent'[u] = ent[u]
        BY <1>3, <1>4, <3>1 DEF Ents
    <3>4. \A u \in ENTRENADORES \ {c} : Mismo(u)
        BY <3>3 DEF Mismo, MismaMeta, Meta
    <3>5. /\ ent'[c].razon = ent[c].razon /\ ent'[c].socio = ent[c].socio
          /\ ent'[c].stock = ent[c].stock
          /\ ent'[c].mov = ent[c].mov /\ ent'[c].estado = ent[c].estado
        BY <1>4, <3>2 DEF Entrenador
    <3>6. QED
        BY <1>3, <2>2, <3>4, <3>5 DEF Recibidor
  <2>3. QED
      BY <2>1, <2>2
<1>7. QED
    BY <1>2, <1>3, <1>5, <1>6

\* The answer r to the CATCH of t finds t in Block, and its target still sought.
Encuentra(t, r) ==
    EnLista(t, block) /\ (r = 1 => ent[t].especie \in DOMAIN objetivo)

(* What an answer does.                                                    *)
LEMMA CaughtPokemonEnt ==
    ASSUME Tipos, NEW t \in ENTRENADORES, NEW r \in {0, 1}, CaughtPokemon(t, r)
    PROVE  /\ \A u \in ENTRENADORES \ {t} : Mismo(u)
           /\ ent'[t].razon = ent[t].razon /\ ent'[t].mov = ent[t].mov
           /\ ent'[t].socio = ent[t].socio /\ ent'[t].especie = ent[t].especie
           /\ ent'[t].estado = ent[t].estado
           /\ UNCHANGED <<hilo, listas, cerc>>
           /\ IF r = 1 /\ Encuentra(t, r)
              THEN /\ ent[t].especie \in ESPECIES
                   /\ ent'[t].stock = Mas(ent[t].stock, ent[t].especie)
                   /\ objetivo' = Descontado(objetivo, ent[t].especie)
              ELSE Mismo(t) /\ UNCHANGED objetivo
           /\ IF Encuentra(t, r) THEN sem' = Con("block_catch", t) /\ UNCHANGED caida
              ELSE UNCHANGED sem /\ caida' # "no"
           /\ caida' = "sin_entrenador" => ~EnLista(t, block) \/ caida = "sin_entrenador"
<1> DEFINE e == ent[t].especie
<1>1. CASE ~Encuentra(t, r)
  <2>1. \E m \in {"sin_entrenador", "sin_objetivo"} :
            Muere(m) /\ (m = "sin_entrenador" => ~EnLista(t, block))
      BY <1>1 DEF Encuentra, CaughtPokemon
  <2>2. PICK m \in {"sin_entrenador", "sin_objetivo"} :
            Muere(m) /\ (m = "sin_entrenador" => ~EnLista(t, block))
      BY <2>1
  <2>3. caida' = m /\ UNCHANGED <<ent, hilo, listas, cerc, sem, objetivo>>
      BY <2>2 DEF Muere, mundo
  <2>4. \A u \in ENTRENADORES : Mismo(u)
      BY <2>3 DEF Mismo, MismaMeta, Meta
  <2>5. QED
      BY <1>1, <2>2, <2>3, <2>4 DEF Mismo, MismaMeta, Meta
<1>2. CASE Encuentra(t, r)
  <2>1. /\ IF r = 1
            THEN /\ ent' = [ent EXCEPT ![t].stock[e] = @ + 1]
                 /\ objetivo' = Descontado(objetivo, e)
            ELSE UNCHANGED <<ent, objetivo>>
        /\ sem' = Con("block_catch", t)
        /\ UNCHANGED <<algoritmo, caida, hilo, listas, llegada, mPlan, cerc, pokemons,
                       recibidos>>
      BY <1>2 DEF Encuentra, CaughtPokemon
  <2>2. CASE r = 1
    <3>1. Ents /\ ent[t] \in Entrenador /\ e \in ESPECIES
        BY <1>2, <2>2, Campos DEF Tipos, Reparto, Encuentra
    <3>2. ent'[t] = [ent[t] EXCEPT !.stock = Mas(ent[t].stock, e)]
        BY <2>1, <2>2, <3>1 DEF Ents, Mas
    <3>3. \A u \in ENTRENADORES \ {t} : Mismo(u)
        BY <2>1, <2>2, <3>1 DEF Ents, Mismo, MismaMeta, Meta
    <3>4. /\ ent'[t].razon = ent[t].razon /\ ent'[t].mov = ent[t].mov
          /\ ent'[t].socio = ent[t].socio /\ ent'[t].especie = ent[t].especie
          /\ ent'[t].estado = ent[t].estado
          /\ ent'[t].stock = Mas(ent[t].stock, e)
      <4> HIDE DEF e
      <4>1. QED
          BY <3>1, <3>2 DEF Entrenador
    <3>5. QED
        BY <1>2, <2>1, <2>2, <3>1, <3>3, <3>4
  <2>3. CASE r # 1
      BY <1>2, <2>1, <2>3 DEF Mismo, MismaMeta, Meta
  <2>4. QED
      BY <2>2, <2>3
<1>3. QED
    BY <1>1, <1>2

-----------------------------------------------------------------------------
(* What is had and what is wanted of each species.                         *)

(* The sum of the values of a function is their total.                     *)
LEMMA SumaTotal ==
    ASSUME NEW S, NEW d \in [S -> Int]
    PROVE  Suma(d) = Total(S, d)
<1>1. Suma(d) = (CHOOSE F : EsSuma(DOMAIN d, d, F))[DOMAIN d]
    BY DEF Suma, FoldFunction, FoldFunctionOnSet, MapThenFoldSet, EsSuma
<1>2. DOMAIN d = S
    OBVIOUS
<1>3. QED
    BY <1>1, <1>2, Zenon DEF Total

\* What the trainers have of e, and what they want.
Stocks(e) == [t \in ENTRENADORES |-> ent[t].stock[e]]
Deseos(e) == [t \in ENTRENADORES |-> OBJETIVOS[t][e]]

(* They are totals over the trainers.                                      *)
LEMMA TienenTotal ==
    ASSUME Ents, NEW e \in ESPECIES
    PROVE  /\ Stocks(e) \in [ENTRENADORES -> Int] /\ Deseos(e) \in [ENTRENADORES -> Int]
           /\ Tienen(e) = Total(ENTRENADORES, Stocks(e)) /\ Tienen(e) \in Int
           /\ Quieren(e) = Total(ENTRENADORES, Deseos(e)) /\ Quieren(e) \in Int
<1>1. Stocks(e) \in [ENTRENADORES -> Int]
  <2>1. \A t \in ENTRENADORES : ent[t].stock[e] \in Nat
      BY Campos DEF Dicc
  <2>2. QED
      BY <2>1 DEF Stocks
<1>2. Deseos(e) \in [ENTRENADORES -> Int]
    BY EntrenadoresAssumption DEF Deseos, Dicc
<1>3. Tienen(e) = Suma(Stocks(e)) /\ Quieren(e) = Suma(Deseos(e))
    BY DEF Tienen, Quieren, Stocks, Deseos
<1>4. QED
    BY <1>1, <1>2, <1>3, SumaTotal, TotalTipo, EntrenadoresAssumption

\* No stock changes.
MismoStock == \A u \in ENTRENADORES : ent'[u].stock = ent[u].stock

(* The steps that change a stock or objetivo_global: an exchange, and the  *)
(* answer to a CATCH.                                                      *)
LEMMA PasoStock ==
    ASSUME Tipos, [Next]_vars
    PROVE  \/ MismoStock /\ UNCHANGED objetivo
           \/ /\ UNCHANGED objetivo
              /\ \E t \in ENTRENADORES : Canje(t) /\ ~Cae("canje") /\ ~Cae("exec_vacia")
           \/ \E t \in ENTRENADORES : CaughtPokemon(t, 1) /\ Encuentra(t, 1)
<1> DEFINE Goal == \/ MismoStock /\ UNCHANGED objetivo
                   \/ /\ UNCHANGED objetivo
                      /\ \E t \in ENTRENADORES : Canje(t) /\ ~Cae("canje") /\ ~Cae("exec_vacia")
                   \/ \E t \in ENTRENADORES : CaughtPokemon(t, 1) /\ Encuentra(t, 1)
<1>0. /\ (\A u \in ENTRENADORES : MismaMeta(u)) => MismoStock
      /\ (\A u \in ENTRENADORES : Mismo(u)) => MismoStock
      /\ UNCHANGED ent => MismoStock
    BY DEF MismoStock, MismaMeta, Mismo, Meta
<1>1. ASSUME NEW t \in ENTRENADORES, Corre(t)
      PROVE  Goal
  <2>1. UNCHANGED objetivo
      BY <1>1 DEF Corre, SaleDeNew, MarcaLlegada, Empieza, FinDeQuantum, CedeElPaso, Retoma,
         Ciclo, Arriba, Pide, Suelta, Envia, RecibeRespuesta, Canje, Cumple, NoCumple,
         SaleDeBlock, Sale, Deadlock, Cae, Muere, mundo
  <2>2. CASE UNCHANGED ent
      BY <1>0, <2>1, <2>2
  <2>3. CASE FinDeQuantum(t)
      BY <1>0, <2>1, <2>3, QuantumEnt
  <2>4. CASE Empieza(t) \/ Retoma(t) \/ Ciclo(t) \/ Arriba(t) \/ Pide(t)
      BY <1>0, <2>1, <2>4, AndaEnt
  <2>5. CASE Suelta(t)
    <3>1. CASE exec = <<>>
        BY <2>2, <2>5, <3>1 DEF Suelta, Cae, Muere
    <3>2. CASE exec # <<>>
        BY <2>1, <2>5, <3>2, SueltaEnt DEF MismoStock, Mismo, MismaMeta, Meta
    <3>3. QED
        BY <3>1, <3>2
  <2>6. CASE Canje(t)
    <3>1. CASE Cae("canje") \/ Cae("exec_vacia")
        BY <2>2, <3>1 DEF Cae, Muere
    <3>2. CASE ~(Cae("canje") \/ Cae("exec_vacia"))
        BY <2>1, <2>6, <3>2
    <3>3. QED
        BY <3>1, <3>2
  <2>7. CASE Cumple(t)
      BY <1>0, <2>1, <2>7, CumpleEnt
  <2>8. CASE NoCumple(t)
      BY <2>1, <2>8, NoCumpleEnt DEF MismoStock, Mismo, MismaMeta, Meta
  <2>9. CASE Deadlock(t)
    <3>1. CASE Pares = {}
        BY <2>2, <2>9, <3>1 DEF Deadlock
    <3>2. CASE Pares # {}
      <4>1. PICK v, u : Pareja(v, u) /\ Aparea(v, u)
          BY <2>9, <3>2, DeadlockPareja
      <4>2. QED
          BY <2>1, <4>1, ApareaEnt DEF MismoStock, Mismo, MismaMeta, Meta
    <3>3. QED
        BY <3>1, <3>2
  <2>10. QED
      BY <1>1, <2>2, <2>3, <2>4, <2>5, <2>6, <2>7, <2>8, <2>9
         DEF Corre, SaleDeNew, MarcaLlegada, CedeElPaso, Envia, RecibeRespuesta,
             SaleDeBlock, Sale
<1>2. ASSUME NEW t \in ENTRENADORES, Planifica(t)
      PROVE  Goal
  <2>1. UNCHANGED objetivo
      BY <1>2 DEF Planifica, Mira, Elige, EligeYCae, Vuelve, Cae, Muere, mundo
  <2>2. CASE Elige(t)
      BY <1>0, <2>1, <2>2, EligeEnt
  <2>3. CASE ~Elige(t)
      BY <1>0, <1>2, <2>1, <2>3 DEF Planifica, Mira, EligeYCae, Cae, Muere
  <2>4. QED
      BY <2>2, <2>3
<1>3. ASSUME NEW h \in HILOS, Cercania(h)
      PROVE  Goal
  <2>1. UNCHANGED objetivo
      BY <1>3 DEF Cercania, SinPokemons, Filtra, Asigna, TerminaCercania, mundo
  <2>2. CASE Asigna(h)
      BY <2>1, <2>2, AsignaEnt DEF Recibidor, MismoStock, Mismo, MismaMeta, Meta
  <2>3. CASE ~Asigna(h)
      BY <1>0, <1>3, <2>1, <2>3 DEF Cercania, SinPokemons, Filtra, TerminaCercania
  <2>4. QED
      BY <2>2, <2>3
<1>4. ASSUME NEW t \in ENTRENADORES, NEW r \in {0, 1}, CaughtPokemon(t, r)
      PROVE  Goal
    BY <1>4, CaughtPokemonEnt DEF MismoStock, Mismo, MismaMeta, Meta
<1>5. ASSUME NEW t \in ENTRENADORES, MensajePaso(t)
      PROVE  Goal
  <2>1. CaughtPokemon(t, 1) \/ UNCHANGED <<ent, objetivo>>
      BY <1>5 DEF MensajePaso, EnvioFalla, BrokerAcepta, AnotaId, mundo
  <2>2. QED
      BY <1>0, <1>4, <2>1
<1>6. ASSUME NEW m \in entrantes, Recibe(m)
      PROVE  Goal
    BY <1>0, <1>6 DEF Recibe, Appeared, Localized
<1>7. ASSUME NEW id \in DOMAIN catches, GamecardResponde(id) \/ Caught(id)
      PROVE  Goal
  <2>1. catches[id].tid \in ENTRENADORES /\ catches[id].rta \in {0, 1}
    <3>1. catches[id] \in [tid : ENTRENADORES, est : {"pendiente", "contestada", "entregada"},
                           rta : {0, 1}]
        BY DeSeq DEF Tipos, Correo
    <3>2. QED
        BY <3>1
  <2>2. CaughtPokemon(catches[id].tid, catches[id].rta) \/ UNCHANGED <<ent, objetivo>>
      BY <1>7 DEF GamecardResponde, Caught, mundo
  <2>3. QED
      BY <1>0, <1>4, <2>1, <2>2
<1>8. CASE UNCHANGED vars
    BY <1>0, <1>8 DEF vars, mundo
<1>9. QED
    BY <1>1, <1>2, <1>3, <1>5, <1>6, <1>7, <1>8, Nombres DEF Next, EntrenadorPaso

\* The account of e: what objetivo_global holds of it, while it does, is the difference.
Cuenta(e) ==
    /\ e \in DOMAIN objetivo =>
         /\ objetivo[e] \in Int /\ objetivo[e] + Tienen(e) = Quieren(e)
         /\ GlobalInicial[e] > 0 => objetivo[e] > 0
    /\ e \notin DOMAIN objetivo =>
         /\ Tienen(e) >= Quieren(e)
         /\ GlobalInicial[e] > 0 => Tienen(e) = Quieren(e)
Inventario ==
    /\ DOMAIN objetivo \subseteq EspeciesGlobales
    /\ \A e \in EspeciesGlobales : Cuenta(e)

(* One more of a species for one trainer, and that less to catch.          *)
LEMMA CuentaCaught ==
    ASSUME Tipos, Tipos', Inventario, NEW t \in ENTRENADORES, CaughtPokemon(t, 1),
           Encuentra(t, 1)
    PROVE  Inventario'
<1>1. PICK f \in ESPECIES : f = ent[t].especie
    BY CaughtPokemonEnt
<1>2. /\ ent'[t].stock = Mas(ent[t].stock, f)
      /\ objetivo' = Descontado(objetivo, f)
      /\ f \in DOMAIN objetivo
      /\ \A u \in ENTRENADORES \ {t} : ent'[u].stock = ent[u].stock
    BY <1>1, CaughtPokemonEnt DEF Encuentra, Mismo, MismaMeta, Meta
<1>3. ent[t].stock \in [ESPECIES -> Nat]
    BY Campos DEF Tipos, Dicc
<1>4. \A e \in ESPECIES : ent'[t].stock[e] = ent[t].stock[e] + (IF e = f THEN 1 ELSE 0)
    BY <1>2, <1>3 DEF Mas
<1>5. ASSUME NEW e \in ESPECIES
      PROVE  Tienen(e)' = Tienen(e) + (IF e = f THEN 1 ELSE 0) /\ Quieren(e)' = Quieren(e)
  <2>1. PICK k \in Int : k = IF e = f THEN 1 ELSE 0
      OBVIOUS
  <2>2. Stocks(e)'[t] = Stocks(e)[t] + k /\ \A u \in ENTRENADORES \ {t} : Stocks(e)'[u] = Stocks(e)[u]
      BY <1>2, <1>4, <2>1 DEF Stocks
  <2>3. /\ Stocks(e) \in [ENTRENADORES -> Int] /\ Stocks(e)' \in [ENTRENADORES -> Int]
        /\ Tienen(e) = Total(ENTRENADORES, Stocks(e))
        /\ Tienen(e)' = Total(ENTRENADORES, Stocks(e)')
    <3>1. Stocks(e)' \in [ENTRENADORES -> Int]
      <4>1. \A u \in ENTRENADORES : ent'[u].stock \in [ESPECIES -> Nat]
          BY DEF Tipos, Ents, Entrenador, Dicc
      <4>2. QED
          BY <4>1 DEF Stocks
    <3>2. Tienen(e)' = Suma(Stocks(e)')
        BY DEF Tienen, Stocks
    <3>3. QED
        BY <3>1, <3>2, SumaTotal, TienenTotal DEF Tipos
  <2>4. Total(ENTRENADORES, Stocks(e)') = Total(ENTRENADORES, Stocks(e)) + k
      BY <2>2, <2>3, TotalCambia, EntrenadoresAssumption
  <2>5. QED
      BY <2>1, <2>3, <2>4 DEF Quieren
<1>6. QED
  <2>1. ASSUME NEW e \in EspeciesGlobales
        PROVE  Cuenta(e)'
    <3>1. e \in ESPECIES /\ Tienen(e) \in Int /\ Quieren(e) \in Int
        BY TienenTotal DEF EspeciesGlobales, Tipos
    <3>2. CASE e = f
        BY <1>2, <1>5, <3>1, <3>2 DEF Inventario, Cuenta, Descontado
    <3>3. CASE e # f
        BY <1>2, <1>5, <3>1, <3>3 DEF Inventario, Cuenta, Descontado
    <3>4. QED
        BY <3>2, <3>3
  <2>2. QED
      BY <1>2, <2>1 DEF Inventario, Descontado

(* An exchange moves pokemons between two trainers, and no account.        *)
LEMMA CuentaCanje ==
    ASSUME Tipos, Tipos', Inventario, NEW t \in ENTRENADORES, Canje(t),
           ~Cae("canje"), ~Cae("exec_vacia"), UNCHANGED objetivo
    PROVE  Inventario'
<1> DEFINE k(e) == Trueque(ent[t].especie, ent[ent[t].socio].especie, e)
<1>1. PICK s \in ENTRENADORES : s = ent[t].socio
    BY CanjeEnt
<1>2. /\ \A u \in ENTRENADORES \ {t, s} : ent'[u].stock = ent[u].stock
      /\ s = t => ent'[t].stock = ent[t].stock
      /\ s # t => \A e \in ESPECIES : /\ ent'[t].stock[e] = ent[t].stock[e] + k(e)
                                      /\ ent'[s].stock[e] = ent[s].stock[e] - k(e)
    BY <1>1, CanjeEnt DEF Mismo, MismaMeta, Meta
<1>3. ASSUME NEW e \in ESPECIES
      PROVE  Tienen(e)' = Tienen(e)
  <2>1. /\ Stocks(e) \in [ENTRENADORES -> Int] /\ Stocks(e)' \in [ENTRENADORES -> Int]
        /\ Tienen(e) = Total(ENTRENADORES, Stocks(e))
        /\ Tienen(e)' = Total(ENTRENADORES, Stocks(e)')
    <3>1. Stocks(e)' \in [ENTRENADORES -> Int]
      <4>1. \A u \in ENTRENADORES : ent'[u].stock \in [ESPECIES -> Nat]
          BY DEF Tipos, Ents, Entrenador, Dicc
      <4>2. QED
          BY <4>1 DEF Stocks
    <3>2. Tienen(e)' = Suma(Stocks(e)')
        BY DEF Tienen, Stocks
    <3>3. QED
        BY <3>1, <3>2, SumaTotal, TienenTotal DEF Tipos
  <2>2. CASE s = t
    <3>1. Stocks(e)' = Stocks(e)
        BY <1>2, <2>2 DEF Stocks
    <3>2. QED
        BY <2>1, <3>1
  <2>3. CASE s # t
    <3>1. PICK n \in Int : n = k(e)
        BY DEF Trueque
    <3> DEFINE M == [Stocks(e) EXCEPT ![t] = @ + n]
    <3>2. /\ M \in [ENTRENADORES -> Int] /\ M[t] = Stocks(e)[t] + n
          /\ \A u \in ENTRENADORES \ {t} : M[u] = Stocks(e)[u]
        BY <2>1
    <3> HIDE DEF M, k
    <3>3. Stocks(e)'[s] = M[s] + (-n) /\ \A u \in ENTRENADORES \ {s} : Stocks(e)'[u] = M[u]
      <4>1. \A u \in ENTRENADORES : Stocks(e)'[u] = ent'[u].stock[e] /\ Stocks(e)[u] = ent[u].stock[e]
          BY DEF Stocks
      <4>2. Stocks(e)[s] \in Int
          BY <2>1
      <4>3. QED
          BY <1>2, <2>3, <3>1, <3>2, <4>1, <4>2
    <3>4. Total(ENTRENADORES, M) = Total(ENTRENADORES, Stocks(e)) + n
      <4> HIDE DEF k
      <4>1. IsFiniteSet(ENTRENADORES) /\ t \in ENTRENADORES
          BY EntrenadoresAssumption
      <4>2. QED
          BY ONLY <4>1, <2>1, <3>1, <3>2, TotalCambia
    <3>5. Total(ENTRENADORES, Stocks(e)') = Total(ENTRENADORES, M) + (-n)
      <4>1. IsFiniteSet(ENTRENADORES) /\ s \in ENTRENADORES /\ -n \in Int
          BY <3>1, EntrenadoresAssumption
      <4>2. QED
          BY ONLY <4>1, <2>1, <3>2, <3>3, TotalCambia
    <3>6. QED
        BY <2>1, <3>1, <3>4, <3>5, TotalTipo, EntrenadoresAssumption
  <2>4. QED
      BY <2>2, <2>3
<1>4. \A e \in ESPECIES : Quieren(e)' = Quieren(e)
    BY DEF Quieren
<1>5. QED
    BY <1>3, <1>4 DEF Inventario, Cuenta, EspeciesGlobales

(* The accounts are balanced at the start, and after every step.           *)
LEMMA InicioInventario == Init => Inventario
<1> SUFFICES ASSUME Init PROVE Inventario
    OBVIOUS
<1>1. DOMAIN objetivo = EspeciesGlobales /\ Ents
    BY InicioTipos DEF Init, GlobalInicial, Tipos
<1>2. ASSUME NEW e \in EspeciesGlobales
      PROVE  Cuenta(e)
  <2>1. e \in ESPECIES /\ Tienen(e) \in Int /\ Quieren(e) \in Int
      BY <1>1, TienenTotal DEF EspeciesGlobales
  <2>2. objetivo[e] = GlobalInicial[e]
      BY DEF Init
  <2>3. Stocks(e) = [t \in ENTRENADORES |-> STOCK[t][e]]
    <3>1. \A t \in ENTRENADORES : ent[t].stock = STOCK[t]
        BY DEF Init, EntrenadorNuevo
    <3>2. QED
        BY <3>1 DEF Stocks
  <2>4. GlobalInicial[e] = Quieren(e) - Tienen(e)
      BY <2>3 DEF GlobalInicial, Quieren, Tienen, Stocks
  <2>5. QED
      BY <1>1, <2>1, <2>2, <2>4 DEF Cuenta
<1>3. QED
    BY <1>1, <1>2 DEF Inventario

(* Every step keeps the two sums equal: one species enters a stock as it   *)
(* leaves the list of objectives, an exchange moves one pokemon each way,  *)
(* and the rest touches neither.                                           *)
LEMMA PasoInventario == Tipos /\ Tipos' /\ Inventario /\ [Next]_vars => Inventario'
<1> SUFFICES ASSUME Tipos, Tipos', Inventario, [Next]_vars PROVE Inventario'
    OBVIOUS
<1>1. CASE MismoStock /\ UNCHANGED objetivo
  <2>1. \A e : Tienen(e)' = Tienen(e) /\ Quieren(e)' = Quieren(e)
      BY <1>1 DEF MismoStock, Tienen, Quieren
  <2>2. QED
      BY <1>1, <2>1 DEF Inventario, Cuenta
<1>2. QED
    BY <1>1, PasoStock, CuentaCaught, CuentaCanje

(* Every pokemon of a species somebody lacked is accounted for, and of the *)
(* others none is lost: what is still to be caught and what the trainers   *)
(* have add up to what they want.                                          *)
THEOREM NadaSePierde == Spec => []Conservacion
<1>1. Tipos /\ Inventario => Conservacion
  <2> SUFFICES ASSUME Tipos, Inventario, NEW e \in EspeciesGlobales
               PROVE  /\ Falta(e) + Tienen(e) >= Quieren(e)
                      /\ GlobalInicial[e] > 0 => Falta(e) + Tienen(e) = Quieren(e)
      BY DEF Conservacion
  <2>1. e \in ESPECIES /\ Tienen(e) \in Int /\ Quieren(e) \in Int
      BY TienenTotal DEF EspeciesGlobales, Tipos
  <2>2. QED
      BY <2>1 DEF Inventario, Cuenta, Falta
<1>2. Spec => [](Tipos /\ Inventario)
  <2>1. Init => Tipos /\ Inventario
      BY InicioTipos, InicioInventario
  <2>2. Tipos /\ Inventario /\ [Next]_vars => (Tipos /\ Inventario)'
      BY PasoTipos, PasoInventario
  <2>3. QED
      BY <2>1, <2>2, PTL DEF Spec
<1>3. QED
    BY <1>1, <1>2, PTL

-----------------------------------------------------------------------------
(* Where each trainer is, with every planner that does not preempt.        *)

\* What the thread of a trainer is about, wherever it is in a procedure it called.
FaseDe(p) ==
    CASE p = "nuevo" -> "nuevo"
      [] p \in {"llega", "esperaExec"} -> "va"
      [] p \in {"anda", "ciclo", "esperaCd"} -> "rafaga"
      [] p = "suelta" -> "suelta"
      [] p = "envia" -> "envia"
      [] p = "esperaCatch" -> "espera"
      [] p = "evalua" -> "evalua"
      [] p = "esperaBlock" -> "aguarda"
      [] OTHER -> "fin"
Dentro == {"mira", "elige", "cercania", "reparte", "traba"}
FaseEn(x) == IF x.pc \in Dentro THEN FaseDe(x.vuelta) ELSE FaseDe(x.pc)
Fase(t) == FaseEn(hilo[t])

\* 1 or 0.
Vale(p) == IF p THEN 1 ELSE 0

\* t has room for one more pokemon.
Lugar(t) == CantStock(ent[t]) < CantObjetivos(t)
\* How many times t is in Ready, woken up to run, or running.
Activo(t) == ready[t] + sem["ready_exec"][t] + sem["ready_exec_cd"][t] + Vale(Corriendo(t))
EnBlock(t) == Veces(block, t)
\* t has made its CATCH, or is about to, and has no answer.
Debe(t) ==
    \/ Fase(t) \in {"suelta", "envia"}
    \/ Fase(t) = "rafaga" /\ hilo[t].tramo = "captura"
    \/ Fase(t) = "espera" /\ ~SinCatch(t)

\* t is in one place: in New, in Ready or running, or in Block.
Sitio(t) ==
    /\ Vale(t \in nuevos) + Activo(t) + EnBlock(t) <= 1
    /\ t \notin terminados => Vale(t \in nuevos) + Activo(t) + EnBlock(t) = 1
Nuevo(t) ==
    /\ t \in nuevos <=> ent[t].estado = "NEW"
    /\ t \in nuevos => Fase(t) = "nuevo" /\ sem["new_ready"][t] = 0
    /\ Fase(t) = "nuevo" => Lugar(t) /\ sem["block_ready"][t] = 0
\* Whoever has a partner has no room.
Lleno(t) == ent[t].socio # NULL => ~Lugar(t)
\* Whoever waits in Block for a pokemon does nothing else, and is woken up once;
\* without room, t is woken up for an exchange or to finish.
Avisado(t) ==
    IF Lugar(t)
    THEN /\ EnBlock(t) > 0 /\ ent[t].razon = "ESPERANDO_POKEMON" =>
               Fase(t) = "aguarda" /\ sem["block_ready"][t] = 0
         /\ sem["block_ready"][t] > 0 => Fase(t) = "aguarda" /\ EnBlock(t) = 0
         /\ sem["block_ready"][t] <= 1
    ELSE sem["block_ready"][t] > 0 /\ ent[t].mov = "CATCH" => ent[t].estado = "FINISH"
\* Whoever goes for a pokemon has room for it.
Caza(t) ==
    /\ Fase(t) = "va" \/ (Fase(t) = "rafaga" /\ hilo[t].tramo = "viaje") =>
           ent[t].mov = "RESOLUCION_DEADLOCK" \/ Lugar(t)
    /\ Fase(t) = "rafaga" /\ hilo[t].tramo = "canje" => ent[t].mov = "RESOLUCION_DEADLOCK"
    /\ Debe(t) => Lugar(t)
    /\ Fase(t) = "envia" \/ (Fase(t) = "espera" /\ ~SinCatch(t)) => EnBlock(t) > 0
    /\ CantStock(ent[t]) <= CantObjetivos(t)
\* t got its last pokemon and has not looked at it.
Temprano(t) == Fase(t) \in {"espera", "evalua"} /\ ent[t].mov = "CATCH" /\ ~Lugar(t)
Adelantado(t) ==
    Temprano(t) /\ sem["block_ready"][t] > 0 => ObjetivosCumplidos(t, ent[t])
Cand(t) ==
    t \in cerc.cands =>
        t \in nuevos \/ (EnBlock(t) > 0 /\ Lugar(t) /\ ent[t].razon = "ESPERANDO_POKEMON")

Solo(t) == Sitio(t) /\ Nuevo(t) /\ Lleno(t) /\ Avisado(t) /\ Caza(t) /\ Adelantado(t) /\ Cand(t)

\* t goes to an exchange with u that is still to be done.
Pendiente(t, u) ==
    ent[t].mov = "RESOLUCION_DEADLOCK" /\ ent[t].socio = u /\ Activo(t) > 0
\* A partner has no room; one that has not looked at its last pokemon is of one exchange
\* at most, and has something to give.
Elegido(t) ==
    \A u \in ENTRENADORES : Temprano(t) /\ Pendiente(u, t) =>
        /\ ent[t].razon = "DEADLOCK" /\ sem["block_ready"][t] = 0
        /\ ~ObjetivosCumplidos(t, ent[t])
        /\ \A v \in ENTRENADORES : Pendiente(v, t) => v = u
Parejas ==
    /\ \A t, u \in ENTRENADORES : ent[t].socio = u => ~Lugar(u)
    /\ \A t \in ENTRENADORES : Elegido(t)

Orden == (\A t \in ENTRENADORES : Solo(t)) /\ Parejas

-----------------------------------------------------------------------------
(* A trainer that a step leaves alone.                                     *)
Igual(t) ==
    /\ Mismo(t)
    /\ Fase(t)' = Fase(t) /\ hilo'[t].tramo = hilo[t].tramo
    /\ Activo(t)' = Activo(t) /\ EnBlock(t)' = EnBlock(t)
    /\ (t \in nuevos)' = (t \in nuevos) /\ (t \in terminados)' = (t \in terminados)
    /\ sem'["block_ready"][t] = sem["block_ready"][t]
    /\ sem'["new_ready"][t] = sem["new_ready"][t]
    /\ SinCatch(t)' = SinCatch(t)

\* The types the counts have.
Contable(t) ==
    /\ Activo(t) \in Nat /\ EnBlock(t) \in Nat
    /\ \A k \in Semaforos : sem[k][t] \in Nat
    /\ CantStock(ent[t]) \in Int /\ CantObjetivos(t) \in Int
    /\ ent[t].mov \in {"CATCH", "RESOLUCION_DEADLOCK"}
    /\ hilo[t].tramo \in Tramos

(* They have them.                                                         *)
LEMMA Cuentas ==
    ASSUME Tipos, NEW t \in ENTRENADORES
    PROVE  Contable(t)
<1>1. /\ ready[t] \in Nat /\ \A k \in Semaforos : sem[k][t] \in Nat
    BY DEF Tipos, Listas, Sems
<1>2. Activo(t) \in Nat
    BY <1>1 DEF Activo, Vale, Semaforos
<1>3. EnBlock(t) \in Nat
    BY VecesFinitas DEF Tipos, Listas, EnBlock
<1>4. CantStock(ent[t]) \in Int /\ CantObjetivos(t) \in Int
  <2>1. /\ ent[t].stock \in [ESPECIES -> Int] /\ OBJETIVOS[t] \in [ESPECIES -> Int]
      BY Campos, EntrenadoresAssumption DEF Tipos, Dicc
  <2>2. QED
      BY <2>1, SumaTotal, TotalTipo, EntrenadoresAssumption DEF CantStock, CantObjetivos
<1>5. hilo[t].tramo \in Tramos
    BY Nombres DEF Tipos, Rutas, Hilos
<1>6. QED
    BY <1>1, <1>2, <1>3, <1>4, <1>5, Campos DEF Contable, Tipos

(* Such a trainer stays well.                                              *)
LEMMA IgualSolo ==
    ASSUME NEW t \in ENTRENADORES, Solo(t), Igual(t), t \in cerc'.cands => t \in cerc.cands
    PROVE  Solo(t)'
<1>1. /\ Lugar(t)' = Lugar(t) /\ CantStock(ent[t])' = CantStock(ent[t])
      /\ ObjetivosCumplidos(t, ent[t])' = ObjetivosCumplidos(t, ent[t])
    BY DEF Igual, Mismo, MismaMeta, Meta, Lugar, CantStock, ObjetivosCumplidos
<1>2. Debe(t)' = Debe(t) /\ Temprano(t)' = Temprano(t)
    BY <1>1 DEF Igual, Mismo, MismaMeta, Meta, Debe, Temprano
<1> USE <1>1, <1>2 DEF Solo, Igual, Mismo, MismaMeta, Meta
<1>3. Sitio(t)' /\ Nuevo(t)' /\ Lleno(t)'
    BY DEF Sitio, Nuevo, Lleno
<1>4. Avisado(t)' /\ Caza(t)' /\ Adelantado(t)' /\ Cand(t)'
    BY DEF Avisado, Caza, Adelantado, Cand
<1>5. QED
    BY <1>3, <1>4

(* A trainer whose parts a step leaves alone.                              *)
LEMMA Quieto ==
    ASSUME NEW u \in ENTRENADORES, Mismo(u), hilo'[u] = hilo[u],
           ready'[u] = ready[u], \A k \in Semaforos : sem'[k][u] = sem[k][u],
           EnBlock(u)' = EnBlock(u), UNCHANGED <<nuevos, terminados>>,
           SinCatch(u)' = SinCatch(u)
    PROVE  Igual(u)
<1>1. Fase(u)' = Fase(u) /\ Corriendo(u)' = Corriendo(u)
    BY DEF Fase, Corriendo
<1>2. Activo(u)' = Activo(u)
    BY <1>1 DEF Activo, Semaforos
<1>3. QED
    BY <1>1, <1>2 DEF Igual, Semaforos

(* What a trainer t that acts leaves to others.                            *)
LEMMA HiloDe ==
    ASSUME Tipos, NEW h \in HILOS
    PROVE  /\ hilo[h] \in [pc : Lugares, vuelta : Vueltas, tramo : Tramos, falta : Nat]
           /\ \A p : Sigue(h, p) => /\ hilo'[h].pc = p /\ hilo'[h].vuelta = hilo[h].vuelta
                                    /\ hilo'[h].tramo = hilo[h].tramo
                                    /\ \A g \in HILOS \ {h} : hilo'[g] = hilo[g]
           /\ \A p, v : Llama(h, p, v) => /\ hilo'[h].pc = p /\ hilo'[h].vuelta = v
                                          /\ hilo'[h].tramo = hilo[h].tramo
                                          /\ \A g \in HILOS \ {h} : hilo'[g] = hilo[g]
BY DEF Tipos, Rutas, Hilos, Sigue, Llama

(* A trainer is in Block as many times as it is there.                     *)
LEMMA EnBlockLista ==
    ASSUME Tipos, NEW t \in ENTRENADORES
    PROVE  EnLista(t, block) <=> EnBlock(t) > 0
<1>1. DOMAIN block = 1 .. Len(block)
    BY DeSeq DEF Tipos, Listas
<1>2. EnBlock(t) \in Nat /\ (EnBlock(t) = 0 <=> \A k \in 1 .. Len(block) : block[k] # t)
    BY VecesFinitas DEF Tipos, Listas, EnBlock
<1>3. QED
    BY <1>1, <1>2 DEF EnLista

(* list_remove_by_condition takes one place, if there is one.              *)
LEMMA VecesQuita ==
    ASSUME NEW s \in Seq(ENTRENADORES), NEW t \in ENTRENADORES
    PROVE  /\ Veces(Quitar(s, t), t) = IF Veces(s, t) > 0 THEN Veces(s, t) - 1 ELSE 0
           /\ \A u \in ENTRENADORES \ {t} : Veces(Quitar(s, t), u) = Veces(s, u)
<1>1. /\ DOMAIN s = 1 .. Len(s) /\ Len(s) \in Nat
      /\ Veces(s, t) \in Nat
      /\ Veces(s, t) = 0 <=> \A k \in 1 .. Len(s) : s[k] # t
    BY DeSeq, VecesFinitas
<1>2. CASE ~EnLista(t, s)
    BY <1>1, <1>2 DEF Quitar, EnLista
<1>3. CASE EnLista(t, s)
  <2> DEFINE P(j) == s[j] = t /\ \A k \in 1 .. j - 1 : s[k] # t
             i == CHOOSE j \in DOMAIN s : P(j)
  <2>1. \E j \in DOMAIN s : P(j)
    <3> DEFINE S == {j \in DOMAIN s : s[j] = t}
    <3>1. S \in SUBSET Nat /\ S # {}
        BY <1>3 DEF EnLista
    <3>2. PICK j \in S : \A k \in S : j <= k
        BY <3>1, MinimoNat, Zenon
    <3>3. QED
        BY <3>2
  <2>2. i \in DOMAIN s /\ s[i] = t
    <3>1. i \in DOMAIN s /\ P(i)
      <4> HIDE DEF P
      <4>1. QED
          BY <2>1
    <3>2. QED
        BY <3>1
  <2>3. Quitar(s, t) = RemoveAt(s, i)
      BY <1>3 DEF Quitar, RemoveAt
  <2> HIDE DEF i
  <2>4. Supresion(Quitar(s, t), ENTRENADORES, s, Len(s), i)
      BY <1>1, <2>2, <2>3, SinElemento
  <2>5. \A e : Veces(Quitar(s, t), e) = IF s[i] = e THEN Veces(s, e) - 1 ELSE Veces(s, e)
      BY <1>1, <2>2, <2>4, VecesSuprime
  <2>6. Veces(s, t) > 0
      BY <1>1, <2>2
  <2>7. QED
      BY <2>2, <2>5, <2>6
<1>4. QED
    BY <1>2, <1>3

(* A trainer that neither exchanges, finishes nor pairs others up leaves   *)
(* the others alone.                                                       *)
Anda(t) == Corre(t) /\ ~Canje(t) /\ ~Cumple(t) /\ ~Deadlock(t)
(* A step of its own leaves the other trainers and the two ends of the     *)
(* lists as they were.                                                     *)
LEMMA AndaAjenos ==
    ASSUME Tipos, NEW t \in ENTRENADORES, Anda(t)
    PROVE  /\ \A u \in ENTRENADORES \ {t} : Igual(u)
           /\ UNCHANGED <<cerc, nuevos, terminados>>
<1> USE DEF Anda
<1>1. \A u \in ENTRENADORES \ {t} : Mismo(u)
  <2>0. UNCHANGED ent => \A u \in ENTRENADORES \ {t} : Mismo(u)
      BY DEF Mismo, MismaMeta, Meta
  <2>1. CASE Empieza(t) \/ Retoma(t) \/ Ciclo(t) \/ Arriba(t) \/ Pide(t)
      BY <2>1, AndaEnt
  <2>2. CASE FinDeQuantum(t)
      BY <2>2, QuantumEnt
  <2>3. CASE Suelta(t)
      BY <2>0, <2>3, SueltaEnt DEF Suelta, Cae, Muere
  <2>4. CASE NoCumple(t)
      BY <2>4, NoCumpleEnt
  <2>5. QED
      BY <2>0, <2>1, <2>2, <2>3, <2>4
         DEF Corre, SaleDeNew, MarcaLlegada, CedeElPaso, Envia, RecibeRespuesta, SaleDeBlock, Sale
<1>2. \A u \in ENTRENADORES \ {t} : hilo'[u] = hilo[u]
  <2>0. t \in HILOS /\ ENTRENADORES \subseteq HILOS
      BY Nombres
  <2>1. UNCHANGED hilo \/ (\E p : Sigue(t, p)) \/ (\E p, v : Llama(t, p, v))
        \/ \E x : hilo' = [hilo EXCEPT ![t] = x]
    <3>1. CASE Empieza(t) \/ Ciclo(t) \/ Arriba(t)
      <4>1. hilo \in [HILOS -> [pc : Lugares, vuelta : Vueltas, tramo : Tramos, falta : Nat]]
          BY DEF Tipos, Rutas, Hilos
      <4>2. QED
          BY <3>1, <2>0, <4>1 DEF Empieza, Ciclo, Arriba
    <3>2. CASE SaleDeNew(t) \/ CedeElPaso(t) \/ Retoma(t) \/ Pide(t) \/ Envia(t)
               \/ RecibeRespuesta(t) \/ SaleDeBlock(t)
        BY <3>2 DEF SaleDeNew, CedeElPaso, Retoma, Pide, Envia, RecibeRespuesta, SaleDeBlock
    <3>3. CASE MarcaLlegada(t) \/ NoCumple(t) \/ Sale(t)
        BY <3>3 DEF MarcaLlegada, NoCumple, Sale
    <3>4. CASE FinDeQuantum(t) \/ Suelta(t)
        BY <3>4 DEF FinDeQuantum, Suelta, Cae, Muere
    <3>5. QED
        BY <3>1, <3>2, <3>3, <3>4 DEF Corre
  <2>2. QED
      BY <2>0, <2>1, HiloDe DEF Tipos, Rutas, Hilos
<1>3. \A u \in ENTRENADORES \ {t} : ready'[u] = ready[u]
  <2>1. UNCHANGED ready \/ ready' = [ready EXCEPT ![t] = @ + 1]
      BY DEF Corre, SaleDeNew, MarcaLlegada, Empieza, FinDeQuantum, CedeElPaso, Retoma, Ciclo,
         Arriba, Pide, Suelta, Envia, RecibeRespuesta, NoCumple, SaleDeBlock, Sale, Cae,
         Muere, listas
  <2>2. QED
      BY <2>1 DEF Tipos, Listas
<1>4. \A u \in ENTRENADORES \ {t} : \A k \in Semaforos : sem'[k][u] = sem[k][u]
  <2>1. UNCHANGED sem \/ \E k \in Semaforos : Espera(k, t)
      BY DEF Corre, SaleDeNew, MarcaLlegada, Empieza, FinDeQuantum, CedeElPaso, Retoma, Ciclo,
         Arriba, Pide, Suelta, Envia, RecibeRespuesta, NoCumple, SaleDeBlock, Sale, Cae,
         Muere, Semaforos
  <2>2. QED
      BY <2>1, EsperaTipo DEF Tipos
<1>5. \A u \in ENTRENADORES \ {t} : EnBlock(u)' = EnBlock(u)
  <2>1. UNCHANGED block \/ block' = Append(block, t)
      BY DEF Corre, SaleDeNew, MarcaLlegada, Empieza, FinDeQuantum, CedeElPaso, Retoma, Ciclo,
         Arriba, Pide, Suelta, Envia, RecibeRespuesta, NoCumple, SaleDeBlock, Sale, Cae,
         Muere, listas
  <2>2. block \in Seq(ENTRENADORES)
      BY DEF Tipos, Listas
  <2>3. \A u \in ENTRENADORES \ {t} : Veces(Append(block, t), u) = Veces(block, u)
      BY <2>2, VecesAgrega
  <2>4. QED
      BY <2>1, <2>3 DEF EnBlock
<1>6. UNCHANGED <<cerc, nuevos, terminados>>
    BY DEF Corre, SaleDeNew, MarcaLlegada, Empieza, FinDeQuantum, CedeElPaso, Retoma, Ciclo,
       Arriba, Pide, Suelta, Envia, RecibeRespuesta, NoCumple, SaleDeBlock, Sale, Cae,
       Muere, listas
<1>7. \A u \in ENTRENADORES \ {t} : SinCatch(u)' = SinCatch(u)
  <2>1. /\ UNCHANGED <<catches, waiting>>
        /\ UNCHANGED envio \/ envio' = [envio EXCEPT ![t].est = "conecta"]
      BY DEF Corre, SaleDeNew, MarcaLlegada, Empieza, FinDeQuantum, CedeElPaso, Retoma, Ciclo,
         Arriba, Pide, Suelta, Envia, RecibeRespuesta, NoCumple, SaleDeBlock, Sale, Cae,
         Muere, correo
  <2>2. \A u \in ENTRENADORES \ {t} : envio'[u] = envio[u]
      BY <2>1 DEF Tipos, Correo
  <2>3. QED
      BY <2>1, <2>2 DEF SinCatch
<1>8. QED
    BY <1>1, <1>2, <1>3, <1>4, <1>5, <1>6, <1>7, Quieto

(* What the phases of the places are.                                      *)
LEMMA Fases ==
    /\ FaseDe("nuevo") = "nuevo"
    /\ FaseDe("llega") = "va" /\ FaseDe("esperaExec") = "va"
    /\ FaseDe("anda") = "rafaga" /\ FaseDe("ciclo") = "rafaga" /\ FaseDe("esperaCd") = "rafaga"
    /\ FaseDe("suelta") = "suelta" /\ FaseDe("envia") = "envia"
    /\ FaseDe("esperaCatch") = "espera" /\ FaseDe("evalua") = "evalua"
    /\ FaseDe("esperaBlock") = "aguarda"
    /\ FaseDe("sale") = "fin" /\ FaseDe("saleDos") = "fin" /\ FaseDe("fin") = "fin"
    /\ FaseDe("libre") = "fin"
BY DEF FaseDe

\* The phase of a thread that goes to p, and returns to v when p is a procedure.
FaseA(p, v) == IF p \in Dentro THEN FaseDe(v) ELSE FaseDe(p)

(* Where a thread that goes on, or calls, is then.                         *)
LEMMA FaseVa ==
    ASSUME Tipos, NEW t \in ENTRENADORES
    PROVE  /\ Fase(t) = FaseA(hilo[t].pc, hilo[t].vuelta)
           /\ \A p : Sigue(t, p) => /\ Fase(t)' = FaseA(p, hilo[t].vuelta)
                                    /\ Corriendo(t)' = (p \in {"anda", "ciclo", "suelta"})
                                    /\ hilo'[t].tramo = hilo[t].tramo
           /\ \A p, v : Llama(t, p, v) => /\ Fase(t)' = FaseA(p, v)
                                          /\ Corriendo(t)' = (p \in {"anda", "ciclo", "suelta"})
                                          /\ hilo'[t].tramo = hilo[t].tramo
<1>1. t \in HILOS
    BY Nombres
<1>2. QED
    BY <1>1, HiloDe DEF Fase, FaseEn, FaseA, Corriendo

\* t keeps its lists.
MismoSitio(t) ==
    /\ (t \in nuevos)' = (t \in nuevos) /\ (t \in terminados)' = (t \in terminados)
    /\ Activo(t)' = Activo(t) /\ EnBlock(t)' = EnBlock(t)
\* t keeps the semaphores it is woken up with.
MismoAviso(t) ==
    /\ sem'["block_ready"][t] = sem["block_ready"][t]
    /\ sem'["new_ready"][t] = sem["new_ready"][t]

(* What a trainer is depends on its stock and its plan only.               *)
LEMMA MismoLugar ==
    ASSUME NEW t, MismaMeta(t)
    PROVE  /\ Lugar(t)' = Lugar(t) /\ CantStock(ent[t])' = CantStock(ent[t])
           /\ CantObjetivos(t)' = CantObjetivos(t)
           /\ ObjetivosCumplidos(t, ent[t])' = ObjetivosCumplidos(t, ent[t])
BY DEF MismaMeta, Meta, Lugar, CantStock, CantObjetivos, ObjetivosCumplidos

(* From New.                                                               *)
LEMMA SaleDeNewSolo ==
    ASSUME Tipos, NEW t \in ENTRENADORES, SaleDeNew(t), Solo(t)
    PROVE  Solo(t)' /\ Mismo(t) /\ MismoSitio(t) /\ Fase(t)' = "va"
<1>1. Mismo(t) /\ MismaMeta(t)
    BY DEF SaleDeNew, Mismo, MismaMeta, Meta
<1>2. Fase(t) = "nuevo" /\ Fase(t)' = "va" /\ hilo'[t].tramo = hilo[t].tramo
      /\ ~Corriendo(t) /\ ~Corriendo(t)'
    BY FaseVa, Fases DEF SaleDeNew, En, FaseA, Dentro, Corriendo
<1>3. /\ sem["new_ready"][t] > 0 /\ sem'["new_ready"][t] = sem["new_ready"][t] - 1
      /\ \A k \in Semaforos \ {"new_ready"} : sem'[k][t] = sem[k][t]
    BY EsperaTipo DEF SaleDeNew, Tipos, Semaforos
<1>4. MismoSitio(t)
  <2>1. UNCHANGED <<nuevos, ready, block, terminados>>
      BY DEF SaleDeNew, listas
  <2>2. Activo(t)' = Activo(t)
      BY <1>2, <1>3, <2>1 DEF Activo, Vale, Semaforos
  <2>3. QED
      BY <2>1, <2>2 DEF MismoSitio, EnBlock
<1>5. Contable(t) /\ cerc' = cerc
    BY Cuentas DEF SaleDeNew
<1>6. t \notin nuevos /\ Lugar(t) /\ sem["block_ready"][t] = 0 /\ ent[t].estado # "NEW"
    BY <1>2, <1>3, <1>5 DEF Solo, Nuevo, Contable, Semaforos
<1>7. sem'["block_ready"][t] = 0
    BY <1>3, <1>6 DEF Semaforos
<1>8. ~Debe(t) /\ ~Debe(t)' /\ ~Temprano(t)'
    BY <1>2 DEF Debe, Temprano
<1> USE <1>1, <1>2, <1>4, <1>5, <1>6, <1>7, <1>8, MismoLugar DEF Solo, MismoSitio, Mismo, MismaMeta, Meta
<1>9. Sitio(t)' /\ Nuevo(t)' /\ Lleno(t)' /\ Cand(t)'
    BY DEF Sitio, Nuevo, Lleno, Cand
<1>10. Avisado(t)' /\ Caza(t)' /\ Adelantado(t)'
    BY DEF Avisado, Caza, Adelantado, Contable
<1>11. QED
    BY <1>9, <1>10

(* A trainer that was woken up to run, runs.                               *)
LEMMA TomaTurno ==
    ASSUME Tipos, NEW t \in ENTRENADORES, NEW k \in {"ready_exec", "ready_exec_cd"},
           Espera(k, t), UNCHANGED ready, ~Corriendo(t), Corriendo(t)'
    PROVE  Activo(t)' = Activo(t) /\ MismoAviso(t)
<1>1. k \in Semaforos
    BY DEF Semaforos
<1>2. /\ sem[k][t] > 0 /\ sem'[k][t] = sem[k][t] - 1
      /\ \A j \in Semaforos \ {k} : sem'[j][t] = sem[j][t]
    BY <1>1, EsperaTipo DEF Tipos
<1>3. ready[t] \in Nat /\ \A j \in Semaforos : sem[j][t] \in Nat
    BY DEF Tipos, Listas, Sems
<1>4. CASE k = "ready_exec"
    BY <1>2, <1>3, <1>4 DEF Activo, MismoAviso, Vale, Semaforos
<1>5. CASE k = "ready_exec_cd"
    BY <1>2, <1>3, <1>5 DEF Activo, MismoAviso, Vale, Semaforos
<1>6. QED
    BY <1>4, <1>5

(* A trainer whose step changes nothing that matters here.                 *)
LEMMA SigueIgual ==
    ASSUME Tipos, NEW t \in ENTRENADORES,
           MarcaLlegada(t) \/ Retoma(t) \/ Ciclo(t) \/ Sale(t)
    PROVE  Igual(t)
<1>1. Mismo(t)
    BY AndaEnt DEF MarcaLlegada, Sale, Mismo, MismaMeta, Meta
<1>2. /\ UNCHANGED <<nuevos, block, terminados, ready, envio, catches, waiting>>
      /\ EnBlock(t)' = EnBlock(t) /\ SinCatch(t)' = SinCatch(t)
    BY DEF MarcaLlegada, Retoma, Ciclo, Sale, listas, correo, EnBlock, SinCatch
<1>3. CASE MarcaLlegada(t) \/ Sale(t)
  <2>1. Fase(t)' = Fase(t) /\ Corriendo(t)' = Corriendo(t) /\ hilo'[t].tramo = hilo[t].tramo
    <3>1. CASE MarcaLlegada(t)
        BY <3>1, FaseVa, Fases DEF MarcaLlegada, En, FaseA, Dentro, Corriendo
    <3>2. CASE Sale(t)
        BY <3>2, FaseVa, Fases DEF Sale, En, FaseA, Dentro, Corriendo
    <3>3. QED
        BY <1>3, <3>1, <3>2
  <2>2. UNCHANGED sem
      BY <1>3 DEF MarcaLlegada, Sale
  <2>3. QED
      BY <1>1, <1>2, <2>1, <2>2 DEF Igual, Activo
<1>4. CASE Retoma(t)
  <2>1. /\ Fase(t)' = Fase(t) /\ ~Corriendo(t) /\ Corriendo(t)'
        /\ hilo'[t].tramo = hilo[t].tramo
      BY <1>4, FaseVa, Fases DEF Retoma, En, FaseA, Dentro, Corriendo
  <2>2. Activo(t)' = Activo(t) /\ MismoAviso(t)
      BY <1>2, <1>4, <2>1, TomaTurno DEF Retoma
  <2>3. QED
      BY <1>1, <1>2, <2>1, <2>2 DEF Igual, MismoAviso
<1>5. CASE Ciclo(t)
  <2>1. t \in HILOS /\ hilo[t] \in [pc : Lugares, vuelta : Vueltas, tramo : Tramos, falta : Nat]
      BY Nombres, HiloDe
  <2>2. hilo'[t].pc = "anda" /\ hilo'[t].tramo = hilo[t].tramo
      BY <1>5, <2>1 DEF Ciclo, Tipos, Rutas, Hilos
  <2>3. Fase(t)' = Fase(t) /\ Corriendo(t)' = Corriendo(t)
      BY <1>5, <2>2, Fases DEF Ciclo, PuedeCiclo, En, Fase, FaseEn, Dentro, Corriendo
  <2>4. UNCHANGED sem
      BY <1>5 DEF Ciclo
  <2>5. QED
      BY <1>1, <1>2, <2>2, <2>3, <2>4 DEF Igual, Activo
<1>6. QED
    BY <1>3, <1>4, <1>5

\* t goes on, and nothing of it changes but the phase and the stretch.
Avanza(t) ==
    /\ Mismo(t) /\ MismoSitio(t) /\ MismoAviso(t) /\ UNCHANGED cerc
    /\ Fase(t) # "nuevo" /\ Fase(t)' # "nuevo"

(* It keeps what it is if it is still allowed to be where it goes.         *)
LEMMA AvanzaSolo ==
    ASSUME Tipos, NEW t \in ENTRENADORES, Solo(t), Avanza(t), Caza(t)',
           Fase(t) # "aguarda", Temprano(t)' => Temprano(t)
    PROVE  Solo(t)'
<1> USE MismoLugar DEF Avanza, MismoSitio, MismoAviso, Solo, Mismo, MismaMeta, Meta
<1>1. Contable(t)
    BY Cuentas
<1>2. Sitio(t)' /\ Nuevo(t)' /\ Lleno(t)' /\ Cand(t)' /\ Adelantado(t)'
    BY DEF Sitio, Nuevo, Lleno, Cand, Adelantado
<1>3. Avisado(t)'
    BY <1>1 DEF Avisado, Contable, Semaforos
<1>4. QED
    BY <1>2, <1>3

(* The first cycle, the arrival, and the cycle of the CATCH.               *)
LEMMA EmpiezaSolo ==
    ASSUME Tipos, NEW t \in ENTRENADORES, Empieza(t), Solo(t)
    PROVE  Solo(t)' /\ Avanza(t)
<1>1. Mismo(t) /\ MismaMeta(t)
    BY AndaEnt DEF Mismo
<1>2. /\ Fase(t) = "va" /\ ~Corriendo(t)
      /\ Fase(t)' = "rafaga" /\ Corriendo(t)' /\ hilo'[t].tramo = "viaje"
  <2>1. t \in HILOS /\ hilo[t] \in [pc : Lugares, vuelta : Vueltas, tramo : Tramos, falta : Nat]
      BY Nombres, HiloDe
  <2>2. hilo'[t].pc = "anda" /\ hilo'[t].tramo = "viaje"
      BY <2>1 DEF Empieza, Tipos, Rutas, Hilos
  <2>3. QED
      BY <2>2, Fases DEF Empieza, En, Fase, FaseEn, Dentro, Corriendo
<1>3. UNCHANGED <<nuevos, block, terminados, ready, cerc>>
    BY DEF Empieza, listas
<1>4. Activo(t)' = Activo(t) /\ MismoAviso(t)
    BY <1>2, <1>3, TomaTurno DEF Empieza
<1>5. Avanza(t)
    BY <1>1, <1>2, <1>3, <1>4 DEF Avanza, MismoSitio, EnBlock
<1>6. Caza(t)'
    BY <1>1, <1>2, MismoLugar DEF Solo, Caza, Debe, MismaMeta, Meta
<1>7. QED
    BY <1>2, <1>5, <1>6, AvanzaSolo DEF Temprano

(* The trainer that gets where it was going goes on in the same burst.     *)
LEMMA ArribaSolo ==
    ASSUME Tipos, NEW t \in ENTRENADORES, Arriba(t), Solo(t)
    PROVE  Solo(t)' /\ Avanza(t)
<1>1. Mismo(t) /\ MismaMeta(t) /\ ent[t].mov \in {"CATCH", "RESOLUCION_DEADLOCK"}
    BY AndaEnt, Campos DEF Mismo, Tipos
<1>2. /\ Fase(t) = "rafaga" /\ Corriendo(t) /\ hilo[t].tramo = "viaje"
      /\ Fase(t)' = "rafaga" /\ Corriendo(t)'
      /\ hilo'[t].tramo = IF ent[t].mov = "CATCH" THEN "captura" ELSE "canje"
  <2>1. t \in HILOS /\ hilo[t] \in [pc : Lugares, vuelta : Vueltas, tramo : Tramos, falta : Nat]
      BY Nombres, HiloDe
  <2>2. /\ hilo[t].pc = "anda" /\ hilo[t].tramo = "viaje" /\ hilo'[t].pc = "anda"
        /\ hilo'[t].tramo = IF ent[t].mov = "CATCH" THEN "captura" ELSE "canje"
      BY <2>1 DEF Arriba, Tipos, Rutas, Hilos, En
  <2>3. QED
      BY <2>2, Fases DEF Fase, FaseEn, Dentro, Corriendo
<1>3. UNCHANGED <<nuevos, block, terminados, ready, cerc, sem>>
    BY DEF Arriba, listas
<1>4. MismoSitio(t)
    BY <1>2, <1>3 DEF MismoSitio, EnBlock, Activo, Vale
<1>5. Avanza(t)
    BY <1>1, <1>2, <1>3, <1>4 DEF Avanza, MismoAviso
<1>6. Caza(t)'
    BY <1>1, <1>2, MismoLugar DEF Solo, Caza, Debe, MismaMeta, Meta
<1>7. QED
    BY <1>2, <1>5, <1>6, AvanzaSolo DEF Temprano

(* The trainer that asks for its pokemon lets the processor go and waits   *)
(* for the answer.                                                         *)
LEMMA PideSolo ==
    ASSUME Tipos, NEW t \in ENTRENADORES, Pide(t), Solo(t)
    PROVE  Solo(t)' /\ Avanza(t)
<1>1. Mismo(t) /\ MismaMeta(t)
    BY AndaEnt DEF Mismo
<1>2. /\ Fase(t) = "rafaga" /\ Corriendo(t) /\ hilo[t].tramo = "captura"
      /\ Fase(t)' = "suelta" /\ Corriendo(t)'
    BY FaseVa, Fases DEF Pide, PuedeCiclo, En, FaseA, Dentro, Corriendo
<1>3. UNCHANGED <<nuevos, block, terminados, ready, cerc, sem>>
    BY DEF Pide, listas
<1>4. MismoSitio(t)
    BY <1>2, <1>3 DEF MismoSitio, EnBlock, Activo, Vale
<1>5. Avanza(t)
    BY <1>1, <1>2, <1>3, <1>4 DEF Avanza, MismoAviso
<1>6. Caza(t)'
    BY <1>1, <1>2, MismoLugar DEF Solo, Caza, Debe, MismaMeta, Meta
<1>7. QED
    BY <1>2, <1>5, <1>6, AvanzaSolo DEF Temprano

(* A process that dies changes nothing else.                               *)
LEMMA CaeIgual ==
    ASSUME NEW m, Cae(m), NEW t \in ENTRENADORES
    PROVE  Igual(t) /\ UNCHANGED cerc
<1>1. UNCHANGED <<ent, hilo, listas, sem, cerc, correo>>
    BY DEF Cae, Muere
<1>2. Mismo(t) /\ SinCatch(t)' = SinCatch(t) /\ EnBlock(t)' = EnBlock(t)
    BY <1>1 DEF Mismo, MismaMeta, Meta, SinCatch, correo, listas, EnBlock
<1>3. QED
    BY <1>1, <1>2, Quieto DEF listas

(* The end of a quantum.                                                   *)
LEMMA QuantumSolo ==
    ASSUME Tipos, NEW t \in ENTRENADORES, FinDeQuantum(t), exec # <<>>, Solo(t)
    PROVE  Solo(t)' /\ MismaMeta(t) /\ MismoSitio(t) /\ MismoAviso(t) /\ Fase(t)' = Fase(t)
<1>1. MismaMeta(t) /\ ent'[t].estado = "READY"
    BY QuantumEnt
<1>2. /\ Fase(t) = "rafaga" /\ Corriendo(t) /\ Fase(t)' = "rafaga" /\ ~Corriendo(t)'
      /\ hilo'[t].tramo = hilo[t].tramo
    BY FaseVa, Fases DEF FinDeQuantum, En, FaseA, Dentro, Corriendo
<1>3. /\ UNCHANGED <<nuevos, block, terminados, cerc, sem, correo>>
      /\ ready' = [ready EXCEPT ![t] = @ + 1]
    BY DEF FinDeQuantum
<1>4. MismoSitio(t)
  <2>1. /\ ready[t] \in Nat /\ ready'[t] = ready[t] + 1
        /\ sem["ready_exec"][t] \in Nat /\ sem["ready_exec_cd"][t] \in Nat
      BY <1>3 DEF Tipos, Listas, Sems, Semaforos
  <2>2. Activo(t)' = Activo(t)
      BY <1>2, <1>3, <2>1 DEF Activo, Vale
  <2>3. QED
      BY <1>3, <2>2 DEF MismoSitio, EnBlock
<1>5. SinCatch(t)' = SinCatch(t)
    BY <1>3 DEF SinCatch, correo
<1>6. Contable(t) /\ MismoAviso(t)
    BY <1>3, Cuentas DEF MismoAviso
<1>7. t \notin nuevos
    BY <1>2 DEF Solo, Nuevo
<1>8. Lugar(t) \/ ent[t].mov # "CATCH"
    BY <1>2, <1>6 DEF Solo, Caza, Debe, Contable, Tramos
<1>9. Debe(t)' = Debe(t) /\ ~Temprano(t)'
    BY <1>2, <1>5 DEF Debe, Temprano
<1> USE <1>1, <1>2, <1>3, <1>4, <1>5, <1>6, <1>7, <1>8, <1>9, MismoLugar
    DEF Solo, MismoSitio, MismoAviso, MismaMeta, Meta
<1>10. Sitio(t)' /\ Nuevo(t)' /\ Lleno(t)' /\ Cand(t)' /\ Adelantado(t)'
    BY DEF Sitio, Nuevo, Lleno, Cand, Adelantado
<1>11. Avisado(t)' /\ Caza(t)'
    BY DEF Avisado, Caza, Contable
<1>12. QED
    BY <1>10, <1>11

(* To Block, to wait for a CATCH.                                          *)
LEMMA SueltaSolo ==
    ASSUME Tipos, NEW t \in ENTRENADORES, Suelta(t), exec # <<>>, Solo(t)
    PROVE  /\ Solo(t)' /\ ent'[t].mov = ent[t].mov /\ ent'[t].socio = ent[t].socio
           /\ Lugar(t) /\ Lugar(t)' /\ Activo(t)' = 0
<1>1. /\ ent'[t].estado = "BLOCK" /\ ent'[t].razon = "ESPERANDO_CATCH"
      /\ ent'[t].mov = ent[t].mov /\ ent'[t].socio = ent[t].socio
      /\ ent'[t].especie = ent[t].especie /\ ent'[t].stock = ent[t].stock
    BY SueltaEnt
<1>2. Fase(t) = "suelta" /\ Corriendo(t) /\ Fase(t)' = "envia" /\ ~Corriendo(t)'
    BY FaseVa, Fases DEF Suelta, En, FaseA, Dentro, Corriendo
<1>3. /\ UNCHANGED <<nuevos, ready, terminados, cerc, sem, correo>>
      /\ block' = Append(block, t)
    BY DEF Suelta, Cae, Muere
<1>4. Contable(t)
    BY Cuentas
<1>5. Lugar(t) /\ Lugar(t)' /\ Debe(t) /\ CantStock(ent[t])' <= CantObjetivos(t)
  <2>1. Debe(t)
      BY <1>2 DEF Debe
  <2>2. QED
      BY <1>1, <2>1 DEF Solo, Caza, Lugar, CantStock, CantObjetivos
<1>6. Activo(t)' = Activo(t) - 1 /\ Activo(t) >= 1
  <2>1. /\ ready[t] \in Nat
        /\ sem["ready_exec"][t] \in Nat /\ sem["ready_exec_cd"][t] \in Nat
      BY DEF Tipos, Listas, Sems, Semaforos
  <2>2. Vale(Corriendo(t)) = 1 /\ Vale(Corriendo(t)') = 0
      BY <1>2 DEF Vale
  <2>3. Activo(t)' = ready[t] + sem["ready_exec"][t] + sem["ready_exec_cd"][t]
                     + Vale(Corriendo(t)')
      BY <1>3 DEF Activo, Vale
  <2>4. QED
      BY <2>1, <2>2, <2>3 DEF Activo
<1>7. EnBlock(t)' = EnBlock(t) + 1
    BY <1>3, VecesAgrega DEF EnBlock, Tipos, Listas
<1>8. /\ t \notin nuevos /\ Activo(t)' = 0 /\ EnBlock(t) = 0 /\ EnBlock(t)' = 1
      /\ sem["block_ready"][t] = 0
    BY <1>2, <1>4, <1>5, <1>6, <1>7 DEF Solo, Nuevo, Sitio, Avisado, Vale, Contable, Semaforos
<1> USE <1>1, <1>2, <1>3, <1>4, <1>5, <1>8 DEF Solo
<1>9. Sitio(t)' /\ Nuevo(t)' /\ Lleno(t)' /\ Cand(t)' /\ Adelantado(t)'
    BY DEF Sitio, Vale, Nuevo, Lleno, Cand, Adelantado, Temprano
<1>10. Avisado(t)' /\ Caza(t)'
    BY DEF Avisado, Caza
<1>11. QED
    BY <1>8, <1>9, <1>10

(* The CATCH is on its way.                                                *)
LEMMA EnviaSolo ==
    ASSUME Tipos, NEW t \in ENTRENADORES, Envia(t), Solo(t)
    PROVE  Solo(t)' /\ Avanza(t) /\ Lugar(t)
<1>1. Mismo(t) /\ MismaMeta(t)
    BY DEF Envia, Mismo, MismaMeta, Meta
<1>2. Fase(t) = "envia" /\ ~Corriendo(t) /\ Fase(t)' = "espera" /\ ~Corriendo(t)'
    BY FaseVa, Fases DEF Envia, En, FaseA, Dentro, Corriendo
<1>3. UNCHANGED <<nuevos, block, terminados, ready, cerc, sem>>
    BY DEF Envia, listas
<1>4. MismoSitio(t)
    BY <1>2, <1>3 DEF MismoSitio, EnBlock, Activo, Vale
<1>5. Avanza(t)
    BY <1>1, <1>2, <1>3, <1>4 DEF Avanza, MismoAviso
<1>6. Debe(t) /\ Lugar(t)
    BY <1>2 DEF Debe, Solo, Caza
<1>7. Caza(t)'
    BY <1>1, <1>2, <1>4, <1>6, MismoLugar DEF Solo, Caza, MismaMeta, Meta, MismoSitio
<1>8. ~Temprano(t)'
    BY <1>1, <1>6, MismoLugar DEF Temprano
<1>9. QED
    BY <1>2, <1>5, <1>6, <1>7, <1>8, AvanzaSolo

(* The answer came.                                                        *)
LEMMA RecibeSolo ==
    ASSUME Tipos, Pendientes, NEW t \in ENTRENADORES, RecibeRespuesta(t), Solo(t)
    PROVE  Solo(t)' /\ Avanza(t)
<1>1. Mismo(t) /\ MismaMeta(t)
    BY DEF RecibeRespuesta, Mismo, MismaMeta, Meta
<1>2. Fase(t) = "espera" /\ ~Corriendo(t) /\ Fase(t)' = "evalua" /\ ~Corriendo(t)'
    BY FaseVa, Fases DEF RecibeRespuesta, En, FaseA, Dentro, Corriendo
<1>3. UNCHANGED <<nuevos, block, terminados, ready, cerc>>
    BY DEF RecibeRespuesta, listas
<1>4. /\ sem["block_catch"][t] > 0
      /\ \A k \in Semaforos \ {"block_catch"} : sem'[k][t] = sem[k][t]
    BY EsperaTipo DEF RecibeRespuesta, Tipos, Semaforos
<1>5. MismoSitio(t) /\ MismoAviso(t)
    BY <1>2, <1>3, <1>4 DEF MismoSitio, MismoAviso, EnBlock, Activo, Vale, Semaforos
<1>6. Avanza(t)
    BY <1>1, <1>2, <1>3, <1>5 DEF Avanza
<1>7. Caza(t)'
    BY <1>1, <1>2, MismoLugar DEF Solo, Caza, Debe, MismaMeta, Meta
<1>8. Temprano(t)' => Temprano(t)
    BY <1>1, <1>2, MismoLugar DEF Temprano, MismaMeta, Meta
<1>9. QED
    BY <1>2, <1>6, <1>7, <1>8, AvanzaSolo

(* It did not get all it wants.                                            *)
LEMMA NoCumpleSolo ==
    ASSUME Tipos, NEW t \in ENTRENADORES, NoCumple(t), Solo(t)
    PROVE  /\ Solo(t)' /\ ent'[t].mov = ent[t].mov /\ ent'[t].socio = ent[t].socio
           /\ Lugar(t)' = Lugar(t) /\ Activo(t)' = Activo(t) /\ Fase(t)' = "aguarda"
<1>1. /\ ent'[t].mov = ent[t].mov /\ ent'[t].socio = ent[t].socio
      /\ ent'[t].stock = ent[t].stock
      /\ IF Lugar(t)
         THEN ent'[t].razon = "ESPERANDO_POKEMON" /\ ent'[t].estado = ent[t].estado
         ELSE ent'[t].razon = "SIN_ESPACIO" /\ ent'[t].estado = "BLOCK"
    BY NoCumpleEnt DEF Lugar
<1>2. Fase(t) = "evalua" /\ ~Corriendo(t) /\ Fase(t)' = "aguarda" /\ ~Corriendo(t)'
  <2>1. Llama(t, "cercania", "esperaBlock") \/ Llama(t, "traba", "esperaBlock")
      BY DEF NoCumple
  <2>2. QED
      BY <2>1, FaseVa, Fases DEF NoCumple, En, FaseA, Dentro, Corriendo
<1>3. UNCHANGED <<nuevos, block, terminados, ready, cerc, sem>>
    BY DEF NoCumple, listas
<1>4. MismoSitio(t)
    BY <1>2, <1>3 DEF MismoSitio, EnBlock, Activo, Vale
<1>5. Contable(t) /\ ~ObjetivosCumplidos(t, ent[t])
    BY Cuentas DEF NoCumple
<1>6. /\ Lugar(t)' = Lugar(t) /\ CantStock(ent[t])' = CantStock(ent[t])
      /\ CantObjetivos(t)' = CantObjetivos(t)
    BY <1>1 DEF Lugar, CantStock, CantObjetivos
<1>7. t \notin nuevos /\ t \notin cerc.cands
    BY <1>2 DEF Solo, Nuevo, Cand, Avisado
<1>8. Lugar(t) \/ ent[t].mov = "CATCH" => sem["block_ready"][t] = 0
    BY <1>2, <1>5 DEF Solo, Avisado, Adelantado, Temprano, Contable, Semaforos
<1> USE <1>1, <1>2, <1>3, <1>4, <1>5, <1>6, <1>7, <1>8 DEF Solo, MismoSitio
<1>9. Sitio(t)' /\ Nuevo(t)' /\ Lleno(t)' /\ Cand(t)' /\ Adelantado(t)'
    BY DEF Sitio, Nuevo, Lleno, Cand, Adelantado, Temprano
<1>10. Avisado(t)' /\ Caza(t)'
    BY DEF Avisado, Caza, Debe, Contable
<1>11. QED
    BY <1>9, <1>10

(* Out of Block.                                                           *)
LEMMA SaleDeBlockSolo ==
    ASSUME Tipos, NEW t \in ENTRENADORES, SaleDeBlock(t), Solo(t)
    PROVE  /\ Solo(t)' /\ Mismo(t) /\ Activo(t)' = Activo(t)
           /\ Fase(t)' \in {"va", "fin"}
<1>1. Mismo(t) /\ MismaMeta(t)
    BY DEF SaleDeBlock, Mismo, MismaMeta, Meta
<1>2. /\ Fase(t) = "aguarda" /\ ~Corriendo(t) /\ ~Corriendo(t)'
      /\ Fase(t)' = IF ent[t].estado = "FINISH" THEN "fin" ELSE "va"
    BY FaseVa, Fases DEF SaleDeBlock, En, FaseA, Dentro, Corriendo
<1>3. UNCHANGED <<nuevos, block, terminados, ready, cerc>>
    BY DEF SaleDeBlock, listas
<1>4. /\ sem["block_ready"][t] > 0 /\ sem'["block_ready"][t] = sem["block_ready"][t] - 1
      /\ \A k \in Semaforos \ {"block_ready"} : sem'[k][t] = sem[k][t]
    BY EsperaTipo DEF SaleDeBlock, Tipos, Semaforos
<1>5. MismoSitio(t)
    BY <1>2, <1>3, <1>4 DEF MismoSitio, EnBlock, Activo, Vale, Semaforos
<1>6. Contable(t)
    BY Cuentas
<1>7. t \notin nuevos /\ (Lugar(t) => EnBlock(t) = 0 /\ sem["block_ready"][t] = 1)
    BY <1>2, <1>4, <1>6 DEF Solo, Nuevo, Avisado, Contable, Semaforos
<1>8. t \notin cerc.cands
    BY <1>7 DEF Solo, Cand
<1>9. ~Lugar(t) /\ ent[t].mov = "CATCH" => ent[t].estado = "FINISH"
    BY <1>4 DEF Solo, Avisado
<1> USE <1>1, <1>2, <1>3, <1>4, <1>5, <1>6, <1>7, <1>8, <1>9, MismoLugar
    DEF Solo, MismoSitio, Mismo, MismaMeta, Meta
<1>10. Sitio(t)' /\ Nuevo(t)' /\ Lleno(t)' /\ Cand(t)' /\ Adelantado(t)'
    BY DEF Sitio, Nuevo, Lleno, Cand, Adelantado, Temprano
<1>11. Avisado(t)' /\ Caza(t)'
    BY DEF Avisado, Caza, Debe, Contable, Semaforos
<1>12. QED
    BY <1>10, <1>11

(* An exchange changes what a trainer has, not how much.                   *)
LEMMA TruequeTotal ==
    ASSUME NEW d \in [ESPECIES -> Int], NEW g \in [ESPECIES -> Int],
           NEW a \in ESPECIES, NEW b \in ESPECIES,
           \A e \in ESPECIES : g[e] = d[e] + Trueque(a, b, e)
    PROVE  Suma(g) = Suma(d)
<1>1. Suma(g) = Total(ESPECIES, g) /\ Suma(d) = Total(ESPECIES, d) /\ IsFiniteSet(ESPECIES)
    BY SumaTotal, EntrenadoresAssumption
<1>2. CASE a = b
  <2>1. \A e \in ESPECIES : g[e] = d[e]
      BY <1>2 DEF Trueque
  <2>2. g = d
      BY <2>1
  <2>3. QED
      BY <2>2
<1>3. CASE a # b
  <2> DEFINE m == [d EXCEPT ![a] = @ + 1]
  <2>1. /\ m \in [ESPECIES -> Int] /\ m[a] = d[a] + 1
        /\ \A e \in ESPECIES \ {a} : m[e] = d[e]
      OBVIOUS
  <2> HIDE DEF m
  <2>2. g[b] = m[b] + (-1) /\ \A e \in ESPECIES \ {b} : g[e] = m[e]
      BY <1>3, <2>1 DEF Trueque
  <2>3. 1 \in Int /\ -1 \in Int
      OBVIOUS
  <2>4. Total(ESPECIES, m) = Total(ESPECIES, d) + 1
      BY <1>1, <2>1, <2>3, TotalCambia
  <2>5. Total(ESPECIES, g) = Total(ESPECIES, m) + (-1)
      BY <1>1, <2>1, <2>2, <2>3, TotalCambia
  <2>6. Total(ESPECIES, d) \in Int
      BY <1>1, TotalTipo
  <2>7. QED
      BY <1>1, <2>4, <2>5, <2>6
<1>4. QED
    BY <1>2, <1>3

(* What an exchange does: t leaves the processor for Block, and both have  *)
(* as many pokemons as before.                                             *)
LEMMA CanjeEfecto ==
    ASSUME Tipos, NEW t \in ENTRENADORES, Canje(t), ~Cae("canje"), ~Cae("exec_vacia"),
           NEW s, s = ent[t].socio
    PROVE  /\ s \in ENTRENADORES
           /\ Fase(t) = "rafaga" /\ hilo[t].tramo = "canje" /\ Fase(t)' = "evalua"
           /\ \A u \in ENTRENADORES \ {t} : Fase(u)' = Fase(u) /\ hilo'[u].tramo = hilo[u].tramo
           /\ Activo(t) >= 1 /\ Activo(t)' = Activo(t) - 1
           /\ EnBlock(t)' = EnBlock(t) + 1
           /\ \A u \in ENTRENADORES \ {t} : Activo(u)' = Activo(u) /\ EnBlock(u)' = EnBlock(u)
           /\ \A u \in ENTRENADORES \ {t, s} : Igual(u)
           /\ \A u \in ENTRENADORES :
                /\ ent'[u].mov = ent[u].mov /\ ent'[u].socio = ent[u].socio
                /\ ent'[u].estado = ent[u].estado
                /\ CantStock(ent[u])' = CantStock(ent[u]) /\ Lugar(u)' = Lugar(u)
                /\ SinCatch(u)' = SinCatch(u)
           /\ ent'[t].razon = "SIN_ESPACIO" /\ ent'[s].razon = "SIN_ESPACIO"
           /\ UNCHANGED <<nuevos, terminados, sem, cerc>>
<1>1. /\ s \in ENTRENADORES
      /\ \A u \in ENTRENADORES \ {t, s} : Mismo(u)
      /\ \A u \in ENTRENADORES :
           /\ ent'[u].mov = ent[u].mov /\ ent'[u].socio = ent[u].socio
           /\ ent'[u].estado = ent[u].estado
      /\ ent'[t].razon = "SIN_ESPACIO" /\ ent'[s].razon = "SIN_ESPACIO"
    BY CanjeEnt
<1>2. /\ UNCHANGED <<nuevos, ready, terminados, sem, cerc, correo>>
      /\ block' = Append(block, t) /\ Sigue(t, "evalua")
      /\ hilo[t].pc = "anda" /\ hilo[t].tramo = "canje"
    BY DEF Canje, En
<1>3. /\ Fase(t) = "rafaga" /\ Corriendo(t) /\ Fase(t)' = "evalua" /\ ~Corriendo(t)'
    BY <1>2, FaseVa, Fases DEF FaseA, Dentro, Corriendo
<1>4. \A u \in ENTRENADORES \ {t} : hilo'[u] = hilo[u]
    BY <1>2, HiloDe, Nombres
<1>5. \A u \in ENTRENADORES : SinCatch(u)' = SinCatch(u)
    BY <1>2 DEF SinCatch, correo
<1>6. Activo(t) >= 1 /\ Activo(t)' = Activo(t) - 1
  <2>1. ready[t] \in Nat /\ \A k \in Semaforos : sem[k][t] \in Nat
      BY DEF Tipos, Listas, Sems
  <2>2. QED
      BY <1>2, <1>3, <2>1 DEF Activo, Vale, Semaforos
<1>7. block \in Seq(ENTRENADORES)
    BY DEF Tipos, Listas
<1>8. /\ EnBlock(t)' = EnBlock(t) + 1
      /\ \A u \in ENTRENADORES \ {t} : EnBlock(u)' = EnBlock(u)
  <2>1. \A u : Veces(Append(block, t), u) = IF t = u THEN Veces(block, u) + 1 ELSE Veces(block, u)
      BY <1>7, VecesAgrega
  <2>2. QED
      BY <1>2, <2>1 DEF EnBlock
<1>9. \A u \in ENTRENADORES \ {t} : /\ Fase(u)' = Fase(u) /\ hilo'[u].tramo = hilo[u].tramo
                                     /\ Activo(u)' = Activo(u)
    BY <1>2, <1>4 DEF Fase, Activo, Corriendo
<1>10. \A u \in ENTRENADORES \ {t, s} : Igual(u)
    BY <1>1, <1>2, <1>4, <1>5, <1>8, Quieto
<1>11. ASSUME NEW u \in ENTRENADORES
       PROVE  CantStock(ent[u])' = CantStock(ent[u]) /\ Lugar(u)' = Lugar(u)
  <2>1. CASE u \notin {t, s}
      BY <1>1, <2>1, MismoLugar DEF Mismo
  <2>2. CASE s = t /\ u = t
    <3>1. ent'[t].stock = ent[t].stock
        BY <2>2, CanjeEnt
    <3>2. QED
        BY <2>2, <3>1 DEF CantStock, Lugar, CantObjetivos
  <2>3. CASE s # t /\ u \in {t, s}
    <3>1. PICK a \in ESPECIES, b \in ESPECIES :
              a = ent[t].especie /\ b = ent[s].especie
        BY CanjeEnt
    <3>2. \A e \in ESPECIES : /\ ent'[t].stock[e] = ent[t].stock[e] + Trueque(a, b, e)
                             /\ ent'[s].stock[e] = ent[s].stock[e] - Trueque(a, b, e)
        BY <2>3, <3>1, CanjeEnt
    <3>3. ent[t].stock \in [ESPECIES -> Int] /\ ent[s].stock \in [ESPECIES -> Int]
        BY <1>1, Campos DEF Tipos, Dicc
    <3>4. ent'[t].stock \in [ESPECIES -> Int] /\ ent'[s].stock \in [ESPECIES -> Int]
      <4>1. Tipos'
          BY CanjeTipos
      <4>2. QED
          BY <1>1, <4>1 DEF Tipos, Ents, Entrenador, Dicc
    <3>5. \A e \in ESPECIES : ent'[s].stock[e] = ent[s].stock[e] + Trueque(b, a, e)
      <4>1. \A e : Trueque(b, a, e) = -Trueque(a, b, e) /\ Trueque(a, b, e) \in Int
          BY DEF Trueque
      <4>2. QED
          BY <3>2, <3>3, <4>1
    <3>6. Suma(ent'[t].stock) = Suma(ent[t].stock)
      <4>1. PICK d, g : d = ent[t].stock /\ g = ent'[t].stock
          OBVIOUS
      <4>2. d \in [ESPECIES -> Int] /\ g \in [ESPECIES -> Int]
          BY <3>3, <3>4, <4>1
      <4>3. \A e \in ESPECIES : g[e] = d[e] + Trueque(a, b, e)
          BY <3>2, <4>1
      <4>4. Suma(g) = Suma(d)
          BY <4>2, <4>3, TruequeTotal
      <4>5. QED
          BY <4>1, <4>4
    <3>7. Suma(ent'[s].stock) = Suma(ent[s].stock)
      <4>1. PICK d, g : d = ent[s].stock /\ g = ent'[s].stock
          OBVIOUS
      <4>2. d \in [ESPECIES -> Int] /\ g \in [ESPECIES -> Int]
          BY <3>3, <3>4, <4>1
      <4>3. \A e \in ESPECIES : g[e] = d[e] + Trueque(b, a, e)
          BY <3>5, <4>1
      <4>4. Suma(g) = Suma(d)
          BY <4>2, <4>3, TruequeTotal
      <4>5. QED
          BY <4>1, <4>4
    <3>8. QED
        BY <2>3, <3>6, <3>7 DEF CantStock, Lugar, CantObjetivos
  <2>4. QED
      BY <2>1, <2>2, <2>3
<1>12. QED
    BY <1>1, <1>2, <1>3, <1>5, <1>6, <1>8, <1>9, <1>10, <1>11

(* After an exchange.                                                      *)
LEMMA CanjeOrden ==
    ASSUME Tipos, Orden, NEW t \in ENTRENADORES, Canje(t), ~Cae("canje"), ~Cae("exec_vacia")
    PROVE  Orden'
<1>1. PICK s : s = ent[t].socio
    OBVIOUS
<1>2. /\ s \in ENTRENADORES
      /\ Fase(t) = "rafaga" /\ hilo[t].tramo = "canje" /\ Fase(t)' = "evalua"
      /\ \A u \in ENTRENADORES \ {t} : Fase(u)' = Fase(u) /\ hilo'[u].tramo = hilo[u].tramo
      /\ Activo(t) >= 1 /\ Activo(t)' = Activo(t) - 1
      /\ EnBlock(t)' = EnBlock(t) + 1
      /\ \A u \in ENTRENADORES \ {t} : Activo(u)' = Activo(u) /\ EnBlock(u)' = EnBlock(u)
      /\ \A u \in ENTRENADORES \ {t, s} : Igual(u)
      /\ \A u \in ENTRENADORES :
           /\ ent'[u].mov = ent[u].mov /\ ent'[u].socio = ent[u].socio
           /\ ent'[u].estado = ent[u].estado
           /\ CantStock(ent[u])' = CantStock(ent[u]) /\ Lugar(u)' = Lugar(u)
           /\ SinCatch(u)' = SinCatch(u)
      /\ ent'[t].razon = "SIN_ESPACIO" /\ ent'[s].razon = "SIN_ESPACIO"
      /\ UNCHANGED <<nuevos, terminados, sem, cerc>>
    BY <1>1, CanjeEfecto
<1>3. \A u \in ENTRENADORES : Contable(u) /\ Solo(u)
    BY Cuentas DEF Orden
<1>4. ent[t].mov = "RESOLUCION_DEADLOCK" /\ ent[t].socio # NULL /\ ~Lugar(t) /\ ~Lugar(s)
  <2>1. ent[t].mov = "RESOLUCION_DEADLOCK" /\ SocioSabido(t)
      BY <1>2, <1>3 DEF Solo, Caza, Tipos, Rutas
  <2>2. QED
      BY <1>1, <1>2, <1>3, <2>1 DEF Solo, Lleno, SocioSabido, Orden, Parejas
<1>5. t \notin nuevos /\ Activo(t)' = 0 /\ EnBlock(t)' = 1 /\ t \notin cerc.cands
    BY <1>2, <1>3, <1>4 DEF Solo, Nuevo, Sitio, Cand, Vale, Contable
<1>6. Solo(t)'
  <2> USE <1>2, <1>3, <1>4, <1>5 DEF Solo
  <2>1. Sitio(t)' /\ Nuevo(t)' /\ Lleno(t)' /\ Cand(t)' /\ Adelantado(t)'
      BY DEF Sitio, Vale, Nuevo, Lleno, Cand, Adelantado, Temprano
  <2>2. Avisado(t)' /\ Caza(t)'
      BY DEF Avisado, Caza, Debe, CantObjetivos
  <2>3. QED
      BY <2>1, <2>2
<1>7. Pendiente(t, s)
    BY <1>1, <1>2, <1>3, <1>4 DEF Pendiente, Contable
<1>8. ASSUME s # t PROVE Solo(s)'
  <2>1. s \notin nuevos /\ s \notin cerc.cands /\ Fase(s) # "nuevo" /\ ~Debe(s)
      BY <1>2, <1>3, <1>4 DEF Solo, Nuevo, Cand, Caza
  <2>2. Temprano(s)' = Temprano(s) /\ Debe(s)' = Debe(s)
      BY <1>2, <1>8 DEF Temprano, Debe
  <2>3. Temprano(s) => sem["block_ready"][s] = 0
      BY <1>2, <1>7 DEF Orden, Parejas, Elegido
  <2> USE <1>2, <1>3, <1>4, <1>8, <2>1, <2>2, <2>3 DEF Solo
  <2>4. Sitio(s)' /\ Nuevo(s)' /\ Lleno(s)' /\ Cand(s)' /\ Adelantado(s)'
      BY DEF Sitio, Nuevo, Lleno, Cand, Adelantado
  <2>5. Avisado(s)' /\ Caza(s)'
      BY DEF Avisado, Caza, Debe, CantObjetivos
  <2>6. QED
      BY <2>4, <2>5
<1>9. \A u \in ENTRENADORES \ {t, s} : Solo(u)'
    BY <1>2, <1>3, IgualSolo
<1>10. Parejas'
  <2>1. \A x, u \in ENTRENADORES : ent'[x].socio = u => ~Lugar(u)'
      BY <1>2 DEF Orden, Parejas
  <2>2. \A x, u \in ENTRENADORES : Pendiente(u, x)' => u # t /\ Pendiente(u, x)
      BY <1>2, <1>5 DEF Pendiente
  <2>3. ASSUME NEW x \in ENTRENADORES
        PROVE  Elegido(x)'
    <3>1. SUFFICES ASSUME NEW u \in ENTRENADORES, Temprano(x)', Pendiente(u, x)'
                   PROVE  /\ ent'[x].razon = "DEADLOCK" /\ sem'["block_ready"][x] = 0
                          /\ ~ObjetivosCumplidos(x, ent[x])'
                          /\ \A v \in ENTRENADORES : Pendiente(v, x)' => v = u
        BY DEF Elegido
    <3>2. x # t
        BY <1>2, <1>4, <3>1 DEF Temprano
    <3>3. Temprano(x) /\ u # t /\ Pendiente(u, x)
        BY <1>2, <2>2, <3>1, <3>2 DEF Temprano
    <3>4. x # s
        BY <1>7, <3>3 DEF Orden, Parejas, Elegido
    <3>5. Igual(x) /\ ObjetivosCumplidos(x, ent[x])' = ObjetivosCumplidos(x, ent[x])
        BY <1>2, <3>2, <3>4, MismoLugar DEF Igual, Mismo
    <3>6. QED
        BY <2>2, <3>3, <3>5 DEF Igual, Mismo, MismaMeta, Meta, Orden, Parejas, Elegido
  <2>4. QED
      BY <2>1, <2>3 DEF Parejas
<1>11. QED
    BY <1>6, <1>8, <1>9, <1>10 DEF Orden

\* x does not become early, or nothing that matters of it changes.
Firme(x) ==
    Temprano(x)' =>
        /\ Temprano(x)
        /\ ent'[x].razon = ent[x].razon
        /\ sem'["block_ready"][x] = sem["block_ready"][x]
        /\ ObjetivosCumplidos(x, ent[x])' = ObjetivosCumplidos(x, ent[x])

(* What there is between trainers stays if nobody gets a partner.          *)
LEMMA ParejasSigue ==
    ASSUME Parejas,
           \A x \in ENTRENADORES : ent'[x].socio = ent[x].socio /\ (Lugar(x)' => Lugar(x)),
           \A x, u \in ENTRENADORES : Pendiente(u, x)' => Pendiente(u, x) /\ Firme(x)
    PROVE  Parejas'
<1>1. \A x, u \in ENTRENADORES : ent'[x].socio = u => ~Lugar(u)'
    BY DEF Parejas
<1>2. ASSUME NEW x \in ENTRENADORES
      PROVE  Elegido(x)'
  <2>1. SUFFICES ASSUME NEW u \in ENTRENADORES, Temprano(x)', Pendiente(u, x)'
                 PROVE  /\ ent'[x].razon = "DEADLOCK" /\ sem'["block_ready"][x] = 0
                        /\ ~ObjetivosCumplidos(x, ent[x])'
                        /\ \A v \in ENTRENADORES : Pendiente(v, x)' => v = u
      BY DEF Elegido
  <2>2. Pendiente(u, x) /\ Firme(x) /\ Elegido(x)
      BY <2>1 DEF Parejas
  <2>3. QED
      BY <2>1, <2>2 DEF Firme, Elegido
<1>3. QED
    BY <1>1, <1>2 DEF Parejas

(* A trainer that is left alone is no threat to that.                      *)
LEMMA IgualFirme ==
    ASSUME NEW u \in ENTRENADORES, Igual(u)
    PROVE  /\ Firme(u) /\ ent'[u].socio = ent[u].socio /\ Lugar(u)' = Lugar(u)
           /\ \A x \in ENTRENADORES : Pendiente(u, x)' = Pendiente(u, x)
<1>1. /\ MismaMeta(u) /\ Fase(u)' = Fase(u)
      /\ sem'["block_ready"][u] = sem["block_ready"][u] /\ Activo(u)' = Activo(u)
    BY DEF Igual, Mismo
<1>2. Lugar(u)' = Lugar(u) /\ ObjetivosCumplidos(u, ent[u])' = ObjetivosCumplidos(u, ent[u])
    BY <1>1, MismoLugar
<1>3. Firme(u)
    BY <1>1, <1>2 DEF Firme, Temprano, MismaMeta, Meta
<1>4. QED
    BY <1>1, <1>2, <1>3 DEF Pendiente, MismaMeta, Meta

(* A step that leaves all the trainers alone.                              *)
LEMMA TodosIguales ==
    ASSUME Orden, \A u \in ENTRENADORES : Igual(u),
           \A u \in ENTRENADORES : u \in cerc'.cands => u \in cerc.cands \/ Cand(u)'
    PROVE  Orden'
<1>1. ASSUME NEW u \in ENTRENADORES
      PROVE  Solo(u)'
  <2>1. CASE u \in cerc'.cands => u \in cerc.cands
      BY <2>1, IgualSolo DEF Orden
  <2>2. CASE ~(u \in cerc'.cands => u \in cerc.cands)
    <3>1. Cand(u)' /\ Igual(u) /\ Solo(u)
        BY <2>2 DEF Orden
    <3>2. /\ Lugar(u)' = Lugar(u) /\ CantStock(ent[u])' = CantStock(ent[u])
          /\ ObjetivosCumplidos(u, ent[u])' = ObjetivosCumplidos(u, ent[u])
        BY <3>1, MismoLugar DEF Igual, Mismo
    <3>3. Debe(u)' = Debe(u) /\ Temprano(u)' = Temprano(u)
        BY <3>1, <3>2 DEF Igual, Mismo, MismaMeta, Meta, Debe, Temprano
    <3> USE <3>1, <3>2, <3>3 DEF Solo, Igual, Mismo, MismaMeta, Meta
    <3>4. Sitio(u)' /\ Nuevo(u)' /\ Lleno(u)'
        BY DEF Sitio, Nuevo, Lleno
    <3>5. Avisado(u)' /\ Caza(u)' /\ Adelantado(u)'
        BY DEF Avisado, Caza, Adelantado, CantObjetivos
    <3>6. QED
        BY <3>4, <3>5
  <2>3. QED
      BY <2>1, <2>2
<1>2. Parejas'
    BY IgualFirme, ParejasSigue DEF Orden
<1>3. QED
    BY <1>1, <1>2 DEF Orden

(* A trainer that walks has no answer to look at.                          *)
LEMMA FaseTrasAndar ==
    ASSUME Tipos, NEW t \in ENTRENADORES, Empieza(t) \/ Arriba(t) \/ Pide(t)
    PROVE  Fase(t)' \in {"rafaga", "suelta"}
<1>1. t \in HILOS /\ hilo[t] \in [pc : Lugares, vuelta : Vueltas, tramo : Tramos, falta : Nat]
    BY Nombres, HiloDe
<1>2. hilo'[t].pc \in {"anda", "suelta"}
    BY <1>1 DEF Empieza, Arriba, Pide, Sigue, En, Tipos, Rutas, Hilos
<1>3. QED
    BY <1>2, Fases DEF Fase, FaseEn, Dentro

(* A trainer that walks, waits for its CATCH or looks at what it has.      *)
LEMMA AndaOrden ==
    ASSUME Tipos, Pendientes, Orden, NEW t \in ENTRENADORES, Anda(t), algoritmo # "SJF_CD"
    PROVE  Orden'
<1>1. /\ \A u \in ENTRENADORES \ {t} : Igual(u)
      /\ UNCHANGED <<cerc, nuevos, terminados>>
    BY AndaAjenos
<1>2. CASE (FinDeQuantum(t) \/ Suelta(t)) /\ exec = <<>>
  <2>1. Cae("exec_vacia")
      BY <1>2 DEF FinDeQuantum, Suelta
  <2>2. QED
      BY <2>1, CaeIgual, TodosIguales
<1>3. CASE MarcaLlegada(t) \/ Retoma(t) \/ Ciclo(t) \/ Sale(t)
    BY <1>1, <1>3, SigueIgual, TodosIguales
<1>4. CASE /\ ~(FinDeQuantum(t) \/ Suelta(t)) \/ exec # <<>>
           /\ ~(MarcaLlegada(t) \/ Retoma(t) \/ Ciclo(t) \/ Sale(t))
  <2>1. Solo(t)
      BY DEF Orden
  <2> DEFINE Bien == /\ Solo(t)' /\ ent'[t].socio = ent[t].socio /\ (Lugar(t)' => Lugar(t))
                     /\ \A x \in ENTRENADORES : Pendiente(t, x)' => Pendiente(t, x)
                     /\ Firme(t)
  <2>0. SUFFICES Bien
    <3>1. \A u \in ENTRENADORES \ {t} :
            /\ Solo(u)' /\ Firme(u) /\ ent'[u].socio = ent[u].socio /\ Lugar(u)' = Lugar(u)
            /\ \A x \in ENTRENADORES : Pendiente(u, x)' = Pendiente(u, x)
        BY <1>1, IgualSolo, IgualFirme DEF Orden
    <3>2. Parejas'
        BY <2>0, <3>1, ParejasSigue DEF Orden
    <3>3. QED
        BY <2>0, <3>1, <3>2 DEF Orden
  <2>2. CASE Avanza(t) /\ Solo(t)' /\ (Temprano(t)' => Temprano(t))
    <3>1. MismaMeta(t) /\ MismoSitio(t) /\ MismoAviso(t)
        BY <2>2 DEF Avanza, Mismo
    <3>2. QED
        BY <2>2, <3>1, MismoLugar
           DEF MismoSitio, MismoAviso, MismaMeta, Meta, Pendiente, Firme
  <2>3. CASE Empieza(t) \/ Arriba(t) \/ Pide(t)
    <3>1. Avanza(t) /\ Solo(t)'
        BY <2>1, <2>3, EmpiezaSolo, ArribaSolo, PideSolo
    <3>2. ~Temprano(t)'
      <4>1. Fase(t)' \notin {"espera", "evalua"}
          BY <2>1, <2>3, FaseTrasAndar
      <4>2. QED
          BY <4>1 DEF Temprano
    <3>3. QED
        BY <2>2, <3>1, <3>2
  <2>4. CASE Envia(t)
    <3>1. Avanza(t) /\ Solo(t)' /\ Lugar(t)
        BY <2>1, <2>4, EnviaSolo
    <3>2. ~Temprano(t)'
        BY <3>1, MismoLugar DEF Avanza, Mismo, Temprano
    <3>3. QED
        BY <2>2, <3>1, <3>2
  <2>5. CASE RecibeRespuesta(t)
    <3>1. Avanza(t) /\ Solo(t)'
        BY <2>1, <2>5, RecibeSolo
    <3>2. Fase(t) = "espera"
        BY <2>5, FaseVa, Fases DEF RecibeRespuesta, En, FaseA, Dentro
    <3>3. Temprano(t)' => Temprano(t)
        BY <3>1, <3>2, MismoLugar DEF Avanza, Mismo, MismaMeta, Meta, Temprano
    <3>4. QED
        BY <2>2, <3>1, <3>3
  <2>6. CASE SaleDeNew(t)
    <3>1. Solo(t)' /\ Mismo(t) /\ MismoSitio(t) /\ Fase(t)' = "va"
        BY <2>1, <2>6, SaleDeNewSolo
    <3>2. ~Temprano(t)' /\ Lugar(t)' = Lugar(t)
        BY <3>1, MismoLugar DEF Temprano, Mismo
    <3>3. QED
        BY <3>1, <3>2 DEF MismoSitio, Mismo, MismaMeta, Meta, Pendiente, Firme
  <2>7. CASE FinDeQuantum(t)
    <3>1. Solo(t)' /\ MismaMeta(t) /\ MismoSitio(t) /\ Fase(t)' = Fase(t)
        BY <1>4, <2>1, <2>7, QuantumSolo
    <3>2. Fase(t) = "rafaga"
        BY <2>7, FaseVa, Fases DEF FinDeQuantum, En, FaseA, Dentro
    <3>3. ~Temprano(t)' /\ Lugar(t)' = Lugar(t)
        BY <3>1, <3>2, MismoLugar DEF Temprano
    <3>4. QED
        BY <3>1, <3>3 DEF MismoSitio, MismaMeta, Meta, Pendiente, Firme
  <2>8. CASE Suelta(t)
    <3>1. /\ Solo(t)' /\ ent'[t].socio = ent[t].socio /\ Lugar(t) /\ Lugar(t)'
          /\ Activo(t)' = 0
        BY <1>4, <2>1, <2>8, SueltaSolo
    <3>2. ~Temprano(t)' /\ \A x \in ENTRENADORES : ~Pendiente(t, x)'
        BY <3>1 DEF Temprano, Pendiente
    <3>3. QED
        BY <3>1, <3>2 DEF Firme
  <2>9. CASE NoCumple(t)
    <3>1. /\ Solo(t)' /\ ent'[t].mov = ent[t].mov /\ ent'[t].socio = ent[t].socio
          /\ Lugar(t)' = Lugar(t) /\ Activo(t)' = Activo(t) /\ Fase(t)' = "aguarda"
        BY <2>1, <2>9, NoCumpleSolo
    <3>2. QED
        BY <3>1 DEF Temprano, Pendiente, Firme
  <2>10. CASE SaleDeBlock(t)
    <3>1. /\ Solo(t)' /\ MismaMeta(t) /\ Activo(t)' = Activo(t)
          /\ Fase(t)' \in {"va", "fin"}
        BY <2>1, <2>10, SaleDeBlockSolo DEF Mismo
    <3>2. ~Temprano(t)' /\ Lugar(t)' = Lugar(t)
        BY <3>1, MismoLugar DEF Temprano
    <3>3. QED
        BY <3>1, <3>2 DEF MismaMeta, Meta, Pendiente, Firme
  <2>12. ~CedeElPaso(t)
      BY DEF CedeElPaso, Desalojado
  <2> HIDE DEF Bien
  <2>14. QED
      BY <1>4, <2>3, <2>4, <2>5, <2>6, <2>7, <2>8, <2>9, <2>10, <2>12 DEF Anda, Corre
<1>5. QED
    BY <1>2, <1>3, <1>4

(* A trainer that has what it wants of each species has what it wants of   *)
(* all; and without room, nothing to spare.                                *)
LEMMA CumplidosTotal ==
    ASSUME Ents, NEW t \in ENTRENADORES, ObjetivosCumplidos(t, ent[t])
    PROVE  ~Lugar(t) /\ (CantStock(ent[t]) = CantObjetivos(t) => Sobran(t, ent[t]) = {})
           /\ Necesita(t, ent[t]) = {}
<1> PICK d, g : d = ent[t].stock /\ g = OBJETIVOS[t]
    OBVIOUS
<1>1. d \in [ESPECIES -> Nat] /\ g \in [ESPECIES -> Nat]
    BY Campos, EntrenadoresAssumption DEF Dicc
<1>2. CantStock(ent[t]) = Total(ESPECIES, d) /\ CantObjetivos(t) = Total(ESPECIES, g)
  <2>1. d \in [ESPECIES -> Int] /\ g \in [ESPECIES -> Int]
      BY <1>1
  <2>2. QED
      BY <2>1, SumaTotal DEF CantStock, CantObjetivos
<1>3. \A e \in ESPECIES : g[e] <= d[e]
    BY <1>1 DEF ObjetivosCumplidos
<1>4. /\ Total(ESPECIES, g) <= Total(ESPECIES, d)
      /\ \A e \in ESPECIES : g[e] < d[e] => Total(ESPECIES, g) < Total(ESPECIES, d)
  <2>1. d \in [ESPECIES -> Int] /\ g \in [ESPECIES -> Int]
      BY <1>1
  <2>2. QED
      BY <1>3, <2>1, TotalMenor, EntrenadoresAssumption
<1>5. Total(ESPECIES, g) \in Int /\ Total(ESPECIES, d) \in Int
  <2>1. d \in [ESPECIES -> Int] /\ g \in [ESPECIES -> Int]
      BY <1>1
  <2>2. QED
      BY <2>1, TotalTipo, EntrenadoresAssumption
<1>6. ~Lugar(t)
    BY <1>2, <1>4, <1>5 DEF Lugar
<1>7. ASSUME CantStock(ent[t]) = CantObjetivos(t), NEW e \in Sobran(t, ent[t])
      PROVE  FALSE
  <2>1. e \in ESPECIES /\ g[e] < d[e]
      BY <1>1, <1>7 DEF Sobran
  <2>2. QED
      BY <1>2, <1>4, <1>5, <1>7, <2>1
<1>8. Necesita(t, ent[t]) = {}
    BY <1>1, <1>3 DEF Necesita
<1>9. QED
    BY <1>6, <1>7, <1>8

(* What the end of a trainer does: it and, if it has what it wants too, its *)
(* partner leave Block.                                                     *)
LEMMA CumpleEfecto ==
    ASSUME Tipos, NEW t \in ENTRENADORES, Cumple(t)
    PROVE  /\ SocioListo(t) => ent[t].socio \in ENTRENADORES
           /\ Fase(t) = "evalua" /\ Fase(t)' = "fin"
           /\ \A u \in ENTRENADORES \ {t} : Fase(u)' = Fase(u) /\ hilo'[u].tramo = hilo[u].tramo
           /\ \A u \in ENTRENADORES :
                /\ Activo(u)' = Activo(u) /\ SinCatch(u)' = SinCatch(u)
                /\ EnBlock(u)' = IF u = t \/ (SocioListo(t) /\ u = ent[t].socio)
                                 THEN IF EnBlock(u) <= 1 THEN 0 ELSE EnBlock(u)'
                                 ELSE EnBlock(u)
                /\ u \in terminados' <=>
                     u \in terminados \/ u = t \/ (SocioListo(t) /\ u = ent[t].socio)
                /\ sem'["new_ready"][u] = sem["new_ready"][u]
                /\ sem'["block_ready"][u] = IF SocioListo(t) /\ u = ent[t].socio
                                            THEN sem["block_ready"][u] + 1
                                            ELSE sem["block_ready"][u]
           /\ \A u \in ENTRENADORES \ {t} :
                ~(SocioListo(t) /\ u = ent[t].socio) => Igual(u)
           /\ UNCHANGED <<nuevos, cerc>>
<1>1. SocioListo(t) => ent[t].socio \in ENTRENADORES
    BY Campos DEF Tipos, Rutas, SocioSabido, SocioListo
<1>2. PICK s : s = ent[t].socio
    OBVIOUS
<1>3. /\ UNCHANGED <<nuevos, ready, cerc, envio, catches, waiting>>
      /\ Sigue(t, "sale")
      /\ block' = IF SocioListo(t) THEN Quitar(Quitar(block, s), t) ELSE Quitar(block, t)
      /\ terminados' = terminados \union (IF SocioListo(t) THEN {t, s} ELSE {t})
      /\ sem' = IF SocioListo(t) THEN Con("block_ready", s) ELSE sem
    BY <1>2 DEF Cumple, SocioListo, correo
<1>4. Fase(t) = "evalua" /\ Fase(t)' = "fin" /\ ~Corriendo(t) /\ ~Corriendo(t)'
    BY <1>3, FaseVa, Fases DEF Cumple, En, FaseA, Dentro, Corriendo
<1>5. \A u \in ENTRENADORES \ {t} : hilo'[u] = hilo[u]
    BY <1>3, HiloDe, Nombres
<1>6. \A u \in ENTRENADORES \ {t} : /\ Fase(u)' = Fase(u) /\ hilo'[u].tramo = hilo[u].tramo
                                    /\ Corriendo(u)' = Corriendo(u)
    BY <1>5 DEF Fase, Corriendo
<1>7. \A u \in ENTRENADORES : SinCatch(u)' = SinCatch(u)
    BY <1>3 DEF SinCatch
<1>8. \A u \in ENTRENADORES :
        /\ \A k \in Semaforos \ {"block_ready"} : sem'[k][u] = sem[k][u]
        /\ sem'["block_ready"][u] = IF SocioListo(t) /\ u = s THEN sem["block_ready"][u] + 1
                                    ELSE sem["block_ready"][u]
  <2>1. CASE SocioListo(t)
    <3>1. "block_ready" \in Semaforos /\ sem' = Con("block_ready", s) /\ s \in ENTRENADORES
        BY <1>1, <1>2, <1>3, <2>1 DEF Semaforos
    <3>2. QED
        BY <2>1, <3>1, ConTipo DEF Tipos
  <2>2. CASE ~SocioListo(t)
      BY <1>3, <2>2
  <2>3. QED
      BY <2>1, <2>2
<1>9. \A u \in ENTRENADORES : Activo(u)' = Activo(u)
    BY <1>3, <1>4, <1>6, <1>8 DEF Activo, Vale, Semaforos
<1>10. ASSUME NEW u \in ENTRENADORES
       PROVE  /\ EnBlock(u) \in Nat /\ EnBlock(u)' \in Nat
              /\ IF u = t \/ (SocioListo(t) /\ u = s)
                 THEN EnBlock(u) <= 1 => EnBlock(u)' = 0
                 ELSE EnBlock(u)' = EnBlock(u)
  <2>1. /\ block \in Seq(ENTRENADORES) /\ Quitar(block, t) \in Seq(ENTRENADORES)
        /\ SocioListo(t) => Quitar(block, s) \in Seq(ENTRENADORES)
        /\ SocioListo(t) => Quitar(Quitar(block, s), t) \in Seq(ENTRENADORES)
      BY <1>1, <1>2, QuitarTipo DEF Tipos, Listas
  <2>2. CASE ~SocioListo(t)
    <3>1. EnBlock(u)' = Veces(Quitar(block, t), u) /\ EnBlock(u) = Veces(block, u)
        BY <1>3, <2>2 DEF EnBlock
    <3>2. Veces(block, u) \in Nat /\ Veces(Quitar(block, t), u) \in Nat
        BY <2>1, VecesFinitas
    <3>3. /\ u = t => Veces(Quitar(block, t), u) = IF Veces(block, u) > 0 THEN Veces(block, u) - 1 ELSE 0
          /\ u # t => Veces(Quitar(block, t), u) = Veces(block, u)
        BY <2>1, VecesQuita
    <3>4. QED
        BY <2>2, <3>1, <3>2, <3>3
  <2>3. CASE SocioListo(t)
    <3> PICK b : b = Quitar(block, s)
        OBVIOUS
    <3>1. EnBlock(u)' = Veces(Quitar(b, t), u) /\ EnBlock(u) = Veces(block, u)
        BY <1>3, <2>3 DEF EnBlock
    <3>2. /\ Veces(block, u) \in Nat /\ Veces(b, u) \in Nat
          /\ Veces(Quitar(b, t), u) \in Nat
        BY <2>1, <2>3, VecesFinitas
    <3>3. /\ u = s => Veces(b, u) = IF Veces(block, u) > 0 THEN Veces(block, u) - 1 ELSE 0
          /\ u # s => Veces(b, u) = Veces(block, u)
        BY <1>1, <1>2, <2>1, <2>3, VecesQuita
    <3>4. /\ u = t => Veces(Quitar(b, t), u) = IF Veces(b, u) > 0 THEN Veces(b, u) - 1 ELSE 0
          /\ u # t => Veces(Quitar(b, t), u) = Veces(b, u)
        BY <2>1, <2>3, VecesQuita
    <3>5. QED
        BY <2>3, <3>1, <3>2, <3>3, <3>4
  <2>4. QED
      BY <2>2, <2>3
<1>11. \A u \in ENTRENADORES : u \in terminados' <=>
          u \in terminados \/ u = t \/ (SocioListo(t) /\ u = s)
    BY <1>3
<1>12. ASSUME NEW u \in ENTRENADORES, u # t, ~(SocioListo(t) /\ u = s)
       PROVE  Igual(u)
  <2>1. Mismo(u)
      BY <1>2, <1>12, CumpleEnt
  <2>2. (u \in terminados)' = (u \in terminados) /\ EnBlock(u)' = EnBlock(u)
      BY <1>3, <1>10, <1>12
  <2>3. "block_ready" \in Semaforos /\ "new_ready" \in Semaforos
      BY DEF Semaforos
  <2>4. sem'["block_ready"][u] = sem["block_ready"][u] /\ sem'["new_ready"][u] = sem["new_ready"][u]
      BY <1>8, <1>12, <2>3
  <2>5. QED
      BY <1>3, <1>6, <1>7, <1>9, <1>12, <2>1, <2>2, <2>4 DEF Igual
<1>13. "new_ready" \in Semaforos \ {"block_ready"}
    BY DEF Semaforos
<1>14. \A u \in ENTRENADORES :
        EnBlock(u)' = IF u = t \/ (SocioListo(t) /\ u = s)
                      THEN IF EnBlock(u) <= 1 THEN 0 ELSE EnBlock(u)'
                      ELSE EnBlock(u)
    BY <1>10
<1>15. \A u \in ENTRENADORES : sem'["new_ready"][u] = sem["new_ready"][u]
    BY <1>8, <1>13
<1>16. QED
    BY <1>1, <1>2, <1>3, <1>4, <1>6, <1>7, <1>8, <1>9, <1>11, <1>12, <1>14, <1>15

(* After it finishes.                                                      *)
LEMMA CumpleOrden ==
    ASSUME Tipos, Orden, NEW t \in ENTRENADORES, Cumple(t)
    PROVE  Orden'
<1> PICK s : s = ent[t].socio
    OBVIOUS
<1> DEFINE Acaba(u) == u = t \/ (SocioListo(t) /\ u = s)
<1>1. /\ SocioListo(t) => s \in ENTRENADORES
      /\ Fase(t) = "evalua" /\ Fase(t)' = "fin"
      /\ \A u \in ENTRENADORES \ {t} : Fase(u)' = Fase(u) /\ hilo'[u].tramo = hilo[u].tramo
      /\ \A u \in ENTRENADORES :
           /\ Activo(u)' = Activo(u) /\ SinCatch(u)' = SinCatch(u)
           /\ Acaba(u) => (EnBlock(u) <= 1 => EnBlock(u)' = 0) /\ u \in terminados'
           /\ sem'["new_ready"][u] = sem["new_ready"][u]
           /\ ~(SocioListo(t) /\ u = s) => sem'["block_ready"][u] = sem["block_ready"][u]
      /\ \A u \in ENTRENADORES : ~Acaba(u) => Igual(u)
      /\ UNCHANGED <<nuevos, cerc>>
    BY CumpleEfecto
<1>2. \A u \in ENTRENADORES :
        /\ MismaMeta(u) /\ (Acaba(u) => ent'[u].estado = "FINISH")
        /\ Contable(u) /\ Solo(u)
    BY CumpleEnt, Cuentas DEF Orden
<1>3. \A u \in ENTRENADORES :
        /\ Lugar(u)' = Lugar(u) /\ CantStock(ent[u])' = CantStock(ent[u])
        /\ CantObjetivos(u)' = CantObjetivos(u)
        /\ ObjetivosCumplidos(u, ent[u])' = ObjetivosCumplidos(u, ent[u])
    BY <1>2, MismoLugar
<1>4. SocioListo(t) => ~Lugar(s) /\ ObjetivosCumplidos(s, ent[s])
    BY <1>1 DEF Orden, Parejas, SocioListo
<1>5. \A u \in ENTRENADORES : Acaba(u) => EnBlock(u)' = 0 /\ EnBlock(u) <= 1
  <2>1. ASSUME NEW u \in ENTRENADORES PROVE EnBlock(u) <= 1
      BY <1>2 DEF Solo, Sitio, Vale, Contable
  <2>2. QED
      BY <1>1, <2>1
<1>6. Solo(t)'
  <2>1. t \notin nuevos /\ t \notin cerc.cands
      BY <1>1, <1>2 DEF Solo, Nuevo, Cand, Avisado
  <2>2. Lugar(t) => sem'["block_ready"][t] = 0
      BY <1>1, <1>2, <1>4 DEF Solo, Avisado, Contable, Semaforos
  <2>3. EnBlock(t)' = 0 /\ ent'[t].estado = "FINISH" /\ t \in terminados'
      BY <1>1, <1>2, <1>5
  <2> USE <1>1, <1>2, <1>3, <2>1, <2>2, <2>3 DEF Solo, MismaMeta, Meta
  <2> HIDE DEF Acaba
  <2>4. Sitio(t)'
      BY DEF Sitio, Vale, Contable
  <2>5. Nuevo(t)' /\ Lleno(t)' /\ Cand(t)' /\ Adelantado(t)'
      BY DEF Nuevo, Lleno, Cand, Adelantado, Temprano
  <2>6. Avisado(t)' /\ Caza(t)'
      BY DEF Avisado, Caza, Debe, Contable
  <2>7. QED
      BY <2>4, <2>5, <2>6
<1>7. ASSUME SocioListo(t), s # t
      PROVE  Solo(s)'
  <2>1. s \in ENTRENADORES /\ ~Lugar(s) /\ ObjetivosCumplidos(s, ent[s])
      BY <1>1, <1>4, <1>7
  <2>2. s \notin nuevos /\ s \notin cerc.cands /\ Fase(s) # "nuevo" /\ ~Debe(s)
      BY <1>2, <2>1 DEF Solo, Nuevo, Cand, Caza
  <2>3. /\ EnBlock(s)' = 0 /\ ent'[s].estado = "FINISH" /\ s \in terminados'
        /\ Fase(s)' = Fase(s) /\ hilo'[s].tramo = hilo[s].tramo /\ SinCatch(s)' = SinCatch(s)
        /\ Activo(s)' = Activo(s) /\ UNCHANGED <<nuevos, cerc>>
        /\ sem'["new_ready"][s] = sem["new_ready"][s]
      BY <1>1, <1>2, <1>5, <1>7, <2>1
  <2>4. Debe(s)' = Debe(s)
      BY <2>3 DEF Debe
  <2> USE <1>2, <1>3, <2>1, <2>2, <2>3, <2>4 DEF Solo, MismaMeta, Meta
  <2> HIDE DEF Acaba
  <2>5. Sitio(s)'
      BY DEF Sitio, Vale, Contable
  <2>6. Nuevo(s)' /\ Lleno(s)' /\ Cand(s)' /\ Adelantado(s)'
      BY DEF Nuevo, Lleno, Cand, Adelantado
  <2>7. Avisado(s)'
      BY DEF Avisado
  <2>8. Caza(s)'
      BY DEF Caza, Debe
  <2>9. QED
      BY <2>5, <2>6, <2>7, <2>8
<1>8. \A u \in ENTRENADORES : ~Acaba(u) => Solo(u)'
  <2> HIDE DEF Acaba
  <2>1. QED
      BY <1>1, <1>2, IgualSolo
<1>9. Parejas'
  <2>1. \A x \in ENTRENADORES : ent'[x].socio = ent[x].socio /\ (Lugar(x)' => Lugar(x))
      BY <1>2, <1>3 DEF MismaMeta, Meta
  <2>2. ASSUME NEW x \in ENTRENADORES, NEW u \in ENTRENADORES, Pendiente(u, x)'
        PROVE  Pendiente(u, x) /\ Firme(x)
    <3>1. Pendiente(u, x)
        BY <1>1, <1>2, <2>2 DEF Pendiente, MismaMeta, Meta
    <3>2. CASE x = t
        BY <1>1, <3>1, <3>2 DEF Firme, Temprano
    <3>3. CASE x # t /\ SocioListo(t) /\ x = s
      <4>1. ~Temprano(x)
          BY <1>4, <3>1, <3>3 DEF Orden, Parejas, Elegido
      <4>2. ~Temprano(x)'
          BY <1>1, <1>2, <1>3, <3>3, <4>1 DEF Temprano, MismaMeta, Meta
      <4>3. QED
          BY <3>1, <4>2 DEF Firme
    <3>4. CASE x # t /\ ~(SocioListo(t) /\ x = s)
        BY <1>1, <3>1, <3>4, IgualFirme
    <3>5. QED
        BY <3>1, <3>2, <3>3, <3>4
  <2>3. QED
      BY <2>1, <2>2, ParejasSigue DEF Orden
<1>10. QED
    BY <1>6, <1>7, <1>8, <1>9 DEF Orden

(* What a run of algoritmo_deadlock that finds v, to move, and u does.     *)
LEMMA ApareaEfecto ==
    ASSUME Tipos, NEW t \in ENTRENADORES, Deadlock(t), Pares # {}
    PROVE  \E v, u \in ENTRENADORES :
             /\ Pareja(v, u) /\ Aparea(v, u)
             /\ \A x \in ENTRENADORES :
                  /\ Fase(x)' = Fase(x) /\ hilo'[x].tramo = hilo[x].tramo
                  /\ SinCatch(x)' = SinCatch(x)
             /\ EnBlock(v) > 0 /\ EnBlock(v)' = EnBlock(v) - 1
             /\ Activo(v)' = Activo(v) + 1
             /\ sem'["block_ready"][u] = sem["block_ready"][u]
             /\ sem'["new_ready"][v] = sem["new_ready"][v]
             /\ sem'["new_ready"][u] = sem["new_ready"][u]
             /\ EnBlock(u) > 0 /\ EnBlock(u)' = EnBlock(u) /\ Activo(u)' = Activo(u)
             /\ \A x \in ENTRENADORES \ {v, u} : Igual(x)
             /\ UNCHANGED <<nuevos, terminados, cerc>>
<1>1. PICK v, u : Pareja(v, u) /\ Aparea(v, u)
    BY DeadlockPareja
<1>2. /\ v \in ENTRENADORES /\ u \in ENTRENADORES /\ v # u
      /\ EnBlock(v) > 0 /\ EnBlock(u) > 0
    BY <1>1, EnBlockLista DEF Pareja
<1>3. /\ UNCHANGED <<nuevos, terminados, cerc, envio, catches, waiting>>
      /\ ready' = [ready EXCEPT ![v] = @ + 1]
      /\ block' = Quitar(block, v)
      /\ sem' = Con("block_ready", v)
    BY <1>1 DEF Deadlock, Aparea, correo
<1>4. /\ Fase(t)' = Fase(t) /\ Corriendo(t)' = Corriendo(t) /\ hilo'[t].tramo = hilo[t].tramo
      /\ \A x \in ENTRENADORES \ {t} : hilo'[x] = hilo[x]
  <2>1. \/ Sigue(t, "mira") /\ hilo[t].pc = "traba"
        \/ hilo[t].pc = "traba" /\ Sigue(t, hilo[t].vuelta)
      BY DEF Deadlock, En
  <2>2. t \in HILOS /\ hilo[t].vuelta \in Vueltas
      BY Nombres, HiloDe
  <2>3. hilo[t].vuelta \notin Dentro /\ hilo[t].vuelta \notin {"anda", "ciclo", "suelta"}
      BY <2>2 DEF Dentro, Vueltas
  <2>4. Fase(t)' = Fase(t) /\ Corriendo(t)' = Corriendo(t) /\ hilo'[t].tramo = hilo[t].tramo
      BY <2>1, <2>3, FaseVa DEF FaseA, Dentro, Corriendo
  <2>5. QED
      BY <2>1, <2>2, <2>4, HiloDe, Nombres
<1>5. \A x \in ENTRENADORES :
        /\ Fase(x)' = Fase(x) /\ hilo'[x].tramo = hilo[x].tramo
        /\ Corriendo(x)' = Corriendo(x) /\ SinCatch(x)' = SinCatch(x)
    BY <1>3, <1>4 DEF Fase, Corriendo, SinCatch
<1>6. \A x \in ENTRENADORES :
        /\ \A k \in Semaforos \ {"block_ready"} : sem'[k][x] = sem[k][x]
        /\ x # v => sem'["block_ready"][x] = sem["block_ready"][x]
  <2>1. "block_ready" \in Semaforos
      BY DEF Semaforos
  <2>2. QED
      BY <1>2, <1>3, <2>1, ConTipo DEF Tipos
<1>7. \A x \in ENTRENADORES : /\ sem'["new_ready"][x] = sem["new_ready"][x]
                              /\ sem'["ready_exec"][x] = sem["ready_exec"][x]
                              /\ sem'["ready_exec_cd"][x] = sem["ready_exec_cd"][x]
    BY <1>6 DEF Semaforos
<1>8. /\ ready[v] \in Nat /\ ready'[v] = ready[v] + 1
      /\ \A x \in ENTRENADORES \ {v} : ready'[x] = ready[x]
    BY <1>2, <1>3 DEF Tipos, Listas
<1>9. Activo(v)' = Activo(v) + 1
  <2>1. \A k \in Semaforos : sem[k][v] \in Nat
      BY <1>2 DEF Tipos, Sems
  <2>2. sem["ready_exec"][v] \in Nat /\ sem["ready_exec_cd"][v] \in Nat
      BY <2>1 DEF Semaforos
  <2>3. QED
      BY <1>2, <1>5, <1>7, <1>8, <2>2 DEF Activo, Vale
<1>10. \A x \in ENTRENADORES \ {v} : Activo(x)' = Activo(x)
    BY <1>5, <1>7, <1>8 DEF Activo
<1>11. /\ EnBlock(v)' = EnBlock(v) - 1
       /\ \A x \in ENTRENADORES \ {v} : EnBlock(x)' = EnBlock(x)
  <2>1. block \in Seq(ENTRENADORES)
      BY DEF Tipos, Listas
  <2>2. QED
      BY <1>2, <1>3, <2>1, VecesQuita DEF EnBlock
<1>12. \A x \in ENTRENADORES \ {v, u} : Igual(x)
  <2>1. \A x \in ENTRENADORES \ {v, u} : Mismo(x)
      BY <1>1, ApareaEnt
  <2>2. QED
      BY <1>3, <1>5, <1>6, <1>7, <1>10, <1>11, <2>1 DEF Igual
<1>13. QED
    BY <1>1, <1>2, <1>3, <1>5, <1>6, <1>7, <1>9, <1>10, <1>11, <1>12

(* After it.                                                               *)
LEMMA DeadlockOrden ==
    ASSUME Tipos, Orden, NEW t \in ENTRENADORES, Deadlock(t)
    PROVE  Orden'
<1>1. CASE Pares = {}
  <2>1. Sigue(t, "mira") /\ hilo[t].pc = "traba"
      BY <1>1 DEF Deadlock, En
  <2>2. UNCHANGED <<ent, block, ready, sem, nuevos, terminados, cerc, correo>>
      BY <1>1 DEF Deadlock
  <2>3. Fase(t)' = Fase(t) /\ Corriendo(t)' = Corriendo(t) /\ hilo'[t].tramo = hilo[t].tramo
      BY <2>1, FaseVa DEF FaseA, Dentro, Corriendo
  <2>4. \A x \in ENTRENADORES \ {t} : hilo'[x] = hilo[x]
      BY <2>1, HiloDe, Nombres
  <2>5. \A x \in ENTRENADORES : Fase(x)' = Fase(x) /\ Corriendo(x)' = Corriendo(x)
                                /\ hilo'[x].tramo = hilo[x].tramo
      BY <2>3, <2>4 DEF Fase, Corriendo
  <2>6. \A x \in ENTRENADORES : Mismo(x) /\ SinCatch(x)' = SinCatch(x)
      BY <2>2 DEF Mismo, MismaMeta, Meta, SinCatch, correo
  <2>7. \A x \in ENTRENADORES : Activo(x)' = Activo(x) /\ EnBlock(x)' = EnBlock(x)
      BY <2>2, <2>5 DEF Activo, EnBlock
  <2>8. \A x \in ENTRENADORES : Igual(x)
      BY <2>2, <2>5, <2>6, <2>7 DEF Igual
  <2>9. QED
      BY <2>2, <2>8, TodosIguales
<1>2. CASE Pares # {}
  <2>1. PICK v, u \in ENTRENADORES :
             /\ Pareja(v, u) /\ Aparea(v, u)
             /\ \A x \in ENTRENADORES :
                  /\ Fase(x)' = Fase(x) /\ hilo'[x].tramo = hilo[x].tramo
                  /\ SinCatch(x)' = SinCatch(x)
             /\ EnBlock(v) > 0 /\ EnBlock(v)' = EnBlock(v) - 1
             /\ Activo(v)' = Activo(v) + 1
             /\ sem'["block_ready"][u] = sem["block_ready"][u]
             /\ sem'["new_ready"][v] = sem["new_ready"][v]
             /\ sem'["new_ready"][u] = sem["new_ready"][u]
             /\ EnBlock(u) > 0 /\ EnBlock(u)' = EnBlock(u) /\ Activo(u)' = Activo(u)
             /\ \A x \in ENTRENADORES \ {v, u} : Igual(x)
             /\ UNCHANGED <<nuevos, terminados, cerc>>
      BY <1>2, ApareaEfecto
  <2>2. /\ ent'[v].mov = "RESOLUCION_DEADLOCK" /\ ent'[v].socio = u
        /\ ent'[v].estado = "READY" /\ ent'[v].stock = ent[v].stock
        /\ ent'[u].mov = ent[u].mov /\ ent'[u].socio = ent[u].socio
        /\ ent'[u].razon = "DEADLOCK" /\ ent'[u].estado = ent[u].estado
        /\ ent'[u].stock = ent[u].stock
      BY <2>1, ApareaEnt
  <2>3. \A x \in ENTRENADORES : Contable(x) /\ Solo(x)
      BY Cuentas DEF Orden
  <2>4. v # u /\ ~Lugar(v) /\ ~Lugar(u)
      BY <2>1, <2>3 DEF Pareja, Lugar, Contable
  <2>5. \A x \in {v, u} : /\ Lugar(x)' = Lugar(x) /\ CantStock(ent[x])' = CantStock(ent[x])
                          /\ ObjetivosCumplidos(x, ent[x])' = ObjetivosCumplidos(x, ent[x])
      BY <2>2 DEF Lugar, CantStock, CantObjetivos, ObjetivosCumplidos
  <2>6. \A x \in {v, u} : /\ x \notin nuevos /\ x \notin cerc.cands
                          /\ Fase(x) # "nuevo" /\ ~Debe(x)
                          /\ EnBlock(x) = 1 /\ Activo(x) = 0
      BY <2>1, <2>3, <2>4 DEF Solo, Sitio, Nuevo, Cand, Caza, Vale, Contable
  <2>7. \A x \in {v, u} : Debe(x)' = Debe(x)
      BY <2>1 DEF Debe
  <2>8. Solo(v)'
    <3> USE <2>1, <2>2, <2>3, <2>4, <2>5, <2>6, <2>7 DEF Solo
    <3>1. Sitio(v)' /\ Nuevo(v)' /\ Lleno(v)' /\ Cand(v)' /\ Adelantado(v)'
        BY DEF Sitio, Vale, Nuevo, Lleno, Cand, Adelantado, Temprano
    <3>2. Avisado(v)'
        BY DEF Avisado
    <3>3. Caza(v)'
        BY DEF Caza, Debe, CantObjetivos
    <3>4. QED
        BY <3>1, <3>2, <3>3
  <2>9. Temprano(u)' = Temprano(u)
      BY <2>1, <2>2, <2>5 DEF Temprano
  <2>10. Solo(u)'
    <3> USE <2>1, <2>2, <2>3, <2>4, <2>5, <2>6, <2>7, <2>9 DEF Solo
    <3>1. Sitio(u)' /\ Nuevo(u)' /\ Lleno(u)' /\ Cand(u)' /\ Adelantado(u)'
        BY DEF Sitio, Vale, Nuevo, Lleno, Cand, Adelantado
    <3>2. Avisado(u)'
        BY DEF Avisado
    <3>3. Caza(u)'
        BY DEF Caza, Debe, CantObjetivos
    <3>4. QED
        BY <3>1, <3>2, <3>3
  <2>11. \A x \in ENTRENADORES \ {v, u} : Solo(x)'
      BY <2>1, <2>3, IgualSolo
  <2>12. ~ObjetivosCumplidos(v, ent[v]) /\ ~ObjetivosCumplidos(u, ent[u])
    <3>1. Necesita(v, ent[v]) # {} /\ Sobran(u, ent[u]) # {} /\ CantObjetivos(u) = CantStock(ent[u])
        BY <2>1 DEF Pareja
    <3>2. QED
        BY <3>1, CumplidosTotal DEF Tipos
  <2>13. \A x, w \in ENTRENADORES :
           Pendiente(w, x)' => IF w = v THEN x = u ELSE Pendiente(w, x)
    <3>1. ASSUME NEW w \in ENTRENADORES, w \notin {v, u}
          PROVE  \A x \in ENTRENADORES : Pendiente(w, x)' => Pendiente(w, x)
        BY <2>1, <3>1, IgualFirme
    <3>2. \A x \in ENTRENADORES : Pendiente(u, x)' => Pendiente(u, x)
        BY <2>1, <2>2 DEF Pendiente
    <3>3. \A x \in ENTRENADORES : Pendiente(v, x)' => x = u
        BY <2>2 DEF Pendiente
    <3>4. QED
        BY <3>1, <3>2, <3>3
  <2>14. Parejas'
    <3>1. ASSUME NEW x \in ENTRENADORES, NEW y \in ENTRENADORES, ent'[x].socio = y
          PROVE  ~Lugar(y)'
      <4>1. Lugar(y)' = Lugar(y)
          BY <2>1, <2>5, IgualFirme
      <4>2. x # v => ent'[x].socio = ent[x].socio
          BY <2>1, <2>2, IgualFirme
      <4>3. QED
          BY <2>2, <2>4, <3>1, <4>1, <4>2 DEF Orden, Parejas
    <3>2. ASSUME NEW x \in ENTRENADORES
          PROVE  Elegido(x)'
      <4>1. SUFFICES ASSUME NEW w \in ENTRENADORES, Temprano(x)', Pendiente(w, x)'
                     PROVE  /\ ent'[x].razon = "DEADLOCK" /\ sem'["block_ready"][x] = 0
                            /\ ~ObjetivosCumplidos(x, ent[x])'
                            /\ \A y \in ENTRENADORES : Pendiente(y, x)' => y = w
          BY DEF Elegido
      <4>2. x # v
          BY <2>2, <4>1 DEF Temprano
      <4>3. CASE x = u
        <5>1. Temprano(u)
            BY <2>9, <4>1, <4>3
        <5>2. \A y \in ENTRENADORES : ~Pendiente(y, u)
            BY <2>1, <5>1 DEF Pareja, Orden, Parejas, Elegido
        <5>3. \A y \in ENTRENADORES : Pendiente(y, u)' => y = v
            BY <2>13, <5>2
        <5>4. sem["block_ready"][u] = 0
            BY <2>3, <2>12, <5>1 DEF Solo, Adelantado, Contable, Semaforos
        <5>5. QED
            BY <2>1, <2>2, <2>5, <2>12, <4>1, <4>3, <5>3, <5>4
      <4>4. CASE x # u
        <5>1. \A y \in ENTRENADORES : Pendiente(y, x)' => Pendiente(y, x)
            BY <2>13, <4>4
        <5>2. Firme(x)
            BY <2>1, <4>2, <4>4, IgualFirme
        <5>3. QED
            BY <4>1, <5>1, <5>2 DEF Firme, Orden, Parejas, Elegido
      <4>5. QED
          BY <4>3, <4>4
    <3>3. QED
        BY <3>1, <3>2 DEF Parejas
  <2>15. QED
      BY <2>8, <2>10, <2>11, <2>14 DEF Orden
<1>3. QED
    BY <1>1, <1>2

(* What handing a pokemon out to c does.                                   *)
LEMMA AsignaEfecto ==
    ASSUME Tipos, NEW h \in HILOS, Asigna(h)
    PROVE  \E c \in ENTRENADORES :
             /\ Recibidor(c)
             /\ \A x \in ENTRENADORES :
                  /\ Fase(x)' = Fase(x) /\ hilo'[x].tramo = hilo[x].tramo
                  /\ SinCatch(x)' = SinCatch(x)
             /\ \A x \in ENTRENADORES \ {c} : Igual(x)
             /\ cerc'.cands = cerc.cands \ {c} /\ UNCHANGED terminados
             /\ IF ent[c].estado \in {"NEW", "BLOCK"}
                THEN /\ Activo(c)' = Activo(c) + 1
                     /\ IF ent[c].estado = "NEW"
                        THEN /\ c \notin nuevos' /\ EnBlock(c)' = EnBlock(c)
                             /\ sem'["block_ready"][c] = sem["block_ready"][c]
                        ELSE /\ UNCHANGED nuevos
                             /\ EnBlock(c)' = IF EnBlock(c) > 0 THEN EnBlock(c) - 1 ELSE 0
                             /\ sem'["block_ready"][c] = sem["block_ready"][c] + 1
                             /\ sem'["new_ready"][c] = sem["new_ready"][c]
                ELSE /\ Activo(c)' = Activo(c) /\ EnBlock(c)' = EnBlock(c)
                     /\ UNCHANGED <<nuevos, sem>>
<1>1. PICK c \in cerc.cands :
             /\ Recibidor(c)
             /\ cerc'.cands = cerc.cands \ {c}
             /\ IF ent[c].estado \in {"NEW", "BLOCK"}
                THEN /\ ready' = [ready EXCEPT ![c] = @ + 1]
                     /\ IF ent[c].estado = "NEW"
                        THEN /\ nuevos' = nuevos \ {c} /\ sem' = Con("new_ready", c)
                             /\ UNCHANGED block
                        ELSE /\ block' = Quitar(block, c) /\ sem' = Con("block_ready", c)
                             /\ UNCHANGED nuevos
                ELSE UNCHANGED <<ready, nuevos, block, sem>>
    BY AsignaEnt
<1>2. c \in ENTRENADORES /\ \A u \in ENTRENADORES \ {c} : Mismo(u)
    BY <1>1 DEF Recibidor
<1>3. UNCHANGED <<hilo, terminados, envio, catches, waiting>>
    BY DEF Asigna, correo
<1>4. \A x \in ENTRENADORES :
        /\ Fase(x)' = Fase(x) /\ hilo'[x].tramo = hilo[x].tramo
        /\ Corriendo(x)' = Corriendo(x) /\ SinCatch(x)' = SinCatch(x)
    BY <1>3 DEF Fase, Corriendo, SinCatch
<1>5. /\ \A x \in ENTRENADORES \ {c} : \A k \in Semaforos : sem'[k][x] = sem[k][x]
      /\ \A k \in {"ready_exec", "ready_exec_cd"} : sem'[k][c] = sem[k][c]
      /\ ent[c].estado = "NEW" => sem'["block_ready"][c] = sem["block_ready"][c]
      /\ ent[c].estado = "BLOCK" => /\ sem'["block_ready"][c] = sem["block_ready"][c] + 1
                                    /\ sem'["new_ready"][c] = sem["new_ready"][c]
  <2>1. \/ UNCHANGED sem /\ ent[c].estado \notin {"NEW", "BLOCK"}
        \/ ent[c].estado = "NEW" /\ sem' = Con("new_ready", c)
        \/ ent[c].estado = "BLOCK" /\ sem' = Con("block_ready", c)
      BY <1>1
  <2>2. {"new_ready", "block_ready", "ready_exec", "ready_exec_cd"} \subseteq Semaforos
      BY DEF Semaforos
  <2>3. QED
      BY <1>2, <2>1, <2>2, ConTipo DEF Tipos
<1>6. /\ \A x \in ENTRENADORES \ {c} : ready'[x] = ready[x]
      /\ ready[c] \in Nat
      /\ ready'[c] = IF ent[c].estado \in {"NEW", "BLOCK"} THEN ready[c] + 1 ELSE ready[c]
    BY <1>1, <1>2 DEF Tipos, Listas
<1>7. /\ \A x \in ENTRENADORES \ {c} : EnBlock(x)' = EnBlock(x)
      /\ EnBlock(c)' = IF ent[c].estado = "BLOCK"
                       THEN IF EnBlock(c) > 0 THEN EnBlock(c) - 1 ELSE 0
                       ELSE EnBlock(c)
  <2>1. block \in Seq(ENTRENADORES)
      BY DEF Tipos, Listas
  <2>2. block' = IF ent[c].estado = "BLOCK" THEN Quitar(block, c) ELSE block
      BY <1>1
  <2>3. QED
      BY <1>2, <2>1, <2>2, VecesQuita DEF EnBlock
<1>8. Activo(c)' = IF ent[c].estado \in {"NEW", "BLOCK"} THEN Activo(c) + 1 ELSE Activo(c)
  <2>1. \A k \in Semaforos : sem[k][c] \in Nat
      BY <1>2 DEF Tipos, Sems
  <2>2. sem["ready_exec"][c] \in Nat /\ sem["ready_exec_cd"][c] \in Nat
      BY <2>1 DEF Semaforos
  <2>3. Corriendo(c)' = Corriendo(c)
      BY <1>2, <1>4
  <2>4. Vale(Corriendo(c))' = Vale(Corriendo(c)) /\ Vale(Corriendo(c)) \in Nat
      BY <2>3 DEF Vale
  <2>5. QED
      BY <1>5, <1>6, <2>2, <2>4 DEF Activo
<1>9. \A x \in ENTRENADORES \ {c} : Igual(x)
  <2>1. \A x \in ENTRENADORES \ {c} : (x \in nuevos)' = (x \in nuevos)
      BY <1>1
  <2>2. {"new_ready", "block_ready", "ready_exec", "ready_exec_cd"} \subseteq Semaforos
      BY DEF Semaforos
  <2>3. \A x \in ENTRENADORES \ {c} : Activo(x)' = Activo(x)
      BY <1>4, <1>5, <1>6, <2>2 DEF Activo
  <2>4. QED
      BY <1>2, <1>3, <1>4, <1>5, <1>7, <2>1, <2>2, <2>3 DEF Igual
<1>10. QED
    BY <1>1, <1>2, <1>3, <1>4, <1>5, <1>7, <1>8, <1>9

(* After it.                                                               *)
LEMMA AsignaOrden ==
    ASSUME Tipos, Orden, NEW h \in HILOS, Asigna(h)
    PROVE  Orden'
<1>1. PICK c \in ENTRENADORES :
             /\ Recibidor(c)
             /\ \A x \in ENTRENADORES :
                  /\ Fase(x)' = Fase(x) /\ hilo'[x].tramo = hilo[x].tramo
                  /\ SinCatch(x)' = SinCatch(x)
             /\ \A x \in ENTRENADORES \ {c} : Igual(x)
             /\ cerc'.cands = cerc.cands \ {c} /\ UNCHANGED terminados
             /\ IF ent[c].estado \in {"NEW", "BLOCK"}
                THEN /\ Activo(c)' = Activo(c) + 1
                     /\ IF ent[c].estado = "NEW"
                        THEN /\ c \notin nuevos' /\ EnBlock(c)' = EnBlock(c)
                             /\ sem'["block_ready"][c] = sem["block_ready"][c]
                        ELSE /\ UNCHANGED nuevos
                             /\ EnBlock(c)' = IF EnBlock(c) > 0 THEN EnBlock(c) - 1 ELSE 0
                             /\ sem'["block_ready"][c] = sem["block_ready"][c] + 1
                             /\ sem'["new_ready"][c] = sem["new_ready"][c]
                ELSE /\ Activo(c)' = Activo(c) /\ EnBlock(c)' = EnBlock(c)
                     /\ UNCHANGED <<nuevos, sem>>
    BY AsignaEfecto
<1>2. /\ c \in cerc.cands
      /\ ent'[c].razon = ent[c].razon /\ ent'[c].socio = ent[c].socio
      /\ ent'[c].stock = ent[c].stock
      /\ IF ent[c].estado \in {"NEW", "BLOCK"}
         THEN ent'[c].mov = "CATCH" /\ ent'[c].estado = "READY"
         ELSE ent'[c].mov = ent[c].mov /\ ent'[c].estado = ent[c].estado
    BY <1>1 DEF Recibidor
<1>3. Contable(c) /\ Solo(c)
    BY Cuentas DEF Orden
<1>4. /\ Lugar(c)' = Lugar(c) /\ CantStock(ent[c])' = CantStock(ent[c])
      /\ ObjetivosCumplidos(c, ent[c])' = ObjetivosCumplidos(c, ent[c])
    BY <1>2 DEF Lugar, CantStock, CantObjetivos, ObjetivosCumplidos
<1>5. c \notin cerc'.cands
    BY <1>1
<1>6. Lugar(c) /\ Firme(c) /\ \A x \in ENTRENADORES : Pendiente(c, x)' => Pendiente(c, x)
  <2>1. Lugar(c)
      BY <1>2, <1>3 DEF Solo, Cand, Nuevo
  <2>2. ~Temprano(c)'
      BY <1>4, <2>1 DEF Temprano
  <2>3. \A x \in ENTRENADORES : Pendiente(c, x)' => Pendiente(c, x)
      BY <1>1, <1>2 DEF Pendiente
  <2>4. QED
      BY <2>1, <2>2, <2>3 DEF Firme
<1>7. Solo(c)'
  <2>1. CASE ent[c].estado = "NEW"
    <3>1. /\ c \in nuevos /\ Fase(c) = "nuevo" /\ sem["block_ready"][c] = 0
          /\ EnBlock(c) = 0 /\ Activo(c) = 0
        BY <1>3, <2>1 DEF Solo, Nuevo, Sitio, Vale, Contable
    <3> USE <1>1, <1>2, <1>3, <1>4, <1>5, <1>6, <2>1, <3>1 DEF Solo
    <3>2. Sitio(c)' /\ Nuevo(c)' /\ Lleno(c)' /\ Cand(c)' /\ Adelantado(c)'
        BY DEF Sitio, Vale, Nuevo, Lleno, Cand, Adelantado, Temprano
    <3>3. Avisado(c)' /\ Caza(c)'
        BY DEF Avisado, Caza, Debe, CantObjetivos
    <3>4. QED
        BY <3>2, <3>3
  <2>2. CASE ent[c].estado # "NEW"
    <3>1. /\ c \notin nuevos /\ c \notin nuevos' /\ EnBlock(c) > 0
          /\ Fase(c) = "aguarda" /\ sem["block_ready"][c] = 0
        BY <1>1, <1>2, <1>3, <1>6, <2>2 DEF Solo, Nuevo, Cand, Avisado
    <3>2. EnBlock(c) = 1 /\ Activo(c) = 0
        BY <1>3, <3>1 DEF Solo, Sitio, Vale, Contable
    <3> USE <1>1, <1>2, <1>3, <1>4, <1>5, <1>6, <2>2, <3>1, <3>2 DEF Solo
    <3>3. Sitio(c)' /\ Nuevo(c)' /\ Lleno(c)' /\ Cand(c)' /\ Adelantado(c)'
        BY DEF Sitio, Vale, Nuevo, Lleno, Cand, Adelantado, Temprano
    <3>4. Avisado(c)' /\ Caza(c)'
        BY DEF Avisado, Caza, Debe, CantObjetivos
    <3>5. QED
        BY <3>3, <3>4
  <2>3. QED
      BY <2>1, <2>2
<1>8. \A x \in ENTRENADORES \ {c} : Solo(x)'
    BY <1>1, IgualSolo DEF Orden
<1>9. Parejas'
  <2>1. \A x \in ENTRENADORES : ent'[x].socio = ent[x].socio /\ (Lugar(x)' => Lugar(x))
      BY <1>1, <1>2, <1>4, IgualFirme
  <2>2. \A x, u \in ENTRENADORES : Pendiente(u, x)' => Pendiente(u, x) /\ Firme(x)
      BY <1>1, <1>6, IgualFirme
  <2>3. QED
      BY <2>1, <2>2, ParejasSigue DEF Orden
<1>10. QED
    BY <1>7, <1>8, <1>9 DEF Orden

(* The answer to a CATCH, and what its trainer was.                        *)
LEMMA AtrapaEfecto ==
    ASSUME Tipos, Orden, NEW t \in ENTRENADORES, NEW r \in {0, 1}, CaughtPokemon(t, r),
           hilo[t].pc = "esperaCatch", ~SinCatch(t), SinCatch(t)',
           \A u \in ENTRENADORES \ {t} : SinCatch(u)' = SinCatch(u)
    PROVE  /\ \A u \in ENTRENADORES \ {t} : Igual(u)
           /\ UNCHANGED cerc
           /\ Lugar(t) /\ EnBlock(t) > 0 /\ Fase(t) = "espera"
           /\ MismoSitio(t) /\ MismoAviso(t) /\ Fase(t)' = Fase(t)
           /\ hilo'[t].tramo = hilo[t].tramo
           /\ ent'[t].razon = ent[t].razon /\ ent'[t].mov = ent[t].mov
           /\ ent'[t].socio = ent[t].socio /\ ent'[t].especie = ent[t].especie
           /\ ent'[t].estado = ent[t].estado
           /\ CantStock(ent[t])' \in {CantStock(ent[t]), CantStock(ent[t]) + 1}
           /\ caida' = "sin_entrenador" => caida = "sin_entrenador"
<1>1. /\ \A u \in ENTRENADORES \ {t} : Mismo(u)
      /\ ent'[t].razon = ent[t].razon /\ ent'[t].mov = ent[t].mov
      /\ ent'[t].socio = ent[t].socio /\ ent'[t].especie = ent[t].especie
      /\ ent'[t].estado = ent[t].estado
      /\ UNCHANGED <<hilo, listas, cerc>>
      /\ \/ /\ ent[t].especie \in ESPECIES
            /\ ent'[t].stock = Mas(ent[t].stock, ent[t].especie)
         \/ Mismo(t)
      /\ UNCHANGED sem \/ sem' = Con("block_catch", t)
      /\ caida' = "sin_entrenador" => ~EnLista(t, block) \/ caida = "sin_entrenador"
    BY CaughtPokemonEnt
<1>2. Fase(t) = "espera" /\ Debe(t)
  <2>1. Fase(t) = "espera"
      BY Fases DEF Fase, FaseEn, Dentro
  <2>2. QED
      BY <2>1 DEF Debe
<1>3. Lugar(t) /\ EnBlock(t) > 0
    BY <1>2 DEF Orden, Solo, Caza
<1>4. EnLista(t, block)
    BY <1>3, EnBlockLista
<1>5. \A u \in ENTRENADORES : \A k \in Semaforos :
        (k = "block_catch" /\ u = t) \/ sem'[k][u] = sem[k][u]
  <2>1. "block_catch" \in Semaforos
      BY DEF Semaforos
  <2>2. QED
      BY <1>1, <2>1, ConTipo DEF Tipos
<1>6. UNCHANGED <<nuevos, ready, block, terminados>>
    BY <1>1 DEF listas
<1>7. \A u \in ENTRENADORES : EnBlock(u)' = EnBlock(u)
    BY <1>6 DEF EnBlock
<1>8. ASSUME NEW u \in ENTRENADORES \ {t}
      PROVE  Igual(u)
  <2>1. \A k \in Semaforos : sem'[k][u] = sem[k][u]
      BY <1>5, <1>8
  <2>2. QED
      BY <1>1, <1>6, <1>7, <1>8, <2>1, Quieto
<1>9. MismoSitio(t) /\ MismoAviso(t) /\ Fase(t)' = Fase(t)
  <2>1. /\ sem'["block_ready"][t] = sem["block_ready"][t]
        /\ sem'["new_ready"][t] = sem["new_ready"][t]
        /\ sem'["ready_exec"][t] = sem["ready_exec"][t]
        /\ sem'["ready_exec_cd"][t] = sem["ready_exec_cd"][t]
      BY <1>5 DEF Semaforos
  <2>2. Fase(t)' = Fase(t) /\ Corriendo(t)' = Corriendo(t)
      BY <1>1 DEF Fase, Corriendo
  <2>3. Activo(t)' = Activo(t)
      BY <1>6, <2>1, <2>2 DEF Activo
  <2>4. QED
      BY <1>6, <1>7, <2>1, <2>2, <2>3 DEF MismoSitio, MismoAviso
<1>10. CantStock(ent[t])' \in {CantStock(ent[t]), CantStock(ent[t]) + 1}
  <2>1. CASE Mismo(t)
      BY <2>1, MismoLugar DEF Mismo
  <2>2. CASE /\ ent[t].especie \in ESPECIES
             /\ ent'[t].stock = Mas(ent[t].stock, ent[t].especie)
    <3> PICK e \in ESPECIES : e = ent[t].especie
        BY <2>2
    <3> PICK d, g : d = ent[t].stock /\ g = ent'[t].stock
        OBVIOUS
    <3>1. d = ent[t].stock /\ g = ent'[t].stock /\ g = Mas(d, e)
        BY <2>2
    <3>2. d \in [ESPECIES -> Nat]
        BY <3>1, Campos DEF Tipos, Dicc
    <3>3. /\ d \in [ESPECIES -> Int] /\ g \in [ESPECIES -> Int] /\ 1 \in Int
          /\ g[e] = d[e] + 1 /\ \A x \in ESPECIES \ {e} : g[x] = d[x]
        BY <3>1, <3>2 DEF Mas
    <3>4. Total(ESPECIES, g) = Total(ESPECIES, d) + 1
        BY <3>3, TotalCambia, EntrenadoresAssumption
    <3>5. Suma(g) = Suma(d) + 1
        BY <3>3, <3>4, SumaTotal
    <3>6. QED
        BY <3>1, <3>5 DEF CantStock
  <2>3. QED
      BY <1>1, <2>1, <2>2
<1>11. QED
    BY <1>1, <1>2, <1>3, <1>4, <1>8, <1>9, <1>10

(* After it.                                                               *)
LEMMA AtrapaOrden ==
    ASSUME Tipos, Orden, NEW t \in ENTRENADORES, NEW r \in {0, 1}, CaughtPokemon(t, r),
           hilo[t].pc = "esperaCatch", ~SinCatch(t), SinCatch(t)',
           \A u \in ENTRENADORES \ {t} : SinCatch(u)' = SinCatch(u)
    PROVE  Orden'
<1>1. /\ \A u \in ENTRENADORES \ {t} : Igual(u)
      /\ UNCHANGED cerc
      /\ Lugar(t) /\ EnBlock(t) > 0 /\ Fase(t) = "espera"
      /\ MismoSitio(t) /\ MismoAviso(t) /\ Fase(t)' = Fase(t)
      /\ hilo'[t].tramo = hilo[t].tramo
      /\ ent'[t].razon = ent[t].razon /\ ent'[t].mov = ent[t].mov
      /\ ent'[t].socio = ent[t].socio /\ ent'[t].especie = ent[t].especie
      /\ ent'[t].estado = ent[t].estado
      /\ CantStock(ent[t])' \in {CantStock(ent[t]), CantStock(ent[t]) + 1}
    BY AtrapaEfecto
<1>2. Contable(t) /\ Solo(t)
    BY Cuentas DEF Orden
<1>3. CantStock(ent[t])' <= CantObjetivos(t)
    BY <1>1, <1>2 DEF Lugar, Contable
<1>4. ent[t].socio = NULL /\ \A u \in ENTRENADORES : ent[u].socio # t
    BY <1>1, <1>2 DEF Solo, Lleno, Orden, Parejas
<1>5. /\ t \notin nuevos /\ ent[t].razon # "ESPERANDO_POKEMON" /\ t \notin cerc.cands
      /\ sem["block_ready"][t] = 0
    BY <1>1, <1>2 DEF Solo, Nuevo, Avisado, Cand, Contable, Semaforos
<1>6. Solo(t)'
  <2> USE <1>1, <1>2, <1>3, <1>4, <1>5 DEF Solo, MismoSitio, MismoAviso
  <2>1. Sitio(t)' /\ Nuevo(t)' /\ Lleno(t)' /\ Cand(t)' /\ Adelantado(t)'
      BY DEF Sitio, Nuevo, Lleno, Cand, Adelantado
  <2>2. Avisado(t)'
      BY DEF Avisado
  <2>3. Caza(t)'
      BY DEF Caza, Debe, CantObjetivos
  <2>4. QED
      BY <2>1, <2>2, <2>3
<1>7. \A u \in ENTRENADORES \ {t} : Solo(u)'
    BY <1>1, IgualSolo DEF Orden
<1>8. Parejas'
  <2>1. Lugar(t)' => Lugar(t)
      BY <1>1
  <2>2. \A x \in ENTRENADORES : ent'[x].socio = ent[x].socio /\ (Lugar(x)' => Lugar(x))
      BY <1>1, <2>1, IgualFirme
  <2>3. \A x \in ENTRENADORES : ~Pendiente(t, x)' /\ \A u \in ENTRENADORES : ~Pendiente(u, t)'
    <3>1. \A u \in ENTRENADORES : ent'[u].socio # t
        BY <1>4, <2>2
    <3>2. ent'[t].socio = NULL
        BY <1>1, <1>4
    <3>3. QED
        BY <3>1, <3>2, Nombres DEF Pendiente
  <2>4. \A x, u \in ENTRENADORES : Pendiente(u, x)' => Pendiente(u, x) /\ Firme(x)
      BY <1>1, <2>3, IgualFirme
  <2>5. QED
      BY <2>2, <2>4, ParejasSigue DEF Orden
<1>9. QED
    BY <1>6, <1>7, <1>8 DEF Orden

(* A thread that goes through a procedure, or back from it, and one that is *)
(* no trainer, leave all trainers where they are.                           *)
LEMMA RecorreFase ==
    ASSUME Tipos, NEW h \in HILOS,
           \/ /\ hilo[h].pc \in Dentro
              /\ \E p \in Dentro \union {hilo[h].vuelta} : Sigue(h, p)
           \/ h \in CANALES /\ \E p, v : Llama(h, p, v)
           \/ UNCHANGED hilo
    PROVE  \A x \in ENTRENADORES : /\ Fase(x)' = Fase(x) /\ Corriendo(x)' = Corriendo(x)
                                   /\ hilo'[x].tramo = hilo[x].tramo
<1>1. ASSUME NEW x \in ENTRENADORES, hilo'[x] = hilo[x]
      PROVE  /\ Fase(x)' = Fase(x) /\ Corriendo(x)' = Corriendo(x)
             /\ hilo'[x].tramo = hilo[x].tramo
    BY <1>1 DEF Fase, Corriendo
<1>2. CASE h \in CANALES /\ \E p, v : Llama(h, p, v)
  <2>1. \A x \in ENTRENADORES : x \in HILOS \ {h}
      BY <1>2, Nombres, MensajesAssumption
  <2>2. QED
      BY <1>1, <1>2, <2>1, HiloDe
<1>3. CASE /\ hilo[h].pc \in Dentro
           /\ \E p \in Dentro \union {hilo[h].vuelta} : Sigue(h, p)
  <2>1. PICK p \in Dentro \union {hilo[h].vuelta} : Sigue(h, p)
      BY <1>3
  <2>2. \A x \in ENTRENADORES \ {h} : hilo'[x] = hilo[x]
      BY <2>1, HiloDe, Nombres
  <2>3. ASSUME h \in ENTRENADORES
        PROVE  /\ Fase(h)' = Fase(h) /\ Corriendo(h)' = Corriendo(h)
               /\ hilo'[h].tramo = hilo[h].tramo
    <3>1. hilo[h].vuelta \notin Dentro /\ hilo[h].vuelta \notin {"anda", "ciclo", "suelta"}
      <4>1. hilo[h].vuelta \in Vueltas
          BY HiloDe
      <4>2. QED
          BY <4>1 DEF Dentro, Vueltas
    <3>2. QED
        BY <1>3, <2>1, <2>3, <3>1, FaseVa DEF FaseA, Dentro, Corriendo
  <2>4. QED
      BY <1>1, <2>2, <2>3
<1>4. CASE UNCHANGED hilo
    BY <1>1, <1>4
<1>5. QED
    BY <1>2, <1>3, <1>4

(* If nothing else that matters changes, the trainers are left alone.      *)
LEMMA RecorreIgual ==
    ASSUME Tipos, NEW h \in HILOS,
           \/ /\ hilo[h].pc \in Dentro
              /\ \E p \in Dentro \union {hilo[h].vuelta} : Sigue(h, p)
           \/ h \in CANALES /\ \E p, v : Llama(h, p, v)
           \/ UNCHANGED hilo,
           UNCHANGED <<ent, nuevos, ready, block, terminados, sem>>,
           \A u \in ENTRENADORES : SinCatch(u)' = SinCatch(u)
    PROVE  \A x \in ENTRENADORES : Igual(x)
<1>1. \A x \in ENTRENADORES : /\ Fase(x)' = Fase(x) /\ Corriendo(x)' = Corriendo(x)
                              /\ hilo'[x].tramo = hilo[x].tramo
    BY RecorreFase
<1>2. \A x \in ENTRENADORES : Activo(x)' = Activo(x) /\ EnBlock(x)' = EnBlock(x) /\ Mismo(x)
    BY <1>1 DEF Activo, EnBlock, Mismo, MismaMeta, Meta
<1>3. QED
    BY <1>1, <1>2 DEF Igual

(* A planner that does not preempt takes a trainer from Ready and wakes it *)
(* up: it is as active as it was.                                          *)
LEMMA PlanificaIguales ==
    ASSUME Tipos, NEW t \in ENTRENADORES, Planifica(t), algoritmo # "SJF_CD"
    PROVE  (\A x \in ENTRENADORES : Igual(x)) /\ UNCHANGED cerc
<1>0. t \in HILOS
    BY Nombres
<1>1. CASE Mira(t)
  <2>1. /\ hilo[t].pc \in Dentro
        /\ \E p \in Dentro \union {hilo[t].vuelta} : Sigue(t, p)
      BY <1>1 DEF Mira, En, Dentro
  <2>2. UNCHANGED <<ent, nuevos, ready, block, terminados, sem, envio, catches, waiting, cerc>>
      BY <1>1 DEF Mira, listas, correo
  <2>3. \A u \in ENTRENADORES : SinCatch(u)' = SinCatch(u)
      BY <2>2 DEF SinCatch
  <2>4. QED
      BY <1>0, <2>1, <2>2, <2>3, RecorreIgual
<1>2. CASE EligeYCae(t)
    BY <1>2, CaeIgual DEF EligeYCae
<1>3. CASE Elige(t)
  <2>1. PICK e, E : /\ e \in EnReady /\ Despacha(e, E)
    <3>1. \A E : \A x \in Primeros(algoritmo, llegada, EnReady, E) : x \in EnReady
        BY DEF Primeros, MenorEstimado
    <3>2. QED
        BY <1>3, <3>1 DEF Elige
  <2>2. e \in ENTRENADORES /\ ready[e] > 0 /\ ready' = [ready EXCEPT ![e] = @ - 1]
      BY <2>1 DEF EnReady, Despacha
  <2>3. \E k \in {"ready_exec", "ready_exec_cd"} : sem' = Con(k, e)
      BY <2>1 DEF Despacha, Despierta
  <2>4. PICK k \in {"ready_exec", "ready_exec_cd"} : sem' = Con(k, e)
      BY <2>3
  <2>5. k \in Semaforos
      BY DEF Semaforos
  <2>6. /\ sem'[k][e] = sem[k][e] + 1
        /\ \A j \in Semaforos, u \in ENTRENADORES : j # k \/ u # e => sem'[j][u] = sem[j][u]
      BY <2>2, <2>4, <2>5, ConTipo DEF Tipos
  <2>7. UNCHANGED <<nuevos, block, terminados, envio, catches, waiting, cerc>>
      BY <1>3 DEF Elige, Vuelve, correo
  <2>8. \A u \in ENTRENADORES : SinCatch(u)' = SinCatch(u)
      BY <2>7 DEF SinCatch
  <2>9. \A u \in ENTRENADORES : Mismo(u)
      BY <1>3, EligeEnt
  <2>10. \A x \in ENTRENADORES : /\ Fase(x)' = Fase(x) /\ Corriendo(x)' = Corriendo(x)
                                 /\ hilo'[x].tramo = hilo[x].tramo
    <3>1. /\ hilo[t].pc \in Dentro
          /\ \E p \in Dentro \union {hilo[t].vuelta} : Sigue(t, p)
        BY <1>3 DEF Elige, Vuelve, En, Dentro
    <3>2. QED
        BY <1>0, <3>1, RecorreFase
  <2>11. \A x \in ENTRENADORES \ {e} : ready'[x] = ready[x]
      BY <2>2 DEF Tipos, Listas
  <2>12. ready[e] \in Nat /\ ready'[e] = ready[e] - 1 /\ \A j \in Semaforos : sem[j][e] \in Nat
      BY <2>2 DEF Tipos, Listas, Sems
  <2>13. Activo(e)' = Activo(e)
    <3>1. Corriendo(e)' = Corriendo(e)
        BY <2>2, <2>10
    <3>2. Vale(Corriendo(e))' = Vale(Corriendo(e)) /\ Vale(Corriendo(e)) \in Nat
        BY <3>1 DEF Vale
    <3>3. sem["ready_exec"][e] \in Nat /\ sem["ready_exec_cd"][e] \in Nat
        BY <2>12 DEF Semaforos
    <3>4. CASE k = "ready_exec"
      <4>1. /\ sem'["ready_exec"][e] = sem["ready_exec"][e] + 1
            /\ sem'["ready_exec_cd"][e] = sem["ready_exec_cd"][e]
          BY <2>2, <2>6, <3>4 DEF Semaforos
      <4>2. QED
          BY <2>12, <3>2, <3>3, <4>1 DEF Activo
    <3>5. CASE k = "ready_exec_cd"
      <4>1. /\ sem'["ready_exec_cd"][e] = sem["ready_exec_cd"][e] + 1
            /\ sem'["ready_exec"][e] = sem["ready_exec"][e]
          BY <2>2, <2>6, <3>5 DEF Semaforos
      <4>2. QED
          BY <2>12, <3>2, <3>3, <4>1 DEF Activo
    <3>6. QED
        BY <3>4, <3>5
  <2>14. \A x \in ENTRENADORES \ {e} : Activo(x)' = Activo(x)
    <3>1. \A x \in ENTRENADORES \ {e} : /\ sem'["ready_exec"][x] = sem["ready_exec"][x]
                                        /\ sem'["ready_exec_cd"][x] = sem["ready_exec_cd"][x]
        BY <2>6 DEF Semaforos
    <3>2. QED
        BY <2>10, <2>11, <3>1 DEF Activo
  <2>15. \A x \in ENTRENADORES : /\ sem'["block_ready"][x] = sem["block_ready"][x]
                                 /\ sem'["new_ready"][x] = sem["new_ready"][x]
      BY <2>6 DEF Semaforos
  <2>16. \A x \in ENTRENADORES : Igual(x)
      BY <2>7, <2>8, <2>9, <2>10, <2>13, <2>14, <2>15 DEF Igual, EnBlock
  <2>17. QED
      BY <2>7, <2>16
<1>4. QED
    BY <1>1, <1>2, <1>3 DEF Planifica

(* algoritmo_de_cercania hands pokemons out, or looks at the trainers.     *)
LEMMA CercaniaIguales ==
    ASSUME Tipos, NEW h \in HILOS, Cercania(h), ~Asigna(h)
    PROVE  /\ \A x \in ENTRENADORES : Igual(x)
           /\ \A u \in ENTRENADORES : u \in cerc'.cands => u \in cerc.cands \/ Cand(u)'
<1>1. UNCHANGED <<ent, nuevos, ready, block, terminados, sem, envio, catches, waiting>>
    BY DEF Cercania, SinPokemons, Filtra, TerminaCercania, listas, correo
<1>2. \A u \in ENTRENADORES : SinCatch(u)' = SinCatch(u)
    BY <1>1 DEF SinCatch
<1>3. /\ hilo[h].pc \in Dentro
      /\ \E p \in Dentro \union {hilo[h].vuelta} : Sigue(h, p)
    BY DEF Cercania, SinPokemons, Filtra, TerminaCercania, TrasCercania, En, Dentro
<1>4. \A x \in ENTRENADORES : Igual(x)
    BY <1>1, <1>2, <1>3, RecorreIgual
<1>5. ASSUME NEW u \in ENTRENADORES, u \in cerc'.cands
      PROVE  u \in cerc.cands \/ Cand(u)'
  <2>1. CASE SinPokemons(h)
      BY <1>5, <2>1 DEF SinPokemons
  <2>2. CASE TerminaCercania(h)
      BY <1>5, <2>2 DEF TerminaCercania, SinCercania
  <2>3. CASE Filtra(h)
    <3>1. u \in nuevos \/ (EnLista(u, block) /\ ConMargen(u))
        BY <1>5, <2>3 DEF Filtra
    <3>2. u \in nuevos \/ (EnBlock(u) > 0 /\ Lugar(u) /\ ent[u].razon = "ESPERANDO_POKEMON")
        BY <3>1, EnBlockLista DEF ConMargen, Lugar
    <3>3. u \in nuevos' \/ (EnBlock(u)' > 0 /\ Lugar(u)' /\ ent'[u].razon = "ESPERANDO_POKEMON")
        BY <1>1, <3>2 DEF EnBlock, Lugar, CantStock, CantObjetivos
    <3>4. QED
        BY <3>3 DEF Cand
  <2>4. QED
      BY <2>1, <2>2, <2>3 DEF Cercania
<1>6. QED
    BY <1>4, <1>5

(* Messages that arrive are read by threads that are no trainers.          *)
LEMMA RecibeIguales ==
    ASSUME Tipos, NEW m \in entrantes, Recibe(m)
    PROVE  (\A x \in ENTRENADORES : Igual(x)) /\ UNCHANGED cerc
<1>1. UNCHANGED <<ent, nuevos, ready, block, terminados, sem, envio, catches, waiting, cerc>>
    BY DEF Recibe, Appeared, Localized, listas
<1>2. \A u \in ENTRENADORES : SinCatch(u)' = SinCatch(u)
    BY <1>1 DEF SinCatch
<1>3. m.canal \in CANALES
  <2>1. m \in [n : Nat, canal : CANALES, especie : ESPECIES, lugares : Seq(PUNTOS)]
      BY MensajesAssumption DEF Tipos, Correo
  <2>2. QED
      BY <2>1
<1>4. m.canal \in HILOS /\ (UNCHANGED hilo \/ \E p, v : Llama(m.canal, p, v))
    BY <1>3, Nombres DEF Recibe, Appeared, Localized
<1>5. QED
    BY <1>1, <1>2, <1>3, <1>4, RecorreIgual

(* The way of a CATCH to the Broker.                                       *)
LEMMA BrokerIguales ==
    ASSUME Tipos, Pendientes, NEW t \in ENTRENADORES, BrokerAcepta(t) \/ AnotaId(t)
    PROVE  (\A x \in ENTRENADORES : Igual(x)) /\ UNCHANGED cerc
<1>1. UNCHANGED <<ent, nuevos, ready, block, terminados, sem, cerc, hilo>>
    BY DEF BrokerAcepta, AnotaId, listas
<1>2. ASSUME NEW u \in ENTRENADORES
      PROVE  SinCatch(u)' = SinCatch(u)
  <2>1. CASE BrokerAcepta(t)
    <3>1. PICK x : x = [tid |-> t, est |-> "pendiente", rta |-> 0]
        OBVIOUS
    <3>2. /\ catches' = Append(catches, x)
          /\ envio' = [envio EXCEPT ![t] = [est |-> "aceptado", id |-> Len(catches) + 1]]
          /\ UNCHANGED waiting
          /\ envio[t].est = "conecta"
        BY <2>1, <3>1 DEF BrokerAcepta
    <3>3. \A id \in waiting : catches'[id] = catches[id]
        BY <3>2 DEF Tipos, Correo
    <3>4. envio'[u].est = "no" <=> envio[u].est = "no"
        BY <3>2 DEF Tipos, Correo
    <3>5. QED
        BY <3>2, <3>3, <3>4 DEF SinCatch
  <2>2. CASE AnotaId(t)
    <3>1. /\ UNCHANGED catches /\ envio[t].est = "aceptado"
          /\ waiting' = waiting \union {envio[t].id}
          /\ catches[envio[t].id].tid = t
        BY <2>2 DEF AnotaId, Pendientes, UnCatch
    <3>2. u # t => envio'[u] = envio[u]
        BY <2>2 DEF AnotaId, Tipos, Correo
    <3>3. QED
        BY <3>1, <3>2 DEF SinCatch
  <2>3. QED
      BY <2>1, <2>2
<1>3. t \in HILOS
    BY Nombres
<1>4. QED
    BY <1>1, <1>2, <1>3, RecorreIgual

(* An answer that Gamecard gives, and one that nobody waits for.           *)
LEMMA RespuestaIguales ==
    ASSUME Tipos, NEW id \in DOMAIN catches,
           GamecardResponde(id) \/ (Caught(id) /\ id \notin waiting)
    PROVE  (\A x \in ENTRENADORES : Igual(x)) /\ UNCHANGED cerc
<1>1. UNCHANGED <<ent, nuevos, ready, block, terminados, sem, cerc, hilo>>
    BY DEF GamecardResponde, Caught, listas
<1>2. /\ UNCHANGED <<envio, waiting>>
      /\ \A i \in DOMAIN catches : catches'[i].tid = catches[i].tid
  <2>1. UNCHANGED <<envio, waiting>>
      BY DEF GamecardResponde, Caught
  <2>2. \A i \in DOMAIN catches :
          catches[i] \in [tid : ENTRENADORES, est : {"pendiente", "contestada", "entregada"},
                          rta : {0, 1}]
      BY DeSeq DEF Tipos, Correo
  <2>3. \A i \in DOMAIN catches : catches'[i].tid = catches[i].tid
      BY <2>2 DEF GamecardResponde, Caught
  <2>4. QED
      BY <2>1, <2>3
<1>3. \A u \in ENTRENADORES : SinCatch(u)' = SinCatch(u)
    BY <1>2 DEF SinCatch, Tipos, Correo
<1>4. QED
  <2>1. CASE ENTRENADORES = {}
      BY <1>1, <2>1
  <2>2. CASE ENTRENADORES # {}
    <3>1. PICK t \in ENTRENADORES : t \in HILOS
        BY <2>2, Nombres
    <3>2. QED
        BY <1>1, <1>3, <3>1, RecorreIgual
  <2>3. QED
      BY <2>1, <2>2

-----------------------------------------------------------------------------
(* Every step of the process, by what it does to Orden.                    *)

\* The answer to the CATCH of t, or its default, arrives.
Atrapa(t) ==
    /\ \E r \in {0, 1} : CaughtPokemon(t, r)
    /\ hilo[t].pc = "esperaCatch" /\ ~SinCatch(t) /\ SinCatch(t)'
    /\ \A u \in ENTRENADORES \ {t} : SinCatch(u)' = SinCatch(u)

(* The default of a CATCH whose connection fails answers it.               *)
LEMMA EnvioFallaAtrapa ==
    ASSUME Tipos, Pendientes, NEW t \in ENTRENADORES, EnvioFalla(t)
    PROVE  Atrapa(t)
<1>1. CaughtPokemon(t, 1) /\ 1 \in {0, 1}
    BY DEF EnvioFalla
<1>2. /\ UNCHANGED <<catches, waiting>>
      /\ envio[t].est # "no" /\ envio'[t].est = "no"
      /\ \A u \in ENTRENADORES \ {t} : envio'[u] = envio[u]
    BY DEF EnvioFalla, Tipos, Correo
<1>3. sem["block_catch"][t] \in Nat
    BY DEF Tipos, Sems, Semaforos
<1>4. SinCatch(t)' /\ hilo[t].pc = "esperaCatch" /\ ~SinCatch(t)
    BY <1>2, <1>3 DEF Pendientes, UnCatch, SinCatch
<1>5. ASSUME NEW u \in ENTRENADORES \ {t}
      PROVE  SinCatch(u)' = SinCatch(u)
    BY <1>2 DEF SinCatch
<1>6. QED
    BY <1>1, <1>4, <1>5 DEF Atrapa

(* A CAUGHT that finds its id in waiting_list answers the CATCH it is of.  *)
LEMMA CaughtAtrapa ==
    ASSUME Tipos, Pendientes, NEW id \in waiting, Caught(id)
    PROVE  \E t \in ENTRENADORES : Atrapa(t)
<1>0. id \in DOMAIN catches
    BY DEF Tipos, Correo
<1>1. \A i \in DOMAIN catches :
          catches[i] \in [tid : ENTRENADORES, est : {"pendiente", "contestada", "entregada"},
                          rta : {0, 1}]
    BY DeSeq DEF Tipos, Correo
<1> PICK t \in ENTRENADORES : t = catches[id].tid
    BY <1>0, <1>1
<1>2. CaughtPokemon(t, catches[id].rta) /\ catches[id].rta \in {0, 1}
    BY <1>0, <1>1 DEF Caught
<1>3. /\ \A i \in DOMAIN catches : catches'[i].tid = catches[i].tid
      /\ UNCHANGED envio /\ waiting' = waiting \ {id} /\ waiting \subseteq DOMAIN catches
    BY <1>1 DEF Caught, Tipos, Correo
<1>4. sem["block_catch"][t] \in Nat
    BY DEF Tipos, Sems, Semaforos
<1>5. /\ envio[t].est = "no" /\ ~SinCatch(t)
      /\ hilo[t].pc = "esperaCatch"
    BY <1>3, <1>4 DEF Pendientes, UnCatch, SinCatch
<1>6. SinCatch(t)'
    BY <1>3, <1>5 DEF SinCatch, Pendientes
<1>7. ASSUME NEW u \in ENTRENADORES \ {t}
      PROVE  SinCatch(u)' = SinCatch(u)
    BY <1>3 DEF SinCatch
<1>8. QED
    BY <1>2, <1>5, <1>6, <1>7 DEF Atrapa

\* Nothing that Orden speaks of changes, but for the candidates.
SinNovedad ==
    /\ \A u \in ENTRENADORES : Igual(u)
    /\ \A u \in ENTRENADORES : u \in cerc'.cands => u \in cerc.cands \/ Cand(u)'

(* What a step without desalojo can be.                                    *)
LEMMA PasoClases ==
    ASSUME Tipos, Pendientes, [Next]_vars, algoritmo # "SJF_CD"
    PROVE  \/ \E t \in ENTRENADORES :
                \/ Anda(t) \/ Cumple(t) \/ Deadlock(t) \/ Atrapa(t)
                \/ Canje(t) /\ ~Cae("canje") /\ ~Cae("exec_vacia")
           \/ \E h \in HILOS : Asigna(h)
           \/ SinNovedad
<1>0. UNCHANGED cerc => \A u \in ENTRENADORES : u \in cerc'.cands => u \in cerc.cands
    OBVIOUS
<1>1. ASSUME NEW t \in ENTRENADORES, EntrenadorPaso(t)
      PROVE  \/ Anda(t) \/ Cumple(t) \/ Deadlock(t)
             \/ Canje(t) /\ ~Cae("canje") /\ ~Cae("exec_vacia")
             \/ \E h \in HILOS : Asigna(h)
             \/ SinNovedad
  <2>1. CASE Corre(t)
    <3>1. Cae("canje") \/ Cae("exec_vacia") => SinNovedad
        BY <1>0, CaeIgual DEF SinNovedad
    <3>2. QED
        BY <2>1, <3>1 DEF Anda
  <2>2. CASE Planifica(t)
      BY <1>0, <2>2, PlanificaIguales DEF SinNovedad
  <2>3. CASE Cercania(t)
      BY <2>3, Nombres, CercaniaIguales DEF SinNovedad
  <2>4. QED
      BY <1>1, <2>1, <2>2, <2>3 DEF EntrenadorPaso
<1>2. ASSUME NEW t \in ENTRENADORES, MensajePaso(t)
      PROVE  Atrapa(t) \/ SinNovedad
    BY <1>0, <1>2, EnvioFallaAtrapa, BrokerIguales DEF MensajePaso, SinNovedad
<1>3. ASSUME NEW c \in CANALES, Cercania(c)
      PROVE  (\E h \in HILOS : Asigna(h)) \/ SinNovedad
    BY <1>3, Nombres, CercaniaIguales DEF SinNovedad
<1>4. ASSUME NEW m \in entrantes, Recibe(m)
      PROVE  SinNovedad
    BY <1>0, <1>4, RecibeIguales DEF SinNovedad
<1>5. ASSUME NEW id \in DOMAIN catches, GamecardResponde(id) \/ Caught(id)
      PROVE  (\E t \in ENTRENADORES : Atrapa(t)) \/ SinNovedad
    BY <1>0, <1>5, RespuestaIguales, CaughtAtrapa DEF SinNovedad
<1>6. CASE UNCHANGED vars
  <2>1. UNCHANGED <<ent, hilo, ready, sem, nuevos, terminados, block, envio, catches,
                    waiting, cerc>>
      BY <1>6 DEF vars, listas, correo
  <2>2. ASSUME NEW u \in ENTRENADORES
        PROVE  Igual(u)
    <3>1. Mismo(u) /\ EnBlock(u)' = EnBlock(u) /\ SinCatch(u)' = SinCatch(u)
        BY <2>1 DEF Mismo, MismaMeta, Meta, EnBlock, SinCatch
    <3>2. QED
        BY <2>1, <3>1, Quieto
  <2>3. QED
      BY <1>0, <2>1, <2>2 DEF SinNovedad
<1>7. QED
    BY <1>1, <1>2, <1>3, <1>4, <1>5, <1>6 DEF Next

(* Orden is inductive under Tipos and Pendientes, without desalojo.        *)
LEMMA PasoOrden ==
    Tipos /\ Pendientes /\ Orden /\ [Next]_vars /\ algoritmo # "SJF_CD" => Orden'
<1> SUFFICES ASSUME Tipos, Pendientes, Orden, [Next]_vars, algoritmo # "SJF_CD"
             PROVE  Orden'
    OBVIOUS
<1>1. ASSUME NEW t \in ENTRENADORES, Anda(t) \/ Cumple(t) \/ Deadlock(t)
      PROVE  Orden'
    BY <1>1, AndaOrden, CumpleOrden, DeadlockOrden
<1>2. ASSUME NEW t \in ENTRENADORES, Atrapa(t)
      PROVE  Orden'
    BY <1>2, AtrapaOrden DEF Atrapa
<1>3. ASSUME NEW t \in ENTRENADORES, Canje(t), ~Cae("canje"), ~Cae("exec_vacia")
      PROVE  Orden'
    BY <1>3, CanjeOrden
<1>4. ASSUME NEW h \in HILOS, Asigna(h)
      PROVE  Orden'
    BY <1>4, AsignaOrden
<1>5. CASE SinNovedad
    BY <1>5, TodosIguales DEF SinNovedad
<1>6. QED
    BY <1>1, <1>2, <1>3, <1>4, <1>5, PasoClases

-----------------------------------------------------------------------------
(* Who has what at the start.                                              *)

\* Every trainer starts with room for another pokemon: a trainer in NEW is given one
\* without a look at its room.
HayLugar == \A t \in ENTRENADORES : Suma(STOCK[t]) < Suma(OBJETIVOS[t])

(* Orden holds at the start.                                               *)
LEMMA InicioOrden == Init /\ HayLugar => Orden
<1> SUFFICES ASSUME Init, HayLugar PROVE Orden
    OBVIOUS
<1>0. Tipos
    BY InicioTipos
<1> PICK x \in [ENTRENADORES -> Entrenador] : x = [t \in ENTRENADORES |-> EntrenadorNuevo(t)]
    BY <1>0 DEF Init, Tipos, Ents
<1>1. ASSUME NEW t \in ENTRENADORES
      PROVE  /\ ent[t].estado = "NEW" /\ ent[t].mov = "CATCH" /\ ent[t].socio = NULL
             /\ ent[t].razon = NULL
             /\ ent[t].stock = STOCK[t] /\ Lugar(t) /\ CantStock(ent[t]) <= CantObjetivos(t)
             /\ hilo[t].pc = "nuevo" /\ hilo[t].tramo = "viaje"
             /\ Fase(t) = "nuevo" /\ ~Corriendo(t)
             /\ ready[t] = 0 /\ \A k \in Semaforos : sem[k][t] = 0
             /\ t \in nuevos /\ t \notin terminados /\ cerc.cands = {}
             /\ Activo(t) = 0 /\ EnBlock(t) = 0
  <2>1. /\ ent[t].estado = "NEW" /\ ent[t].mov = "CATCH" /\ ent[t].socio = NULL
        /\ ent[t].razon = NULL /\ ent[t].stock = STOCK[t]
      BY DEF Init, EntrenadorNuevo
  <2>2. Lugar(t) /\ CantStock(ent[t]) <= CantObjetivos(t)
    <3>1. CantStock(ent[t]) \in Int /\ CantObjetivos(t) \in Int
        BY <1>0, Cuentas DEF Contable
    <3>2. CantStock(ent[t]) < CantObjetivos(t)
        BY <2>1 DEF CantStock, CantObjetivos, HayLugar
    <3>3. QED
        BY <3>1, <3>2 DEF Lugar
  <2>3. hilo[t].pc = "nuevo" /\ hilo[t].tramo = "viaje"
      BY Nombres DEF Init
  <2>4. Fase(t) = "nuevo" /\ ~Corriendo(t)
      BY <2>3, Fases DEF Fase, FaseEn, Dentro, Corriendo
  <2>5. /\ ready[t] = 0 /\ \A k \in Semaforos : sem[k][t] = 0
        /\ t \in nuevos /\ t \notin terminados /\ cerc.cands = {} /\ block = <<>>
      BY DEF Init, SinCercania
  <2>6. Activo(t) = 0
      BY <2>4, <2>5 DEF Activo, Vale, Semaforos
  <2>7. EnBlock(t) = 0
    <3>1. LugaresDe(<<>>, t) = {}
        BY DEF LugaresDe
    <3>2. QED
        BY <2>5, <3>1, FS_EmptySet DEF EnBlock, Veces
  <2>8. QED
      BY <2>1, <2>2, <2>3, <2>4, <2>5, <2>6, <2>7
<1>2. ASSUME NEW t \in ENTRENADORES
      PROVE  Solo(t)
  <2>1. Sitio(t) /\ Nuevo(t)
      BY <1>1 DEF Sitio, Nuevo, Vale, Semaforos
  <2>2. Lleno(t) /\ Avisado(t)
      BY <1>1 DEF Lleno, Avisado, Semaforos
  <2>3. Caza(t) /\ Adelantado(t) /\ Cand(t)
      BY <1>1 DEF Caza, Debe, Adelantado, Temprano, Cand
  <2>4. QED
      BY <2>1, <2>2, <2>3 DEF Solo
<1>3. Parejas
    BY <1>1, EntrenadoresAssumption DEF Parejas, Elegido, Temprano, Pendiente
<1>4. QED
    BY <1>2, <1>3 DEF Orden

(* Orden holds throughout, without desalojo.                               *)
LEMMA OrdenSiempre ==
    ASSUME HayLugar
    PROVE  Spec => [](Tipos /\ Pendientes /\ (algoritmo # "SJF_CD" => Orden))
<1> DEFINE I == Tipos /\ Pendientes /\ (algoritmo # "SJF_CD" => Orden)
<1>1. Init => I
    BY InicioTipos, InicioPendientes, InicioOrden
<1>2. I /\ [Next]_vars => I'
    BY PasoTipos, PasoPendientes, PasoOrden, SinCambioDeAlgoritmo
<1>3. QED
    BY <1>1, <1>2, PTL DEF Spec

(* Nobody ends up with more pokemons than it has room for, although its    *)
(* room is looked at when a pokemon is handed out and filled only by the   *)
(* CAUGHT: for every planner without desalojo, and if every trainer starts *)
(* with room for another pokemon.                                          *)
THEOREM SinExcesoSiempre ==
    ASSUME HayLugar
    PROVE  Spec => [](algoritmo # "SJF_CD" => SinExceso)
<1>1. (algoritmo # "SJF_CD" => Orden) => (algoritmo # "SJF_CD" => SinExceso)
    BY DEF Orden, Solo, Caza, SinExceso, CantStock
<1>2. QED
    BY <1>1, OrdenSiempre, PTL

-----------------------------------------------------------------------------
(* What the process can die of without desalojo, and the exchanges between *)
(* two trainers.                                                           *)

(* No step but a CAUGHT, or the default of a CATCH, looks for the trainer  *)
(* in Block, and none but an exchange reads what is to be exchanged.       *)
LEMMA MotivoDeCaida ==
    ASSUME [Next]_vars
    PROVE  /\ caida' = "sin_entrenador" => \/ caida = "sin_entrenador"
                                           \/ \E t \in ENTRENADORES : EnvioFalla(t)
                                           \/ \E id \in waiting : Caught(id)
           /\ caida' = "canje" => \/ caida = "canje"
                                  \/ \E t \in ENTRENADORES : Canje(t)
<1> DEFINE Otra == \/ UNCHANGED caida
                   \/ caida' \in {"hora", "ready_vacia", "exec_vacia"}
<1>1. ASSUME NEW h \in HILOS, Cercania(h)
      PROVE  Otra
    BY <1>1 DEF Cercania, SinPokemons, Filtra, Asigna, TerminaCercania
<1>2. ASSUME NEW t \in ENTRENADORES, Corre(t), ~Canje(t)
      PROVE  Otra
    BY <1>2 DEF Corre, SaleDeNew, MarcaLlegada, Empieza, FinDeQuantum, CedeElPaso, Retoma, Ciclo,
       Arriba, Pide, Suelta, Envia, RecibeRespuesta, Cumple, NoCumple, SaleDeBlock, Sale,
       Deadlock, Cae, Muere
<1>3. ASSUME NEW t \in ENTRENADORES, Planifica(t)
      PROVE  Otra
    BY <1>3 DEF Planifica, Mira, Elige, Vuelve, EligeYCae, Cae, Muere
<1>4. ASSUME NEW t \in ENTRENADORES, Canje(t)
      PROVE  Otra \/ caida' = "canje"
    BY <1>4 DEF Canje, Cae, Muere
<1>5. ASSUME NEW t \in ENTRENADORES, BrokerAcepta(t) \/ AnotaId(t)
      PROVE  Otra
    BY <1>5 DEF BrokerAcepta, AnotaId
<1>6. ASSUME NEW m \in entrantes, Recibe(m)
      PROVE  Otra
    BY <1>6 DEF Recibe, Appeared, Localized
<1>7. ASSUME NEW id \in DOMAIN catches, GamecardResponde(id) \/ (Caught(id) /\ id \notin waiting)
      PROVE  Otra
    BY <1>7 DEF GamecardResponde, Caught
<1>8. ASSUME NEW t \in ENTRENADORES, NEW r, CaughtPokemon(t, r)
      PROVE  Otra \/ caida' = "sin_entrenador" \/ caida' = "sin_objetivo"
    BY <1>8 DEF CaughtPokemon, Muere
<1>9. CASE UNCHANGED vars
    BY <1>9 DEF vars
<1>10. QED
  <2>1. ASSUME NEW t \in ENTRENADORES, EntrenadorPaso(t) \/ MensajePaso(t)
        PROVE  \/ Otra
               \/ caida' = "canje" /\ Canje(t)
               \/ EnvioFalla(t) /\ caida' \in {caida, "sin_entrenador", "sin_objetivo", "hora",
                                               "ready_vacia", "exec_vacia"}
    <3>1. EnvioFalla(t) => CaughtPokemon(t, 1)
        BY DEF EnvioFalla
    <3>2. QED
        BY <1>1, <1>2, <1>3, <1>4, <1>5, <1>8, <2>1, <3>1, Nombres
           DEF EntrenadorPaso, MensajePaso
  <2>2. ASSUME NEW id \in DOMAIN catches, Caught(id), id \in waiting
        PROVE  caida' # "canje" \/ caida = "canje"
      BY <2>2 DEF Caught, CaughtPokemon, Muere
  <2>3. ASSUME NEW c \in CANALES, Cercania(c)
        PROVE  Otra
      BY <1>1, <2>3, Nombres
  <2>4. QED
      BY <1>6, <1>7, <1>9, <2>1, <2>2, <2>3 DEF Next

(* Every CAUGHT finds its trainer in Block.                                *)
LEMMA PasoEncontrado ==
    ASSUME Tipos, Pendientes, Orden, [Next]_vars, caida # "sin_entrenador"
    PROVE  caida' # "sin_entrenador"
<1>1. ASSUME NEW t \in ENTRENADORES, Atrapa(t)
      PROVE  caida' # "sin_entrenador"
    BY <1>1, AtrapaEfecto DEF Atrapa
<1>2. QED
    BY <1>1, MotivoDeCaida, EnvioFallaAtrapa, CaughtAtrapa

\* Whoever goes for a pokemon, or waits to, has room for it: so t, if it has what it
\* wants, is only in Ready or Exec for an exchange.
Va(t) == Activo(t) > 0 /\ ent[t].mov = "CATCH" => Lugar(t)

Dos == Cardinality(ENTRENADORES) = 2
\* What t and its partner are about to give, each has to spare: nobody else can have
\* taken it.
Dupla(t) ==
    \A u \in ENTRENADORES : Dos /\ Pendiente(t, u) =>
        /\ u # t /\ \A v \in ENTRENADORES : ~Pendiente(u, v)
        /\ ent[t].especie \in Sobran(u, ent[u])
        /\ ent[u].especie \in Sobran(t, ent[t])
\* A trainer that finished is nowhere else.
Acabado(t) ==
    Dos /\ t \in terminados => t \notin nuevos /\ Activo(t) = 0 /\ EnBlock(t) = 0

Duo == \A t \in ENTRENADORES : Va(t) /\ Dupla(t) /\ Acabado(t)

\* A step that starts no exchange that involves x, and leaves what x has alone if it
\* may be part of one.
Conserva(x) ==
    /\ ent'[x].socio = ent[x].socio
    /\ Activo(x)' > 0 /\ ent'[x].mov = "RESOLUCION_DEADLOCK" =>
           Activo(x) > 0 /\ ent[x].mov = "RESOLUCION_DEADLOCK"
    /\ ~Lugar(x) => ent'[x].especie = ent[x].especie /\ ent'[x].stock = ent[x].stock
    /\ Va(x)' /\ Acabado(x)'

(* What each trainer conserves keeps the pairs that were there, and makes  *)
(* no new one.                                                             *)
LEMMA ConservaDuo ==
    ASSUME Orden, Duo, \A x \in ENTRENADORES : Conserva(x)
    PROVE  Duo'
<1>1. ASSUME NEW t \in ENTRENADORES, NEW u \in ENTRENADORES, Pendiente(t, u)'
      PROVE  Pendiente(t, u)
    BY <1>1 DEF Pendiente, Conserva
<1>2. ASSUME NEW t \in ENTRENADORES, NEW u \in ENTRENADORES, Dos, Pendiente(t, u)'
      PROVE  /\ u # t /\ \A v \in ENTRENADORES : ~Pendiente(u, v)'
             /\ ent'[t].especie \in Sobran(u, ent'[u])
             /\ ent'[u].especie \in Sobran(t, ent'[t])
  <2>1. Pendiente(t, u)
      BY <1>1, <1>2
  <2>2. /\ u # t /\ \A v \in ENTRENADORES : ~Pendiente(u, v)
        /\ ent[t].especie \in Sobran(u, ent[u]) /\ ent[u].especie \in Sobran(t, ent[t])
      BY <1>2, <2>1 DEF Duo, Dupla
  <2>3. ent[t].socio = u
      BY <2>1 DEF Pendiente
  <2>4. ~Lugar(t) /\ ~Lugar(u)
      BY <2>3, EntrenadoresAssumption DEF Orden, Parejas, Solo, Lleno
  <2>5. /\ ent'[t].especie = ent[t].especie /\ ent'[t].stock = ent[t].stock
        /\ ent'[u].especie = ent[u].especie /\ ent'[u].stock = ent[u].stock
      BY <2>4 DEF Conserva
  <2>6. QED
      BY <1>1, <2>2, <2>5 DEF Sobran
<1>3. \A t \in ENTRENADORES : Dupla(t)'
    BY <1>2 DEF Dupla, Dos
<1>4. QED
    BY <1>3 DEF Duo, Conserva

(* A trainer left alone conserves what it had.                             *)
LEMMA IgualConserva ==
    ASSUME Duo, NEW x \in ENTRENADORES, Igual(x)
    PROVE  Conserva(x)
<1>1. /\ MismaMeta(x) /\ Activo(x)' = Activo(x) /\ EnBlock(x)' = EnBlock(x)
      /\ (x \in nuevos)' = (x \in nuevos) /\ (x \in terminados)' = (x \in terminados)
    BY DEF Igual, Mismo
<1>2. Lugar(x)' = Lugar(x)
    BY <1>1, MismoLugar
<1>3. Va(x)' /\ Acabado(x)'
    BY <1>1, <1>2 DEF Duo, Va, Acabado, Dos, MismaMeta, Meta
<1>4. QED
    BY <1>1, <1>3 DEF Conserva, MismaMeta, Meta

(* The trainer that runs counts as one turn.                               *)
LEMMA CorriendoActivo ==
    ASSUME Tipos, NEW t \in ENTRENADORES, Corriendo(t)
    PROVE  Activo(t) >= 1
<1>1. ready[t] \in Nat /\ \A k \in Semaforos : sem[k][t] \in Nat
    BY DEF Tipos, Listas, Sems
<1>2. QED
    BY <1>1 DEF Activo, Vale, Semaforos

(* A trainer on its way keeps its plan, and becomes active in no way of    *)
(* its own.                                                                *)
LEMMA AndaPlan ==
    ASSUME Tipos, Pendientes, Orden, NEW t \in ENTRENADORES, Anda(t), algoritmo # "SJF_CD"
    PROVE  /\ ent'[t].mov = ent[t].mov /\ ent'[t].socio = ent[t].socio
           /\ ent'[t].especie = ent[t].especie /\ ent'[t].stock = ent[t].stock
           /\ Activo(t)' > 0 => Activo(t) > 0
           /\ (Activo(t)' = Activo(t) /\ EnBlock(t)' = EnBlock(t)) \/ Activo(t) > 0
<1> DEFINE Bien == /\ ent'[t].mov = ent[t].mov /\ ent'[t].socio = ent[t].socio
                   /\ ent'[t].especie = ent[t].especie /\ ent'[t].stock = ent[t].stock
                   /\ Activo(t)' > 0 => Activo(t) > 0
                   /\ (Activo(t)' = Activo(t) /\ EnBlock(t)' = EnBlock(t)) \/ Activo(t) > 0
<1>0. SUFFICES Bien
    OBVIOUS
<1>1. Solo(t)
    BY DEF Orden
<1>2. CASE (FinDeQuantum(t) \/ Suelta(t)) /\ exec = <<>>
  <2>1. Cae("exec_vacia")
      BY <1>2 DEF FinDeQuantum, Suelta
  <2>2. Igual(t)
      BY <2>1, CaeIgual
  <2>3. QED
      BY <2>2 DEF Igual, Mismo, MismaMeta, Meta
<1>3. CASE MarcaLlegada(t) \/ Retoma(t) \/ Ciclo(t) \/ Sale(t)
  <2>1. Igual(t)
      BY <1>3, SigueIgual
  <2>2. QED
      BY <2>1 DEF Igual, Mismo, MismaMeta, Meta
<1>4. CASE Empieza(t) \/ Arriba(t) \/ Pide(t) \/ Envia(t) \/ RecibeRespuesta(t)
  <2>1. Avanza(t)
      BY <1>1, <1>4, EmpiezaSolo, ArribaSolo, PideSolo, EnviaSolo, RecibeSolo
  <2>2. QED
      BY <2>1 DEF Avanza, Mismo, MismaMeta, Meta, MismoSitio
<1>5. CASE SaleDeNew(t)
    BY <1>1, <1>5, SaleDeNewSolo DEF Mismo, MismaMeta, Meta, MismoSitio
<1>6. CASE FinDeQuantum(t) /\ exec # <<>>
    BY <1>1, <1>6, QuantumSolo DEF MismaMeta, Meta, MismoSitio
<1>7. CASE Suelta(t) /\ exec # <<>>
  <2>1. Activo(t)' = 0
      BY <1>1, <1>7, SueltaSolo
  <2>2. Activo(t) >= 1
      BY <1>7, CorriendoActivo DEF Suelta, En, Corriendo
  <2>3. Activo(t) > 0
      BY <2>2, Cuentas DEF Contable
  <2>4. QED
      BY <1>7, <2>1, <2>3, SueltaEnt
<1>8. CASE NoCumple(t)
  <2>1. UNCHANGED block /\ Activo(t)' = Activo(t)
      BY <1>1, <1>8, NoCumpleSolo DEF NoCumple, listas
  <2>2. QED
      BY <1>8, <2>1, NoCumpleEnt DEF EnBlock
<1>9. CASE SaleDeBlock(t)
  <2>1. UNCHANGED block /\ Activo(t)' = Activo(t) /\ Mismo(t)
      BY <1>1, <1>9, SaleDeBlockSolo DEF SaleDeBlock, listas
  <2>2. QED
      BY <2>1 DEF EnBlock, Mismo, MismaMeta, Meta
<1>10. ~CedeElPaso(t)
    BY DEF CedeElPaso, Desalojado
<1> HIDE DEF Bien
<1>11. QED
    BY <1>2, <1>3, <1>4, <1>5, <1>6, <1>7, <1>8, <1>9, <1>10 DEF Anda, Corre

(* A step of its own of a trainer that neither exchanges, finishes nor     *)
(* pairs others up keeps the pairs.                                        *)
LEMMA AndaDuo ==
    ASSUME Tipos, Pendientes, Orden, Duo, NEW t \in ENTRENADORES, Anda(t),
           algoritmo # "SJF_CD"
    PROVE  Duo'
<1>1. /\ \A u \in ENTRENADORES \ {t} : Igual(u)
      /\ UNCHANGED <<nuevos, terminados>>
    BY AndaAjenos
<1>2. /\ ent'[t].mov = ent[t].mov /\ ent'[t].socio = ent[t].socio
      /\ ent'[t].especie = ent[t].especie /\ ent'[t].stock = ent[t].stock
      /\ Activo(t)' > 0 => Activo(t) > 0
      /\ (Activo(t)' = Activo(t) /\ EnBlock(t)' = EnBlock(t)) \/ Activo(t) > 0
    BY AndaPlan
<1>3. Lugar(t)' = Lugar(t)
    BY <1>2 DEF Lugar, CantStock, CantObjetivos
<1>4. Contable(t)
    BY Cuentas
<1>5. Va(t)' /\ Acabado(t)'
    BY <1>1, <1>2, <1>3, <1>4 DEF Duo, Va, Acabado, Dos, Contable
<1>6. Conserva(t)
    BY <1>2, <1>5 DEF Conserva
<1>7. QED
    BY <1>1, <1>6, IgualConserva, ConservaDuo

(* Whoever has what it wants is not on its way, nor is going to be.        *)
LEMMA CumplidoQuieto ==
    ASSUME Tipos, Orden, Duo, Dos, NEW t \in ENTRENADORES, ObjetivosCumplidos(t, ent[t])
    PROVE  Activo(t) = 0
<1>1. /\ ~Lugar(t)
      /\ CantStock(ent[t]) = CantObjetivos(t) => Sobran(t, ent[t]) = {}
    BY CumplidosTotal DEF Tipos
<1>2. Contable(t) /\ CantStock(ent[t]) <= CantObjetivos(t)
    BY Cuentas DEF Orden, Solo, Caza
<1>3. Sobran(t, ent[t]) = {}
    BY <1>1, <1>2 DEF Lugar, Contable
<1>4. CASE Activo(t) > 0
  <2>1. ent[t].mov = "RESOLUCION_DEADLOCK"
      BY <1>1, <1>2, <1>4 DEF Duo, Va, Contable
  <2>2. PICK u \in ENTRENADORES : u = ent[t].socio
    <3>1. ent[t].socio # NULL /\ ent[t].socio \in ENTRENADORES \union {NULL}
        BY <2>1 DEF Tipos, Rutas, SocioSabido, Ents, Entrenador
    <3>2. QED
        BY <3>1
  <2>3. Pendiente(t, u)
      BY <1>4, <2>1, <2>2 DEF Pendiente
  <2>4. QED
      BY <1>3, <2>3 DEF Duo, Dupla
<1>5. QED
    BY <1>2, <1>4 DEF Contable

(* The trainers that finish leave the pairs of the others as they were.    *)
LEMMA CumpleDuo ==
    ASSUME Tipos, Orden, Duo, NEW t \in ENTRENADORES, Cumple(t)
    PROVE  Duo'
<1> PICK s : s = ent[t].socio
    OBVIOUS
<1> DEFINE Acaba(u) == u = t \/ (SocioListo(t) /\ u = s)
<1>1. /\ SocioListo(t) => s \in ENTRENADORES
      /\ Fase(t) = "evalua"
      /\ \A u \in ENTRENADORES :
           /\ Activo(u)' = Activo(u)
           /\ EnBlock(u)' = IF Acaba(u) THEN IF EnBlock(u) <= 1 THEN 0 ELSE EnBlock(u)'
                            ELSE EnBlock(u)
           /\ u \in terminados' <=> u \in terminados \/ Acaba(u)
      /\ UNCHANGED nuevos
    BY CumpleEfecto
<1>2. \A u \in ENTRENADORES : MismaMeta(u) /\ Lugar(u)' = Lugar(u)
    BY CumpleEnt, MismoLugar
<1>3. ObjetivosCumplidos(t, ent[t]) /\ (SocioListo(t) => ObjetivosCumplidos(s, ent[s]))
    BY DEF Cumple, SocioListo
<1> HIDE DEF Acaba
<1>4. ASSUME NEW u \in ENTRENADORES
      PROVE  Conserva(u)
  <2>1. Va(u)'
      BY <1>1, <1>2 DEF Duo, Va, MismaMeta, Meta
  <2>2. CASE Acaba(u)
    <3>1. ObjetivosCumplidos(u, ent[u])
        BY <1>3, <2>2 DEF Acaba
    <3>2. u \notin nuevos /\ EnBlock(u) <= 1
      <4>1. ~Lugar(u)
          BY <3>1, CumplidosTotal DEF Tipos
      <4>2. Solo(u) /\ Contable(u)
          BY Cuentas DEF Orden
      <4>3. QED
          BY <4>1, <4>2 DEF Solo, Nuevo, Sitio, Vale, Contable
    <3>3. Dos => Activo(u) = 0
        BY <3>1, CumplidoQuieto
    <3>4. Acabado(u)'
        BY <1>1, <2>2, <3>2, <3>3 DEF Acabado, Dos
    <3>5. QED
        BY <1>1, <1>2, <2>1, <3>4 DEF Conserva, MismaMeta, Meta
  <2>3. CASE ~Acaba(u)
    <3>1. Acabado(u)'
        BY <1>1, <2>3 DEF Duo, Acabado, Dos
    <3>2. QED
        BY <1>1, <1>2, <2>1, <3>1 DEF Conserva, MismaMeta, Meta
  <2>4. QED
      BY <2>2, <2>3
<1>5. QED
    BY <1>4, ConservaDuo

(* The trainer that is given a pokemon belongs to no pair.                 *)
LEMMA AsignaDuo ==
    ASSUME Tipos, Orden, Duo, NEW h \in HILOS, Asigna(h)
    PROVE  Duo'
<1>1. PICK c \in ENTRENADORES :
             /\ Recibidor(c)
             /\ \A x \in ENTRENADORES \ {c} : Igual(x)
             /\ UNCHANGED terminados
             /\ ent[c].estado \notin {"NEW", "BLOCK"} => Activo(c)' = Activo(c)
    BY AsignaEfecto
<1>2. /\ c \in cerc.cands
      /\ ent'[c].socio = ent[c].socio /\ ent'[c].stock = ent[c].stock
      /\ ent[c].estado \notin {"NEW", "BLOCK"} => ent'[c].mov = ent[c].mov
      /\ ent[c].estado \in {"NEW", "BLOCK"} => ent'[c].mov = "CATCH"
    BY <1>1 DEF Recibidor
<1>3. Lugar(c) /\ Lugar(c)' /\ (c \in nuevos \/ EnBlock(c) > 0)
  <2>1. Lugar(c) /\ (c \in nuevos \/ EnBlock(c) > 0)
      BY <1>2 DEF Orden, Solo, Cand, Nuevo
  <2>2. QED
      BY <1>2, <2>1 DEF Lugar, CantStock, CantObjetivos
<1>4. Dos => c \notin terminados
    BY <1>3, Cuentas DEF Duo, Acabado, Contable
<1>5. Activo(c)' > 0 /\ ent'[c].mov = "RESOLUCION_DEADLOCK" =>
          Activo(c) > 0 /\ ent[c].mov = "RESOLUCION_DEADLOCK"
    BY <1>1, <1>2
<1>6. Va(c)' /\ Acabado(c)'
    BY <1>1, <1>3, <1>4 DEF Va, Acabado, Dos
<1>7. Conserva(c)
    BY <1>2, <1>3, <1>5, <1>6 DEF Conserva
<1>8. QED
    BY <1>1, <1>7, IgualConserva, ConservaDuo

(* A trainer that gets the answer to its CATCH is in Block and belongs to  *)
(* no pair on its way.                                                     *)
LEMMA AtrapaDuo ==
    ASSUME Tipos, Orden, Duo, NEW t \in ENTRENADORES, Atrapa(t)
    PROVE  Duo'
<1>1. /\ \A u \in ENTRENADORES \ {t} : Igual(u)
      /\ Lugar(t) /\ EnBlock(t) > 0
      /\ MismoSitio(t)
      /\ ent'[t].mov = ent[t].mov /\ ent'[t].socio = ent[t].socio
    BY AtrapaEfecto DEF Atrapa
<1>2. Activo(t)' = Activo(t) /\ EnBlock(t)' = EnBlock(t)
      /\ (t \in nuevos)' = (t \in nuevos) /\ (t \in terminados)' = (t \in terminados)
    BY <1>1 DEF MismoSitio
<1>3. Contable(t) /\ Activo(t) = 0
    BY <1>1, Cuentas DEF Orden, Solo, Sitio, Vale, Contable
<1>4. Va(t)' /\ Acabado(t)'
    BY <1>1, <1>2, <1>3 DEF Duo, Va, Acabado, Dos
<1>5. Conserva(t)
    BY <1>1, <1>2, <1>3, <1>4 DEF Conserva
<1>6. QED
    BY <1>1, <1>5, IgualConserva, ConservaDuo

(* Two trainers are all there are.                                         *)
LEMMA SonDos ==
    ASSUME Dos, NEW t \in ENTRENADORES, NEW u \in ENTRENADORES, t # u
    PROVE  ENTRENADORES = {t, u}
<1>1. IsFiniteSet({t}) /\ Cardinality({t}) = 1
    BY FS_Singleton
<1>2. Cardinality({t} \union {u}) = 2
    BY <1>1, FS_AddElement
<1>3. {t} \union {u} = {t, u} /\ {t, u} \in SUBSET ENTRENADORES
    OBVIOUS
<1>4. QED
    BY <1>2, <1>3, FS_Subset, EntrenadoresAssumption DEF Dos

(* The thread that looks for a deadlock pairs up two trainers of Block, of *)
(* which it makes one travel.                                              *)
LEMMA DeadlockDuo ==
    ASSUME Tipos, Orden, Duo, NEW t \in ENTRENADORES, Deadlock(t)
    PROVE  Duo'
<1>1. CASE Pares = {}
  <2>1. Sigue(t, "mira") /\ hilo[t].pc = "traba"
      BY <1>1 DEF Deadlock, En
  <2>2. UNCHANGED <<ent, block, ready, sem, nuevos, terminados, correo>>
      BY <1>1 DEF Deadlock
  <2>3. t \in HILOS /\ "mira" \in Dentro /\ hilo[t].pc \in Dentro
      BY <2>1, Nombres DEF Dentro
  <2>4. \A x \in ENTRENADORES : SinCatch(x)' = SinCatch(x)
      BY <2>2 DEF SinCatch, correo
  <2>5. \A x \in ENTRENADORES : Igual(x)
      BY <2>1, <2>2, <2>3, <2>4, RecorreIgual
  <2>6. QED
      BY <2>5, IgualConserva, ConservaDuo
<1>2. CASE Pares # {}
  <2>1. PICK v, u \in ENTRENADORES :
             /\ Pareja(v, u) /\ Aparea(v, u)
             /\ EnBlock(v) > 0
             /\ EnBlock(u) > 0 /\ EnBlock(u)' = EnBlock(u) /\ Activo(u)' = Activo(u)
             /\ \A x \in ENTRENADORES \ {v, u} : Igual(x)
             /\ UNCHANGED <<nuevos, terminados>>
      BY <1>2, ApareaEfecto
  <2>2. /\ v # u
        /\ ent'[v].mov = "RESOLUCION_DEADLOCK" /\ ent'[v].socio = u
        /\ ent'[v].stock = ent[v].stock /\ ent'[u].stock = ent[u].stock
        /\ ent'[v].especie \in Sobran(u, ent[u]) /\ ent'[u].especie \in Sobran(v, ent[v])
        /\ ent'[u].mov = ent[u].mov
      BY <2>1, ApareaEnt DEF Pareja
  <2>3. Activo(u) = 0 /\ (Dos => v \notin terminados /\ u \notin terminados)
    <3>1. Solo(u) /\ Contable(u) /\ Contable(v) /\ Acabado(u) /\ Acabado(v)
        BY Cuentas DEF Orden, Duo
    <3>2. QED
        BY <2>1, <3>1 DEF Solo, Sitio, Vale, Contable, Acabado
  <2>4. \A x \in ENTRENADORES \ {v, u} : Va(x)' /\ Acabado(x)'
      BY <2>1, IgualConserva DEF Conserva
  <2>5. Va(v)' /\ Acabado(v)' /\ Va(u)' /\ Acabado(u)'
      BY <2>1, <2>2, <2>3 DEF Va, Acabado, Dos
  <2>6. ASSUME NEW x \in ENTRENADORES, NEW y \in ENTRENADORES, Dos, Pendiente(x, y)'
        PROVE  x = v /\ y = u
    <3>1. x \in {v, u}
        BY <2>2, <2>6, SonDos
    <3>2. x # u
        BY <2>1, <2>3, <2>6 DEF Pendiente
    <3>3. QED
        BY <2>2, <2>6, <3>1, <3>2 DEF Pendiente
  <2>7. \A x \in ENTRENADORES : Dupla(x)'
    <3>1. /\ ent'[v].especie \in Sobran(u, ent'[u])
          /\ ent'[u].especie \in Sobran(v, ent'[v])
        BY <2>2 DEF Sobran
    <3>2. QED
        BY <2>2, <2>6, <3>1 DEF Dupla, Dos
  <2>8. QED
      BY <2>4, <2>5, <2>7 DEF Duo
<1>3. QED
    BY <1>1, <1>2

(* A trainer about to exchange, and its partner, have what the other gets. *)
LEMMA CanjeCubierto ==
    ASSUME Tipos, Orden, Duo, NEW t \in ENTRENADORES, Canje(t)
    PROVE  \E s \in ENTRENADORES :
             /\ s = ent[t].socio /\ Pendiente(t, s) /\ Activo(t) = 1
<1>1. hilo[t].pc = "anda" /\ hilo[t].tramo = "canje"
    BY DEF Canje, En
<1>2. Fase(t) = "rafaga" /\ Corriendo(t)
    BY <1>1, Fases DEF Fase, FaseEn, Dentro, Corriendo
<1>3. ent[t].mov = "RESOLUCION_DEADLOCK"
    BY <1>1, <1>2 DEF Orden, Solo, Caza
<1>4. ent[t].socio # NULL /\ ent[t].socio \in ENTRENADORES \union {NULL}
    BY <1>3 DEF Tipos, Rutas, SocioSabido, Ents, Entrenador
<1>5. Activo(t) = 1
    BY <1>2, CorriendoActivo, Cuentas DEF Orden, Solo, Sitio, Vale, Contable
<1>6. QED
    BY <1>3, <1>4, <1>5 DEF Pendiente

(* The trainer that exchanges finds its partner in Block, gives it what it *)
(* said, and dissolves the pair.                                           *)
LEMMA CanjeDuo ==
    ASSUME Tipos, Orden, Duo, NEW t \in ENTRENADORES, Canje(t),
           ~Cae("canje"), ~Cae("exec_vacia")
    PROVE  Duo'
<1>1. PICK s \in ENTRENADORES : s = ent[t].socio /\ Pendiente(t, s) /\ Activo(t) = 1
    BY CanjeCubierto
<1>2. /\ Activo(t)' = Activo(t) - 1
      /\ \A u \in ENTRENADORES \ {t} : Activo(u)' = Activo(u) /\ EnBlock(u)' = EnBlock(u)
      /\ \A u \in ENTRENADORES :
           /\ ent'[u].mov = ent[u].mov /\ ent'[u].socio = ent[u].socio
           /\ Lugar(u)' = Lugar(u)
      /\ UNCHANGED <<nuevos, terminados>>
    BY <1>1, CanjeEfecto
<1>3. Activo(t)' = 0
    BY <1>1, <1>2
<1>4. ASSUME NEW x \in ENTRENADORES, NEW y \in ENTRENADORES, Dos, Pendiente(x, y)'
      PROVE  FALSE
  <2>1. s # t /\ ~Pendiente(s, y)
      BY <1>1, <1>4 DEF Duo, Dupla
  <2>2. x # t
      BY <1>3, <1>4 DEF Pendiente
  <2>3. x = s
      BY <1>4, <2>1, <2>2, SonDos
  <2>4. QED
      BY <1>2, <1>4, <2>1, <2>2, <2>3 DEF Pendiente
<1>5. \A x \in ENTRENADORES : Dupla(x)'
    BY <1>4 DEF Dupla, Dos
<1>6. \A x \in ENTRENADORES : Va(x)'
    BY <1>2, <1>3 DEF Duo, Va
<1>7. \A x \in ENTRENADORES : Acabado(x)'
  <2>1. Dos => t \notin terminados
      BY <1>1 DEF Duo, Acabado
  <2>2. QED
      BY <1>2, <2>1 DEF Duo, Acabado, Dos
<1>8. QED
    BY <1>5, <1>6, <1>7 DEF Duo

(* Between two trainers no exchange finds that what it is to give is gone. *)
LEMMA CanjeNoCae ==
    ASSUME Tipos, Orden, Duo, Dos, NEW t \in ENTRENADORES, Canje(t)
    PROVE  caida' # "canje"
<1>1. PICK s \in ENTRENADORES : s = ent[t].socio /\ Pendiente(t, s) /\ Activo(t) = 1
    BY CanjeCubierto
<1>2. /\ s # t
      /\ ent[t].especie \in Sobran(s, ent[s]) /\ ent[s].especie \in Sobran(t, ent[t])
    BY <1>1 DEF Duo, Dupla
<1> DEFINE st == Mas(ent[t].stock, ent[t].especie)
           ss == Mas(ent[s].stock, ent[s].especie)
<1>3. /\ ent[t].stock \in [ESPECIES -> Nat] /\ ent[s].stock \in [ESPECIES -> Nat]
      /\ OBJETIVOS[t] \in [ESPECIES -> Nat] /\ OBJETIVOS[s] \in [ESPECIES -> Nat]
    BY EntrenadoresAssumption DEF Tipos, Ents, Entrenador, Dicc
<1>4. /\ ent[t].especie \in ESPECIES /\ ent[s].especie \in ESPECIES
      /\ ent[s].stock[ent[t].especie] > 0 /\ ent[t].stock[ent[s].especie] > 0
    BY <1>2, <1>3 DEF Sobran
<1>5. st[ent[s].especie] # 0 /\ ss[ent[t].especie] # 0
    BY <1>3, <1>4 DEF Mas
<1>6. caida = "no"
    BY DEF Canje, En
<1>7. caida' = "no" \/ caida' = "exec_vacia"
    BY <1>1, <1>5, <1>6 DEF Canje, Cae, Muere
<1>8. QED
    BY <1>7

(* Every step keeps the pairs.                                             *)
LEMMA PasoDuo ==
    ASSUME Tipos, Pendientes, Orden, Duo, [Next]_vars, algoritmo # "SJF_CD"
    PROVE  Duo'
<1>1. ASSUME NEW t \in ENTRENADORES, Anda(t) \/ Cumple(t) \/ Deadlock(t)
      PROVE  Duo'
    BY <1>1, AndaDuo, CumpleDuo, DeadlockDuo
<1>2. ASSUME NEW t \in ENTRENADORES, Atrapa(t)
      PROVE  Duo'
    BY <1>2, AtrapaDuo
<1>3. ASSUME NEW t \in ENTRENADORES, Canje(t), ~Cae("canje"), ~Cae("exec_vacia")
      PROVE  Duo'
    BY <1>3, CanjeDuo
<1>4. ASSUME NEW h \in HILOS, Asigna(h)
      PROVE  Duo'
    BY <1>4, AsignaDuo
<1>5. CASE SinNovedad
    BY <1>5, IgualConserva, ConservaDuo DEF SinNovedad
<1>6. QED
    BY <1>1, <1>2, <1>3, <1>4, <1>5, PasoClases

(* Nobody is paired at the start.                                          *)
LEMMA InicioDuo == Init => Duo
<1> SUFFICES ASSUME Init PROVE Duo
    OBVIOUS
<1>1. ASSUME NEW t \in ENTRENADORES
      PROVE  Activo(t) = 0 /\ t \notin terminados
  <2>1. hilo[t].pc = "nuevo"
      BY Nombres DEF Init
  <2>2. ready[t] = 0 /\ (\A k \in Semaforos : sem[k][t] = 0) /\ terminados = {}
      BY DEF Init
  <2>3. QED
      BY <2>1, <2>2 DEF Activo, Vale, Corriendo, Semaforos
<1>2. QED
    BY <1>1 DEF Duo, Va, Dupla, Pendiente, Acabado

\* What is known of the process for every planner without desalojo.
Marcha ==
    /\ Orden /\ Duo
    /\ caida # "sin_entrenador" /\ (Dos => caida # "canje")

(* No step takes the process down for a trainer it cannot find or, with    *)
(* two trainers, for an exchange with the wrong partner.                   *)
LEMMA PasoMarcha ==
    Tipos /\ Pendientes /\ Marcha /\ [Next]_vars /\ algoritmo # "SJF_CD" => Marcha'
<1> SUFFICES ASSUME Tipos, Pendientes, Marcha, [Next]_vars, algoritmo # "SJF_CD"
             PROVE  Marcha'
    OBVIOUS
<1>1. Orden /\ Duo /\ Orden' /\ Duo' /\ caida' # "sin_entrenador"
    BY PasoOrden, PasoDuo, PasoEncontrado DEF Marcha
<1>2. Dos => caida' # "canje"
    BY <1>1, MotivoDeCaida, CanjeNoCae DEF Marcha
<1>3. QED
    BY <1>1, <1>2 DEF Marcha, Dos

(* Marcha holds throughout, without desalojo.                              *)
LEMMA MarchaSiempre ==
    ASSUME HayLugar
    PROVE  Spec => [](Tipos /\ (algoritmo # "SJF_CD" => Marcha))
<1> DEFINE I == Tipos /\ Pendientes /\ (algoritmo # "SJF_CD" => Marcha)
<1>1. Init => I
  <2>1. Init => Tipos /\ Pendientes /\ Orden /\ Duo /\ caida = "no"
      BY InicioTipos, InicioPendientes, InicioOrden, InicioDuo DEF Init
  <2>2. QED
      BY <2>1 DEF Marcha
<1>2. I /\ [Next]_vars => I'
    BY PasoTipos, PasoPendientes, PasoMarcha, SinCambioDeAlgoritmo
<1>3. QED
    BY <1>1, <1>2, PTL DEF Spec

(* With sjf_sd_planner no list is found empty, every CAUGHT finds its      *)
(* trainer in Block, and between two trainers what one gives in an         *)
(* exchange is still there. The last two need no mutex: they hold for      *)
(* every planner without desalojo, if every trainer starts with room.      *)
THEOREM CaidaSoloConocida ==
    ASSUME HayLugar
    PROVE  Spec => []CaidaConocida
<1>1. Tipos /\ (algoritmo # "SJF_CD" => Marcha) /\ SinListaVacia => CaidaConocida
    BY DEF Marcha, CaidaConocida, Dos
<1>2. QED
    BY <1>1, MarchaSiempre, NadieSacaDeLoVacio, PTL

(* With sjf_sd_planner a trainer is in Exec from the moment it is woken up *)
(* to run, to the one it lets the processor go.                            *)
LEMMA EnExec ==
    ASSUME Tipos, Procesador, algoritmo = "SJF_SD", NEW t \in ENTRENADORES
    PROVE  Activo(t) = ready[t] + Veces(exec, t)
<1>1. /\ Turno(t) /\ exec \in Seq(ENTRENADORES)
      /\ exec = <<>> \/ \E u \in ENTRENADORES : exec = <<u>>
    BY DEF Procesador, Tipos, Listas
<1>2. ready[t] \in Nat /\ sem["ready_exec"][t] \in Nat /\ sem["ready_exec_cd"][t] = 0
  <2>1. ready[t] \in Nat /\ \A k \in Semaforos : sem[k][t] \in Nat
      BY DEF Tipos, Listas, Sems
  <2>2. QED
      BY <1>1, <2>1 DEF Turno, Semaforos
<1>3. Veces(exec, t) = IF exec = <<t>> THEN 1 ELSE 0
  <2>1. CASE exec = <<t>>
    <3>1. LugaresDe(exec, t) = {1}
        BY <2>1 DEF LugaresDe
    <3>2. QED
        BY <2>1, <3>1, FS_Singleton DEF Veces
  <2>2. CASE exec # <<t>>
    <3>1. LugaresDe(exec, t) = {}
        BY <1>1, <2>2 DEF LugaresDe
    <3>2. QED
        BY <2>2, <3>1, FS_EmptySet DEF Veces
  <2>3. QED
      BY <2>1, <2>2
<1>4. sem["ready_exec"][t] + Vale(Corriendo(t)) = IF exec = <<t>> THEN 1 ELSE 0
    BY <1>1, <1>2 DEF Turno, Vale
<1>5. QED
    BY <1>2, <1>3, <1>4 DEF Activo, Vale

(* With sjf_sd_planner a trainer is in one place of New, Ready, Exec and   *)
(* Block until it finishes, and never in two, whichever threads move it;   *)
(* and between two trainers, whoever finished is in none.                  *)
THEOREM CadaUnoSiempre ==
    ASSUME HayLugar
    PROVE  Spec => []CadaUnoEnUnaLista
<1>1. Tipos /\ (algoritmo # "SJF_CD" => Marcha) /\ Procesador => CadaUnoEnUnaLista
  <2> SUFFICES ASSUME Tipos, Marcha, Procesador, algoritmo = "SJF_SD", NEW t \in ENTRENADORES
               PROVE  /\ PuestosDe(t) <= 1
                      /\ t \notin terminados => PuestosDe(t) = 1
                      /\ Cardinality(ENTRENADORES) = 2 /\ t \in terminados => PuestosDe(t) = 0
      BY DEF CadaUnoEnUnaLista
  <2>1. /\ ready[t] \in Nat /\ Veces(exec, t) \in Nat /\ EnBlock(t) \in Nat
        /\ VecesEn(t, exec) = Veces(exec, t) /\ VecesEn(t, block) = EnBlock(t)
      BY VecesFinitas DEF Tipos, Listas, EnBlock, VecesEn, Veces, LugaresDe
  <2>2. PuestosDe(t) = Vale(t \in nuevos) + Activo(t) + EnBlock(t)
      BY <2>1, EnExec DEF PuestosDe, Vale
  <2>3. Sitio(t) /\ Acabado(t)
      BY DEF Marcha, Orden, Solo, Duo
  <2>4. QED
      BY <2>2, <2>3 DEF Sitio, Acabado, Dos, Vale
<1>2. QED
    BY <1>1, MarchaSiempre, ProcesadorSiempre, PTL

=============================================================================
