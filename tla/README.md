# Delibird: models, checks and proofs

Delibird is a set of C processes that talk over TCP: a message **Broker**, the
**Team** and **Gamecard** processes that subscribe to its queues, and the
**Gameboy** client. This directory holds TLA+ models of the code, TLC
configurations that check them on small instances, and proofs checked by TLAPS
that hold for every value of the constants. Line numbers refer to the files under
`src/` at the commit the models were translated from; `PROJECT.json` maps each
definition to its lines.

## 1. Inventory

### 1.1 Broker (`src/Broker/broker.c`)

| Part | State | Operations | Correct when |
| --- | --- | --- | --- |
| Dynamic partitions | `PARTICIONES`, `PARTICIONES_QUEUE`, `INTENTOS`, `MENSAJES` | `asignar_particion` (first fit, best fit), `algoritmo_de_reemplazo` (FIFO, LRU), `mergear_particiones_libres`, `compactar_particiones`, the refresh of `ultimo_uso` in `mandar_mensaje` | the partitions tile the memory; no two messages share a byte; what is queued for eviction is what is cached; a message that fits is stored |
| Buddy system | `ARBOL_BUDDY`, the queue or `ultimo_uso` | `asignar_particion_buddy`, `buddy_dividir_raiz`, `buddy_liberar_particion`, `buddy_mergear` | the leaves tile the memory; free buddies are merged; a message that fits is stored |
| Queues and deliveries | `LIST_*`, `SUBSCRIPTORES`, `MENSAJE_SUBSCRIPTORE`, `MENSAJES`, `IDENTIFICADOR_MENSAJE` | `incoming`, `subscribir_a_cola`, `cargar_mensaje`, `descargar_mensaje`, `recursar_operativos`, `mandar_mensaje`, `flag_enviado`, `flag_ack`, `lost` | no subscriber of a cached message is forgotten; only subscribers get it; it arrives; relations go when messages go |
| Server | one thread per connection (`server_client` of `commLib/connections.c`) | accept, read, `lost` | a broken connection is noticed; a descriptor belongs to one thread |
| Start-up, configuration, dump | files, `SIGUSR1` handler | `main`, dump | start-up order; a handler that takes mutexes |

The allocators run under `M_PROCESO`, so one request is in progress at a time, but
`mandar_mensaje` walks and writes the partitions from any thread that executes
`recursar_operativos` (under `M_RECURSAR` only). Relations are made by
publications and subscriptions (under `M_PROCESO`) and removed by ACKs and
evictions (under `M_RECURSAR`).

### 1.2 Team (`src/Team/team.c`)

State: one thread per trainer, the lists of each planning state (new, ready, exec,
blocked, finish), five arrays of semaphores, the global objectives, the pokemons to
hand out, `waiting_list` (correlation id of a CATCH and its trainer). Operations:
the three subscriptions and the Gameboy, the planners (FIFO, RR, SJF with and without
desalojo), `trainer_thread` (walk, CATCH, exchange), a thread per CATCH sent,
`caught_pokemon`, `appeared_pokemon`, `algoritmo_de_cercania`, `algoritmo_deadlock`.
Hard: the CAUGHT answer racing with the insertion in `waiting_list`; planners that
touch lists without a mutex; removals by position; a trainer put in Ready before its
thread set its hour of arrival; an exchange that completes only one of the trainers,
or takes one that is in another. Correct when each trainer is in one list, each CATCH
is waited for once, what is caught plus what is missing is constant, and all the trainers
end when their objectives exist.

### 1.3 Gamecard and Tall Grass (`src/Gamecard/gamecard.c`, `tallGrass.c`)

State: the table of open files and its position semaphore, the bitmap of blocks,
one `Metadata.bin` per pokemon. Operations: `mensaje_new_pokemon`,
`mensaje_catch_pokemon`, `mensaje_get_pokemon` (a thread per message that starts again
when its file is open), find, create, open, close, read, write, delete, truncate, taking
and returning blocks. Hard: check-then-add in the table of open
files, a position read under a semaphore and used after it is released, a bitmap
that reaches the disk after its lock is released, a `Metadata.bin` that several may read and
save in any order, no free blocks, an ACK sent before the work. Correct when a file has one
owner, a block has one file, and positions add up to what was created minus what was caught;
two handlers may get the same file, and then only that each of them ends is left.

### 1.4 The rest

`Gameboy` sends one message, or subscribes for some seconds: it is what a publisher
of `BrokerColas` does. `commLib` packs fixed fields into a buffer. `cliente-test`
is an example. The `select` server of `connections.c` (`start_server`) is what Team
(`team.c:630`) and Gamecard (`gamecard.c:431`) listen to the Gameboy with: one thread
that calls back with each message.

### 1.5 How they interact

A client opens one connection per queue and sends its id; the Broker keeps **one**
struct per id, with the descriptor of the last subscription, and answers. A
publisher sends a message and gets its id back. The Broker sends cached messages
through the subscriber's descriptor; the client handles each one and sends an ACK.
A client that loses a connection, or reads something that is not the confirmation,
waits and subscribes again.

## 2. Modules

| Module | What it is |
| --- | --- |
| `Almacen` | abstract: what any allocator promises. A cached message owns a range of bytes that no other shares; storing, dropping or moving one leaves the others alone |
| `Mundo` | abstract: what Gamecard promises. Counts per species and position, each message takes effect once and at one moment, CATCH and GET answer from the counts; it may break, and from then on promises nothing |
| `Particiones` | dynamic partitions, one step per iteration of the loops |
| `Buddy` | the buddy system on the leaves of its tree, one step per division and per merge |
| `BrokerColas` | subscribers, relations, deliveries, ACKs and broken connections, with threads, `M_PROCESO` and `M_RECURSAR` |
| `Entrenadores` | the data of Team: a trainer, what it needs and can spare, distances, the orders of the planners |
| `Team` | the threads of Team on that data: trainers, planners, exchanges, CATCH senders, receivers |
| `TallGrass` | the threads of Gamecard's handlers and the file system they work on |
| `MCParticiones`, `MCBuddy`, `MCBrokerColas`, `MCTeam`, `MCTallGrass` | values of the constants for TLC (the refinement mappings are in `Particiones`, `Buddy` and `TallGrass`, where the proofs use them) |
| `Lemas` | lemmas on minima, on what `RemoveAt` and `InsertAt` leave at each place, on lists without repetitions, on how often an element is in a list, and on sums over finite sets (what the folds of the models compute), cited by the proofs of several components |
| `ParticionesProofs` | theorems about `Particiones` |
| `BuddyProofs`, `BuddyArbolProofs` | theorems about `Buddy`: the tiling, the order of eviction and the refinement; then the shape of the tree |
| `BrokerColasProofs` | theorems about `BrokerColas` |
| `TallGrassProofs`, `MundoProofs` | theorems about `TallGrass`: types, the table, the bitmap and the bytes of the files; then, until a file is opened twice or two get the same block, the refinement of `Mundo`, and that the contents of the files are exact |
| `TeamProofs` | theorems about `Team`: types, the CATCH each trainer waits for, the processor with `sjf_sd_planner`, the sum of the pokemons, the list each trainer is in, and the exchanges |

### 2.1 Correspondence of `Particiones`

`part` is `PARTICIONES`; a message is the address of its struct, which `malloc` may
give again while a free partition still points to it. `pc` says where the request
is: `buscar` (the loop of `asignar_particion`), `mergear` and `compactar` (inside
those two functions; `volver`, `i`, `c` are the return point and the loop indexes),
`caido` (the Broker died reading a victim that does not exist).
`AsignarExacta` and `AsignarPartiendo` are the two branches of a successful search;
`Desalojar` is `algoritmo_de_reemplazo` for FIFO and LRU. `Ordenar` is
`ordenar_particiones`, with either order of equal bases. `Usar` is the write of
`mandar_mensaje`, enabled at any `pc` because it holds none of the allocator's
mutexes. `MAX_RELOJ` bounds the clock that LRU compares.

### 2.2 Correspondence of `Buddy`

`hojas` gives, for the base of each leaf of `ARBOL_BUDDY`, its level (size 2^level),
whether it is free and the message its partition points to. `orden` is
`PARTICIONES_QUEUE` (FIFO) or the occupied leaves by `ultimo_uso` (LRU): a new leaf
goes to the end in both, `get_fifo`/`get_lru` take the head and only LRU moves a
leaf to the end when its message is sent (`Usar`). `raiz` is the node where
`buscar_nodo_tam` starts: the whole tree, or the left child of the last division.
A search that finds nothing divides (`Dividir`), evicts (`Desalojar`) or dies
(`DesalojarSinVictima`). `MergearPar` is one level of the recursion of
`buddy_mergear`. The algorithm of replacement is chosen in `Init`, as the
configuration file does.

### 2.3 Correspondence of `BrokerColas`

A thread is a publisher's connection or a subscriber's connection
`<<subscriber, queue>>`. `pendientes` and `enviadas` count the relations of a pair
message-subscriber that were not and were sent; the code keeps them in a list, where
`flag_enviado` marks every relation of a pair and `mensaje_subscriptor_delete`
removes the first. `Publicar`, `Guardar`, `FaltaLugar` and `Desalojar` are
`incoming` and the part of the allocator that touches relations, in the order of
the code; `Registrar` and `Responder` are the two halves of `subscribir_a_cola`,
split where another thread may send through the new descriptor. `Recursar`,
`Mandar`, `FinRecursar` are `recursar_operativos`. `Pedir`, `LeerConfirmacion`,
`LeerMensaje` are `subscribe_to_queue_thread` of Team (Gamecard's is the same);
`Cortar` breaks a connection and loses what was on its way; `Perdida` is `lost`.
The memory is a number of messages, `CAPACIDAD`: a search for room may fail whenever
something can be evicted, which is what fragmentation does.

### 2.4 Correspondence of `Entrenadores` and `Team`

`ent[t]` is `tEntrenador`; `nuevos`, `ready`, `exec`, `block`, `terminados` are the `estado_*`
lists, `sem` the arrays of semaphores (a count per trainer), `mPlan` the owner of
`mutex_planificador`, `cerc` the owner and the locals of `algoritmo_de_cercania`,
`catches`/`envio`/`waiting` the CATCH on its way and `waiting_list`. `ready` is a bag because
every planner sorts it before it takes from it; `list_sort` does not say what it does with
ties, so among equals the choice is free.

A thread is at `hilo[h].pc`. A trainer goes through `SaleDeNew`, `MarcaLlegada`, `Empieza`,
then `Ciclo` and `FinDeQuantum`/`CedeElPaso` (`verificar_desalojo`) until `Arriba`,
where it asks for its pokemon (`Pide`) or makes its exchange (`Canje`). `Pide`,
`FinDeRafaga` and `Suelta` leave the processor by position, as the code does.
`RecibeRespuesta` is the wake-up from `block_catch`, and `Cumple`, `NoCumple` what
the trainer does next. The planners are `Mira`, `Elige` and their ends; the split
between looking at the lists and using them is where the code has no mutex
(`fifo_planner`, `rr_planner`). `Deadlock` is a whole call of `algoritmo_deadlock`,
`SinPokemons`, `Filtra`, `Asigna`, `TerminaCercania` the steps of
`algoritmo_de_cercania`. `Envia`, `BrokerAcepta`, `AnotaId`, `EnvioFalla` are the thread
that sends a CATCH, with its default when there is no Broker; `GamecardResponde` and
`Caught` are external and the receiving thread, in any order with `AnotaId`.

`caida` says what the process died of. Where the code uses a position of a list that
another thread emptied, a `tiempo_llegada` that is still unset or a key that was
removed, the model stops with that reason, because from there the behaviour is not
defined. `algoritmo_de_cercania` without a `return` on its last path returns what the
build leaves there; it is read as false, which is what the callers get at `-O0`.

### 2.5 Correspondence of `TallGrass`

`dir` says how much of a file there is (directory, `Metadata.bin`), `meta` is its
metadata, `disco` the bytes of the block files, `bitmap` is `Bitmap.bin`, `abiertos` is
`archivos_abiertos`. A handler is at `hilo[m].pc`: `Busca` (`find_tall_grass`),
`Crea`/`CreaMetadata` (`crear_ficheto`), `Abre`/`Agrega`/`Lee` (`open_tall_grass`, whose
lookup and insertion are two critical sections), `New`/`Catch`/`Get`,
`Libera`/`VuelcaLibre` (`liberar_bloque`), `Recorta` (`sacar_bloques_metadata` and
`disminuir_byte_archivo`), `Escribe`, `PideBloque`/`Vuelca` (`obtener_bloques_libres`,
`agregar_bloque_archivo`), `Crece`, `Cierra`, `BuscaPos`/`Saca`
(`sacar_lista_archivos_abiertos`), `Responde`. The lock of the bitmap covers what is
read, but `fwrite` leaves the new bitmap in a buffer that `fclose` writes after
`LOCK_UN`: hence the pairs `Libera`/`VuelcaLibre` and `PideBloque`/`Vuelca`.

Nothing but that table keeps two handlers from one file. When it lets both in
(`tallGrass.c:355`), each works on with a copy of its own of the metadata: `copia[m]` is
`archivo->metadata`, and all that a handler reads, moves, cuts or writes goes by it. What it
saves is not its copy: each call that changes `Metadata.bin` reads the file again
(`config_create`), changes one value and writes the whole of it (`config_save`), with no lock.
With nobody else working on the file that is one step (`Lee`, `Recorta`, `Vuelca`, `Crece`,
`Cierra`); with somebody else it is two, `Relee`, which keeps in `leida[m]` what was read, and
then the save, so that an update in between is lost. `config_save` empties the file first: who
reads it then finds no `SIZE` and dies (`LeeMal`), and a close that reads it then saves `OPEN`
and nothing else (`CierraVacia`). A handler whose copy says that a block is missing gets one
and puts the byte there, whatever place it takes in the file (`suelto` in `Vuelca`), and one
whose file has fewer blocks than it is to keep dies (`sin_bloques` in `Recorta`). The first to
close writes `OPEN=N` and takes an entry out of the table; the other goes on.

The loops that move bytes (`delet_tall_grass`, `truncate_tall_grass`, `write_tall_grass`) are
one step between two uses of what is shared; `Grabado` and `Cortado` say what they leave in
each block, also in one that somebody else cut shorter (`Estirado`). A byte that stands for
`x-y=` is the position itself. After a double opening this is coarser than the code: the bytes
that one deletion moves, the read and the save of a handler that is alone, the two reads of
`open_tall_grass` and the two saves of `Recorta` stay one step each, so not all that two
handlers can do to the same bytes is there.

`fin` says where a run stops: the death of the process by a `Metadata.bin` that has not its
values (`sin_metadata`), a position beyond the table (`tabla`), or no block where one is
needed (`sin_bloques`: block -1 is opened and `fseek` gets NULL, or the block that is not in
the list is NULL); or a file that makes no sense any more, and what the code makes of it is not
modelled: a handler reads bytes that are not there, pieces of records, or a size below zero
(`ilegible`), or a file has a block twice (`bloque_doble`). No run gets to these last two while
`Sano`: that is part of `ContenidoExacto`.

Four history variables say what went wrong so far: `errada`, somebody removed another's entry
of the table; `pisado`, somebody wrote a stale bitmap; `doble`, somebody opened a file that
another had open; `compartido`, a block went to a file while it was in that one or another.
`Sano` is `~doble /\ ~compartido`. Each property names the ones it needs: the entries of the
table are right until `errada`, also after a double opening; the bitmap until `pisado` or
`doble`; `OPEN`, the contents and the refinement of `Mundo` while `Sano`. After a double
opening blocks leak without a stale bitmap, and updates are lost: nothing is claimed of that
but types, the entries of the table, and that the handlers end. A restart needs no model:
`montar` wipes the file system.

## 3. Runs

| Run | Shows |
| --- | --- |
| `part_fifo` | FIFO, first fit, `FRECUENCIA_COMPACTACION=1` (the shipped `compactacion.cfg`): tiling, exclusive memory, queue equal to cache, no free neighbours after a merge, no death, one hole after a compaction, refinement of `Almacen`, and every request ends |
| `part_lru` | LRU, best fit, no compaction, threads refreshing partitions in the middle of an allocation: tiling and exclusive memory hold. The Broker may die there (see `part_caida`), so deadlock is not checked |
| `buddy` | FIFO and LRU together: tiling, no free buddies left, order of eviction equal to cache, death only with a message larger than the memory, divisions that go on where the last one was, refinement of `Almacen`, and every request that fits ends |
| `colas` | two subscribers, a publisher, eviction and one broken connection: nobody is forgotten, relations only with subscribers, no spurious copies, and what stays cached arrives |
| `team` | two trainers that must exchange what they catch, FIFO and SJF without desalojo: without desalojo one trainer in Exec and each one in one list until it ends (in spite of removals by position), Ready always empties, and everybody ends unless a CAUGHT overtakes its id |
| `team_fallas` | round robin, SJF with desalojo, and SJF without it with one failure (connection lost, message delivered twice, pokemon that got away): objectives and stocks add up to what the trainers want, nobody ends up with more pokemons than it has room for, each CATCH is waited for once, and SJF without desalojo dies of two known causes only, a `tiempo_llegada` nobody set and a species that is no global objective any more |
| `tallgrass` | two or three messages at once (eleven scenarios), blocks of two bytes, four blocks: until a file is opened twice or two get the same block, the bitmap and the bytes of every file are what the handled messages add up to, and the handlers implement `Mundo`; also after that, types hold, the table has one entry per handler between its open and its close, and every handler ends unless the process dies, a file makes no sense or the table lost an entry |
| `team_canje` (violation) | with three trainers in a circle, one that was chosen for an exchange is chosen again for another |
| `part_solape` (violation) | with the frequency of `consolidacion.cfg` (10) a compaction puts two cached messages in the same bytes |
| `part_caida` (violation) | with frequency -1 the Broker evicts everything, does not compact, and reads a victim that does not exist |
| `colas_confirmacion` (violation) | a client that subscribes to a second queue may read a message before the confirmation |
| `colas_relaciones` (violation) | a message that was published just before its subscriber came back leaves a relation behind when it is evicted |

**`part_solape` in detail.** After a merge, `mergear_particiones_libres` sets `i = 0`
and the loop increments it, so the first pair is not looked at again
(`broker.c:1229`): the table may keep two free partitions at its start. With
frequency 1 there is a compaction after at most one eviction and the case does not
arise in `part_fifo`; with 10, `compactar_particiones` moves an occupied
partition over the first free one and slides this one past a second free one, and the bases are
no longer those of a tiling.

**`team_canje` in detail.** `algoritmo_deadlock` leaves out the trainers whose `razon_bloqueo`
is `DEADLOCK` (`team.c:1979`). A trainer that is already in Block with its stock updated, but
whose thread has not woken from its CATCH, can be chosen; when it wakes it writes
`SIN_ESPACIO` over the mark (`team.c:1219`) and the next call chooses it again. In the same
instance TLC also reaches `caida = "canje"` with SJF without desalojo: the second exchange
looks for a pokemon that the first one gave away. That is why `CaidaConocida` excludes that
death between two trainers only, which is what `team_fallas` has; what it says of empty lists
and of `caught_pokemon` it says for any number of trainers.

**Bounds.** Sizes only matter by order and sums. In `part_fifo` a memory of 7 with
sizes 2, 3 and 5 allows up to three messages: exact fits, splits with and without
remainder, evictions of one and of several messages, compactions with one and two
holes. Four addresses allow one more request than can be cached, so an address is used
again while a free partition still points to it. `part_solape` needs 11 bytes and
five addresses to have two holes before an occupied partition. In `buddy`, 8 units
with minimum 2 give levels 1 to 3; size 9 does not fit, size 1 is below the minimum.
In `colas`, one message fits and two are published, so an eviction happens; one cut
happens at any moment; one subscriber may be cut while the other is served. A
subscriber with two queues shares its socket between them: that case is in
`colas_confirmacion`, and `EntregaEventual` is stated for subscribers with one
connection because with two the code does not promise it.

In `team` two trainers stand next to the pokemon the other one wants, so both fill their
room with the wrong one and one exchange is needed; a LOCALIZED and an APPEARED
arrive in any order. In `team_fallas` the first trainer catches two, so a second
burst can be preempted, with three pokemons for three needs and one failure at any
moment. Distances of 1 to 3 cycles and `QUANTUM = 1` make a quantum end in the middle of
a journey; `CICLOS`, the cycles of an exchange, is 1 instead of 5 because only being
between two cycles matters. `ALPHA` is 0 or 1 to keep the estimates integers. `FALLAS` is 0
for the planners with desalojo in `team_fallas` to keep the run within minutes.

In `tallgrass` a record takes three or four bytes (counts up to 10) and a block two, so
records start and end at both places of a block, and a deletion moves bytes across blocks and
cuts at a boundary. Four blocks are filled by two species. The scenarios are chosen so that
each pair of NEW, CATCH and GET meets on one file and two files compete for blocks; the
refinement of `Mundo` maps a file that is being rewritten to what is left of it plus the
record in the handler's memory, so the moment a message takes effect is when its handler reads
the file. The bound `Acotado` stops the scenarios of three messages at their first double opening
or shared block, where most properties stop saying anything; those of `EscenariosDobles` go on
from there: two handlers that meet on a file (adding at one position and at two, emptying what
the other reads or adds to) or on the free blocks, and three that retry.

**Fairness.** The thread inside an allocator holds the mutexes it needs and waits for nobody,
so weak fairness of `Asignador` is what the scheduler of the system gives. In `BrokerColas`
each thread, and each client, has weak fairness of its own: nobody is obliged to publish or to
break a connection, and `Perdida` has no fairness because `server_client` does not call `lost`
when `recv` fails (the reset of a connection ends the thread and leaves the flag). In `Team`
every step uses something up (a cycle, a message, a semaphore), so the runs are finite and
weak fairness of the whole next-state relation is all that is needed: the process does not
stop while a thread can run. In `TallGrass` a handler that finds its file open starts again,
so each thread has weak fairness of its own; nothing stronger is needed because the threads
that close are not among those that wait, and after a double opening each handler still takes
an entry out. Mutexes need no strong fairness in the instances
checked: each is asked for by a bounded number of requests.

**Deadlock** is checked in `part_fifo`. It is off where the system ends: the Broker
dies, the bounded number of messages was handled, or (`team`) a trainer waits for a pokemon
nobody will send.

## 4. Proofs

No theorem assumes more than the assumptions its module declares on the constants (TLC
evaluates them on every run), except the ones of `ParticionesProofs` and three of
`TeamProofs`, whose hypotheses (`Configurado`, `HayLugar`) are explained below. Every
invariant and action property that a passing run checks is proved (`SinExceso` for every planner
but one); what is left to TLC is in 4.6.

### 4.1 Dynamic partitions

`ParticionesProofs` proves `Invariante` (`Spec => []IInv`) and from it `TypeOK`,
`Teselado`, `MemoriaPropia`, `ColaSonLosVivos`, `SinLibresContiguas`, `SinCaida`, the action
property `CompactaEnUnHueco`, and the refinement `Spec => EsUnAlmacen`, for every
memory, set of addresses, first or best fit and FIFO or LRU, under

    Configurado == FRECUENCIA <= 1 /\ \A t \in TAMS : t >= MIN_PART_LEN

that is, `FRECUENCIA_COMPACTACION` -1, 0 or 1 (1 is what `compactacion.cfg` ships; -1 turns
compactions off) and messages not smaller than the minimum partition. Both are needed. With
a larger frequency the properties are false: that is `part_solape` and
`part_caida`. A message smaller than the minimum takes a partition of
the minimum size, but whether it fits exactly is asked of its own size (`broker.c:1146`): a free
partition of the minimum size is divided, and what remains of it (`broker.c:1168`) has no bytes.
TLC finds `MemoriaPropia` violated with sizes 1, 2, 3 and 5, a minimum of 2, a memory of 7
and frequency 1.

`IInv` is `TypeOK`, `Tesela(part)`, `PedidoInv`, `Duenios(part, vivos)`,
`UnaVez(cola, vivos)` with FIFO, and `HuecosInv`. Each part is there for a step that the others
do not survive:

- `Tesela` says that each partition starts where the one before ends. `Teselado` only speaks
  of coverage and overlaps; without the order, a merge of two neighbours in the list would not
  be one of neighbours in memory.
- `Duenios` (each cached message has one occupied partition) and `UnaVez` keep each
  other: the victim of FIFO is looked up by message.
- `HuecosInv` is where the frequency enters. Before the first eviction after a compaction only
  the last partition is free, so one eviction, division or slide makes at most **one** pair of
  free neighbours, and not before the index `i` of `mergear_particiones_libres`. The index
  reset to 1 instead of 0 after a merge (`broker.c:1229`) only loses a pair at the start of
  the list, and there is none. While compacting, what is before the index `c` is occupied
  (`LibresDesde`), so the free partition that a message slides over is followed by it, and the
  rebase is a tiling again.

The refinement maps `lugar` to the bytes of each cached message (`Sitios`). `Asignar*` is
`Guardar`, an eviction is `Borrar`, a slide of the compaction is `Mover`, and every other step
is shown to move nobody (`NadieSeMueve`).

### 4.2 Buddy system

`BuddyProofs` proves, for every number of levels, minimum size, set of message sizes, set of
addresses and replacement algorithm:

- `Invariante`: `Spec => []IInv`;
- `TiposSiempre`, `TeseladoSiempre`, `OrdenSiempre`: `TypeOK`, `Teselado` and
  `OrdenSonLosVivos` hold always (the run `buddy` checks them on its instance);
- `Refinamiento`: `Spec => EsUnAlmacen`.

The assumptions are those `Buddy` declares and TLC evaluates: `POT` doubles from
level to level, sizes are positive, the minimum fits in the memory, `NULL` is no
address. `IInv` adds to the three properties `PedidoInv`: the message that is being stored is
new, and `buddy_mergear` works on a free leaf. Without the first, storing it could
put a message twice in the order; without the second, a merge could take a leaf
that is in the order. The argument, one lemma per action:

- a division replaces a leaf by two whose sizes add up to its own (`Mitades`), so
  what it covered is covered and nothing else is touched (`PasoDividir`);
- a merge needs the two leaves to be neighbours: `Companiero` is one size to the right or to
  the left, both are free and of the same level (`ElPar`, `PasoMergearPar`);
- the refresh of LRU is a permutation of the places of the order
  (`DondePermuta`, `AlFinalMueve`, `PasoUsar`);
- `Nivel`, a `CHOOSE`, is well defined because a set of naturals that is not empty has a
  minimum (`MinimoNat`, from the well-foundedness of `<`);
- divisions and merges only touch free leaves, so the bytes of a cached message stay
  (`NadieSeMueve`), and the leaf that is taken overlaps no other by `Teselado` (`SitioPropio`).

`BuddyArbolProofs` goes on with the shape of the tree:
`ArbolInv == IInv /\ Alineadas /\ ParesInv /\ RaizInv /\ SinCaida` is inductive
(`InvarianteDelArbol`), and gives `SinBuddiesLibres`, `SinCaida` and the action
property `DivideDondeBusca`.

- `Alineadas`: a leaf starts at a multiple of its size. So of two neighbours of the same
  level, whether they are buddies is the parity of the quotient, and `Companiero` finds the
  right one.
- `ParesInv`: two free buddies exist only where the request in progress is working: the two
  halves of its last division, or the leaf `buddy_mergear` is climbing from and its
  buddy. An eviction frees one leaf, so it makes at most that pair. `SinBuddiesLibres` is what
  is left of it when no request is in progress.
- `RaizInv`: a request that did not divide searches the whole tree; one that did searches in a
  free leaf, the first of the smallest ones that are larger than what it needs. So the next
  division, which looks in the whole tree again (`buddy_dividir_raiz`), finds the same leaf,
  and a search that fails there always has something to divide: no eviction follows a
  division.
- `SinCaida`: without victims all the leaves are free, and if they are not the root alone, the
  smallest of them has a buddy that is a leaf of its size (`ArbolEntero`), which `ParesInv`
  excludes. A free root fits any message that fits in the memory.

Where a textbook would use induction over the levels, the proofs take a smallest
counterexample (`MinimoNat`).

### 4.3 Queues

`BrokerColasProofs` proves, for every set of publishers, connections and queues,
every capacity and every bound on messages and cuts:

- `Invariante`: `Spec => []IInv`;
- `TiposSiempre`, `NadieSePierdeNunca`, `SoloSuscriptosSiempre`,
  `SinReenvioSiempre`: `TypeOK`, `NadieSePierde`, `SoloSuscriptos` and
  `SinReenvioEspurio` hold always (the run `colas` checks them).

The assumptions are the two of `BrokerColas`: a connection is a subscriber and a queue,
publishers are not connections, `NULL` is nobody, the bounds are naturals and a message fits
in the memory. None of the properties is inductive; `IInv` adds:

- `Turnos`: who stores a message, and who is between registering and the end of its
  answer, holds `M_PROCESO`. So no message is stored in the gap of a subscription,
  which is where `NadieSePierde` could fail: a subscriber that is already in the queue
  but not yet related to the old messages. The message being stored has no
  relations and was never sent, so `cargar_mensaje` relates it to every subscriber
  of its queue and not only to the ones without a relation;
- `Numeracion`: ids grow, so the message being published is not one of those in
  memory nor the one another thread is storing;
- `Suscripciones` and `Copias`: copies already sent, plus one if a relation is pending, are
  never more than the subscriptions of the pair. `flag_enviado` marks
  all the relations of the pair at once, so duplicated relations count as one copy
  (`Debidas`), and only a subscription or the publication adds one;
- `Canales` and `Sockets`: what the Broker writes, a client that is there reads, and at
  most one confirmation travels in a connection. `TypeOK` needs them: an ACK is of a
  message, never of the confirmation.

### 4.4 Gamecard and Tall Grass

`TallGrassProofs` proves `Invariante` (`Spec => []IInv`) and from it `TypeOK`, `TablaFiel` and
`BitmapFiel`; `MundoProofs` goes on to `Spec => EsUnMundo` and to `ContenidoExacto`. The
conditions are in the properties themselves, as 2.5 says: the last two, and `OPEN`, until a
file is opened twice or two get the same block. They hold
for every set of scenarios, species and positions, and every size and number of blocks, under
the assumptions of `TallGrass`. One is a bound: at most eleven messages arrive together, of up
to nine pokemons each, so a count has at most two digits, which is as far as `Digitos` and
`Cantidad` go.

`IInv` is `TiposInv /\ SinCompartir /\ (Sano => EnOrden /\ Copias)`. The first two hold in
every state, those after a double opening too: `TiposInv` is the types, where each thread may
be, and the entries of the table (`Entradas`); `SinCompartir` says that two files get the same
block only after a double opening or a stale bitmap. The rest holds while `Sano`, which never
comes back once it is lost (`SanoAntes`). `Copias` says that what a handler knows of its file
is what its `Metadata.bin` says, and that nobody saves what it read before somebody else's
save; with it each action is the one of a handler that is alone with its file (`LeeSolo`,
`NewSolo`, ... `CierraSolo`, by `DeUno`), and `EnOrden` is proved of those (`PasoSolo`).
`EnOrden` is `HilosInv /\ CarpetasInv /\ TablaInv /\ ContenidoInv /\ BloquesInv /\ MapaInv`:

- `CarpetasInv`: one thread at a time works on a file, and one makes its metadata. That `Lee`
  keeps the first is what `Sano` after the step gives: the table does not. The second keeps
  `CreaMetadata` from emptying a file that is in use.
- `TablaInv` is what `TablaFiel` says, with the entries counted (`Veces`). `Saca`
  removes by a position it read before, so what it takes may be another's: that is `errada`.
- `ContenidoInv` is about the bytes. A file that is being rewritten is not a list of records
  on the disk: bytes that will be cut off are still there, and the new record is only partly
  written. `Todo(f)` is the text it will have: the first `Queda(f)` bytes and what its writer
  still has in memory. `Entero(f)` says that the bytes that stay are on the disk, in blocks
  that cover them, that the part already written is there too, and that `Todo(f)` is a list of
  complete records, one after another, with one per position at most (`Bien`). `Acotado`
  bounds the counts by those who answered.
- `BloquesInv`: no block is twice in a file or in two. It is what makes `Grabado` and
  `Cortado` on one file leave the others alone, and it holds until `compartido`.
- `MapaInv` is `BitmapFiel` with, besides, that what one file is giving back is not another's:
  otherwise `VuelcaLibre` could free a block in use. It needs no stale bitmap to have been
  written, like `BitmapFiel`.

The heart is what three loops of the code do to the bytes: `BorradoEs` (`delet_tall_grass`
moves what follows the record over it and cuts the end: what is left is the same list without
that record), `UnTrozoMas` (one block's worth of `write_tall_grass`) and `LosQueLibera` (what
`truncate_tall_grass` gives back and what it keeps are the blocks of the file, apart). They
rest on `GrabadoEs` and `CortadoEs`, which speak of the i-th byte of a file through the
quotient and the remainder by `BLOCK_SIZE`. Then each step leaves `Todo` of every file as it
was (`TodoIgual`), but for the ones at which a handler has read its file, which change one
count of one file (`Efecto`).

The refinement maps `cuenta` to the counts of `Vista(f)`, which is `Todo(f)` (`VistaEs`), and
`atendidos` to the answers given. `New` is `Aparecen`, `Catch` is `Atrapan` or `SeEscapo`,
`Get` is `Localizan`; a `Busca` that finds no directory answers too, and the file it does not
find has no pokemons (`SinFichero`). Every other step tells nobody anything (`LosQueCallan`)
and is a stutter of `Mundo`. `roto` is mapped to `~Sano`: the step that opens a file twice, or
puts in a file a block that is in one, is `Rompe`, and so is any step after it (`PasoMundo`).
Until then the contents stay right through the races of the table and of the bitmap: `errada`
and `pisado` are no hypotheses.

`LosArchivosSonExactos` (`ContenidoExacto`) rests on the refinement. `Cuadra` says that the
count of each species at each position is `Saldo` of the answers given so far: the sum of the
NEW that were answered, minus the CATCH that got one. Each action of `Mundo` changes the two
alike (`PasoCuadra`), so every step of the handlers does while `Sano` (`CuadraSigue`), and no lemma about
bytes is needed again. What the bytes are then follows from `Bien` alone: every count has its
record in the text (`SuPrefijo`), and the text is as long as its records (`TodoEsRegistros`:
take the shortest text that is not, and take its first record off), so there is not a byte
more.

### 4.5 Team

`TeamProofs` proves, for any set of trainers, species, objectives, positions and messages and
any bound on failures, under the assumptions of `Entrenadores` and `Team` (an APPEARED brings
one place; the coefficients of the estimate are 0 or 1, so estimates stay naturals):

- `TiposSiempre`: `TypeOK`, with every planner. It is not inductive. `Tipos` adds to it where
  a thread may be and where it may return (`Hilos`), that a trainer which gives way has cycles
  to go (`LeFalta`: otherwise the cycle after `esperaCd` would take `falta` below zero), that
  whoever goes to an exchange has a partner and both have a species to give (`SocioSabido`:
  `Canje` indexes dictionaries with them), that `algoritmo_de_cercania` has no more to hand
  out than there is in `pokemons` (its own thread is the only one that takes, the others only
  add), and that an id being returned is the one of a CATCH. `algoritmo_deadlock` takes the
  first pair; that there is a first one is `ParTipo`.
- `CadaCatchSeEspera`: `CatchEsperado`, with every planner and through lost connections,
  repeated and overtaking answers. `Pendientes`, inductive under `Tipos`, follows one CATCH of
  each trainer: its sender (`envio`), its id in `waiting_list` and its `block_catch` exclude
  each other, and all three are empty unless the trainer is at `esperaCatch`. So the default
  of `message_function` and a late CAUGHT never both wake it, and a second answer finds no id.
  An answer that finds none while the id is on its way goes to `perdidos`, the only case left
  out.
- `ElQueCorreEstaSolo` and `NadieSacaDeLoVacio`: `UnoEnExec` and `SinListaVacia` (the first
  conjunct of `CaidaConocida`), with `sjf_sd_planner`. `Procesador`, inductive under `Tipos`,
  says that whoever runs or was woken to run is alone in Exec, that it is woken once, and that
  a thread between `Mira` and `Elige` owns the mutex, Exec is empty and Ready is not. Nothing
  else takes from Ready or adds to Exec (`SinTurno` lists what the other steps may do: add to
  Ready, or move a thread where nobody runs or plans), so what was seen still holds.

- `NadaSePierde`: `Conservacion`, with every planner. `Inventario` adds up, of each species,
  what the trainers have (`Tienen`) and what they want (`Quieren`). Only two steps change a
  stock: a CAUGHT that says yes, which takes the species off `objetivo_global` (`Descontado`),
  and an exchange, which takes one pokemon from each and gives it to the other
  (`CanjeStocks`), two changes of a sum of which the second starts from the result of the
  first. It is an equality for the species somebody lacked at the start; of the others a
  LOCALIZED may still bring one, because `objetivo_global` keeps a key whose value is 0, and
  then there are more than wanted, never fewer.
- `SinExcesoSiempre`: `SinExceso` with FIFO, RR and SJF without desalojo; `CaidaSoloConocida`
  and `CadaUnoSiempre`: `CaidaConocida` and `CadaUnoEnUnaLista` (both about SJF without
  desalojo; `CadaUnoEnUnaLista` needs its mutex, and `Procesador` for it). The three assume

      HayLugar == \A t \in ENTRENADORES : Suma(STOCK[t]) < Suma(OBJETIVOS[t])

  every trainer starts with room for one pokemon. It is so in each configuration the repository
  has (`src/Team/build_team.sh`) and in the instances of the runs; it is needed because a trainer
  in New is given a pokemon whatever its room: `algoritmo_de_cercania` asks for room only of
  the blocked ones.

The inductive invariant of the last three is `Marcha == Orden /\ Duo` and that the process did
not die of them. `Orden` ties, for each trainer, four things the code changes in different
threads: the list it is in, the place of its thread, its `razon_bloqueo` and its room.

- `Sitio`: New, Ready-or-running and Block hold a trainer once, and only one of them does.
  `Ready-or-running` (`Activo`) counts the entry in Ready, the pending wake-ups and the burst,
  as the trainer goes from one to the next while others run; `list_remove(estado_exec, 0)`
  does not disturb it.
- `Caza`: whoever owes a CATCH (`Debe`: about to send it, sending it or waiting for it) has
  room. This is what makes `SinExceso` inductive: between the moment room was looked at and
  the CAUGHT no other CATCH of the same trainer is on its way, because while it owes one it is
  in Block with a reason that is not `ESPERANDO_POKEMON` or not in Block at all, and so no
  candidate (`Cand`, for the candidates that `algoritmo_de_cercania` computed before it
  released the lists).
- `Avisado`: who is asked to wake up from Block for a pokemon really waits there, and once;
  without room it is woken for an exchange or to finish.
- `Lleno`, `Parejas`: partners of an exchange have no room, so no CATCH of theirs is on its
  way, **except** that the last one was answered and its thread did not look yet (`Temprano`).
  That trainer may already be chosen for an exchange, which is the case `team_canje` starts
  from; `Elegido` says what is still true of it: it has something to give, and it is of one
  exchange at most.

`Duo` adds what holds between two trainers only: what each is about to give is to spare
(`Dupla`), and whoever finished is in no list (`Acabado`). With more trainers both are false,
because `algoritmo_deadlock` may choose a trainer for two exchanges (`team_canje`). TLC finds
the process dead of the second exchange with the three trainers of `team_canje`, and a trainer
that is in `estado_finish` and in Ready with four (two that want one species, two that want
another, three pokemons: the first exchange finishes a trainer that was put in Ready for the
second). That is why the last conjuncts of `CaidaConocida` and `CadaUnoEnUnaLista` are about
two trainers.

With SJF with desalojo `Orden` is not inductive: `sjf_cd_planner` puts the trainer it preempts
back in Ready, and the thread of that trainer goes on as one that runs until it looks at
`tengo_que_desalojar`, so for a while it is in Ready and running.

The sums are `Total` of `Lemas`, which is what `FoldFunction` and `FoldSet` compute, and their
facts (`TotalCambia`, `TotalMenor`, `TotalSin`) come from a subset of least cardinality at
which they would fail (`MinimoNat`), which takes the place of an induction over sets.

### 4.6 What stays with TLC

Liveness (`PedidoSeAtiende`, `EntregaEventual`, `TodosResponden`, `SinEsperaEterna`,
`TodosTerminan`): TLAPS does not do fairness. `SinExceso` with SJF with desalojo, which
`team_fallas` checks without failures, and why its invariant is another is said in 4.5. That
the last conjuncts of `CaidaConocida` and `CadaUnoEnUnaLista` are about two trainers is no
limit of the proofs: with more they are false.

## 5. What the models leave out

- Lists are atomic: `recursar_operativos` walks `MENSAJE_SUBSCRIPTORE` while others
  add to it, and the torn reads this may give are not modelled. A pair with
  several pending relations is visited once in a walk.
- Descriptor numbers: the Broker closes a descriptor twice and a new connection may
  get the number in between.
- The `mensaje` pointer of a new partition is set after the partition is taken; the
  models do both at once. Only the dump and a send in between could see it.
- The dump, its signal handler, start-up order and `SIGPIPE`.
- A message whose id is 1 read as the confirmation: the confirmation is a value of
  its own, so `ConfirmacionPrimero` sees the message and the client reconnects.
- `INTENTOS` with frequency -1: nothing reads it then.
- Team: the threads that send the GETs at start-up, the metrics and the clean-up of `main`;
  torn lists (an operation on a list is one step); FIFO and RR have no properties about Exec,
  because without a mutex they do not hold (only `Conservacion`, `SinExceso` and
  `CatchEsperado` are claimed for RR). `TodosTerminan` is about an exchange that completes
  both trainers: one that completes only the partner leaves it in Block (`team.c:1177`), and
  needs three trainers.
- Gamecard: descriptors (`truncate_tall_grass` leaks one per call), what is made of a file that
  two handlers left senseless and the interleavings of their loops byte by byte (2.5), the
  subscription (it is the client of `BrokerColas`), and the loss
  of an answer in `envio_mensaje`, on which nothing in Gamecard depends.
- Serialisation (copies of fixed fields), the Gameboy (one message and its exit), the
  `select` server's descriptor sets, `cliente-test`.

## 6. Plan

Left for the proofs: `SinExceso` with SJF with desalojo. Left to model: descriptors and their
reuse in the Broker, the dump with its handler.
