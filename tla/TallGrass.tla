------------------------------ MODULE TallGrass ------------------------------
(***************************************************************************)
(* The Gamecard process: the threads that handle NEW, CATCH and GET        *)
(* (Gamecard/gamecard.c) on the Tall Grass file system                     *)
(* (Gamecard/tallGrass.c). A file per species holds one record per         *)
(* position, "x-y=cant\n", in the blocks its Metadata.bin lists.           *)
(*                                                                         *)
(* One step is the code between two accesses to what threads share: the    *)
(* directory, the table of open files (a semaphore per access) and the     *)
(* bitmap (a flock per access). What a handler that has the file open      *)
(* touches, its metadata and the bytes of its blocks, changes call by call.*)
(* Nothing but that table keeps two handlers from the same file; when it   *)
(* lets them both in, each works on with its own copy of the metadata.     *)
(* A byte that stands for "x-y=" is the position itself.                   *)
(***************************************************************************)
EXTENDS Integers, Sequences, FiniteSets, SequencesExt

CONSTANTS
    MENSAJES,       \* the messages there may be
    ESCENARIOS,     \* the sets of messages that arrive together, a thread each
    ESPECIES,       \* a species is the name of a file
    LUGARES,        \* positions of the map
    FIN,            \* the line feed that ends a record
    BLOCK_SIZE, BLOCKS,
    NULL

Numeros == 0 .. BLOCKS - 1
Tipos == {"NEW", "CATCH", "GET"}

ASSUME TallGrassAssumption ==
    /\ MENSAJES \subseteq [n : Nat, tipo : Tipos, especie : ESPECIES, lugar : LUGARES, cant : 1 .. 9]
    /\ ESCENARIOS \subseteq SUBSET MENSAJES
    /\ \A s \in ESCENARIOS : IsFiniteSet(s) /\ Cardinality(s) <= 11
    /\ BLOCK_SIZE \in Nat \ {0} /\ BLOCKS \in Nat
    /\ FIN \notin LUGARES \union 0 .. 9 /\ LUGARES \intersect 0 .. 9 = {}
    /\ NULL \notin LUGARES \union 0 .. 9 \union {FIN}

VARIABLES
    dir,        \* what there is of each file: nothing, its directory, its metadata too
    meta,       \* the Metadata.bin of each file
    disco,      \* the bytes of each block file
    bitmap,     \* Bitmap.bin: the blocks that are taken
    abiertos,   \* archivos_abiertos
    hilo,       \* the thread of each message
    copia,      \* archivo->metadata: what each thread knows of the file it has open
    leida,      \* the Metadata.bin that a thread read to save it changed, if somebody
                \* else may write it in between; NULL if not
    fin,        \* what the process crashed of, or where its files stop making sense;
                \* "no" until then
    errada,     \* history: somebody removed another thread's entry of the table
    pisado,     \* history: somebody wrote a bitmap that was not the one it had read
    doble,      \* history: somebody opened a file that another thread had open
    compartido  \* history: a block went to a file while it was in that one or another

memoria == <<copia, leida>>
historia == <<errada, pisado, doble, compartido>>
vars == <<dir, meta, disco, bitmap, abiertos, hilo, memoria, fin, historia>>

Vacio == [size |-> 0, bloques |-> <<>>, open |-> FALSE]
SinCopia == [size |-> 0, bloques |-> <<>>]
Quieto == [pc |-> "busca", pos |-> 0, rta |-> NULL, vistos |-> {}, datos |-> <<>>, van |-> 0,
           libera |-> <<>>, corte |-> 0, visto |-> {}, bloque |-> 0]

\* montar wipes what an earlier process left.
Init ==
    /\ dir = [f \in ESPECIES |-> "no"]
    /\ meta = [f \in ESPECIES |-> Vacio]
    /\ disco = [b \in Numeros |-> <<>>]
    /\ bitmap = {} /\ abiertos = <<>>
    /\ \E s \in ESCENARIOS :
        /\ hilo = [m \in s |-> Quieto]
        /\ copia = [m \in s |-> SinCopia] /\ leida = [m \in s |-> NULL]
    /\ fin = "no"
    /\ errada = FALSE /\ pisado = FALSE /\ doble = FALSE /\ compartido = FALSE

-----------------------------------------------------------------------------
\* Bytes, records and blocks.

Digitos(c) == IF c < 10 THEN <<c>> ELSE <<c \div 10, c % 10>>
Registro(l, c) == <<l>> \o Digitos(c) \o <<FIN>>

\* buscar_coordenadas: where the first record of l starts, 0 if there is none.
Donde(s, l) ==
    IF \E i \in DOMAIN s : s[i] = l
    THEN CHOOSE i \in DOMAIN s : s[i] = l /\ \A k \in 1 .. i - 1 : s[k] # l
    ELSE 0
Hasta(s, i) == CHOOSE j \in i .. Len(s) : s[j] = FIN /\ \A k \in i .. j - 1 : s[k] # FIN
Cantidad(s, i) ==
    IF Hasta(s, i) = i + 2 THEN s[i + 1] ELSE 10 * s[i + 1] + s[i + 2]

\* bloque_relativo_archivo: the index, from 0, of the block of a byte.
Relativo(pos) == pos \div BLOCK_SIZE

\* read_tall_grass: the first n bytes of the file of blocks bl, and all of a file.
Leidos(bl, n) ==
    [i \in 1 .. n |-> disco[bl[Relativo(i - 1) + 1]][((i - 1) % BLOCK_SIZE) + 1]]
Contenido(f) == Leidos(meta[f].bloques, meta[f].size)

\* n bytes of a block file that has the bytes s: where it had ended there are zeros,
\* which are no byte of a record.
Estirado(s, n) == [o \in 1 .. n |-> IF o <= Len(s) THEN s[o] ELSE NULL]

\* Mutant of Grabado: a block has no end.
GrabadoSinTope(bl, pos, s) ==
    [b \in Numeros |->
        IF ~Contains(bl, b) THEN disco[b]
        ELSE LET ini == (CHOOSE k \in DOMAIN bl : bl[k] = b) * BLOCK_SIZE - BLOCK_SIZE
                 llega == pos + Len(s) - ini
                 largo == IF llega > Len(disco[b]) THEN llega ELSE Len(disco[b])
             IN IF ini >= pos + Len(s) THEN disco[b]
                ELSE [o \in 1 .. largo |->
                        IF ini + o > pos /\ ini + o <= pos + Len(s) THEN s[ini + o - pos]
                        ELSE Estirado(disco[b], largo)[o]]]

\* write_tall_grass in blocks the file already has: the bytes s from position pos on.
Grabado(bl, pos, s) ==
    [b \in Numeros |->
        IF ~Contains(bl, b) THEN disco[b]
        ELSE LET ini == (CHOOSE k \in DOMAIN bl : bl[k] = b) * BLOCK_SIZE - BLOCK_SIZE
                 llega == IF pos + Len(s) - ini < BLOCK_SIZE THEN pos + Len(s) - ini ELSE BLOCK_SIZE
                 largo == IF llega > Len(disco[b]) THEN llega ELSE Len(disco[b])
             IN IF ini + BLOCK_SIZE <= pos \/ ini >= pos + Len(s) THEN disco[b]
                ELSE [o \in 1 .. largo |->
                        IF ini + o > pos /\ ini + o <= pos + Len(s) THEN s[ini + o - pos]
                        ELSE Estirado(disco[b], largo)[o]]]

\* truncate_tall_grass on a disk d: the block of the new end is cut, the next ones are
\* emptied, and so is the first one when nothing is left.
Cortado(d, bl, corte) ==
    [b \in Numeros |->
        IF ~Contains(bl, b) THEN d[b]
        ELSE LET k == CHOOSE i \in DOMAIN bl : bl[i] = b IN
             IF k <= Relativo(corte) THEN d[b]
             ELSE IF k = Relativo(corte) + 1 THEN Estirado(d[b], corte % BLOCK_SIZE)
             ELSE <<>>]

\* Mutant of ALiberar: from the block of the new end on.
ALiberarDeMas(bl, corte) ==
    SubSeq(bl, Relativo(corte) + 1, Len(bl)) \o (IF corte = 0 THEN <<bl[1]>> ELSE <<>>)

\* The blocks it gives back, in the order it does.
ALiberar(bl, corte) ==
    SubSeq(bl, Relativo(corte) + 2, Len(bl)) \o (IF corte = 0 THEN <<bl[1]>> ELSE <<>>)
QueQuedan(bl, corte) ==
    IF corte = 0 THEN <<>>
    ELSE SubSeq(bl, 1, IF Relativo(corte) < Len(bl) THEN Relativo(corte) + 1 ELSE Len(bl))

-----------------------------------------------------------------------------
\* Threads.

En(m, p) == fin = "no" /\ hilo[m].pc = p
Sigue(m, p) == hilo' = [hilo EXCEPT ![m].pc = p]
Termina(motivo) ==
    /\ fin' = motivo
    /\ UNCHANGED <<dir, meta, disco, bitmap, abiertos, hilo, memoria, historia>>

Operando == {"opera", "libera", "vuelcaLibre", "escribe", "vuelca", "cierra"}
Cerrando == {"buscaPos", "saca"}
De(f, pcs) == {m \in DOMAIN hilo : m.especie = f /\ hilo[m].pc \in pcs}

\* The blocks of a file that truncate_tall_grass has not given back.
Propios(f) ==
    LET bl == meta[f].bloques
        corta == De(f, {"libera", "vuelcaLibre"})
        m == CHOOSE h \in corta : TRUE
    IN IF corta = {} THEN ToSet(bl)
       ELSE ToSet(QueQuedan(bl, hilo[m].corte))
            \union ToSet(IF hilo[m].pc = "libera" THEN hilo[m].libera ELSE Tail(hilo[m].libera))

-----------------------------------------------------------------------------
\* Up to an open file.

\* find_tall_grass. Only a NEW creates the file; the others answer that there is none.
Busca(m) ==
    /\ En(m, "busca")
    /\ hilo' = [hilo EXCEPT ![m] =
          IF dir[m.especie] # "no" THEN [@ EXCEPT !.pc = "abre"]
          ELSE IF m.tipo = "NEW" THEN [@ EXCEPT !.pc = "crea"]
          ELSE [@ EXCEPT !.pc = "responde", !.rta = 0]]
    /\ UNCHANGED <<dir, meta, disco, bitmap, abiertos, memoria, fin, historia>>

\* crear_ficheto: the directory first. One that is there already makes it fail, which
\* the caller does not look at.
Crea(m) ==
    /\ En(m, "crea")
    /\ IF dir[m.especie] = "no"
       THEN dir' = [dir EXCEPT ![m.especie] = "carpeta"] /\ Sigue(m, "metadata")
       ELSE Sigue(m, "abre") /\ UNCHANGED dir
    /\ UNCHANGED <<meta, disco, bitmap, abiertos, memoria, fin, historia>>

\* crear_ficheto: then the Metadata.bin, complete when it is closed.
CreaMetadata(m) ==
    /\ En(m, "metadata")
    /\ dir' = [dir EXCEPT ![m.especie] = "listo"]
    /\ meta' = [meta EXCEPT ![m.especie] = Vacio]
    /\ Sigue(m, "abre")
    /\ UNCHANGED <<disco, bitmap, abiertos, memoria, fin, historia>>

\* Mutant of Abre: it adds the file to the table even if it is open.
AbreYAgrega(m) ==
    /\ En(m, "abre")
    /\ IF Contains(abiertos, m.especie)
       THEN abiertos' = Append(abiertos, m.especie) /\ Sigue(m, "busca")
       ELSE Sigue(m, "agrega") /\ UNCHANGED abiertos
    /\ UNCHANGED <<dir, meta, disco, bitmap, memoria, fin, historia>>

\* open_tall_grass looks the file up in the table. If it is open the whole handler
\* starts again, some seconds later.
Abre(m) ==
    /\ En(m, "abre")
    /\ Sigue(m, IF Contains(abiertos, m.especie) THEN "busca" ELSE "agrega")
    /\ UNCHANGED <<dir, meta, disco, bitmap, abiertos, memoria, fin, historia>>

\* If it was not, the file is added, in another critical section.
Agrega(m) ==
    /\ En(m, "agrega")
    /\ abiertos' = Append(abiertos, m.especie)
    /\ Sigue(m, "lee")
    /\ UNCHANGED <<dir, meta, disco, bitmap, memoria, fin, historia>>

-----------------------------------------------------------------------------
\* Metadata.bin: config_create reads it whole, config_save writes it whole, and no lock
\* is held in between.

Faltan(m) == Len(hilo[m].datos) - hilo[m].van

\* The next thing m does is to read the Metadata.bin of its file and save it changed.
Guardara(m) ==
    \/ hilo[m].pc \in {"lee", "vuelca", "cierra"}
    \/ hilo[m].pc = "libera" /\ hilo[m].libera = <<>>
    \/ hilo[m].pc = "escribe" /\ Faltan(m) = 0
Otros(m) == {u \in DOMAIN hilo \ {m} : u.especie = m.especie}
HayOtro(m) == De(m.especie, Operando) \ {m} # {}

\* What m changes and saves: the file as it is, or as it was when m read it.
Base(m) == IF leida[m] = NULL THEN meta[m.especie] ELSE leida[m]
Leyo(m) == fin = "no" /\ (leida[m] # NULL \/ dir[m.especie] = "listo")
Guarda(m, md) ==
    /\ meta' = [meta EXCEPT ![m.especie] = md]
    /\ dir' = [dir EXCEPT ![m.especie] = "listo"]
    /\ leida' = [leida EXCEPT ![m] = NULL]
Copia(m, size, bloques) == copia' = [copia EXCEPT ![m] = [size |-> size, bloques |-> bloques]]

\* The bitmap with the block that m takes reaches the file, with fclose, unlocked.
Toma(m) ==
    /\ bitmap' = hilo[m].visto \union {hilo[m].bloque}
    /\ pisado' = (pisado \/ bitmap # hilo[m].visto)

\* config_create, when another handler may save the same Metadata.bin before m does.
Relee(m) ==
    /\ fin = "no" /\ dir[m.especie] = "listo"
    /\ Guardara(m) /\ leida[m] = NULL /\ HayOtro(m)
    /\ leida' = [leida EXCEPT ![m] = meta[m.especie]]
    /\ doble' = TRUE
    /\ IF hilo[m].pc = "vuelca" THEN Toma(m) ELSE UNCHANGED <<bitmap, pisado>>
    /\ UNCHANGED <<dir, meta, disco, abiertos, hilo, copia, fin, errada, compartido>>

\* The metadata is read, and OPEN becomes Y, whoever else has the file open.
Lee(m) ==
    /\ En(m, "lee") /\ Leyo(m)
    /\ Copia(m, Base(m).size, Base(m).bloques)
    /\ Guarda(m, [Base(m) EXCEPT !.open = TRUE])
    /\ doble' = (doble \/ HayOtro(m))
    /\ Sigue(m, "opera")
    /\ UNCHANGED <<disco, bitmap, abiertos, fin, errada, pisado, compartido>>

\* A Metadata.bin that is not there or not complete has no SIZE nor BLOCKS: atoi(NULL).
\* config_save empties the file before it writes it.
LeeMal(m) ==
    /\ fin = "no" /\ Guardara(m) /\ hilo[m].pc # "cierra" /\ leida[m] = NULL
    /\ \/ dir[m.especie] # "listo"
       \/ \E u \in Otros(m) : Guardara(u)
    /\ Termina("sin_metadata")

-----------------------------------------------------------------------------
\* What each message does with its file, as its copy of the metadata says it is.

\* obtener_sig_coordenada: a record starts at the i-th byte of s.
RegistroEn(s, i) ==
    /\ i > 1 => s[i - 1] = FIN
    /\ i + 2 <= Len(s) /\ s[i + 1] \in 1 .. 9
    /\ \/ s[i + 2] = FIN
       \/ i + 3 <= Len(s) /\ s[i + 2] \in 0 .. 9 /\ s[i + 3] = FIN

\* s is a list of records, one after another.
Registros(s) ==
    /\ \A i \in DOMAIN s : s[i] \in LUGARES \union 0 .. 9 \union {FIN}
    /\ \A i \in DOMAIN s : (i = 1 \/ s[i - 1] = FIN) <=> s[i] \in LUGARES
    /\ \A i \in DOMAIN s : s[i] \in LUGARES => RegistroEn(s, i)
    /\ Len(s) > 0 => s[Len(s)] = FIN

\* The file of m, and whether its blocks have all the bytes that it should.
TextoDe(m) == Leidos(copia[m].bloques, copia[m].size)
EstaEntero(m) ==
    LET c == copia[m] IN
    /\ c.size \in 0 .. Len(c.bloques) * BLOCK_SIZE
    /\ \A i \in 1 .. c.size :
         (i - 1) % BLOCK_SIZE < Len(disco[c.bloques[Relativo(i - 1) + 1]])
Cuantos(m) ==
    LET i == Donde(TextoDe(m), m.lugar) IN IF i = 0 THEN 0 ELSE Cantidad(TextoDe(m), i)
Legible(m) == EstaEntero(m) /\ Registros(TextoDe(m)) /\ Cuantos(m) + m.cant <= 99

\* What only two handlers with the same file open, or two files with the same block,
\* can leave: bytes that are not there, pieces of records, a file of less than no bytes.
\* What comes of reading that is not modelled.
Ilegible(m) ==
    /\ \/ En(m, "opera") /\ ~Legible(m)
       \/ En(m, "escribe") /\ Faltan(m) > 0 /\ copia[m].size < 0
    /\ Termina("ilegible")

\* Mutant of Borra: the line feed is not part of the record.
BorraSinFin(m, i, c) ==
    LET s == TextoDe(m)
        bl == copia[m].bloques
        tam == Hasta(s, i) - i
        corte == Len(s) - tam IN
    /\ disco' = Cortado(Grabado(bl, i - 1, SubSeq(s, i + tam, Len(s))), bl, corte)
    /\ hilo' = [hilo EXCEPT ![m] =
          [@ EXCEPT !.pc = "libera", !.rta = 1, !.corte = corte, !.van = 0,
                    !.libera = ALiberar(bl, corte),
                    !.datos = IF c > 0 THEN Registro(m.lugar, c) ELSE <<>>]]

\* delet_tall_grass, up to the blocks to free: the bytes after the record move over it,
\* one by one, and the end is cut off. Then the new record is to be written.
Borra(m, i, c) ==
    LET s == TextoDe(m)
        bl == copia[m].bloques
        tam == Hasta(s, i) - i + 1
        corte == Len(s) - tam IN
    /\ disco' = Cortado(Grabado(bl, i - 1, SubSeq(s, i + tam, Len(s))), bl, corte)
    /\ hilo' = [hilo EXCEPT ![m] =
          [@ EXCEPT !.pc = "libera", !.rta = 1, !.corte = corte, !.van = 0,
                    !.libera = ALiberar(bl, corte),
                    !.datos = IF c > 0 THEN Registro(m.lugar, c) ELSE <<>>]]

\* Mutant of New: the count of the message replaces the old one.
NewPisa(m) ==
    LET i == Donde(TextoDe(m), m.lugar) IN
    /\ m.tipo = "NEW" /\ En(m, "opera") /\ Legible(m)
    /\ IF i = 0
       THEN /\ hilo' = [hilo EXCEPT ![m] = [@ EXCEPT !.pc = "escribe", !.rta = 1, !.van = 0,
                                                     !.datos = Registro(m.lugar, m.cant)]]
            /\ UNCHANGED disco
       ELSE Borra(m, i, m.cant)
    /\ UNCHANGED <<dir, meta, bitmap, abiertos, memoria, fin, historia>>

\* mensaje_new_pokemon: one more record, or a larger count in place of the old one.
New(m) ==
    LET i == Donde(TextoDe(m), m.lugar) IN
    /\ m.tipo = "NEW" /\ En(m, "opera") /\ Legible(m)
    /\ IF i = 0
       THEN /\ hilo' = [hilo EXCEPT ![m] = [@ EXCEPT !.pc = "escribe", !.rta = 1, !.van = 0,
                                                     !.datos = Registro(m.lugar, m.cant)]]
            /\ UNCHANGED disco
       ELSE Borra(m, i, Cuantos(m) + m.cant)
    /\ UNCHANGED <<dir, meta, bitmap, abiertos, memoria, fin, historia>>

\* mensaje_catch_pokemon: one less, and no record for none.
Catch(m) ==
    LET i == Donde(TextoDe(m), m.lugar) IN
    /\ m.tipo = "CATCH" /\ En(m, "opera") /\ Legible(m)
    /\ IF i = 0
       THEN hilo' = [hilo EXCEPT ![m].pc = "cierra", ![m].rta = 0] /\ UNCHANGED disco
       ELSE Borra(m, i, Cuantos(m) - 1)
    /\ UNCHANGED <<dir, meta, bitmap, abiertos, memoria, fin, historia>>

\* mensaje_get_pokemon: the positions of all the records.
Get(m) ==
    /\ m.tipo = "GET" /\ En(m, "opera") /\ Legible(m)
    /\ hilo' = [hilo EXCEPT ![m] = [@ EXCEPT !.pc = "cierra", !.rta = 1,
                   !.vistos = {l \in LUGARES : Donde(TextoDe(m), l) # 0}]]
    /\ UNCHANGED <<dir, meta, disco, bitmap, abiertos, memoria, fin, historia>>

\* liberar_bloque reads the bitmap under its lock ...
Libera(m) ==
    /\ En(m, "libera") /\ hilo[m].libera # <<>>
    /\ hilo' = [hilo EXCEPT ![m].pc = "vuelcaLibre", ![m].visto = bitmap]
    /\ UNCHANGED <<dir, meta, disco, bitmap, abiertos, memoria, fin, historia>>

\* ... and what it wrote in the buffer reaches the file with fclose, unlocked.
VuelcaLibre(m) ==
    /\ En(m, "vuelcaLibre")
    /\ bitmap' = hilo[m].visto \ {Head(hilo[m].libera)}
    /\ pisado' = (pisado \/ bitmap # hilo[m].visto)
    /\ hilo' = [hilo EXCEPT ![m] =
          [@ EXCEPT !.pc = "libera", !.libera = Tail(hilo[m].libera)]]
    /\ UNCHANGED <<dir, meta, disco, abiertos, memoria, fin, errada, doble, compartido>>

\* sacar_bloques_metadata and disminuir_byte_archivo. If the Metadata.bin has not as
\* many blocks as stay, the block that is not there is NULL.
Recorta(m) ==
    LET bl == QueQuedan(Base(m).bloques, hilo[m].corte)
        size == Base(m).size - (copia[m].size - hilo[m].corte) IN
    /\ En(m, "libera") /\ hilo[m].libera = <<>> /\ Leyo(m)
    /\ IF hilo[m].corte > 0 /\ Relativo(hilo[m].corte) >= Len(Base(m).bloques)
       THEN Termina("sin_bloques")
       ELSE /\ Guarda(m, [Base(m) EXCEPT !.size = size, !.bloques = bl])
            /\ Copia(m, size, bl)
            /\ Sigue(m, IF hilo[m].datos = <<>> THEN "cierra" ELSE "escribe")
            /\ UNCHANGED <<disco, bitmap, abiertos, fin, historia>>

-----------------------------------------------------------------------------
\* write_tall_grass at the end of the file.

Puntero(m) == copia[m].size + hilo[m].van
HayBloque(m) == Relativo(Puntero(m)) < Len(copia[m].bloques)

\* The bytes that go to one block.
Escribe(m) ==
    LET lugar == BLOCK_SIZE - (Puntero(m) % BLOCK_SIZE)
        n == IF lugar < Faltan(m) THEN lugar ELSE Faltan(m) IN
    /\ En(m, "escribe") /\ Faltan(m) > 0 /\ copia[m].size >= 0 /\ HayBloque(m)
    /\ disco' = Grabado(copia[m].bloques, Puntero(m),
                        SubSeq(hilo[m].datos, hilo[m].van + 1, hilo[m].van + n))
    /\ hilo' = [hilo EXCEPT ![m].van = @ + n]
    /\ UNCHANGED <<dir, meta, bitmap, abiertos, memoria, fin, historia>>

\* next, obtener_bloques_libres: the first free block, read under the lock. Without one
\* the block -1 is opened: fseek(NULL).
PideBloque(m) ==
    /\ En(m, "escribe") /\ Faltan(m) > 0 /\ copia[m].size >= 0 /\ ~HayBloque(m)
    /\ IF bitmap = Numeros THEN Termina("sin_bloques")
       ELSE /\ hilo' = [hilo EXCEPT ![m] = [@ EXCEPT !.pc = "vuelca", !.visto = bitmap,
                            !.bloque = CHOOSE b \in Numeros \ bitmap :
                                          \A o \in Numeros \ bitmap : b <= o]]
            /\ UNCHANGED <<dir, meta, disco, bitmap, abiertos, memoria, fin, historia>>

\* The bitmap reaches the file; agregar_bloque_archivo. The byte that asked for the block
\* goes there even if it is not the block of its place, when somebody else added or took
\* out blocks. A file with a block twice is where the model stops.
Vuelca(m) ==
    LET nuevo == hilo[m].bloque
        bl == Append(Base(m).bloques, nuevo)
        suelto == Len(Base(m).bloques) # Relativo(Puntero(m)) IN
    /\ En(m, "vuelca") /\ Leyo(m)
    /\ IF leida[m] = NULL THEN Toma(m) ELSE UNCHANGED <<bitmap, pisado>>
    /\ compartido' = (compartido \/ Contains(Base(m).bloques, nuevo)
                                 \/ \E f \in ESPECIES : nuevo \in Propios(f))
    /\ fin' = IF Contains(Base(m).bloques, nuevo) THEN "bloque_doble" ELSE fin
    /\ Guarda(m, [Base(m) EXCEPT !.bloques = bl])
    /\ Copia(m, copia[m].size, bl)
    /\ disco' = IF suelto THEN Grabado(<<nuevo>>, Puntero(m) % BLOCK_SIZE,
                                       <<hilo[m].datos[hilo[m].van + 1]>>) ELSE disco
    /\ hilo' = [hilo EXCEPT ![m].pc = "escribe", ![m].van = IF suelto THEN @ + 1 ELSE @]
    /\ UNCHANGED <<abiertos, errada, doble>>

\* agregar_byte_archivo.
Crece(m) ==
    LET size == Base(m).size + Len(hilo[m].datos) IN
    /\ En(m, "escribe") /\ Faltan(m) = 0 /\ Leyo(m)
    /\ Guarda(m, [Base(m) EXCEPT !.size = size])
    /\ Copia(m, size, copia[m].bloques)
    /\ Sigue(m, "cierra")
    /\ UNCHANGED <<disco, bitmap, abiertos, fin, historia>>

-----------------------------------------------------------------------------
\* close_tall_grass, and the answer.

\* OPEN becomes N, whoever else has the file open, and the copy is freed.
Cierra(m) ==
    /\ En(m, "cierra") /\ Leyo(m)
    /\ Guarda(m, [Base(m) EXCEPT !.open = FALSE])
    /\ copia' = [copia EXCEPT ![m] = SinCopia]
    /\ Sigue(m, "buscaPos")
    /\ UNCHANGED <<disco, bitmap, abiertos, fin, historia>>

\* If it read a Metadata.bin that somebody else was saving, OPEN is all it saves.
CierraVacia(m) ==
    /\ En(m, "cierra") /\ leida[m] = NULL
    /\ \/ dir[m.especie] # "listo"
       \/ \E u \in Otros(m) : Guardara(u)
    /\ dir' = [dir EXCEPT ![m.especie] = "carpeta"]
    /\ copia' = [copia EXCEPT ![m] = SinCopia]
    /\ doble' = TRUE
    /\ Sigue(m, "buscaPos")
    /\ UNCHANGED <<meta, disco, bitmap, abiertos, leida, fin, errada, pisado, compartido>>

\* Mutant of BuscaPos: the first position is taken for "not found".
BuscaPosSinPrimera(m) ==
    LET i == SelectInSeq(abiertos, LAMBDA f : f = m.especie) IN
    /\ En(m, "buscaPos")
    /\ hilo' = [hilo EXCEPT ![m] =
          IF i > 1 THEN [@ EXCEPT !.pc = "saca", !.pos = i] ELSE [@ EXCEPT !.pc = "responde"]]
    /\ UNCHANGED <<dir, meta, disco, bitmap, abiertos, memoria, fin, historia>>

\* sacar_lista_archivos_abiertos looks up the position of the file ...
BuscaPos(m) ==
    /\ En(m, "buscaPos")
    /\ hilo' = [hilo EXCEPT ![m] =
          IF Contains(abiertos, m.especie)
          THEN [@ EXCEPT !.pc = "saca",
                         !.pos = SelectInSeq(abiertos, LAMBDA f : f = m.especie)]
          ELSE [@ EXCEPT !.pc = "responde"]]
    /\ UNCHANGED <<dir, meta, disco, bitmap, abiertos, memoria, fin, historia>>

\* ... and removes what is there now.
Saca(m) ==
    LET i == hilo[m].pos IN
    /\ En(m, "saca")
    /\ IF i > Len(abiertos) THEN Termina("tabla")
       ELSE /\ abiertos' = RemoveAt(abiertos, i)
            /\ errada' = (errada \/ abiertos[i] # m.especie)
            /\ Sigue(m, "responde")
            /\ UNCHANGED <<dir, meta, disco, bitmap, memoria, fin, pisado, doble, compartido>>

\* envio_mensaje: one attempt, and nothing here depends on whether it arrives.
Responde(m) ==
    /\ En(m, "responde")
    /\ Sigue(m, "respondido")
    /\ UNCHANGED <<dir, meta, disco, bitmap, abiertos, memoria, fin, historia>>

-----------------------------------------------------------------------------
Abrir(m) ==
    \/ Busca(m) \/ Crea(m) \/ CreaMetadata(m) \/ Abre(m) \/ Agrega(m)
    \/ Relee(m) \/ Lee(m) \/ LeeMal(m)
Operar(m) ==
    \/ New(m) \/ Catch(m) \/ Get(m) \/ Ilegible(m)
    \/ Libera(m) \/ VuelcaLibre(m) \/ Recorta(m)
    \/ Escribe(m) \/ PideBloque(m) \/ Vuelca(m) \/ Crece(m)
Cerrar(m) == Cierra(m) \/ CierraVacia(m) \/ BuscaPos(m) \/ Saca(m) \/ Responde(m)
Paso(m) == m \in DOMAIN hilo /\ (Abrir(m) \/ Operar(m) \/ Cerrar(m))

Next == \E m \in MENSAJES : Paso(m)
Spec == Init /\ [][Next]_vars

\* Each thread runs.
FairSpec == Spec /\ \A m \in MENSAJES : WF_vars(Paso(m))

-----------------------------------------------------------------------------
\* Properties.

\* Every variable has its type; a block file holds no more than a block.
Byte == LUGARES \union 0 .. 9 \union {FIN}
Archivo == [size : Int, bloques : Seq(Numeros), open : BOOLEAN]
TypeOK ==
    /\ dir \in [ESPECIES -> {"no", "carpeta", "listo"}]
    /\ meta \in [ESPECIES -> Archivo]
    /\ \A b \in Numeros : disco[b] \in Seq(Byte \union {NULL}) /\ Len(disco[b]) <= BLOCK_SIZE
    /\ bitmap \subseteq Numeros /\ abiertos \in Seq(ESPECIES)
    /\ \A m \in DOMAIN hilo :
        /\ hilo[m].rta \in {NULL, 0, 1} /\ hilo[m].datos \in Seq(Byte)
        /\ hilo[m].van \in 0 .. Len(hilo[m].datos) /\ hilo[m].visto \subseteq Numeros
        /\ copia[m] \in [size : Int, bloques : Seq(Numeros)]
        /\ leida[m] \in Archivo \union {NULL}
    /\ fin \in {"no", "sin_metadata", "sin_bloques", "tabla", "ilegible", "bloque_doble"}
    /\ errada \in BOOLEAN /\ pisado \in BOOLEAN /\ doble \in BOOLEAN /\ compartido \in BOOLEAN

\* Nobody opened a file that another handler had open, and no block went to two files.
Sano == ~doble /\ ~compartido

\* The table of open files has one entry per thread between open and close, unless some
\* thread removed another's entry. OPEN is Y exactly while a thread works on the file,
\* until one is opened twice: then the first to close it writes N under the other.
TablaFiel ==
    \A f \in ESPECIES :
        /\ ~errada => Cardinality({i \in DOMAIN abiertos : abiertos[i] = f})
                        = Cardinality(De(f, {"lee"} \union Operando \union Cerrando))
        /\ Sano => meta[f].open = (De(f, Operando) # {})

\* As long as nobody wrote a stale bitmap nor opened a file that another handler had
\* open, the blocks taken are those of the files and those being given back: none leaks,
\* none is in two files.
BitmapFiel ==
    ~pisado /\ ~doble =>
        /\ ~compartido
        /\ bitmap = (UNION {Propios(f) : f \in ESPECIES})
                    \union (UNION {ToSet(hilo[m].libera) : m \in DOMAIN hilo})
        /\ \A f, g \in ESPECIES : f # g => Propios(f) \intersect Propios(g) = {}

\* What the messages that were handled so far left of a species at a position.
Sumadas(f, l) ==
    {m \in DOMAIN hilo : m.especie = f /\ m.lugar = l /\ hilo[m].rta = 1 /\ m.tipo = "NEW"}
Atrapadas(f, l) ==
    {m \in DOMAIN hilo : m.especie = f /\ m.lugar = l /\ hilo[m].rta = 1 /\ m.tipo = "CATCH"}
Libro(f, l) ==
    FoldSet(LAMBDA m, n : m.cant + n, 0, Sumadas(f, l)) - Cardinality(Atrapadas(f, l))

\* Until a file is opened twice or two share a block, handlers find their files well
\* formed, and one nobody is writing holds exactly one record for each position that has
\* any, with the count the handled messages add up to, across the blocks and whatever
\* was shifted, cut and appended in them.
ContenidoExacto ==
    Sano =>
        /\ fin \notin {"ilegible", "bloque_doble"}
        /\ \A f \in ESPECIES :
            De(f, {"libera", "vuelcaLibre", "escribe", "vuelca"}) = {} =>
                LET s == Contenido(f)
                    hay == {l \in LUGARES : Libro(f, l) > 0} IN
                /\ \A l \in hay : \E i \in DOMAIN s :
                       IsPrefix(Registro(l, Libro(f, l)), SubSeq(s, i, Len(s)))
                /\ Len(s) = FoldSet(LAMBDA l, n : Len(Registro(l, Libro(f, l))) + n, 0, hay)

\* What the files hold, for who opens them next: a handler that is rewriting one has
\* its new record in memory, and the end of the file where it will cut it.
Vista(f) ==
    LET escriben == De(f, {"libera", "vuelcaLibre", "escribe", "vuelca"})
        h == hilo[CHOOSE m \in escriben : TRUE]
    IN IF escriben = {} THEN Contenido(f)
       ELSE Leidos(meta[f].bloques, IF h.pc \in {"libera", "vuelcaLibre"} THEN h.corte ELSE meta[f].size)
            \o h.datos
Cuentas(s) == [l \in LUGARES |-> IF Donde(s, l) = 0 THEN 0 ELSE Cantidad(s, Donde(s, l))]
Contestados ==
    [m \in {u \in DOMAIN hilo : hilo[u].rta # NULL} |->
        IF m.tipo = "GET" THEN hilo[m].vistos ELSE hilo[m].rta]

\* Until a file is opened twice or two share a block, the handlers, on files of bytes in
\* blocks, keep the counts that Mundo promises: every message takes effect at once, on
\* what the ones before it left. From there Mundo is broken and promises nothing.
Cuenta == [f \in ESPECIES |-> Cuentas(Vista(f))]
W == INSTANCE Mundo WITH cuenta <- Cuenta, atendidos <- Contestados, roto <- ~Sano
EsUnMundo == W!MundoSpec

\* Every thread ends, the ones that find their file open included, unless the process
\* dies, a file stops making sense or the table of open files lost an entry.
TodosResponden ==
    <>(fin # "no" \/ errada \/ \A m \in DOMAIN hilo : hilo[m].pc = "respondido")
=============================================================================
