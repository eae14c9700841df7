---------------------------- MODULE TallGrassProofs ----------------------------
(***************************************************************************)
(* Proofs about TallGrass, for every set of messages that arrive together, *)
(* any number of species and positions, and any size and number of blocks. *)
(***************************************************************************)
EXTENDS TallGrass, Lemas

-----------------------------------------------------------------------------
(* Where a thread may be, and what it keeps.                               *)
SinRespuesta == {"busca", "crea", "metadata", "abre", "agrega", "lee", "opera"}
Cortando == {"libera", "vuelcaLibre"}
Escribiendo == {"escribe", "vuelca"}
Pcs == SinRespuesta \union Operando \union Cerrando \union {"responde", "respondido"}

Hilo == [pc : Pcs, pos : Nat, rta : {NULL, 0, 1}, vistos : SUBSET LUGARES,
         datos : Seq(Byte), van : Nat, libera : Seq(Numeros), corte : Nat,
         visto : SUBSET Numeros, bloque : Nat]

(* What one keeps fits where it is: blocks to give back only while it cuts *)
(* its file, and a block to take that was free in the bitmap it read.      *)
HiloBien(h) ==
    /\ h.pc \in SinRespuesta => h.rta = NULL /\ h.vistos = {}
    /\ h.van <= Len(h.datos)
    /\ h.pc \in Cortando => h.van = 0
    /\ h.pc \notin Cortando => h.libera = <<>>
    /\ h.pc = "vuelcaLibre" => h.libera # <<>>
    /\ h.pc = "vuelca" => h.bloque \in Numeros \ h.visto /\ h.van < Len(h.datos)
    /\ h.pc = "saca" => h.pos > 0

(* A complete Metadata.bin of a file that was never opened twice.          *)
Metadata == [size : Nat, bloques : Seq(Numeros), open : BOOLEAN]

(* The threads are those of one scenario.                                  *)
HilosInv ==
    /\ DOMAIN hilo \in ESCENARIOS
    /\ hilo \in [DOMAIN hilo -> Hilo]
    /\ \A m \in DOMAIN hilo : HiloBien(hilo[m])

(* One thread makes the metadata of a file, and one at a time works on it, *)
(* once it is complete. Before that it is empty.                           *)
CarpetasInv ==
    /\ dir \in [ESPECIES -> {"no", "carpeta", "listo"}]
    /\ meta \in [ESPECIES -> Metadata]
    /\ \A m, u \in DOMAIN hilo :
         /\ m.especie = u.especie
         /\ \/ hilo[m].pc \in Operando /\ hilo[u].pc \in Operando
            \/ hilo[m].pc = "metadata" /\ hilo[u].pc = "metadata"
         => m = u
    /\ \A m \in DOMAIN hilo :
         /\ hilo[m].pc \in Operando => dir[m.especie] = "listo"
         /\ hilo[m].pc = "metadata" => dir[m.especie] = "carpeta"
    /\ \A f \in ESPECIES : dir[f] # "listo" => meta[f] = Vacio

(* The table of open files and OPEN.                                       *)
EnTabla == {"lee"} \union Operando \union Cerrando
Entradas ==
    /\ abiertos \in Seq(ESPECIES)
    /\ errada \in BOOLEAN
    /\ \A f \in ESPECIES : ~errada => Veces(abiertos, f) = Cardinality(De(f, EnTabla))
TablaInv == Entradas /\ \A f \in ESPECIES : meta[f].open = (De(f, Operando) # {})

-----------------------------------------------------------------------------
(* The bytes of a file, and its blocks.                                    *)

(* The block of the i-th byte of a file, and its place in it.              *)
Bloque(i) == Relativo(i - 1) + 1
Lugar(i) == ((i - 1) % BLOCK_SIZE) + 1

(* The i-th byte of the file of blocks bl on the disk d, and whether it is *)
(* there.                                                                  *)
ByteEn(d, bl, i) == d[bl[Bloque(i)]][Lugar(i)]
HayByte(d, bl, i) == Lugar(i) <= Len(d[bl[Bloque(i)]])

(* A disk of block files that hold no more than a block.                   *)
DiscoBien(d) == \A b \in Numeros : d[b] \in Seq(Byte) /\ Len(d[b]) <= BLOCK_SIZE

(* The first n bytes of the file of blocks bl.                             *)
Texto(d, bl, n) == [i \in 1 .. n |-> ByteEn(d, bl, i)]

(* The first n bytes are on the disk, and the first v of s after them.     *)
EnDisco(d, bl, n, s, v) ==
    /\ n + v <= Len(bl) * BLOCK_SIZE
    /\ \A i \in 1 .. n + v : HayByte(d, bl, i)
    /\ \A i \in 1 .. v : ByteEn(d, bl, n + i) = s[i]

(* No block is twice in a file.                                            *)
Distintos(s) == \A j, k \in 1 .. Len(s) : s[j] = s[k] => j = k

(* Who is rewriting a file, how many of its bytes will stay, what comes    *)
(* after them, and how many bytes of that are on the disk.                 *)
Escriben == Cortando \union Escribiendo
Escritor(f) == CHOOSE m \in De(f, Escriben) : TRUE
Queda(f) == IF De(f, Cortando) = {} THEN meta[f].size ELSE hilo[Escritor(f)].corte
Nuevo(f) == IF De(f, Escriben) = {} THEN <<>> ELSE hilo[Escritor(f)].datos
Van(f) == IF De(f, Escriben) = {} THEN 0 ELSE hilo[Escritor(f)].van
Todo(f) == Texto(disco, meta[f].bloques, Queda(f)) \o Nuevo(f)

-----------------------------------------------------------------------------
(* Records.                                                                *)

(* s is a list of records, one after another, of one for each position     *)
(* that is in it.                                                          *)
Bien(s) ==
    /\ s \in Seq(Byte)
    /\ \A i \in 1 .. Len(s) : s[i] \in LUGARES => RegistroEn(s, i)
    /\ \A i \in 1 .. Len(s) : i = 1 \/ s[i - 1] = FIN => s[i] \in LUGARES
    /\ \A i, k \in 1 .. Len(s) : s[i] \in LUGARES /\ s[i] = s[k] => i = k
    /\ Len(s) > 0 => s[Len(s)] = FIN

(* The threads that have their answer.                                     *)
Contestadas == {m \in DOMAIN hilo : hilo[m].rta # NULL}

(* A file has all its bytes on the disk, but for those that are being cut  *)
(* off, and those of a record that is being written as far as it goes.     *)
(* With that record it is a list of records, whose counts nobody added to  *)
(* but those who answered.                                                 *)
Entero(f) ==
    /\ meta[f].size <= Len(meta[f].bloques) * BLOCK_SIZE
    /\ De(f, Cortando) # {} => Queda(f) < meta[f].size
    /\ EnDisco(disco, meta[f].bloques, Queda(f), Nuevo(f), Van(f))
    /\ Bien(Todo(f))
Acotado(f) == \A l \in LUGARES : Cuentas(Todo(f))[l] <= 9 * Cardinality(Contestadas)
ContenidoInv == DiscoBien(disco) /\ \A f \in ESPECIES : Entero(f) /\ Acotado(f)

-----------------------------------------------------------------------------
(* Blocks.                                                                 *)

(* What is given back is not what stays.                                   *)
Devuelve(m) ==
    LET bl == meta[m.especie].bloques
        h == hilo[m] IN
    /\ Distintos(h.libera)
    /\ ToSet(h.libera) \subseteq ToSet(bl)
    /\ ToSet(h.libera) \intersect ToSet(QueQuedan(bl, h.corte)) = {}

(* No block is twice in a file nor in two.                                 *)
BloquesInv ==
    /\ \A f \in ESPECIES : Distintos(meta[f].bloques)
    /\ \A f, g \in ESPECIES : f # g => Propios(f) \intersect Propios(g) = {}
    /\ \A m \in DOMAIN hilo : hilo[m].pc \in Cortando => Devuelve(m)

(* The blocks that the bitmap has to have taken for f.                     *)
Tomados(f) ==
    Propios(f) \union UNION {ToSet(hilo[m].libera) : m \in {u \in DOMAIN hilo : u.especie = f}}
Finales == {"no", "sin_metadata", "sin_bloques", "tabla"}
MapaInv ==
    /\ bitmap \subseteq Numeros /\ pisado \in BOOLEAN /\ fin \in Finales
    /\ ~pisado =>
        /\ bitmap = UNION {Tomados(f) : f \in ESPECIES}
        /\ \A f, g \in ESPECIES : f # g => Tomados(f) \intersect Tomados(g) = {}

EnOrden == HilosInv /\ CarpetasInv /\ TablaInv /\ ContenidoInv /\ BloquesInv /\ MapaInv

(* What a handler knows of the file it has open is what its Metadata.bin   *)
(* says.                                                                   *)
Copias ==
    /\ \A m \in DOMAIN hilo : leida[m] = NULL
    /\ \A m \in DOMAIN hilo : hilo[m].pc \in Operando =>
        /\ copia[m].size = meta[m.especie].size
        /\ copia[m].bloques = meta[m.especie].bloques
        /\ hilo[m].pc = "vuelca" => ~HayBloque(m)

-----------------------------------------------------------------------------
(* What holds of every state, those after a file was opened twice too.     *)

Ficha == [size : Int, bloques : Seq(Numeros)]
DiscoDe(d) == \A b \in Numeros : d[b] \in Seq(Byte \union {NULL}) /\ Len(d[b]) <= BLOCK_SIZE
TiposInv ==
    /\ HilosInv /\ Entradas
    /\ dir \in [ESPECIES -> {"no", "carpeta", "listo"}]
    /\ meta \in [ESPECIES -> Archivo]
    /\ copia \in [DOMAIN hilo -> Ficha]
    /\ leida \in [DOMAIN hilo -> Archivo \union {NULL}]
    /\ DiscoDe(disco) /\ bitmap \subseteq Numeros
    /\ fin \in Finales \union {"ilegible", "bloque_doble"}
    /\ pisado \in BOOLEAN /\ doble \in BOOLEAN /\ compartido \in BOOLEAN

(* Two files get the same block only after one was opened twice, or from a *)
(* bitmap that was not the one in the file.                                *)
SinCompartir == ~pisado /\ ~doble => ~compartido

IInv == TiposInv /\ SinCompartir /\ (Sano => EnOrden /\ Copias)

-----------------------------------------------------------------------------
(* What a thread does with its file when nobody else has it open and no    *)
(* block is in two: its copy of the metadata is the Metadata.bin.          *)

LeeSolo(m) ==
    LET f == m.especie IN
    /\ En(m, "lee") /\ dir[f] = "listo" /\ De(f, Operando) = {}
    /\ meta' = [meta EXCEPT ![f].open = TRUE]
    /\ Sigue(m, "opera")
    /\ UNCHANGED <<dir, disco, bitmap, abiertos, fin, errada, pisado>>

BorraSolo(m, i, c) ==
    LET f == m.especie
        s == Contenido(f)
        bl == meta[f].bloques
        tam == Hasta(s, i) - i + 1
        corte == Len(s) - tam IN
    /\ disco' = Cortado(Grabado(bl, i - 1, SubSeq(s, i + tam, Len(s))), bl, corte)
    /\ hilo' = [hilo EXCEPT ![m] =
          [@ EXCEPT !.pc = "libera", !.rta = 1, !.corte = corte, !.van = 0,
                    !.libera = ALiberar(bl, corte),
                    !.datos = IF c > 0 THEN Registro(m.lugar, c) ELSE <<>>]]

NewSolo(m) ==
    LET s == Contenido(m.especie)
        i == Donde(s, m.lugar) IN
    /\ m.tipo = "NEW" /\ En(m, "opera")
    /\ IF i = 0
       THEN /\ hilo' = [hilo EXCEPT ![m] = [@ EXCEPT !.pc = "escribe", !.rta = 1, !.van = 0,
                                                     !.datos = Registro(m.lugar, m.cant)]]
            /\ UNCHANGED disco
       ELSE BorraSolo(m, i, Cantidad(s, i) + m.cant)
    /\ UNCHANGED <<dir, meta, bitmap, abiertos, fin, errada, pisado>>

CatchSolo(m) ==
    LET s == Contenido(m.especie)
        i == Donde(s, m.lugar) IN
    /\ m.tipo = "CATCH" /\ En(m, "opera")
    /\ IF i = 0
       THEN hilo' = [hilo EXCEPT ![m].pc = "cierra", ![m].rta = 0] /\ UNCHANGED disco
       ELSE BorraSolo(m, i, Cantidad(s, i) - 1)
    /\ UNCHANGED <<dir, meta, bitmap, abiertos, fin, errada, pisado>>

GetSolo(m) ==
    /\ m.tipo = "GET" /\ En(m, "opera")
    /\ hilo' = [hilo EXCEPT ![m] = [@ EXCEPT !.pc = "cierra", !.rta = 1,
                   !.vistos = {l \in LUGARES : Donde(Contenido(m.especie), l) # 0}]]
    /\ UNCHANGED <<dir, meta, disco, bitmap, abiertos, fin, errada, pisado>>

RecortaSolo(m) ==
    /\ En(m, "libera") /\ hilo[m].libera = <<>>
    /\ meta' = [meta EXCEPT ![m.especie] =
                   [@ EXCEPT !.size = hilo[m].corte,
                             !.bloques = QueQuedan(meta[m.especie].bloques, hilo[m].corte)]]
    /\ Sigue(m, IF hilo[m].datos = <<>> THEN "cierra" ELSE "escribe")
    /\ UNCHANGED <<dir, disco, bitmap, abiertos, fin, errada, pisado>>

PunteroSolo(m) == meta[m.especie].size + hilo[m].van
HayBloqueSolo(m) == Relativo(PunteroSolo(m)) < Len(meta[m.especie].bloques)

EscribeSolo(m) ==
    LET lugar == BLOCK_SIZE - (PunteroSolo(m) % BLOCK_SIZE)
        n == IF lugar < Faltan(m) THEN lugar ELSE Faltan(m) IN
    /\ En(m, "escribe") /\ Faltan(m) > 0 /\ HayBloqueSolo(m)
    /\ disco' = Grabado(meta[m.especie].bloques, PunteroSolo(m),
                        SubSeq(hilo[m].datos, hilo[m].van + 1, hilo[m].van + n))
    /\ hilo' = [hilo EXCEPT ![m].van = @ + n]
    /\ UNCHANGED <<dir, meta, bitmap, abiertos, fin, errada, pisado>>

PideBloqueSolo(m) ==
    /\ En(m, "escribe") /\ Faltan(m) > 0 /\ ~HayBloqueSolo(m)
    /\ IF bitmap = Numeros THEN Termina("sin_bloques")
       ELSE /\ hilo' = [hilo EXCEPT ![m] = [@ EXCEPT !.pc = "vuelca", !.visto = bitmap,
                            !.bloque = CHOOSE b \in Numeros \ bitmap :
                                          \A o \in Numeros \ bitmap : b <= o]]
            /\ UNCHANGED <<dir, meta, disco, bitmap, abiertos, fin, errada, pisado>>

VuelcaSolo(m) ==
    LET nuevo == hilo[m].bloque IN
    /\ En(m, "vuelca")
    /\ bitmap' = hilo[m].visto \union {nuevo}
    /\ pisado' = (pisado \/ bitmap # hilo[m].visto)
    /\ meta' = [meta EXCEPT ![m.especie].bloques = Append(@, nuevo)]
    /\ \A f \in ESPECIES : nuevo \notin Propios(f)
    /\ Sigue(m, "escribe")
    /\ UNCHANGED <<dir, disco, abiertos, fin, errada>>

CreceSolo(m) ==
    /\ En(m, "escribe") /\ Faltan(m) = 0
    /\ meta' = [meta EXCEPT ![m.especie].size = @ + Len(hilo[m].datos)]
    /\ Sigue(m, "cierra")
    /\ UNCHANGED <<dir, disco, bitmap, abiertos, fin, errada, pisado>>

CierraSolo(m) ==
    /\ En(m, "cierra")
    /\ meta' = [meta EXCEPT ![m.especie].open = FALSE]
    /\ Sigue(m, "buscaPos")
    /\ UNCHANGED <<dir, disco, bitmap, abiertos, fin, errada, pisado>>

-----------------------------------------------------------------------------
(* What the assumptions on the constants say.                              *)
LEMMA Constantes ==
    /\ BLOCK_SIZE \in Nat /\ BLOCK_SIZE > 0 /\ Numeros \subseteq Nat
    /\ FIN \notin LUGARES /\ FIN \notin 0 .. 9
    /\ \A l \in LUGARES : l \notin 0 .. 9
BY TallGrassAssumption DEF Numeros

(* What is at the places of a record.                                      *)
LEMMA FinDelRegistro ==
    ASSUME NEW s \in Seq(Byte), NEW i \in 1 .. Len(s), s[i] \in LUGARES, RegistroEn(s, i)
    PROVE  /\ Hasta(s, i) = IF s[i + 2] = FIN THEN i + 2 ELSE i + 3
           /\ Hasta(s, i) <= Len(s) /\ s[Hasta(s, i)] = FIN
           /\ \A k \in i + 1 .. Hasta(s, i) : s[k] \notin LUGARES
           /\ Cantidad(s, i) = IF s[i + 2] = FIN THEN s[i + 1] ELSE 10 * s[i + 1] + s[i + 2]
           /\ Cantidad(s, i) \in 1 .. 99
<1> DEFINE j == IF s[i + 2] = FIN THEN i + 2 ELSE i + 3
           Es(k) == k \in i .. Len(s) /\ s[k] = FIN /\ \A x \in i .. k - 1 : s[x] # FIN
<1>1. Len(s) \in Nat /\ i \in Nat /\ i >= 1
    BY LenProperties
<1>2. /\ s[i] # FIN /\ s[i + 1] \in 1 .. 9 /\ s[i + 1] # FIN
      /\ s[i + 2] # FIN => s[i + 2] \in 0 .. 9 /\ s[i + 3] = FIN /\ i + 3 <= Len(s)
      /\ s[i + 2] = FIN => i + 2 <= Len(s)
    BY <1>1, Constantes DEF RegistroEn
<1>3. Es(j)
  <2>1. CASE s[i + 2] = FIN
    <3>1. \A x \in i .. i + 1 : x = i \/ x = i + 1
        BY <1>1
    <3>2. QED
        BY <1>1, <1>2, <2>1, <3>1
  <2>2. CASE s[i + 2] # FIN
    <3>1. \A x \in i .. i + 2 : x = i \/ x = i + 1 \/ x = i + 2
        BY <1>1
    <3>2. QED
        BY <1>1, <1>2, <2>2, <3>1
  <2>3. QED
      BY <2>1, <2>2
<1>4. \A k : Es(k) => k = j
  <2>1. j \in Int
      BY <1>1
  <2>2. ASSUME NEW k, Es(k) PROVE k = j
    <3>1. k \in Int
        BY <1>1, <2>2
    <3>2. ~(k < j)
        BY <1>1, <1>3, <2>1, <2>2, <3>1
    <3>3. ~(j < k)
        BY <1>1, <1>3, <2>1, <2>2, <3>1
    <3>4. QED
        BY <2>1, <3>1, <3>2, <3>3
  <2>3. QED
      BY <2>2
<1>5. Hasta(s, i) = j
  <2>1. Hasta(s, i) = CHOOSE k : Es(k)
      BY DEF Hasta
  <2> HIDE DEF Es, j
  <2>2. QED
      BY <1>3, <1>4, <2>1
<1>6. \A k \in i + 1 .. j : s[k] \notin LUGARES
  <2>1. CASE s[i + 2] = FIN
    <3>1. \A k \in i + 1 .. i + 2 : k = i + 1 \/ k = i + 2
        BY <1>1
    <3>2. QED
        BY <1>2, <2>1, <3>1, Constantes, SMTT(30)
  <2>2. CASE s[i + 2] # FIN
    <3>1. \A k \in i + 1 .. i + 3 : k = i + 1 \/ k = i + 2 \/ k = i + 3
        BY <1>1
    <3>2. s[i + 1] \notin LUGARES /\ s[i + 2] \notin LUGARES /\ s[i + 3] \notin LUGARES
      <4>1. s[i + 1] \in 0 .. 9 /\ s[i + 2] \in 0 .. 9 /\ s[i + 3] = FIN
          BY <1>2, <2>2
      <4>2. QED
          BY <4>1, Constantes
    <3>3. j = i + 3
        BY <2>2
    <3>4. QED
        BY <3>1, <3>2, <3>3
  <2>3. QED
      BY <2>1, <2>2
<1>7. Cantidad(s, i) = IF s[i + 2] = FIN THEN s[i + 1] ELSE 10 * s[i + 1] + s[i + 2]
    BY <1>1, <1>5 DEF Cantidad
<1>8. Cantidad(s, i) \in 1 .. 99
  <2>1. CASE s[i + 2] = FIN
      BY <1>2, <1>7, <2>1
  <2>2. CASE s[i + 2] # FIN
    <3>1. \A d \in 1 .. 9, u \in 0 .. 9 : 10 * d + u \in 1 .. 99
        OBVIOUS
    <3>2. QED
        BY <1>2, <1>7, <2>2, <3>1
  <2>3. QED
      BY <2>1, <2>2
<1>9. j <= Len(s) /\ s[j] = FIN
    BY <1>1, <1>3
<1>10. QED
    BY <1>5, <1>6, <1>7, <1>8, <1>9

(* What a well formed file has of a position.                              *)
LEMMA CuentaDe ==
    ASSUME NEW s, Bien(s), NEW l \in LUGARES
    PROVE  /\ (\A i \in 1 .. Len(s) : s[i] # l) => Donde(s, l) = 0 /\ Cuentas(s)[l] = 0
           /\ \A i \in 1 .. Len(s) : s[i] = l =>
                Donde(s, l) = i /\ Cuentas(s)[l] = Cantidad(s, i)
<1>1. DOMAIN s = 1 .. Len(s) /\ Len(s) \in Nat
    BY LenProperties DEF Bien
<1>2. ASSUME \A i \in 1 .. Len(s) : s[i] # l PROVE Donde(s, l) = 0
    BY <1>1, <1>2 DEF Donde
<1>3. ASSUME NEW i \in 1 .. Len(s), s[i] = l PROVE Donde(s, l) = i /\ i # 0
  <2> DEFINE Primera(k) == s[k] = l /\ \A j \in 1 .. k - 1 : s[j] # l
  <2>1. \A k \in 1 .. Len(s) : s[k] = l => k = i
      BY <1>1, <1>3 DEF Bien
  <2>2. Donde(s, l) = CHOOSE k \in DOMAIN s : Primera(k)
      BY <1>1, <1>3, Zenon DEF Donde
  <2>3. \A j \in 1 .. i - 1 : s[j] # l
      BY <1>1, <2>1
  <2>4. Primera(i) /\ \A k \in DOMAIN s : Primera(k) => k = i
      BY <1>1, <1>3, <2>1, <2>3
  <2> HIDE DEF Primera
  <2>5. QED
      BY <1>1, <1>3, <2>2, <2>4
<1>4. Cuentas(s)[l] = IF Donde(s, l) = 0 THEN 0 ELSE Cantidad(s, Donde(s, l))
    BY DEF Cuentas
<1>5. QED
    BY <1>2, <1>3, <1>4

(* t is s without the w elements from the i-th on.                         *)
SinTramo(t, s, i, w) ==
    /\ t \in Seq(Byte) /\ Len(t) = Len(s) - w
    /\ \A k \in 1 .. i - 1 : t[k] = s[k]
    /\ \A k \in i .. Len(t) : t[k] = s[k + w]

(* Where the k-th element of t was in s.                                   *)
Antes(k, i, w) == IF k < i THEN k ELSE k + w

(* u has c pokemons at l, and at the other positions those of t.           *)
Cambia(t, u, l, c) ==
    \A x \in LUGARES : Cuentas(u)[x] = IF x = l THEN c ELSE Cuentas(t)[x]

(* Without one of its records a file goes on being a list of records.      *)
LEMMA SinElRegistro ==
    ASSUME NEW s, Bien(s), NEW i \in 1 .. Len(s), s[i] \in LUGARES,
           NEW t, SinTramo(t, s, i, Hasta(s, i) - i + 1)
    PROVE  /\ Bien(t)
           /\ \A k \in 1 .. Len(t) : t[k] # s[i]
           /\ Cambia(s, t, s[i], 0)
<1> DEFINE n == Len(s)
           j == Hasta(s, i)
           w == j - i + 1
           A(k) == Antes(k, i, w)
<1>1. /\ s \in Seq(Byte) /\ n \in Nat /\ i \in 1 .. n
      /\ RegistroEn(s, i) /\ s[n] = FIN
    BY LenProperties DEF Bien
<1>2. /\ j \in {i + 2, i + 3} /\ j <= n /\ s[j] = FIN
      /\ \A k \in i + 1 .. j : s[k] \notin LUGARES
    BY <1>1, FinDelRegistro
<1>3. w \in Nat /\ w >= 3 /\ i + w = j + 1 /\ i + w - 1 <= n
    BY <1>1, <1>2
<1>4. /\ t \in Seq(Byte) /\ Len(t) = n - w
      /\ \A k \in 1 .. i - 1 : t[k] = s[k]
      /\ \A k \in i .. n - w : t[k] = s[k + w]
  <2>1. /\ t \in Seq(Byte) /\ Len(t) = n - w
        /\ \A k \in 1 .. i - 1 : t[k] = s[k]
        /\ \A k \in i .. Len(t) : t[k] = s[k + w]
      BY DEF SinTramo
  <2>2. QED
      BY <2>1
<1> HIDE DEF j, w
<1>5. ASSUME NEW k \in 1 .. n - w
      PROVE  /\ t[k] = s[A(k)] /\ A(k) \in 1 .. n /\ A(k) \notin i .. j
             /\ A(k) <= n
  <2>1. CASE k < i
      BY <1>1, <1>2, <1>3, <1>4, <2>1 DEF Antes
  <2>2. CASE ~(k < i)
      BY <1>1, <1>2, <1>3, <1>4, <2>2 DEF Antes
  <2>3. QED
      BY <2>1, <2>2
<1>6. ASSUME NEW k \in 1 .. n - w, NEW u \in 1 .. n - w, A(k) = A(u) PROVE k = u
    BY <1>1, <1>3, <1>6 DEF Antes
<1>7. ASSUME NEW a \in 1 .. n, a \notin i .. j
      PROVE  \E k \in 1 .. n - w : A(k) = a
  <2>1. CASE a < i
    <3>1. a \in 1 .. n - w /\ A(a) = a
        BY <1>1, <1>3, <2>1 DEF Antes
    <3>2. QED
        BY <3>1
  <2>2. CASE a > j
    <3>1. a - w \in 1 .. n - w /\ A(a - w) = a
        BY <1>1, <1>2, <1>3, <2>2 DEF Antes
    <3>2. QED
        BY <3>1
  <2>3. QED
      BY <1>1, <1>2, <1>7, <2>1, <2>2
<1>8. ASSUME NEW k \in 1 .. n - w, t[k] \in LUGARES
      PROVE  RegistroEn(t, k) /\ Cantidad(t, k) = Cantidad(s, A(k))
  <2> DEFINE a == A(k)
  <2>1. a \in 1 .. n /\ a \notin i .. j /\ s[a] = t[k] /\ RegistroEn(s, a) /\ a \in Nat
      BY <1>1, <1>5, <1>8 DEF Bien
  <2>2. \A x \in a + 1 .. Hasta(s, a) : s[x] \notin LUGARES
      BY <1>1, <1>8, <2>1, FinDelRegistro
  <2>3. /\ Hasta(s, a) \in {a + 2, a + 3} /\ Hasta(s, a) <= n
        /\ Hasta(s, a) = a + 2 <=> s[a + 2] = FIN
      BY <1>1, <1>8, <2>1, FinDelRegistro
  <2>4. a < i => Hasta(s, a) < i
      BY <1>1, <2>1, <2>2, <2>3
  <2>5. \A x \in 0 .. Hasta(s, a) - a : k + x \in 1 .. n - w /\ t[k + x] = s[a + x]
    <3>1. SUFFICES ASSUME NEW x \in 0 .. Hasta(s, a) - a
                   PROVE  k + x \in 1 .. n - w /\ A(k + x) = a + x
        BY <1>5
    <3>2. CASE k < i
        BY <1>1, <1>2, <1>3, <2>1, <2>3, <2>4, <3>2 DEF Antes
    <3>3. CASE ~(k < i)
        BY <1>1, <1>2, <1>3, <2>1, <2>3, <3>3 DEF Antes
    <3>4. QED
        BY <3>2, <3>3
  <2>6. k = 1 \/ t[k - 1] = FIN
    <3>1. CASE k < i
      <4>1. a = k
          BY <3>1 DEF Antes
      <4>2. k # 1 => k - 1 \in 1 .. n - w /\ A(k - 1) = k - 1
          BY <1>1, <1>3, <3>1 DEF Antes
      <4>3. QED
          BY <1>5, <2>1, <4>1, <4>2 DEF RegistroEn
    <3>2. CASE k = i
      <4>1. i = 1 \/ s[i - 1] = FIN
          BY <1>1 DEF RegistroEn
      <4>2. i # 1 => i - 1 \in 1 .. n - w /\ A(i - 1) = i - 1
          BY <1>1, <1>3, <3>2 DEF Antes
      <4>3. QED
          BY <1>5, <3>2, <4>1, <4>2
    <3>3. CASE k > i
      <4>1. k - 1 \in 1 .. n - w /\ A(k - 1) = a - 1 /\ a # 1
          BY <1>1, <1>3, <3>3 DEF Antes
      <4>2. QED
          BY <1>5, <2>1, <4>1 DEF RegistroEn
    <3>4. QED
        BY <1>1, <3>1, <3>2, <3>3
  <2>7. /\ t[k + 1] = s[a + 1] /\ t[k + 2] = s[a + 2] /\ k + 2 <= n - w
        /\ Hasta(s, a) = a + 3 => t[k + 3] = s[a + 3] /\ k + 3 <= n - w
    <3>1. 1 \in 0 .. Hasta(s, a) - a /\ 2 \in 0 .. Hasta(s, a) - a
        BY <2>1, <2>3
    <3>2. Hasta(s, a) = a + 3 => 3 \in 0 .. Hasta(s, a) - a
        BY <2>1, <2>3
    <3>3. QED
        BY <1>1, <1>3, <2>5, <3>1, <3>2
  <2>8. RegistroEn(t, k)
      BY <1>4, <2>1, <2>3, <2>6, <2>7 DEF RegistroEn
  <2>9. Cantidad(t, k) = IF t[k + 2] = FIN THEN t[k + 1] ELSE 10 * t[k + 1] + t[k + 2]
      BY <1>4, <1>8, <2>8, FinDelRegistro
  <2>10. Cantidad(s, a) = IF s[a + 2] = FIN THEN s[a + 1] ELSE 10 * s[a + 1] + s[a + 2]
      BY <1>1, <1>8, <2>1, FinDelRegistro
  <2>11. QED
      BY <2>7, <2>8, <2>9, <2>10
<1>9. ASSUME NEW k \in 1 .. n - w, NEW u \in 1 .. n - w, t[k] \in LUGARES, t[k] = t[u]
      PROVE  k = u
  <2>1. A(k) = A(u)
      BY <1>5, <1>9 DEF Bien
  <2>2. QED
      BY <1>6, <2>1
<1>10. ASSUME n - w > 0 PROVE t[n - w] = FIN
  <2>1. n - w \in 1 .. n - w
      BY <1>1, <1>3, <1>10
  <2>2. CASE n - w < i
    <3>1. A(n - w) = i - 1 /\ i # 1
        BY <1>1, <1>2, <1>3, <1>10, <2>2 DEF Antes
    <3>2. QED
        BY <1>1, <1>5, <2>1, <3>1 DEF RegistroEn
  <2>3. CASE ~(n - w < i)
    <3>1. A(n - w) = n
        BY <1>1, <1>3, <2>3 DEF Antes
    <3>2. QED
        BY <1>1, <1>5, <2>1, <3>1
  <2>4. QED
      BY <2>2, <2>3
<1>10a. ASSUME NEW k \in 1 .. n - w, k = 1 \/ t[k - 1] = FIN
       PROVE  t[k] \in LUGARES
  <2>1. t[k] = s[A(k)] /\ A(k) \in 1 .. n
      BY <1>5
  <2>2. A(k) = 1 \/ s[A(k) - 1] = FIN
    <3>1. CASE k < i
      <4>1. A(k) = k /\ (k # 1 => k - 1 \in 1 .. n - w /\ A(k - 1) = k - 1)
          BY <1>1, <1>3, <3>1 DEF Antes
      <4>2. QED
          BY <1>5, <1>10a, <4>1
    <3>2. CASE k = i
      <4>1. A(k) - 1 = j
          BY <1>1, <1>2, <1>3, <3>2 DEF Antes
      <4>2. QED
          BY <1>2, <4>1
    <3>3. CASE k > i
      <4>1. k # 1 /\ k - 1 \in 1 .. n - w /\ A(k - 1) = A(k) - 1
          BY <1>1, <1>3, <3>3 DEF Antes
      <4>2. QED
          BY <1>5, <1>10a, <4>1
    <3>4. QED
        BY <1>1, <3>1, <3>2, <3>3
  <2>3. QED
      BY <2>1, <2>2 DEF Bien
<1>11. Bien(t)
    BY <1>1, <1>3, <1>4, <1>8, <1>9, <1>10, <1>10a DEF Bien
<1>12. ASSUME NEW k \in 1 .. n - w, t[k] = s[i] PROVE FALSE
  <2>1. A(k) = i
      BY <1>1, <1>5, <1>12 DEF Bien
  <2>2. QED
      BY <1>1, <1>2, <1>5, <2>1
<1>13. ASSUME NEW l \in LUGARES, l # s[i] PROVE Cuentas(t)[l] = Cuentas(s)[l]
  <2>1. CASE \A k \in 1 .. n - w : t[k] # l
    <3>1. ASSUME NEW a \in 1 .. n, s[a] = l PROVE FALSE
      <4>1. a \notin i .. j
          BY <1>1, <1>2, <1>13, <3>1
      <4>2. QED
          BY <1>5, <1>7, <2>1, <3>1, <4>1
    <3>2. QED
        BY <1>4, <1>11, <2>1, <3>1, CuentaDe
  <2>2. ASSUME NEW k \in 1 .. n - w, t[k] = l PROVE Cuentas(t)[l] = Cuentas(s)[l]
    <3>1. s[A(k)] = l /\ A(k) \in 1 .. n
        BY <1>5, <2>2
    <3>2. Cuentas(t)[l] = Cantidad(t, k)
        BY <1>4, <1>11, <2>2, CuentaDe
    <3>3. Cuentas(s)[l] = Cantidad(s, A(k))
        BY <3>1, CuentaDe
    <3>4. QED
        BY <1>8, <2>2, <3>2, <3>3
  <2>3. QED
      BY <2>1, <2>2
<1>14. Cuentas(t)[s[i]] = 0
    BY <1>4, <1>11, <1>12, CuentaDe
<1>15. Cambia(s, t, s[i], 0)
    BY <1>13, <1>14 DEF Cambia
<1>16. QED
    BY <1>4, <1>11, <1>12, <1>15

(* Three and four elements, one after the other.                           *)
LEMMA TresBytes ==
    ASSUME NEW S, NEW a \in S, NEW b \in S, NEW c \in S
    PROVE  LET r == <<a>> \o <<b>> \o <<c>> IN
           r \in Seq(S) /\ Len(r) = 3 /\ r[1] = a /\ r[2] = b /\ r[3] = c
OBVIOUS

(* The same of four.                                                       *)
LEMMA CuatroBytes ==
    ASSUME NEW S, NEW a \in S, NEW b \in S, NEW c \in S, NEW d \in S
    PROVE  LET r == <<a>> \o <<b, c>> \o <<d>> IN
           /\ r \in Seq(S) /\ Len(r) = 4
           /\ r[1] = a /\ r[2] = b /\ r[3] = c /\ r[4] = d
OBVIOUS

(* The bytes of a record.                                                  *)
LEMMA BytesDeRegistro ==
    ASSUME NEW l \in LUGARES, NEW c \in 1 .. 99
    PROVE  LET r == Registro(l, c) IN
           /\ r \in Seq(Byte) /\ Len(r) \in Nat
           /\ r[1] = l /\ r[2] \in 1 .. 9
           /\ \/ Len(r) = 3 /\ r[3] = FIN /\ r[2] = c
              \/ /\ Len(r) = 4 /\ r[3] \in 0 .. 9 /\ r[4] = FIN
                 /\ 10 * r[2] + r[3] = c
<1>1. CASE c < 10
  <2>1. Registro(l, c) = <<l>> \o <<c>> \o <<FIN>>
      BY <1>1 DEF Registro, Digitos
  <2>2. l \in Byte /\ c \in Byte /\ FIN \in Byte /\ c \in 1 .. 9
      BY <1>1 DEF Byte
  <2>3. QED
      BY <1>1, <2>1, <2>2, TresBytes
<1>2. CASE ~(c < 10)
  <2> DEFINE d == c \div 10
             e == c % 10
  <2>1. d \in 1 .. 9 /\ e \in 0 .. 9 /\ 10 * d + e = c
      BY <1>2
  <2>2. Registro(l, c) = <<l>> \o <<d, e>> \o <<FIN>>
      BY <1>2 DEF Registro, Digitos
  <2> HIDE DEF d, e
  <2>3. l \in Byte /\ d \in Byte /\ e \in Byte /\ FIN \in Byte
      BY <2>1 DEF Byte
  <2>4. QED
      BY <2>1, <2>2, <2>3, CuatroBytes
<1>3. QED
    BY <1>1, <1>2

(* With one more record at the end, of a position that had none, too.      *)
LEMMA ConOtroRegistro ==
    ASSUME NEW t, Bien(t), NEW l \in LUGARES, \A k \in 1 .. Len(t) : t[k] # l,
           NEW c \in 1 .. 99
    PROVE  Bien(t \o Registro(l, c)) /\ Cambia(t, t \o Registro(l, c), l, c)
<1> DEFINE r == Registro(l, c)
           u == t \o r
           n == Len(t)
           q == Len(r)
<1>1. /\ r \in Seq(Byte) /\ r[1] = l /\ r[2] \in 1 .. 9
      /\ \/ q = 3 /\ r[3] = FIN /\ r[2] = c
         \/ q = 4 /\ r[3] \in 0 .. 9 /\ r[4] = FIN /\ 10 * r[2] + r[3] = c
    BY BytesDeRegistro
<1>2. t \in Seq(Byte) /\ n \in Nat /\ (n > 0 => t[n] = FIN)
    BY LenProperties DEF Bien
<1> HIDE DEF r
<1>3. /\ u \in Seq(Byte) /\ Len(u) = n + q
      /\ \A k \in 1 .. n + q : u[k] = IF k <= n THEN t[k] ELSE r[k - n]
    BY <1>1, <1>2, ConcatProperties
<1> HIDE DEF u
<1>4. \A k \in 1 .. n : u[k] = t[k]
    BY <1>1, <1>2, <1>3
<1>5. /\ u[n + 1] = l /\ u[n + 2] = r[2] /\ u[n + 3] = r[3]
      /\ q = 4 => u[n + 4] = r[4]
  <2>1. \A y \in 1 .. q : u[n + y] = r[y]
    <3>1. \A y \in 1 .. q : n + y \in 1 .. n + q /\ ~(n + y <= n) /\ n + y - n = y
        BY <1>1, <1>2
    <3>2. QED
        BY <1>3, <3>1
  <2>2. QED
      BY <1>1, <2>1
<1>6. ASSUME NEW k \in 1 .. n + q, u[k] \in LUGARES
      PROVE  k \in 1 .. n + 1
  <2>1. \A x \in 1 .. q : x = 1 \/ r[x] \notin LUGARES
    <3>1. CASE q = 3
      <4>1. \A x \in 1 .. 3 : x = 1 \/ x = 2 \/ x = 3
          OBVIOUS
      <4>2. QED
          BY <1>1, <3>1, <4>1, Constantes
    <3>2. CASE q = 4
      <4>1. \A x \in 1 .. 4 : x = 1 \/ x = 2 \/ x = 3 \/ x = 4
          OBVIOUS
      <4>2. QED
          BY <1>1, <3>2, <4>1, Constantes
    <3>3. QED
        BY <1>1, <3>1, <3>2
  <2>2. k > n => k - n \in 1 .. q /\ u[k] = r[k - n]
      BY <1>1, <1>2, <1>3
  <2>3. QED
      BY <1>1, <1>2, <1>6, <2>1, <2>2
<1>7. /\ RegistroEn(u, n + 1) /\ Cantidad(u, n + 1) = c /\ n + 1 \in 1 .. n + q
  <2>1. n + 1 = 1 \/ u[n + 1 - 1] = FIN
      BY <1>2, <1>4
  <2>2. u[n + 1 + 1] = r[2] /\ u[n + 1 + 2] = r[3] /\ u[n + 1 + 3] = u[n + 4]
      BY <1>2, <1>5
  <2>3. RegistroEn(u, n + 1)
    <3>1. n + 1 + 1 = n + 2 /\ n + 1 + 2 = n + 3 /\ n + 1 + 3 = n + 4
        BY <1>2
    <3>2. u[n + 1 + 1] \in 1 .. 9
        BY <1>1, <2>2
    <3>3. CASE q = 3
      <4>1. n + 1 + 2 <= Len(u)
          BY <1>2, <1>3, <3>3
      <4>2. u[n + 1 + 2] = FIN
          BY <1>1, <2>2, <3>3
      <4>3. QED
          BY <2>1, <3>2, <4>1, <4>2 DEF RegistroEn
    <3>4. CASE q = 4
      <4>1. n + 1 + 3 <= Len(u)
          BY <1>2, <1>3, <3>4
      <4>2. u[n + 1 + 2] \in 0 .. 9 /\ u[n + 1 + 3] = FIN
          BY <1>1, <1>5, <2>2, <3>4
      <4>3. QED
          BY <2>1, <3>2, <4>1, <4>2 DEF RegistroEn
    <3>5. QED
        BY <1>1, <3>3, <3>4
  <2>4. n + 1 \in 1 .. n + q
      BY <1>1, <1>2
  <2>5. Cantidad(u, n + 1) = IF u[n + 1 + 2] = FIN THEN u[n + 1 + 1]
                             ELSE 10 * u[n + 1 + 1] + u[n + 1 + 2]
      BY <1>3, <1>5, <2>3, <2>4, FinDelRegistro
  <2>6. r[3] = FIN <=> q = 3
      BY <1>1, Constantes
  <2>7. QED
      BY <1>1, <2>2, <2>3, <2>4, <2>5, <2>6
<1>8. ASSUME NEW k \in 1 .. n, t[k] \in LUGARES
      PROVE  RegistroEn(u, k) /\ Cantidad(u, k) = Cantidad(t, k) /\ k \in 1 .. n + q
  <2>1. RegistroEn(t, k)
      BY <1>8 DEF Bien
  <2>2. k \in 1 .. n + q
      BY <1>1, <1>2
  <2>3. /\ k # 1 => u[k - 1] = t[k - 1]
        /\ k + 2 <= n /\ u[k + 1] = t[k + 1] /\ u[k + 2] = t[k + 2]
        /\ k + 3 <= n => u[k + 3] = t[k + 3]
      BY <1>2, <1>4, <2>1 DEF RegistroEn
  <2>4. RegistroEn(u, k)
      BY <1>1, <1>2, <1>3, <2>1, <2>3 DEF RegistroEn
  <2>5. Cantidad(u, k) = IF u[k + 2] = FIN THEN u[k + 1] ELSE 10 * u[k + 1] + u[k + 2]
      BY <1>3, <1>4, <1>8, <2>2, <2>4, FinDelRegistro
  <2>6. Cantidad(t, k) = IF t[k + 2] = FIN THEN t[k + 1] ELSE 10 * t[k + 1] + t[k + 2]
      BY <1>2, <1>8, <2>1, FinDelRegistro
  <2>7. QED
      BY <2>2, <2>3, <2>4, <2>5, <2>6
<1>9. ASSUME NEW k \in 1 .. n + q, u[k] \in LUGARES
      PROVE  /\ RegistroEn(u, k)
             /\ k = n + 1 \/ (k \in 1 .. n /\ t[k] = u[k])
    BY <1>2, <1>4, <1>6, <1>7, <1>8, <1>9
<1>10. ASSUME NEW j \in 1 .. n + q, NEW k \in 1 .. n + q, u[j] \in LUGARES, u[j] = u[k]
       PROVE  j = k
    BY <1>5, <1>9, <1>10 DEF Bien
<1>11. n + q > 0 /\ u[n + q] = FIN
  <2>1. CASE q = 3
      BY <1>1, <1>2, <1>5, <2>1, Constantes
  <2>2. CASE q = 4
      BY <1>1, <1>2, <1>5, <2>2
  <2>3. QED
      BY <1>1, <2>1, <2>2
<1>10a. ASSUME NEW k \in 1 .. n + q, k = 1 \/ u[k - 1] = FIN
       PROVE  u[k] \in LUGARES
  <2>1. CASE k <= n
    <3>1. k \in 1 .. n /\ u[k] = t[k] /\ (k # 1 => u[k - 1] = t[k - 1])
        BY <1>2, <1>4, <2>1
    <3>2. QED
        BY <1>10a, <3>1 DEF Bien
  <2>2. CASE k = n + 1
      BY <1>5, <2>2
  <2>3. CASE k > n + 1
    <3>1. k - 1 \in {n + 1, n + 2, n + 3} /\ k # 1 /\ (k - 1 = n + 3 => q = 4)
      <4>1. q \in {3, 4}
          BY <1>1
      <4>2. n \in Nat /\ k \in Int /\ k <= n + q
          BY <1>2, <4>1
      <4>3. \A x, y, z \in Int :
              x > y + 1 /\ y >= 0 /\ (z = 3 \/ z = 4) /\ x <= y + z =>
              /\ x # 1 /\ (x - 1 = y + 3 => z = 4)
              /\ x - 1 = y + 1 \/ x - 1 = y + 2 \/ x - 1 = y + 3
          OBVIOUS
      <4>4. n \in Int /\ n >= 0 /\ q \in Int /\ (q = 3 \/ q = 4)
          BY <1>1, <1>2
      <4> HIDE DEF n, q
      <4>5. /\ k # 1 /\ (k - 1 = n + 3 => q = 4)
            /\ k - 1 = n + 1 \/ k - 1 = n + 2 \/ k - 1 = n + 3
          BY ONLY <2>3, <4>2, <4>3, <4>4
      <4>6. QED
          BY <4>5
    <3>2. r[1] # FIN /\ r[2] # FIN /\ (q = 4 => r[3] # FIN)
        BY <1>1, Constantes, SMTT(30)
    <3>3. QED
        BY <1>1, <1>5, <1>10a, <3>1, <3>2
  <2>4. QED
      BY <1>2, <2>1, <2>2, <2>3
<1>12. Bien(u)
    BY <1>3, <1>9, <1>10, <1>11, <1>10a DEF Bien
<1>13. Cuentas(u)[l] = c
    BY <1>3, <1>5, <1>7, <1>12, CuentaDe
<1>14. ASSUME NEW x \in LUGARES, x # l PROVE Cuentas(u)[x] = Cuentas(t)[x]
  <2>1. ASSUME NEW k \in 1 .. n, t[k] = x PROVE Cuentas(u)[x] = Cuentas(t)[x]
    <3>1. Cuentas(t)[x] = Cantidad(t, k)
        BY <2>1, CuentaDe
    <3>2. u[k] = x /\ k \in 1 .. Len(u)
        BY <1>3, <1>4, <1>8, <2>1
    <3>3. Cuentas(u)[x] = Cantidad(u, k)
        BY <1>12, <3>2, CuentaDe
    <3>4. QED
        BY <1>8, <2>1, <3>1, <3>3
  <2>2. CASE \A k \in 1 .. n : t[k] # x
    <3>1. \A k \in 1 .. Len(u) : u[k] # x
        BY <1>3, <1>5, <1>9, <1>14, <2>2
    <3>2. QED
        BY <1>12, <2>2, <3>1, CuentaDe
  <2>3. QED
      BY <2>1, <2>2
<1>15. Cambia(t, u, l, c)
    BY <1>13, <1>14 DEF Cambia
<1>16. QED
    BY <1>12, <1>15 DEF u, r

-----------------------------------------------------------------------------
(* Bytes and blocks.                                                       *)

(* The block and the place in it of a byte.                                *)
LEMMA Division ==
    ASSUME NEW n \in Nat
    PROVE  /\ Relativo(n) \in Nat /\ n % BLOCK_SIZE \in 0 .. BLOCK_SIZE - 1
           /\ n = Relativo(n) * BLOCK_SIZE + (n % BLOCK_SIZE)
<1>1. \A b \in Nat \ {0} : n \div b \in Nat
    OBVIOUS
<1>2. \A b \in Nat \ {0} : n % b \in 0 .. b - 1
    OBVIOUS
<1>3. \A b \in Nat \ {0} : n = (n \div b) * b + (n % b)
    OBVIOUS
<1>4. BLOCK_SIZE \in Nat \ {0}
    BY Constantes
<1>5. QED
    BY <1>1, <1>2, <1>3, <1>4 DEF Relativo

(* What is in an earlier block is before.                                  *)
LEMMA BloqueAntes ==
    ASSUME NEW p \in Nat, NEW q \in Nat, p < q
    PROVE  p * BLOCK_SIZE + BLOCK_SIZE <= q * BLOCK_SIZE
<1>1. PICK d \in Nat : q = p + 1 + d
  <2>1. q - p - 1 \in Nat /\ q = p + 1 + (q - p - 1)
      OBVIOUS
  <2>2. QED
      BY <2>1
<1>2. q * BLOCK_SIZE = p * BLOCK_SIZE + BLOCK_SIZE + d * BLOCK_SIZE
    BY <1>1, Constantes
<1>3. d * BLOCK_SIZE \in Nat /\ p * BLOCK_SIZE \in Nat
    BY Constantes
<1>4. QED
    BY <1>2, <1>3, Constantes

(* A byte has one block and one place.                                     *)
LEMMA DivisionUnica ==
    ASSUME NEW n \in Nat, NEW q \in Nat, NEW r \in 0 .. BLOCK_SIZE - 1,
           n = q * BLOCK_SIZE + r
    PROVE  Relativo(n) = q /\ n % BLOCK_SIZE = r
<1> DEFINE p == Relativo(n)
           t == n % BLOCK_SIZE
<1>1. p \in Nat /\ t \in 0 .. BLOCK_SIZE - 1 /\ n = p * BLOCK_SIZE + t
    BY Division
<1>2. p * BLOCK_SIZE \in Nat /\ q * BLOCK_SIZE \in Nat
    BY <1>1, Constantes
<1> HIDE DEF p, t
<1>3. ~(p < q)
  <2>1. p < q => p * BLOCK_SIZE + BLOCK_SIZE <= q * BLOCK_SIZE
      BY <1>1, BloqueAntes
  <2>2. QED
      BY <1>1, <1>2, <2>1, Constantes
<1>4. ~(q < p)
  <2>1. q < p => q * BLOCK_SIZE + BLOCK_SIZE <= p * BLOCK_SIZE
      BY <1>1, BloqueAntes
  <2>2. QED
      BY <1>1, <1>2, <2>1, Constantes
<1>5. p = q
    BY <1>1, <1>3, <1>4
<1>6. t = r
    BY <1>1, <1>2, <1>5
<1>7. QED
    BY <1>5, <1>6 DEF p, t

(* A byte of a file of L blocks is in one of them.                         *)
LEMMA EnSuBloque ==
    ASSUME NEW L \in Nat, NEW i \in Nat, i >= 1, i <= L * BLOCK_SIZE
    PROVE  Bloque(i) \in 1 .. L
<1>1. PICK p \in Nat, t \in Nat :
        p = Relativo(i - 1) /\ i - 1 = p * BLOCK_SIZE + t
  <2>1. i - 1 \in Nat
      OBVIOUS
  <2>2. /\ Relativo(i - 1) \in Nat /\ (i - 1) % BLOCK_SIZE \in 0 .. BLOCK_SIZE - 1
        /\ i - 1 = Relativo(i - 1) * BLOCK_SIZE + ((i - 1) % BLOCK_SIZE)
      BY <2>1, Division
  <2>3. QED
      BY <2>2
<1>2. p * BLOCK_SIZE \in Nat /\ L * BLOCK_SIZE \in Nat
    BY <1>1, Constantes
<1>3. ~(L < p)
  <2>1. L < p => L * BLOCK_SIZE + BLOCK_SIZE <= p * BLOCK_SIZE
      BY <1>1, BloqueAntes
  <2>2. QED
      BY <1>1, <1>2, <2>1, Constantes
<1>4. L # p
    BY <1>1, <1>2
<1>5. p + 1 \in 1 .. L
    BY <1>1, <1>3, <1>4
<1>6. QED
    BY <1>1, <1>5 DEF Bloque

(* The o-th place of the block after the first q.                          *)
LEMMA EnElLugar ==
    ASSUME NEW q \in Nat, NEW o \in 1 .. BLOCK_SIZE
    PROVE  /\ q * BLOCK_SIZE + o \in Nat /\ q * BLOCK_SIZE + o >= 1
           /\ Bloque(q * BLOCK_SIZE + o) = q + 1 /\ Lugar(q * BLOCK_SIZE + o) = o
<1> DEFINE i == q * BLOCK_SIZE + o
<1>1. q * BLOCK_SIZE \in Nat /\ o - 1 \in 0 .. BLOCK_SIZE - 1
    BY Constantes
<1>2. i \in Nat /\ i >= 1 /\ i - 1 = q * BLOCK_SIZE + (o - 1) /\ i - 1 \in Nat
    BY <1>1, Constantes
<1> HIDE DEF i
<1>3. Relativo(i - 1) = q /\ (i - 1) % BLOCK_SIZE = o - 1
    BY <1>1, <1>2, DivisionUnica
<1>4. Bloque(i) = q + 1 /\ Lugar(i) = o
    BY <1>3, Constantes DEF Bloque, Lugar
<1>5. QED
    BY <1>2, <1>4 DEF i

(* The other way round.                                                    *)
LEMMA LugarDe ==
    ASSUME NEW i \in Nat, i >= 1
    PROVE  /\ Bloque(i) \in Nat \ {0} /\ Lugar(i) \in 1 .. BLOCK_SIZE
           /\ i = (Bloque(i) - 1) * BLOCK_SIZE + Lugar(i)
<1>1. i - 1 \in Nat
    OBVIOUS
<1>2. /\ Relativo(i - 1) \in Nat /\ (i - 1) % BLOCK_SIZE \in 0 .. BLOCK_SIZE - 1
      /\ i - 1 = Relativo(i - 1) * BLOCK_SIZE + ((i - 1) % BLOCK_SIZE)
    BY <1>1, Division
<1>3. PICK p \in Nat, t \in 0 .. BLOCK_SIZE - 1 :
        p = Relativo(i - 1) /\ t = (i - 1) % BLOCK_SIZE /\ i - 1 = p * BLOCK_SIZE + t
    BY <1>2
<1>4. p * BLOCK_SIZE \in Nat /\ Bloque(i) = p + 1 /\ Lugar(i) = t + 1
    BY <1>3, Constantes DEF Bloque, Lugar
<1>5. Bloque(i) - 1 = p
    BY <1>3, <1>4
<1>6. i = (Bloque(i) - 1) * BLOCK_SIZE + Lugar(i)
    BY <1>3, <1>4, <1>5, Constantes
<1>7. QED
    BY <1>3, <1>4, <1>6, Constantes

(* e is d with the bytes s in the file of blocks bl, from pos on.          *)
Grabacion(e, d, bl, pos, s) ==
    /\ DiscoBien(e)
    /\ \A b \in Numeros : ~Contains(bl, b) => e[b] = d[b]
    /\ \A i \in 1 .. pos + Len(s) : HayByte(e, bl, i)
    /\ \A i \in 1 .. pos : ByteEn(e, bl, i) = ByteEn(d, bl, i)
    /\ \A i \in 1 .. Len(s) : ByteEn(e, bl, pos + i) = s[i]

(* write_tall_grass in the blocks of a file leaves the bytes before pos,   *)
(* puts s after them, and does not touch the other blocks.                 *)
LEMMA GrabadoEs ==
    ASSUME DiscoBien(disco), NEW bl \in Seq(Numeros), Distintos(bl),
           NEW pos \in Nat, NEW s \in Seq(Byte), pos + Len(s) <= Len(bl) * BLOCK_SIZE,
           \A i \in 1 .. pos : HayByte(disco, bl, i)
    PROVE  Grabacion(Grabado(bl, pos, s), disco, bl, pos, s)
<1> DEFINE e == Grabado(bl, pos, s)
           n == pos + Len(s)
           Ini(k) == (k - 1) * BLOCK_SIZE
           Llega(ini) == IF pos + Len(s) - ini < BLOCK_SIZE THEN pos + Len(s) - ini
                         ELSE BLOCK_SIZE
           Hasta0(b, ini) == IF Llega(ini) > Len(disco[b]) THEN Llega(ini) ELSE Len(disco[b])
           Val0(b, ini, o) == IF ini + o > pos /\ ini + o <= pos + Len(s)
                              THEN s[ini + o - pos]
                              ELSE IF o <= Len(disco[b]) THEN disco[b][o] ELSE NULL
           Ajena(ini) == ini + BLOCK_SIZE <= pos \/ ini >= pos + Len(s)
           G(b, ini) == IF Ajena(ini) THEN disco[b]
                        ELSE [o \in 1 .. Hasta0(b, ini) |->
                                IF ini + o > pos /\ ini + o <= pos + Len(s)
                                THEN s[ini + o - pos]
                                ELSE Estirado(disco[b], Hasta0(b, ini))[o]]
           Largo(k) == Hasta0(bl[k], Ini(k))
           Val(k, o) == Val0(bl[k], Ini(k), o)
<1>1. /\ Len(bl) \in Nat /\ DOMAIN bl = 1 .. Len(bl) /\ Len(s) \in Nat /\ n \in Nat
      /\ BLOCK_SIZE \in Nat /\ BLOCK_SIZE > 0
    BY LenProperties, Constantes
<1>2. ASSUME NEW b \in Numeros, ~Contains(bl, b) PROVE e[b] = disco[b]
    BY <1>2 DEF Grabado
<1>3. ASSUME NEW k \in 1 .. Len(bl)
      PROVE  /\ bl[k] \in Numeros /\ Contains(bl, bl[k])
             /\ Ini(k) \in Nat /\ disco[bl[k]] \in Seq(Byte)
             /\ Len(disco[bl[k]]) \in 0 .. BLOCK_SIZE
             /\ e[bl[k]] = [o \in 1 .. Largo(k) |-> Val(k, o)]
  <2>1. bl[k] \in Numeros /\ Contains(bl, bl[k])
      BY <1>1, ElementOfSeq DEF Contains
  <2>2. k - 1 \in Nat /\ Ini(k) \in Nat
      BY <1>1
  <2>3. (CHOOSE j \in DOMAIN bl : bl[j] = bl[k]) = k
      BY <1>1 DEF Distintos
  <2>4. k * BLOCK_SIZE - BLOCK_SIZE = Ini(k)
      BY <1>1
  <2>5. disco[bl[k]] \in Seq(Byte) /\ Len(disco[bl[k]]) \in 0 .. BLOCK_SIZE
      BY <1>1, <2>1, LenProperties DEF DiscoBien
  <2>6. e[bl[k]] = G(bl[k], (CHOOSE j \in DOMAIN bl : bl[j] = bl[k]) * BLOCK_SIZE - BLOCK_SIZE)
      BY <2>1, Zenon DEF Grabado
  <2>7. e[bl[k]] = G(bl[k], Ini(k))
    <3> HIDE DEF G, Ini
    <3>1. QED
        BY <2>3, <2>4, <2>6
  <2>8. e[bl[k]] = [o \in 1 .. Largo(k) |-> Val(k, o)]
    <3>1. CASE Ajena(Ini(k))
      <4>1. Len(disco[bl[k]]) = Largo(k)
        <5>1. CASE Ini(k) >= n
            BY <1>1, <2>2, <2>5, <5>1
        <5>2. CASE Ini(k) + BLOCK_SIZE <= pos
          <6>1. k - 1 + 1 = k /\ BLOCK_SIZE \in 1 .. BLOCK_SIZE
              BY <1>1
          <6>2. /\ Bloque(Ini(k) + BLOCK_SIZE) = k
                /\ Lugar(Ini(k) + BLOCK_SIZE) = BLOCK_SIZE
              BY <2>2, <6>1, EnElLugar
          <6>3. Ini(k) + BLOCK_SIZE \in 1 .. pos
            <7> HIDE DEF Ini
            <7>1. QED
                BY <1>1, <2>2, <5>2
          <6>4. HayByte(disco, bl, Ini(k) + BLOCK_SIZE)
              BY <6>3
          <6>5. BLOCK_SIZE <= Len(disco[bl[k]])
              BY <6>2, <6>4 DEF HayByte
          <6>6. Len(disco[bl[k]]) = BLOCK_SIZE
              BY <1>1, <2>5, <6>5
          <6> HIDE DEF Ini
          <6>7. Llega(Ini(k)) = BLOCK_SIZE
              BY <1>1, <2>2, <5>2
          <6> HIDE DEF Llega
          <6>8. QED
              BY <1>1, <6>6, <6>7
        <5>3. QED
            BY <3>1, <5>1, <5>2
      <4>2. ASSUME NEW o \in 1 .. Len(disco[bl[k]]) PROVE Val(k, o) = disco[bl[k]][o]
        <5> HIDE DEF Ini
        <5>1. ~(Ini(k) + o > pos /\ Ini(k) + o <= n)
            BY <1>1, <2>2, <2>5, <3>1
        <5>2. o <= Len(disco[bl[k]])
            BY <2>5
        <5>3. QED
            BY <5>1, <5>2
      <4>3. disco[bl[k]] = [o \in 1 .. Len(disco[bl[k]]) |-> disco[bl[k]][o]]
          BY <2>5
      <4> HIDE DEF Val, Largo, Ajena
      <4>4. e[bl[k]] = disco[bl[k]]
          BY <2>7, <3>1
      <4>5. QED
          BY <4>1, <4>2, <4>3, <4>4
    <3>2. CASE ~Ajena(Ini(k))
      <4>1. ASSUME NEW o \in 1 .. Largo(k)
            PROVE  Estirado(disco[bl[k]], Largo(k))[o]
                     = IF o <= Len(disco[bl[k]]) THEN disco[bl[k]][o] ELSE NULL
        <5> HIDE DEF Largo
        <5>1. QED
            BY DEF Estirado
      <4>2. e[bl[k]] = [o \in 1 .. Largo(k) |->
                          IF Ini(k) + o > pos /\ Ini(k) + o <= pos + Len(s)
                          THEN s[Ini(k) + o - pos]
                          ELSE Estirado(disco[bl[k]], Largo(k))[o]]
        <5> HIDE DEF Hasta0, Ajena, Ini
        <5>1. QED
            BY <2>7, <3>2
      <4>3. ASSUME NEW o \in 1 .. Largo(k)
            PROVE  Val(k, o) = IF Ini(k) + o > pos /\ Ini(k) + o <= pos + Len(s)
                               THEN s[Ini(k) + o - pos]
                               ELSE Estirado(disco[bl[k]], Largo(k))[o]
        <5> HIDE DEF Largo, Ini
        <5>1. QED
            BY <4>1
      <4> HIDE DEF Val, Largo, Ini
      <4>4. QED
          BY <4>2, <4>3
    <3>3. QED
        BY <3>1, <3>2
  <2> HIDE DEF Val, Largo, Ini
  <2>9. QED
      BY <2>1, <2>2, <2>5, <2>8
<1> HIDE DEF e
<1>4. ASSUME NEW k \in 1 .. Len(bl)
      PROVE  e[bl[k]] \in Seq(Byte) /\ Len(e[bl[k]]) = Largo(k) /\ Largo(k) \in 0 .. BLOCK_SIZE
  <2>1. /\ Ini(k) \in Nat /\ Len(disco[bl[k]]) \in 0 .. BLOCK_SIZE
        /\ disco[bl[k]] \in Seq(Byte)
      BY <1>3
  <2>2. Llega(Ini(k)) \in Int /\ Largo(k) \in 0 .. BLOCK_SIZE
      BY <1>1, <2>1
  <2>3. ASSUME NEW o \in 1 .. Largo(k) PROVE Val(k, o) \in Byte
    <3>1. CASE Ini(k) + o > pos /\ Ini(k) + o <= n
      <4>1. Ini(k) + o - pos \in 1 .. Len(s)
          BY <1>1, <2>1, <2>2, <3>1
      <4>2. QED
          BY <3>1, <4>1, ElementOfSeq
    <3>2. CASE ~(Ini(k) + o > pos /\ Ini(k) + o <= n)
      <4>1. o <= Len(disco[bl[k]])
        <5>1. CASE Ini(k) + o <= pos
          <6>1. o \in 1 .. BLOCK_SIZE /\ k - 1 \in Nat /\ k - 1 + 1 = k
            <7> HIDE DEF Largo
            <7>1. QED
                BY <1>1, <2>2
          <6>2. Bloque(Ini(k) + o) = k /\ Lugar(Ini(k) + o) = o
              BY <6>1, EnElLugar
          <6>3. HayByte(disco, bl, Ini(k) + o)
            <7>1. Ini(k) + o \in 1 .. pos
              <8> HIDE DEF Ini, Largo
              <8>1. QED
                  BY <2>1, <5>1, <6>1
            <7>2. QED
                BY <7>1
          <6>4. QED
              BY <6>2, <6>3 DEF HayByte
        <5>2. CASE Ini(k) + o > n
            BY <1>1, <2>1, <2>2, <5>2
        <5>3. QED
            BY <1>1, <2>1, <3>2, <5>1, <5>2
      <4>2. o \in 1 .. Len(disco[bl[k]])
          BY <2>1, <2>2, <4>1
      <4>3. QED
          BY <2>1, <3>2, <4>2, ElementOfSeq
    <3>3. QED
        BY <3>1, <3>2
  <2> HIDE DEF Val, Largo
  <2>4. e[bl[k]] \in [1 .. Largo(k) -> Byte]
      BY <1>3, <2>3
  <2>5. Largo(k) \in Nat
      BY <1>1, <2>2
  <2>6. QED
      BY <2>2, <2>4, <2>5, SeqDeFuncion
<1>5. DiscoBien(e)
  <2>1. ASSUME NEW b \in Numeros PROVE e[b] \in Seq(Byte) /\ Len(e[b]) <= BLOCK_SIZE
    <3>1. CASE ~Contains(bl, b)
        BY <1>2, <3>1 DEF DiscoBien
    <3>2. CASE Contains(bl, b)
      <4>1. PICK k \in 1 .. Len(bl) : b = bl[k]
          BY <3>2 DEF Contains
      <4>2. /\ e[bl[k]] \in Seq(Byte) /\ Len(e[bl[k]]) = Largo(k)
            /\ Largo(k) \in 0 .. BLOCK_SIZE
          BY <1>4
      <4> HIDE DEF Largo
      <4>3. QED
          BY <1>1, <4>1, <4>2
    <3>3. QED
        BY <3>1, <3>2
  <2>2. QED
      BY <2>1 DEF DiscoBien
<1>6. ASSUME NEW i \in 1 .. n
      PROVE  /\ HayByte(e, bl, i)
             /\ ByteEn(e, bl, i) = IF i > pos THEN s[i - pos] ELSE ByteEn(disco, bl, i)
  <2> DEFINE k == Bloque(i)
             o == Lugar(i)
  <2>1. k \in 1 .. Len(bl) /\ o \in 1 .. BLOCK_SIZE /\ i = Ini(k) + o
      BY <1>1, EnSuBloque, LugarDe
  <2>2. Ini(k) \in Nat /\ e[bl[k]] = [x \in 1 .. Largo(k) |-> Val(k, x)]
      BY <1>3, <2>1
  <2>3. Len(e[bl[k]]) = Largo(k) /\ Largo(k) \in Nat
    <3> HIDE DEF Largo, k, o
    <3>1. Len(e[bl[k]]) = Largo(k) /\ Largo(k) \in 0 .. BLOCK_SIZE
        BY <1>4, <2>1
    <3>2. QED
        BY <1>1, <3>1
  <2>4. Len(disco[bl[k]]) \in Nat
      BY <1>3, <2>1
  <2> HIDE DEF k, o
  <2>5. o <= Llega(Ini(k))
      BY <1>1, <2>1, <2>2
  <2>6. o <= Largo(k)
      BY <1>1, <2>1, <2>2, <2>4, <2>5
  <2>7. e[bl[k]][o] = Val(k, o)
    <3> HIDE DEF Val, Largo
    <3>1. QED
        BY <2>1, <2>2, <2>3, <2>6
  <2>8. Val(k, o) = IF i > pos THEN s[i - pos] ELSE disco[bl[k]][o]
    <3>0. i <= pos => o <= Len(disco[bl[k]])
      <4>1. i <= pos => HayByte(disco, bl, i)
          BY <1>1
      <4>2. QED
          BY <4>1 DEF HayByte, k, o
    <3>1. PICK y \in Nat, u \in Nat : y = Ini(k) /\ u = o /\ y + u = i
        BY <1>1, <2>1, <2>2
    <3>2. i \in Int /\ i <= pos + Len(s)
        BY <1>1
    <3>3. Val(k, o) = Val0(bl[k], y, u)
        BY <3>1
    <3>4. QED
        BY <1>1, <3>0, <3>1, <3>2, <3>3
  <2>9. QED
      BY <2>3, <2>6, <2>7, <2>8 DEF HayByte, ByteEn, k, o
<1>7. \A i \in 1 .. pos : HayByte(e, bl, i) /\ ByteEn(e, bl, i) = ByteEn(disco, bl, i)
    BY <1>1, <1>6
<1>8. ASSUME NEW i \in 1 .. Len(s) PROVE ByteEn(e, bl, pos + i) = s[i]
  <2>1. pos + i \in 1 .. n /\ pos + i > pos /\ pos + i - pos = i
      BY <1>1
  <2>2. QED
      BY <1>6, <2>1
<1>9. QED
    BY <1>2, <1>5, <1>6, <1>7, <1>8 DEF Grabacion, e

(* e is d with the file of blocks bl cut after its first n bytes.          *)
Corte(e, d, bl, n) ==
    /\ DiscoBien(e)
    /\ \A b \in Numeros : ~Contains(bl, b) => e[b] = d[b]
    /\ \A i \in 1 .. n : HayByte(e, bl, i) /\ ByteEn(e, bl, i) = ByteEn(d, bl, i)

(* truncate_tall_grass leaves the first bytes, and the blocks of others.   *)
LEMMA CortadoEs ==
    ASSUME NEW d, DiscoBien(d), NEW bl \in Seq(Numeros), Distintos(bl),
           NEW n \in Nat, n <= Len(bl) * BLOCK_SIZE,
           \A i \in 1 .. n : HayByte(d, bl, i)
    PROVE  Corte(Cortado(d, bl, n), d, bl, n)
<1> DEFINE e == Cortado(d, bl, n)
           p == Relativo(n)
           r == n % BLOCK_SIZE
<1>1. /\ Len(bl) \in Nat /\ DOMAIN bl = 1 .. Len(bl)
      /\ BLOCK_SIZE \in Nat /\ BLOCK_SIZE > 0
      /\ p \in Nat /\ r \in 0 .. BLOCK_SIZE - 1 /\ n = p * BLOCK_SIZE + r
    BY LenProperties, Constantes, Division
<1>2. ASSUME NEW b \in Numeros, ~Contains(bl, b) PROVE e[b] = d[b]
    BY <1>2 DEF Cortado
<1>3. ASSUME NEW k \in 1 .. Len(bl)
      PROVE  /\ bl[k] \in Numeros /\ Contains(bl, bl[k]) /\ d[bl[k]] \in Seq(Byte)
             /\ Len(d[bl[k]]) \in 0 .. BLOCK_SIZE
             /\ e[bl[k]] = IF k <= p THEN d[bl[k]]
                           ELSE IF k = p + 1 THEN Estirado(d[bl[k]], r) ELSE << >>
  <2>1. bl[k] \in Numeros /\ Contains(bl, bl[k])
      BY <1>1, ElementOfSeq DEF Contains
  <2>2. (CHOOSE j \in DOMAIN bl : bl[j] = bl[k]) = k
      BY <1>1 DEF Distintos
  <2>3. d[bl[k]] \in Seq(Byte) /\ Len(d[bl[k]]) \in 0 .. BLOCK_SIZE
      BY <1>1, <2>1, LenProperties DEF DiscoBien
  <2>4. QED
      BY <2>1, <2>2, <2>3 DEF Cortado
<1> HIDE DEF e, p, r
<1>4. ASSUME p + 1 \in 1 .. Len(bl)
      PROVE  LET b == bl[p + 1] IN
             /\ r <= Len(d[b])
             /\ e[b] \in Seq(Byte) /\ Len(e[b]) = r
             /\ \A o \in 1 .. r : e[b][o] = d[b][o]
  <2>1. /\ d[bl[p + 1]] \in Seq(Byte) /\ Len(d[bl[p + 1]]) \in 0 .. BLOCK_SIZE
        /\ e[bl[p + 1]] = Estirado(d[bl[p + 1]], r)
    <3>1. PICK k \in 1 .. Len(bl) : k = p + 1
        BY <1>4
    <3>2. ~(k <= p)
        BY <1>1, <3>1
    <3>3. QED
        BY <1>3, <3>1, <3>2
  <2>2. r <= Len(d[bl[p + 1]])
    <3>1. CASE r = 0
        BY <2>1, <3>1
    <3>2. CASE r # 0
      <4>1. r \in 1 .. BLOCK_SIZE
          BY <1>1, <3>2
      <4>2. Bloque(p * BLOCK_SIZE + r) = p + 1 /\ Lugar(p * BLOCK_SIZE + r) = r
          BY <1>1, <4>1, EnElLugar
      <4>3. n \in 1 .. n
          BY <1>1, <3>2
      <4>4. HayByte(d, bl, n)
          BY <4>3
      <4>5. QED
          BY <1>1, <4>2, <4>4 DEF HayByte
    <3>3. QED
        BY <3>1, <3>2
  <2>3. \A o \in 1 .. r : e[bl[p + 1]][o] = d[bl[p + 1]][o] /\ d[bl[p + 1]][o] \in Byte
      BY <1>1, <2>1, <2>2, ElementOfSeq DEF Estirado
  <2>4. e[bl[p + 1]] \in [1 .. r -> Byte]
      BY <2>1, <2>3 DEF Estirado
  <2>5. e[bl[p + 1]] \in Seq(Byte) /\ Len(e[bl[p + 1]]) = r
      BY <1>1, <2>4, SeqDeFuncion
  <2>6. QED
      BY <2>2, <2>3, <2>5
<1>5. DiscoBien(e)
  <2>1. ASSUME NEW k \in 1 .. Len(bl)
        PROVE  e[bl[k]] \in Seq(Byte) /\ Len(e[bl[k]]) <= BLOCK_SIZE
    <3>1. CASE k <= p
        BY <1>1, <1>3, <3>1
    <3>2. CASE k = p + 1
        BY <1>1, <1>4, <3>2
    <3>3. CASE ~(k <= p) /\ k # p + 1
      <4>1. e[bl[k]] = << >>
          BY <1>3, <3>3
      <4>2. << >> \in Seq(Byte) /\ Len(<< >>) = 0
          OBVIOUS
      <4>3. QED
          BY <1>1, <4>1, <4>2
    <3>4. QED
        BY <3>1, <3>2, <3>3
  <2>2. ASSUME NEW b \in Numeros PROVE e[b] \in Seq(Byte) /\ Len(e[b]) <= BLOCK_SIZE
    <3>1. CASE ~Contains(bl, b)
        BY <1>2, <3>1 DEF DiscoBien
    <3>2. CASE Contains(bl, b)
        BY <2>1, <3>2 DEF Contains
    <3>3. QED
        BY <3>1, <3>2
  <2>3. QED
      BY <2>2 DEF DiscoBien
<1>6. ASSUME NEW i \in 1 .. n
      PROVE  HayByte(e, bl, i) /\ ByteEn(e, bl, i) = ByteEn(d, bl, i)
  <2>1. PICK k, o : k = Bloque(i) /\ o = Lugar(i)
      OBVIOUS
  <2>2. /\ k \in 1 .. Len(bl) /\ o \in 1 .. BLOCK_SIZE
        /\ i = (k - 1) * BLOCK_SIZE + o
      BY <1>1, <2>1, EnSuBloque, LugarDe
  <2>3. HayByte(d, bl, i)
      OBVIOUS
  <2>4. PICK q \in Nat : q = k - 1
      BY <2>2
  <2>5. i = q * BLOCK_SIZE + o /\ q * BLOCK_SIZE \in Nat /\ p * BLOCK_SIZE \in Nat
      BY <1>1, <2>2, <2>4
  <2>6. ~(p < q)
    <3>1. p < q => p * BLOCK_SIZE + BLOCK_SIZE <= q * BLOCK_SIZE
        BY <1>1, BloqueAntes
    <3>2. QED
        BY <1>1, <2>2, <2>5, <3>1
  <2>7. q = p => o <= r
      BY <1>1, <2>2, <2>5
  <2>8. CASE q < p
    <3>1. k <= p
        BY <1>1, <2>2, <2>4, <2>8
    <3>2. e[bl[k]] = d[bl[k]]
        BY <1>3, <2>2, <3>1
    <3>3. QED
        BY <2>1, <2>3, <3>2 DEF HayByte, ByteEn
  <2>9. CASE q = p
    <3>1. k = p + 1 /\ o \in 1 .. r
        BY <1>1, <2>2, <2>4, <2>7, <2>9
    <3>2. Len(e[bl[k]]) = r /\ e[bl[k]][o] = d[bl[k]][o]
        BY <1>4, <2>2, <3>1
    <3>3. QED
        BY <2>1, <3>1, <3>2 DEF HayByte, ByteEn
  <2>10. QED
      BY <1>1, <2>4, <2>6, <2>8, <2>9
<1>7. QED
    BY <1>2, <1>5, <1>6 DEF Corte, e

-----------------------------------------------------------------------------
(* Threads.                                                                *)

(* A thread has its message, and there are few.                            *)
LEMMA SusMensajes ==
    ASSUME HilosInv
    PROVE  /\ \A m \in DOMAIN hilo :
                /\ m.especie \in ESPECIES /\ m.lugar \in LUGARES
                /\ m.cant \in 1 .. 9 /\ m.tipo \in Tipos
           /\ IsFiniteSet(DOMAIN hilo) /\ Cardinality(DOMAIN hilo) \in Nat
           /\ Cardinality(DOMAIN hilo) <= 11
<1>1. DOMAIN hilo \in ESCENARIOS
    BY DEF HilosInv
<1>2. DOMAIN hilo \subseteq MENSAJES
    BY <1>1, TallGrassAssumption
<1>3. ASSUME NEW m \in DOMAIN hilo
      PROVE  /\ m.especie \in ESPECIES /\ m.lugar \in LUGARES
             /\ m.cant \in 1 .. 9 /\ m.tipo \in Tipos
  <2>1. m \in [n : Nat, tipo : Tipos, especie : ESPECIES, lugar : LUGARES, cant : 1 .. 9]
      BY <1>2, TallGrassAssumption
  <2>2. QED
      BY <2>1
<1>4. IsFiniteSet(DOMAIN hilo) /\ Cardinality(DOMAIN hilo) <= 11
    BY <1>1, TallGrassAssumption
<1>5. QED
    BY <1>3, <1>4, FS_CardinalityType

(* The thread of m goes on, and is h.                                      *)
Turno(m, h) ==
    /\ m \in DOMAIN hilo /\ h \in Hilo /\ HiloBien(h)
    /\ hilo' = [hilo EXCEPT ![m] = h]

(* The others stay where they are.                                         *)
LEMMA LosHilos ==
    ASSUME HilosInv, NEW m, NEW h, Turno(m, h)
    PROVE  /\ HilosInv' /\ DOMAIN hilo' = DOMAIN hilo /\ hilo'[m] = h
           /\ \A u \in DOMAIN hilo : u # m => hilo'[u] = hilo[u]
<1>1. DOMAIN hilo' = DOMAIN hilo
    BY DEF Turno
<1>2. hilo'[m] = h /\ \A u \in DOMAIN hilo : u # m => hilo'[u] = hilo[u]
    BY DEF Turno
<1>3. hilo' \in [DOMAIN hilo -> Hilo]
    BY DEF Turno, HilosInv
<1>4. \A u \in DOMAIN hilo : HiloBien(hilo'[u])
  <2>1. HiloBien(hilo'[m])
      BY <1>2 DEF Turno
  <2>2. ASSUME NEW u \in DOMAIN hilo, u # m PROVE HiloBien(hilo'[u])
    <3>1. hilo'[u] = hilo[u] /\ HiloBien(hilo[u])
        BY <1>2, <2>2 DEF HilosInv
    <3>2. QED
        BY <3>1
  <2>3. QED
      BY <2>1, <2>2
<1>5. HilosInv'
    BY <1>1, <1>3, <1>4 DEF HilosInv
<1>6. QED
    BY <1>1, <1>2, <1>5

(* Which threads of a file are in some place.                              *)
LEMMA LosDe ==
    ASSUME HilosInv, NEW m, NEW h, Turno(m, h), NEW f, NEW S
    PROVE  /\ m.especie # f => De(f, S)' = De(f, S)
           /\ m.especie = f /\ h.pc \in S => De(f, S)' = De(f, S) \union {m}
           /\ m.especie = f /\ h.pc \notin S => De(f, S)' = De(f, S) \ {m}
           /\ (hilo[m].pc \in S <=> h.pc \in S) => De(f, S)' = De(f, S)
<1>1. /\ DOMAIN hilo' = DOMAIN hilo /\ hilo'[m] = h /\ m \in DOMAIN hilo
      /\ \A u \in DOMAIN hilo : u # m => hilo'[u] = hilo[u]
    BY LosHilos DEF Turno
<1>2. De(f, S)' = {u \in DOMAIN hilo : u.especie = f /\ hilo'[u].pc \in S}
    BY <1>1 DEF De
<1>3. De(f, S) = {u \in DOMAIN hilo : u.especie = f /\ hilo[u].pc \in S}
    BY DEF De
<1>4. ASSUME m.especie # f PROVE De(f, S)' = De(f, S)
    BY <1>1, <1>2, <1>3, <1>4
<1>5. ASSUME m.especie = f, h.pc \in S PROVE De(f, S)' = De(f, S) \union {m}
    BY <1>1, <1>2, <1>3, <1>5
<1>6. ASSUME m.especie = f, h.pc \notin S PROVE De(f, S)' = De(f, S) \ {m}
    BY <1>1, <1>2, <1>3, <1>6
<1>7. ASSUME hilo[m].pc \in S <=> h.pc \in S PROVE De(f, S)' = De(f, S)
    BY <1>1, <1>2, <1>3, <1>7
<1>8. QED
    BY <1>4, <1>5, <1>6, <1>7

(* They are finitely many.                                                 *)
LEMMA FinitosDe ==
    ASSUME HilosInv, NEW f, NEW S
    PROVE  IsFiniteSet(De(f, S)) /\ Cardinality(De(f, S)) \in Nat
<1>1. De(f, S) \in SUBSET DOMAIN hilo
    BY DEF De
<1>2. IsFiniteSet(De(f, S))
    BY <1>1, SusMensajes, FS_Subset
<1>3. QED
    BY <1>2, FS_CardinalityType

(* Whoever works on a file is the only one.                                *)
LEMMA UnoSolo ==
    ASSUME HilosInv, CarpetasInv, NEW m \in DOMAIN hilo, hilo[m].pc \in Operando,
           NEW S \in SUBSET Operando
    PROVE  De(m.especie, S) = IF hilo[m].pc \in S THEN {m} ELSE {}
<1>1. ASSUME NEW u \in De(m.especie, S) PROVE u = m /\ hilo[m].pc \in S
    BY <1>1 DEF CarpetasInv, De
<1>2. hilo[m].pc \in S => m \in De(m.especie, S)
    BY DEF De
<1>3. QED
    BY <1>1, <1>2

-----------------------------------------------------------------------------
(* The directories, the table of open files and OPEN.                      *)

(* A step that begins no work on a file, nor its metadata.                 *)
LEMMA CarpetasQuietas ==
    ASSUME HilosInv, CarpetasInv, NEW m, NEW h, Turno(m, h), dir' = dir,
           meta' \in [ESPECIES -> Metadata],
           \A f \in ESPECIES : dir[f] # "listo" => meta'[f] = meta[f],
           h.pc \in Operando => hilo[m].pc \in Operando,
           h.pc = "metadata" => hilo[m].pc = "metadata"
    PROVE  CarpetasInv'
<1>1. /\ DOMAIN hilo' = DOMAIN hilo /\ hilo'[m] = h /\ m \in DOMAIN hilo
      /\ \A u \in DOMAIN hilo : u # m => hilo'[u] = hilo[u]
    BY LosHilos DEF Turno
<1>2. \A u \in DOMAIN hilo : /\ hilo'[u].pc \in Operando => hilo[u].pc \in Operando
                             /\ hilo'[u].pc = "metadata" => hilo[u].pc = "metadata"
    BY <1>1
<1>3. \A u, v \in DOMAIN hilo :
        /\ u.especie = v.especie
        /\ \/ hilo'[u].pc \in Operando /\ hilo'[v].pc \in Operando
           \/ hilo'[u].pc = "metadata" /\ hilo'[v].pc = "metadata"
        => u = v
    BY <1>2 DEF CarpetasInv
<1>4. \A u \in DOMAIN hilo : /\ hilo'[u].pc \in Operando => dir[u.especie] = "listo"
                             /\ hilo'[u].pc = "metadata" => dir[u.especie] = "carpeta"
    BY <1>2 DEF CarpetasInv
<1>5. \A f \in ESPECIES : dir[f] # "listo" => meta'[f] = Vacio
    BY DEF CarpetasInv
<1>6. dir \in [ESPECIES -> {"no", "carpeta", "listo"}]
    BY DEF CarpetasInv
<1>7. QED
    BY <1>1, <1>3, <1>4, <1>5, <1>6 DEF CarpetasInv

(* A step that leaves the table, and whose thread neither gets an entry    *)
(* nor gives it up.                                                        *)
LEMMA EntradasQuietas ==
    ASSUME HilosInv, Entradas, NEW m, NEW h, Turno(m, h),
           abiertos' = abiertos, errada' = errada,
           h.pc \in EnTabla <=> hilo[m].pc \in EnTabla
    PROVE  Entradas'
<1>1. \A f : De(f, EnTabla)' = De(f, EnTabla)
    BY LosDe
<1>2. QED
    BY <1>1 DEF Entradas

(* A thread that gets its entry.                                           *)
LEMMA EntradasAgrega ==
    ASSUME HilosInv, Entradas, NEW m, NEW h, Turno(m, h),
           hilo[m].pc \notin EnTabla, h.pc = "lee",
           abiertos' = Append(abiertos, m.especie), errada' = errada
    PROVE  Entradas'
<1> DEFINE f == m.especie
<1>1. f \in ESPECIES /\ abiertos \in Seq(ESPECIES) /\ m \in DOMAIN hilo
    BY SusMensajes DEF Entradas, Turno
<1>2. abiertos' \in Seq(ESPECIES)
    BY <1>1, AppendProperties
<1>3. h.pc \in EnTabla
    BY DEF EnTabla
<1>4. ASSUME NEW g \in ESPECIES, ~errada
      PROVE  Veces(abiertos', g) = Cardinality(De(g, EnTabla)')
  <2>1. Veces(abiertos, g) = Cardinality(De(g, EnTabla))
      BY <1>4 DEF Entradas
  <2>2. Veces(abiertos', g) = IF f = g THEN Veces(abiertos, g) + 1 ELSE Veces(abiertos, g)
      BY <1>1, VecesAgrega
  <2>3. CASE f = g
    <3>1. De(g, EnTabla)' = De(g, EnTabla) \union {m}
        BY <1>3, <2>3, LosDe
    <3>2. m \notin De(g, EnTabla)
        BY DEF De
    <3>3. Cardinality(De(g, EnTabla)') = Cardinality(De(g, EnTabla)) + 1
        BY <3>1, <3>2, FinitosDe, FS_AddElement
    <3>4. QED
        BY <2>1, <2>2, <2>3, <3>3
  <2>4. CASE f # g
    <3>1. De(g, EnTabla)' = De(g, EnTabla)
        BY <2>4, LosDe
    <3>2. QED
        BY <2>1, <2>2, <2>4, <3>1
  <2>5. QED
      BY <2>3, <2>4
<1>5. errada' \in BOOLEAN
    BY DEF Entradas
<1>6. QED
    BY <1>2, <1>4, <1>5 DEF Entradas

(* A thread that finds no entry of its file had lost it.                   *)
LEMMA EntradasPerdida ==
    ASSUME HilosInv, Entradas, NEW m, NEW h, Turno(m, h),
           hilo[m].pc = "buscaPos", h.pc = "responde", ~Contains(abiertos, m.especie),
           abiertos' = abiertos, errada' = errada
    PROVE  Entradas'
<1> DEFINE f == m.especie
<1>1. f \in ESPECIES /\ abiertos \in Seq(ESPECIES) /\ m \in DOMAIN hilo
    BY SusMensajes DEF Entradas, Turno
<1>2. Veces(abiertos, f) = 0
  <2>1. \A k \in 1 .. Len(abiertos) : abiertos[k] # f
      BY <1>1, LenProperties DEF Contains
  <2>2. QED
      BY <1>1, <2>1, VecesFinitas
<1>3. m \in De(f, EnTabla)
    BY <1>1 DEF De, EnTabla, Cerrando
<1>4. Cardinality(De(f, EnTabla)) # 0
    BY <1>3, FinitosDe, FS_EmptySet
<1>5. errada
    BY <1>1, <1>2, <1>4 DEF Entradas
<1>6. QED
    BY <1>5 DEF Entradas

(* A thread that removes an entry: its own, or it is noted.                *)
LEMMA EntradasSaca ==
    ASSUME HilosInv, Entradas, NEW m, NEW h, Turno(m, h),
           hilo[m].pc = "saca", h.pc = "responde",
           NEW i \in Nat, i > 0, i <= Len(abiertos), abiertos' = RemoveAt(abiertos, i),
           errada' = (errada \/ abiertos[i] # m.especie)
    PROVE  Entradas'
<1> DEFINE f == m.especie
<1>1. f \in ESPECIES /\ abiertos \in Seq(ESPECIES) /\ m \in DOMAIN hilo /\ errada \in BOOLEAN
    BY SusMensajes DEF Entradas, Turno
<1>2. PICK n \in Nat : n = Len(abiertos) /\ i \in 1 .. n
    BY <1>1, LenProperties
<1>3. Supresion(abiertos', ESPECIES, abiertos, n, i)
    BY <1>1, <1>2, Suprimir
<1>4. abiertos' \in Seq(ESPECIES)
    BY <1>3 DEF Supresion
<1>5. h.pc \notin EnTabla
    BY DEF EnTabla, Operando, Cerrando
<1>6. ASSUME NEW g \in ESPECIES, ~errada'
      PROVE  Veces(abiertos', g) = Cardinality(De(g, EnTabla)')
  <2>1. Veces(abiertos, g) = Cardinality(De(g, EnTabla)) /\ abiertos[i] = f
      BY <1>6 DEF Entradas
  <2>2. Veces(abiertos', g) = IF f = g THEN Veces(abiertos, g) - 1 ELSE Veces(abiertos, g)
      BY <1>1, <1>2, <1>3, <2>1, VecesSuprime
  <2>3. CASE f = g
    <3>1. De(g, EnTabla)' = De(g, EnTabla) \ {m}
        BY <1>5, <2>3, LosDe
    <3>2. m \in De(g, EnTabla)
        BY <1>1, <2>3 DEF De, EnTabla, Cerrando
    <3>3. Cardinality(De(g, EnTabla)') = Cardinality(De(g, EnTabla)) - 1
        BY <3>1, <3>2, FinitosDe, FS_RemoveElement
    <3>4. QED
        BY <2>1, <2>2, <2>3, <3>3
  <2>4. CASE f # g
    <3>1. De(g, EnTabla)' = De(g, EnTabla)
        BY <2>4, LosDe
    <3>2. QED
        BY <2>1, <2>2, <2>4, <3>1
  <2>5. QED
      BY <2>3, <2>4
<1>7. errada' \in BOOLEAN
    BY <1>1
<1>8. QED
    BY <1>4, <1>6, <1>7 DEF Entradas

(* The same four steps, and OPEN, which they leave.                        *)
LEMMA AbiertasQuietas ==
    ASSUME HilosInv, TablaInv, NEW m, NEW h, Turno(m, h), Entradas',
           \A f \in ESPECIES : meta'[f].open = meta[f].open,
           h.pc \in Operando <=> hilo[m].pc \in Operando
    PROVE  TablaInv'
<1>1. \A f : De(f, Operando)' = De(f, Operando)
    BY LosDe
<1>2. QED
    BY <1>1 DEF TablaInv

LEMMA TablaQuieta ==
    ASSUME HilosInv, TablaInv, NEW m, NEW h, Turno(m, h),
           abiertos' = abiertos, errada' = errada,
           \A f \in ESPECIES : meta'[f].open = meta[f].open,
           h.pc \in Operando <=> hilo[m].pc \in Operando,
           h.pc \in EnTabla <=> hilo[m].pc \in EnTabla
    PROVE  TablaInv'
<1>1. Entradas'
    BY EntradasQuietas DEF TablaInv
<1>2. QED
    BY <1>1, AbiertasQuietas

LEMMA TablaAgrega ==
    ASSUME HilosInv, TablaInv, NEW m, NEW h, Turno(m, h),
           hilo[m].pc \notin EnTabla, h.pc = "lee",
           abiertos' = Append(abiertos, m.especie), errada' = errada, meta' = meta
    PROVE  TablaInv'
<1>1. Entradas'
    BY EntradasAgrega DEF TablaInv
<1>2. h.pc \notin Operando /\ hilo[m].pc \notin Operando
    BY DEF EnTabla, Operando
<1>3. QED
    BY <1>1, <1>2, AbiertasQuietas

(* A thread begins to work on its file, which had nobody else.             *)
LEMMA TablaLee ==
    ASSUME HilosInv, CarpetasInv, TablaInv, NEW m, NEW h, Turno(m, h),
           hilo[m].pc = "lee", h.pc = "opera", De(m.especie, Operando) = {},
           abiertos' = abiertos, errada' = errada,
           meta' = [meta EXCEPT ![m.especie].open = TRUE]
    PROVE  TablaInv'
<1> DEFINE f == m.especie
<1>1. f \in ESPECIES /\ meta \in [ESPECIES -> Metadata] /\ m \in DOMAIN hilo
    BY SusMensajes DEF CarpetasInv, Turno
<1>2. /\ h.pc \in EnTabla /\ hilo[m].pc \in EnTabla
      /\ h.pc \in Operando /\ hilo[m].pc \notin Operando
    BY DEF EnTabla, Operando
<1>3. Entradas'
    BY <1>2, EntradasQuietas DEF TablaInv
<1>4. ASSUME NEW g \in ESPECIES PROVE meta'[g].open = (De(g, Operando)' # {})
  <2>1. CASE g = f
    <3>1. De(g, Operando)' = De(g, Operando) \union {m}
        BY <1>2, <2>1, LosDe
    <3>2. meta'[g].open = TRUE
        BY <1>1, <2>1 DEF Metadata
    <3>3. QED
        BY <3>1, <3>2
  <2>2. CASE g # f
    <3>1. De(g, Operando)' = De(g, Operando) /\ meta'[g] = meta[g]
        BY <1>1, <2>2, LosDe
    <3>2. QED
        BY <3>1 DEF TablaInv
  <2>3. QED
      BY <2>1, <2>2
<1>5. QED
    BY <1>3, <1>4 DEF TablaInv

(* And ends.                                                               *)
LEMMA TablaCierra ==
    ASSUME HilosInv, CarpetasInv, TablaInv, NEW m, NEW h, Turno(m, h),
           hilo[m].pc = "cierra", h.pc = "buscaPos",
           abiertos' = abiertos, errada' = errada,
           meta' = [meta EXCEPT ![m.especie].open = FALSE]
    PROVE  TablaInv'
<1> DEFINE f == m.especie
<1>1. f \in ESPECIES /\ meta \in [ESPECIES -> Metadata] /\ m \in DOMAIN hilo
    BY SusMensajes DEF CarpetasInv, Turno
<1>2. /\ h.pc \in EnTabla /\ hilo[m].pc \in EnTabla
      /\ h.pc \notin Operando /\ hilo[m].pc \in Operando
    BY DEF EnTabla, Operando, Cerrando
<1>3. Entradas'
    BY <1>2, EntradasQuietas DEF TablaInv
<1>4. ASSUME NEW g \in ESPECIES PROVE meta'[g].open = (De(g, Operando)' # {})
  <2>1. CASE g = f
    <3>1. De(f, Operando) = {m}
        BY <1>1, <1>2, UnoSolo
    <3>2. De(g, Operando)' = {}
        BY <1>2, <2>1, <3>1, LosDe
    <3>3. meta'[g].open = FALSE
        BY <1>1, <2>1 DEF Metadata
    <3>4. QED
        BY <3>2, <3>3
  <2>2. CASE g # f
    <3>1. De(g, Operando)' = De(g, Operando) /\ meta'[g] = meta[g]
        BY <1>1, <2>2, LosDe
    <3>2. QED
        BY <3>1 DEF TablaInv
  <2>3. QED
      BY <2>1, <2>2
<1>5. QED
    BY <1>3, <1>4 DEF TablaInv

LEMMA TablaPerdida ==
    ASSUME HilosInv, TablaInv, NEW m, NEW h, Turno(m, h),
           hilo[m].pc = "buscaPos", h.pc = "responde", ~Contains(abiertos, m.especie),
           abiertos' = abiertos, errada' = errada, meta' = meta
    PROVE  TablaInv'
<1>1. Entradas'
    BY EntradasPerdida DEF TablaInv
<1>2. h.pc \notin Operando /\ hilo[m].pc \notin Operando
    BY DEF Operando
<1>3. QED
    BY <1>1, <1>2, AbiertasQuietas

LEMMA TablaSaca ==
    ASSUME HilosInv, TablaInv, NEW m, NEW h, Turno(m, h),
           hilo[m].pc = "saca", h.pc = "responde",
           NEW i \in Nat, i > 0, i <= Len(abiertos), abiertos' = RemoveAt(abiertos, i),
           errada' = (errada \/ abiertos[i] # m.especie), meta' = meta
    PROVE  TablaInv'
<1>1. Entradas'
    BY EntradasSaca DEF TablaInv
<1>2. h.pc \notin Operando /\ hilo[m].pc \notin Operando
    BY DEF Operando
<1>3. QED
    BY <1>1, <1>2, AbiertasQuietas

-----------------------------------------------------------------------------
(* What truncate_tall_grass gives back and what it leaves.                 *)

(* The blocks of the first bytes come first.                               *)
LEMMA BloqueMonotono ==
    ASSUME NEW n \in Nat, NEW i \in 1 .. n
    PROVE  Bloque(i) \in 1 .. Relativo(n) + 1
<1>1. PICK p \in Nat, r \in Nat :
        /\ p = Relativo(n) /\ r < BLOCK_SIZE /\ n = p * BLOCK_SIZE + r
  <2>1. /\ Relativo(n) \in Nat /\ n % BLOCK_SIZE \in 0 .. BLOCK_SIZE - 1
        /\ n = Relativo(n) * BLOCK_SIZE + (n % BLOCK_SIZE)
      BY Division
  <2>2. \A r \in 0 .. BLOCK_SIZE - 1 : r \in Nat /\ r < BLOCK_SIZE
      BY Constantes
  <2>3. QED
      BY <2>1, <2>2
<1>2. PICK q \in Nat, t \in Nat : q = Relativo(i - 1) /\ i - 1 = q * BLOCK_SIZE + t
  <2>1. i - 1 \in Nat
      OBVIOUS
  <2>2. /\ Relativo(i - 1) \in Nat /\ (i - 1) % BLOCK_SIZE \in 0 .. BLOCK_SIZE - 1
        /\ i - 1 = Relativo(i - 1) * BLOCK_SIZE + ((i - 1) % BLOCK_SIZE)
      BY <2>1, Division
  <2>3. \A x \in 0 .. BLOCK_SIZE - 1 : x \in Nat
      BY Constantes
  <2>4. QED
      BY <2>2, <2>3
<1>3. p * BLOCK_SIZE \in Nat /\ q * BLOCK_SIZE \in Nat
    BY <1>1, <1>2, Constantes
<1>4. ~(p < q)
  <2>1. p < q => p * BLOCK_SIZE + BLOCK_SIZE <= q * BLOCK_SIZE
      BY <1>1, <1>2, BloqueAntes
  <2>2. QED
      BY <1>1, <1>2, <1>3, <2>1, Constantes
<1>5. q + 1 \in 1 .. p + 1
    BY <1>1, <1>2, <1>4
<1>6. QED
    BY <1>1, <1>2, <1>5 DEF Bloque

(* The block of the new end is one of the file.                            *)
LEMMA BloqueDelFin ==
    ASSUME NEW L \in Nat, NEW n \in Nat, n < L * BLOCK_SIZE
    PROVE  Relativo(n) \in Nat /\ Relativo(n) + 1 \in 1 .. L
<1>1. L * BLOCK_SIZE \in Nat
    BY Constantes
<1>2. n + 1 \in Nat /\ n + 1 >= 1 /\ n + 1 <= L * BLOCK_SIZE /\ n + 1 - 1 = n
    BY <1>1
<1>3. Bloque(n + 1) \in 1 .. L
    BY <1>2, EnSuBloque
<1>4. QED
    BY <1>2, <1>3, Division DEF Bloque

(* t is the first blocks of bl, those of its first n bytes.                *)
Principio(t, bl, n) ==
    /\ t \in Seq(Numeros) /\ Len(t) \in 0 .. Len(bl) /\ n <= Len(t) * BLOCK_SIZE
    /\ \A k \in 1 .. Len(t) : t[k] = bl[k]
    /\ \A i \in 1 .. n : Bloque(i) \in 1 .. Len(t)

(* What stays.                                                             *)
LEMMA LosQueQuedan ==
    ASSUME NEW bl \in Seq(Numeros), NEW n \in Nat, n < Len(bl) * BLOCK_SIZE
    PROVE  /\ Principio(QueQuedan(bl, n), bl, n)
           /\ Len(QueQuedan(bl, n)) = IF n = 0 THEN 0 ELSE Relativo(n) + 1
<1> DEFINE t == QueQuedan(bl, n)
           p == Relativo(n)
<1>1. Len(bl) \in Nat
    BY LenProperties
<1>2. p \in Nat /\ p + 1 \in 1 .. Len(bl)
    BY <1>1, BloqueDelFin
<1> HIDE DEF p
<1>3. CASE n = 0
  <2>1. t = << >>
      BY <1>3 DEF QueQuedan
  <2>2. << >> \in Seq(Numeros) /\ Len(<< >>) = 0
      OBVIOUS
  <2>3. 0 * BLOCK_SIZE = 0
      BY Constantes
  <2>4. Principio(t, bl, n)
    <3>1. t \in Seq(Numeros) /\ Len(t) = 0
        BY <2>1, <2>2
    <3> HIDE DEF t
    <3>2. QED
        BY <1>1, <1>3, <2>3, <3>1 DEF Principio
  <2>5. QED
      BY <1>3, <2>1, <2>2, <2>4
<1>4. CASE n # 0
  <2>1. t = SubSeq(bl, 1, p + 1)
    <3>1. Relativo(n) < Len(bl)
        BY <1>1, <1>2 DEF p
    <3>2. QED
        BY <1>4, <3>1 DEF QueQuedan, p
  <2>2. \A k \in 1 .. p + 1 : bl[k] \in Numeros
      BY <1>1, <1>2, ElementOfSeq
  <2>3. /\ t \in Seq(Numeros) /\ Len(t) = p + 1
        /\ \A k \in 1 .. p + 1 : t[k] = bl[k]
      BY <1>2, <2>1, <2>2, SubSeqProperties
  <2>4. \A i \in 1 .. n : Bloque(i) \in 1 .. p + 1
      BY BloqueMonotono DEF p
  <2>5. n <= (p + 1) * BLOCK_SIZE
    <3>1. PICK r \in 0 .. BLOCK_SIZE - 1 : n = p * BLOCK_SIZE + r
        BY Division DEF p
    <3>2. (p + 1) * BLOCK_SIZE = p * BLOCK_SIZE + BLOCK_SIZE /\ p * BLOCK_SIZE \in Nat
        BY <1>2, Constantes
    <3>3. QED
        BY <3>1, <3>2, Constantes
  <2>6. Principio(t, bl, n)
    <3> HIDE DEF t
    <3>1. QED
        BY <1>1, <1>2, <2>3, <2>4, <2>5 DEF Principio
  <2>7. QED
      BY <1>4, <2>3, <2>6 DEF p
<1>5. QED
    BY <1>3, <1>4

(* The blocks that are given back, which are the rest.                     *)
Resto(a, t, bl) ==
    /\ a \in Seq(Numeros) /\ Distintos(a)
    /\ ToSet(a) \intersect ToSet(t) = {}
    /\ ToSet(a) \union ToSet(t) = ToSet(bl)

(* What is given back.                                                     *)
LEMMA LosQueLibera ==
    ASSUME NEW bl \in Seq(Numeros), Distintos(bl), NEW n \in Nat, n < Len(bl) * BLOCK_SIZE
    PROVE  Resto(ALiberar(bl, n), QueQuedan(bl, n), bl)
<1> DEFINE t == QueQuedan(bl, n)
           a == ALiberar(bl, n)
           p == Relativo(n)
<1>1. PICK L \in Nat : L = Len(bl) /\ DOMAIN bl = 1 .. L
    BY LenProperties
<1> DEFINE c == SubSeq(bl, p + 2, L)
<1>2. p \in Nat /\ p + 1 \in 1 .. L
    BY <1>1, BloqueDelFin
<1>3. /\ t \in Seq(Numeros) /\ Len(t) = IF n = 0 THEN 0 ELSE p + 1
      /\ \A k \in 1 .. Len(t) : t[k] = bl[k]
    BY LosQueQuedan DEF Principio
<1>4. n = 0 => p = 0
  <2>1. 0 \in 0 .. BLOCK_SIZE - 1 /\ 0 = 0 * BLOCK_SIZE + 0
      BY Constantes
  <2>2. Relativo(0) = 0
      BY <2>1, DivisionUnica
  <2>3. QED
      BY <2>2
<1>5. a = c \o (IF n = 0 THEN <<bl[1]>> ELSE << >>)
    BY <1>1 DEF ALiberar
<1> HIDE DEF p, t
<1>6. /\ c \in Seq(Numeros) /\ Len(c) = L - p - 1
      /\ \A k \in 1 .. L - p - 1 : c[k] = bl[p + 1 + k]
  <2>1. \A k \in p + 2 .. L : bl[k] \in Numeros
      BY <1>1, <1>2, ElementOfSeq
  <2>2. p + 2 \in Int /\ L \in Int
      BY <1>1, <1>2
  <2>3. /\ c \in Seq(Numeros)
        /\ Len(c) = IF p + 2 <= L THEN L - (p + 2) + 1 ELSE 0
        /\ \A k \in 1 .. L - (p + 2) + 1 : c[k] = bl[p + 2 + k - 1]
      BY <2>1, <2>2, SubSeqProperties
  <2>4. L - (p + 2) + 1 = L - p - 1 /\ \A k \in 1 .. L - p - 1 : p + 2 + k - 1 = p + 1 + k
      BY <1>1, <1>2
  <2>5. Len(c) = L - p - 1
    <3> HIDE DEF c
    <3>1. QED
        BY <1>1, <1>2, <2>3
  <2>6. QED
    <3> HIDE DEF c
    <3>1. QED
        BY <2>3, <2>4, <2>5
<1> HIDE DEF c
<1>7. CASE n = 0
  <2>1. /\ a \in Seq(Numeros) /\ Len(a) = L
        /\ \A k \in 1 .. L - 1 : a[k] = bl[k + 1]
        /\ a[L] = bl[1]
    <3>1. <<bl[1]>> \in Seq(Numeros) /\ Len(<<bl[1]>>) = 1 /\ <<bl[1]>>[1] = bl[1]
        BY <1>1, <1>2, ElementOfSeq
    <3>2. a = c \o <<bl[1]>>
        BY <1>5, <1>7
    <3> HIDE DEF a
    <3>3. PICK u : u = <<bl[1]>>
        OBVIOUS
    <3>4. /\ a \in Seq(Numeros) /\ Len(a) = Len(c) + Len(u)
          /\ \A k \in 1 .. Len(c) + Len(u) : a[k] = IF k <= Len(c) THEN c[k] ELSE u[k - Len(c)]
        BY <1>6, <3>1, <3>2, <3>3, ConcatProperties
    <3>5. Len(c) = L - 1 /\ Len(u) = 1 /\ u[1] = bl[1]
        BY <1>1, <1>4, <1>6, <1>7, <3>1, <3>3
    <3>6. \A k \in 1 .. L - 1 : a[k] = bl[k + 1]
      <4>1. \A k \in 1 .. L - 1 : a[k] = c[k]
        <5>1. \A k \in 1 .. L - 1 : k \in 1 .. Len(c) + Len(u) /\ k <= Len(c)
            BY <3>5
        <5>2. QED
            BY <3>4, <5>1
      <4>2. \A k \in 1 .. L - 1 : c[k] = bl[k + 1]
          BY <1>1, <1>4, <1>6, <1>7
      <4>3. QED
          BY <4>1, <4>2
    <3>7. a[L] = bl[1]
      <4>1. L \in 1 .. Len(c) + Len(u) /\ ~(L <= Len(c)) /\ L - Len(c) = 1
          BY <1>1, <1>2, <3>5
      <4>2. QED
          BY <3>4, <3>5, <4>1
    <3>8. QED
        BY <1>1, <3>4, <3>5, <3>6, <3>7
  <2> HIDE DEF a
  <2>2. DOMAIN a = 1 .. L /\ DOMAIN t = {}
      BY <1>3, <1>7, <2>1, LenProperties
  <2>3. ToSet(t) = {}
      BY <2>2 DEF ToSet
  <2>4. ToSet(a) = ToSet(bl)
    <3>1. ASSUME NEW k \in 1 .. L PROVE \E j \in 1 .. L : bl[j] = a[k]
      <4>1. CASE k = L
          BY <1>2, <2>1, <4>1
      <4>2. CASE k # L
        <5>1. k \in 1 .. L - 1 /\ k + 1 \in 1 .. L
            BY <1>1, <4>2
        <5>2. QED
            BY <2>1, <5>1
      <4>3. QED
          BY <4>1, <4>2
    <3>2. ASSUME NEW j \in 1 .. L PROVE \E k \in 1 .. L : a[k] = bl[j]
      <4>1. CASE j = 1
          BY <1>1, <2>1, <4>1
      <4>2. CASE j # 1
        <5>1. j - 1 \in 1 .. L - 1 /\ j - 1 + 1 = j /\ j - 1 \in 1 .. L
            BY <1>1, <4>2
        <5>2. QED
            BY <2>1, <5>1
      <4>3. QED
          BY <4>1, <4>2
    <3>3. /\ \A x : x \in ToSet(a) <=> \E k \in 1 .. L : a[k] = x
          /\ \A x : x \in ToSet(bl) <=> \E k \in 1 .. L : bl[k] = x
        BY <1>1, <2>1, ElementosDe
    <3>4. \A x : x \in ToSet(a) <=> x \in ToSet(bl)
        BY <3>1, <3>2, <3>3
    <3>5. QED
        BY <3>4
  <2>5. Distintos(a)
    <3>1. SUFFICES ASSUME NEW j \in 1 .. L, NEW k \in 1 .. L, a[j] = a[k] PROVE j = k
        BY <2>1 DEF Distintos
    <3>2. \A i \in 1 .. L : a[i] = bl[IF i = L THEN 1 ELSE i + 1]
        BY <1>1, <2>1
    <3>3. \A i \in 1 .. L : (IF i = L THEN 1 ELSE i + 1) \in 1 .. L
        BY <1>1
    <3>4. (IF j = L THEN 1 ELSE j + 1) = (IF k = L THEN 1 ELSE k + 1)
        BY <1>1, <3>1, <3>2, <3>3 DEF Distintos
    <3>5. QED
        BY <1>1, <3>4
  <2>6. QED
      BY <2>1, <2>3, <2>4, <2>5 DEF Resto, t, a
<1>8. CASE n # 0
  <2>1. a = c
      BY <1>5, <1>6, <1>8, ConcatEmptySeq
  <2> HIDE DEF a
  <2>2. DOMAIN c = 1 .. L - p - 1 /\ DOMAIN t = 1 .. p + 1
      BY <1>3, <1>6, <1>8, LenProperties
  <2>3. \A k \in 1 .. p + 1 : t[k] = bl[k] /\ k \in 1 .. L
      BY <1>1, <1>2, <1>3, <1>8
  <2>4. \A k \in 1 .. L - p - 1 : c[k] = bl[p + 1 + k] /\ p + 1 + k \in 1 .. L
      BY <1>1, <1>2, <1>6
  <2>5. Distintos(c)
    <3>1. SUFFICES ASSUME NEW j \in 1 .. L - p - 1, NEW k \in 1 .. L - p - 1, c[j] = c[k]
                   PROVE  j = k
        BY <1>6 DEF Distintos
    <3>2. p + 1 + j = p + 1 + k
        BY <1>1, <2>4, <3>1 DEF Distintos
    <3>3. QED
        BY <1>1, <1>2, <3>2
  <2>6. ToSet(c) \intersect ToSet(t) = {}
    <3>1. ASSUME NEW j \in 1 .. L - p - 1, NEW k \in 1 .. p + 1, c[j] = t[k] PROVE FALSE
      <4>1. p + 1 + j = k
          BY <1>1, <2>3, <2>4, <3>1 DEF Distintos
      <4>2. QED
          BY <1>1, <1>2, <4>1
    <3>2. QED
        BY <2>2, <3>1 DEF ToSet
  <2>7. ToSet(c) \union ToSet(t) = ToSet(bl)
    <3>1. ASSUME NEW j \in 1 .. L
          PROVE  (\E k \in 1 .. p + 1 : t[k] = bl[j]) \/ \E k \in 1 .. L - p - 1 : c[k] = bl[j]
      <4>1. CASE j <= p + 1
        <5>1. j \in 1 .. p + 1
            BY <1>1, <1>2, <4>1
        <5>2. QED
            BY <2>3, <5>1
      <4>2. CASE ~(j <= p + 1)
        <5>1. j - p - 1 \in 1 .. L - p - 1 /\ p + 1 + (j - p - 1) = j
            BY <1>1, <1>2, <4>2
        <5>2. QED
            BY <2>4, <5>1
      <4>3. QED
          BY <4>1, <4>2
    <3>2. /\ \A x : x \in ToSet(c) <=> \E k \in 1 .. L - p - 1 : c[k] = x
          /\ \A x : x \in ToSet(t) <=> \E k \in 1 .. p + 1 : t[k] = x
          /\ \A x : x \in ToSet(bl) <=> \E k \in 1 .. L : bl[k] = x
        BY <1>1, <1>3, <1>6, <1>8, ElementosDe
    <3>3. \A x : x \in ToSet(c) \/ x \in ToSet(t) => x \in ToSet(bl)
        BY <2>3, <2>4, <3>2
    <3>4. \A x : x \in ToSet(bl) => x \in ToSet(c) \/ x \in ToSet(t)
        BY <3>1, <3>2
    <3>5. QED
        BY <3>3, <3>4
  <2>8. QED
      BY <1>6, <2>1, <2>5, <2>6, <2>7 DEF Resto, t, a
<1>9. QED
    BY <1>7, <1>8

-----------------------------------------------------------------------------
(* What is known of a file from who works on it.                           *)

(* What the thread m makes of its file.                                    *)
Suyo(m) ==
    LET f == m.especie
        h == hilo[m]
        bl == meta[f].bloques IN
    /\ De(f, Cortando) = IF h.pc \in Cortando THEN {m} ELSE {}
    /\ De(f, Escriben) = IF h.pc \in Escriben THEN {m} ELSE {}
    /\ Queda(f) = IF h.pc \in Cortando THEN h.corte ELSE meta[f].size
    /\ Nuevo(f) = IF h.pc \in Escriben THEN h.datos ELSE << >>
    /\ Van(f) = IF h.pc \in Escriben THEN h.van ELSE 0
    /\ h.pc \notin Cortando => Propios(f) = ToSet(bl) /\ Tomados(f) = ToSet(bl)
    /\ h.pc = "libera" => Propios(f) = ToSet(QueQuedan(bl, h.corte)) \union ToSet(h.libera)
    /\ h.pc = "vuelcaLibre" =>
         Propios(f) = ToSet(QueQuedan(bl, h.corte)) \union ToSet(Tail(h.libera))
    /\ h.pc \in Cortando => Tomados(f) = ToSet(QueQuedan(bl, h.corte)) \union ToSet(h.libera)

(* The places of a thread that works on a file.                            *)
LEMMA Lugares ==
    /\ Cortando \subseteq Escriben /\ Escriben \subseteq Operando
    /\ Cortando = {"libera", "vuelcaLibre"} /\ "opera" \notin Escriben
    /\ "cierra" \notin Escriben /\ "escribe" \notin Cortando /\ "vuelca" \notin Cortando
    /\ "escribe" \in Escriben /\ "vuelca" \in Escriben
BY DEF Cortando, Escriben, Escribiendo, Operando

(* No other thread of the file has blocks to give back.                    *)
LEMMA SinLibera ==
    ASSUME HilosInv, NEW f, De(f, Cortando) = {}
    PROVE  UNION {ToSet(hilo[u].libera) : u \in {v \in DOMAIN hilo : v.especie = f}} = {}
<1>1. ASSUME NEW u \in DOMAIN hilo, u.especie = f PROVE ToSet(hilo[u].libera) = {}
  <2>1. hilo[u].pc \notin Cortando
      BY <1>1 DEF De
  <2>2. hilo[u].libera = << >>
      BY <2>1 DEF HilosInv, HiloBien
  <2>3. QED
      BY <2>2 DEF ToSet
<1>2. QED
    BY <1>1

(* The thread that works on a file is the one its state comes from.        *)
LEMMA SuArchivo ==
    HilosInv /\ CarpetasInv =>
        \A m \in DOMAIN hilo : hilo[m].pc \in Operando => Suyo(m)
<1> SUFFICES ASSUME HilosInv, CarpetasInv, NEW m \in DOMAIN hilo, hilo[m].pc \in Operando
             PROVE  Suyo(m)
    OBVIOUS
<1> DEFINE f == m.especie
           h == hilo[m]
           bl == meta[f].bloques
<1>1. /\ De(f, Cortando) = IF h.pc \in Cortando THEN {m} ELSE {}
      /\ De(f, Escriben) = IF h.pc \in Escriben THEN {m} ELSE {}
    BY UnoSolo, Lugares
<1>2. h.pc \in Escriben => Escritor(f) = m
    BY <1>1 DEF Escritor
<1>3. Queda(f) = IF h.pc \in Cortando THEN h.corte ELSE meta[f].size
    BY <1>1, <1>2, Lugares DEF Queda
<1>4. Nuevo(f) = IF h.pc \in Escriben THEN h.datos ELSE << >>
    BY <1>1, <1>2 DEF Nuevo
<1>5. Van(f) = IF h.pc \in Escriben THEN h.van ELSE 0
    BY <1>1, <1>2 DEF Van
<1>6. CASE h.pc \notin Cortando
  <2>1. De(f, Cortando) = {}
      BY <1>1, <1>6
  <2>2. Propios(f) = ToSet(bl)
      BY <2>1, Lugares DEF Propios
  <2>3. Tomados(f) = ToSet(bl)
      BY <2>1, <2>2, SinLibera DEF Tomados
  <2>4. QED
      BY <1>1, <1>3, <1>4, <1>5, <1>6, <2>2, <2>3, Lugares DEF Suyo
<1>7. CASE h.pc \in Cortando
  <2>1. De(f, {"libera", "vuelcaLibre"}) = {m}
      BY <1>1, <1>7, Lugares
  <2>2. (CHOOSE u \in De(f, {"libera", "vuelcaLibre"}) : TRUE) = m
      BY <2>1
  <2>3. Propios(f) = ToSet(QueQuedan(bl, h.corte))
                       \union ToSet(IF h.pc = "libera" THEN h.libera ELSE Tail(h.libera))
      BY <2>1, <2>2 DEF Propios
  <2>4. ASSUME NEW u \in DOMAIN hilo, u.especie = f, u # m PROVE ToSet(hilo[u].libera) = {}
    <3>1. hilo[u].pc \notin Cortando
        BY <1>1, <1>7, <2>4 DEF De
    <3>2. hilo[u].libera = << >>
        BY <3>1 DEF HilosInv, HiloBien
    <3>3. QED
        BY <3>2 DEF ToSet
  <2>5. UNION {ToSet(hilo[u].libera) : u \in {v \in DOMAIN hilo : v.especie = f}} = ToSet(h.libera)
      BY <2>4
  <2>6. h.pc = "vuelcaLibre" => ToSet(Tail(h.libera)) \subseteq ToSet(h.libera)
    <3>1. h.libera \in Seq(Numeros)
        BY DEF HilosInv, Hilo
    <3>2. h.pc = "vuelcaLibre" => h.libera # << >>
        BY DEF HilosInv, HiloBien
    <3>3. ASSUME h.libera # << >> PROVE ToSet(Tail(h.libera)) \subseteq ToSet(h.libera)
      <4>1. PICK n \in Nat : n = Len(h.libera)
          BY <3>1, LenProperties
      <4>2. /\ Tail(h.libera) \in Seq(Numeros) /\ Len(Tail(h.libera)) = n - 1
            /\ \A i \in 1 .. n - 1 : Tail(h.libera)[i] = h.libera[i + 1]
          BY <3>1, <3>3, <4>1, HeadTailProperties
      <4>3. /\ \A x : x \in ToSet(h.libera) <=> \E k \in 1 .. n : h.libera[k] = x
            /\ \A x : x \in ToSet(Tail(h.libera)) <=> \E k \in 1 .. n - 1 : Tail(h.libera)[k] = x
        <5>1. \A x : x \in ToSet(h.libera) <=> \E k \in 1 .. n : h.libera[k] = x
            BY <3>1, <4>1, ElementosDe
        <5>2. PICK t \in Seq(Numeros) : t = Tail(h.libera) /\ Len(t) = n - 1
            BY <4>2
        <5>3. \A x : x \in ToSet(t) <=> \E k \in 1 .. n - 1 : t[k] = x
            BY <5>2, ElementosDe, ZenonT(30)
        <5>4. QED
            BY <5>1, <5>2, <5>3
      <4>4. \A k \in 1 .. n - 1 : k + 1 \in 1 .. n
          OBVIOUS
      <4>5. QED
          BY <4>2, <4>3, <4>4
    <3>4. QED
        BY <3>2, <3>3
  <2>7. Tomados(f) = ToSet(QueQuedan(bl, h.corte)) \union ToSet(h.libera)
    <3>1. CASE h.pc = "libera"
        BY <2>3, <2>5, <3>1 DEF Tomados
    <3>2. CASE h.pc = "vuelcaLibre"
        BY <2>3, <2>5, <2>6, <3>2 DEF Tomados
    <3>3. QED
        BY <1>7, <3>1, <3>2, Lugares
  <2>8. h.pc = "libera" => Propios(f) = ToSet(QueQuedan(bl, h.corte)) \union ToSet(h.libera)
      BY <2>3
  <2>9. h.pc = "vuelcaLibre" =>
          Propios(f) = ToSet(QueQuedan(bl, h.corte)) \union ToSet(Tail(h.libera))
      BY <2>3
  <2>10. QED
      BY <1>1, <1>3, <1>4, <1>5, <1>7, <2>7, <2>8, <2>9, Lugares DEF Suyo
<1>8. QED
    BY <1>6, <1>7

(* The same after a step.                                                  *)
LEMMA SuArchivoDespues ==
    (HilosInv /\ CarpetasInv)' =>
        (\A m \in DOMAIN hilo : hilo[m].pc \in Operando => Suyo(m))'
BY SuArchivo, PTL

(* A file of which nothing changes but OPEN.                               *)
Igual(f) ==
    /\ De(f, Cortando)' = De(f, Cortando)
    /\ Queda(f)' = Queda(f) /\ Nuevo(f)' = Nuevo(f) /\ Van(f)' = Van(f)
    /\ meta'[f].size = meta[f].size /\ meta'[f].bloques = meta[f].bloques
    /\ Propios(f)' = Propios(f) /\ Tomados(f)' = Tomados(f)

(* The files of others, and of who is not rewriting it before nor after.   *)
LEMMA Ajeno ==
    ASSUME HilosInv, NEW m, NEW h, Turno(m, h), NEW f,
           meta'[f].size = meta[f].size, meta'[f].bloques = meta[f].bloques,
           f # m.especie \/ (hilo[m].pc \notin Escriben /\ h.pc \notin Escriben)
    PROVE  Igual(f)
<1>1. /\ HilosInv' /\ DOMAIN hilo' = DOMAIN hilo /\ hilo'[m] = h /\ m \in DOMAIN hilo
      /\ \A u \in DOMAIN hilo : u # m => hilo'[u] = hilo[u]
    BY LosHilos DEF Turno
<1>2. /\ De(f, Cortando)' = De(f, Cortando) /\ De(f, Escriben)' = De(f, Escriben)
      /\ De(f, {"libera", "vuelcaLibre"})' = De(f, {"libera", "vuelcaLibre"})
    BY LosDe, Lugares
<1>3. m \notin De(f, Escriben) /\ m \notin De(f, Cortando) /\ De(f, Cortando) \subseteq De(f, Escriben)
    BY Lugares DEF De
<1>4. Escritor(f)' = Escritor(f)
    BY <1>2 DEF Escritor
<1>5. De(f, Escriben) # {} => Escritor(f) \in De(f, Escriben)
    BY DEF Escritor
<1>6. \A u \in De(f, Escriben) : hilo'[u] = hilo[u]
    BY <1>1, <1>3 DEF De
<1>7. Queda(f)' = Queda(f)
    BY <1>2, <1>3, <1>4, <1>5, <1>6 DEF Queda
<1>8. Nuevo(f)' = Nuevo(f) /\ Van(f)' = Van(f)
    BY <1>2, <1>4, <1>5, <1>6 DEF Nuevo, Van
<1>9. Propios(f)' = Propios(f)
  <2> DEFINE u == CHOOSE v \in De(f, {"libera", "vuelcaLibre"}) : TRUE
  <2>1. De(f, {"libera", "vuelcaLibre"}) # {} => hilo'[u] = hilo[u]
    <3>1. De(f, {"libera", "vuelcaLibre"}) # {} => u \in De(f, Escriben)
        BY <1>3, Lugares
    <3>2. QED
        BY <1>6, <3>1
  <2>2. u' = u
      BY <1>2
  <2>3. Propios(f) = IF De(f, {"libera", "vuelcaLibre"}) = {} THEN ToSet(meta[f].bloques)
                     ELSE ToSet(QueQuedan(meta[f].bloques, hilo[u].corte)) \union
                          ToSet(IF hilo[u].pc = "libera" THEN hilo[u].libera ELSE Tail(hilo[u].libera))
      BY DEF Propios
  <2>4. Propios(f)' = IF De(f, {"libera", "vuelcaLibre"})' = {} THEN ToSet(meta'[f].bloques)
                     ELSE ToSet(QueQuedan(meta'[f].bloques, hilo'[u'].corte)) \union
                          ToSet(IF hilo'[u'].pc = "libera" THEN hilo'[u'].libera
                                ELSE Tail(hilo'[u'].libera))
      BY DEF Propios
  <2> HIDE DEF u
  <2>5. CASE De(f, {"libera", "vuelcaLibre"}) = {}
      BY <1>2, <2>3, <2>4, <2>5
  <2>6. CASE De(f, {"libera", "vuelcaLibre"}) # {}
    <3>1. hilo'[u'] = hilo[u]
        BY <2>1, <2>2, <2>6
    <3>2. Propios(f)' = ToSet(QueQuedan(meta'[f].bloques, hilo'[u'].corte)) \union
                          ToSet(IF hilo'[u'].pc = "libera" THEN hilo'[u'].libera
                                ELSE Tail(hilo'[u'].libera))
        BY <1>2, <2>4, <2>6
    <3>3. QED
        BY <2>3, <2>6, <3>1, <3>2
  <2>7. QED
      BY <2>5, <2>6
<1>10. Tomados(f)' = Tomados(f)
  <2>1. ASSUME NEW u \in DOMAIN hilo, u.especie = f PROVE hilo'[u].libera = hilo[u].libera
    <3>1. CASE u # m
        BY <1>1, <2>1, <3>1
    <3>2. CASE u = m
      <4>1. hilo[m].pc \notin Cortando /\ h.pc \notin Cortando
          BY <2>1, <3>2, Lugares
      <4>2. hilo[m].libera = << >> /\ h.libera = << >>
          BY <1>1, <4>1 DEF Turno, HilosInv, HiloBien
      <4>3. QED
          BY <1>1, <3>2, <4>2
    <3>3. QED
        BY <3>1, <3>2
  <2>2. {ToSet(hilo'[u].libera) : u \in {v \in DOMAIN hilo : v.especie = f}}
          = {ToSet(hilo[u].libera) : u \in {v \in DOMAIN hilo : v.especie = f}}
      BY <2>1
  <2>3. QED
      BY <1>1, <1>9, <2>2 DEF Tomados
<1>11. QED
    BY <1>2, <1>7, <1>8, <1>9, <1>10 DEF Igual

-----------------------------------------------------------------------------
(* What the step of a thread leaves of the contents of files.              *)

(* The types of what describes a file.                                     *)
LEMMA TiposDelArchivo ==
    ASSUME HilosInv, CarpetasInv, NEW f \in ESPECIES
    PROVE  /\ meta[f].bloques \in Seq(Numeros) /\ meta[f].size \in Nat
           /\ Len(meta[f].bloques) \in Nat
           /\ Queda(f) \in Nat /\ Nuevo(f) \in Seq(Byte) /\ Van(f) \in 0 .. Len(Nuevo(f))
           /\ De(f, Cortando) # {} => Van(f) = 0
<1>1. meta[f] \in Metadata
    BY DEF CarpetasInv
<1>2. meta[f].bloques \in Seq(Numeros) /\ meta[f].size \in Nat /\ Len(meta[f].bloques) \in Nat
    BY <1>1, LenProperties DEF Metadata
<1>3. De(f, Cortando) \subseteq De(f, Escriben)
    BY Lugares DEF De
<1>4. CASE De(f, Escriben) = {}
  <2>1. De(f, Cortando) = {}
      BY <1>3, <1>4
  <2>2. Queda(f) = meta[f].size /\ Nuevo(f) = << >> /\ Van(f) = 0
      BY <1>4, <2>1 DEF Queda, Nuevo, Van
  <2>3. << >> \in Seq(Byte) /\ Len(<< >>) = 0
      OBVIOUS
  <2>4. QED
      BY <1>2, <2>2, <2>3
<1>5. CASE De(f, Escriben) # {}
  <2>1. PICK m \in De(f, Escriben) : TRUE
      BY <1>5
  <2>2. /\ m \in DOMAIN hilo /\ hilo[m].pc \in Escriben /\ m.especie = f
        /\ hilo[m].pc \in Operando
      BY <2>1, Lugares DEF De
  <2>3. Suyo(m)
      BY <2>2, SuArchivo
  <2>4. /\ hilo[m].datos \in Seq(Byte) /\ hilo[m].van \in Nat /\ hilo[m].corte \in Nat
        /\ hilo[m].van <= Len(hilo[m].datos)
        /\ hilo[m].pc \in Cortando => hilo[m].van = 0
      BY <2>2 DEF HilosInv, Hilo, HiloBien
  <2>5. Len(hilo[m].datos) \in Nat /\ hilo[m].van \in 0 .. Len(hilo[m].datos)
      BY <2>4, LenProperties
  <2>6. Nuevo(f) = hilo[m].datos /\ Van(f) = hilo[m].van /\ Queda(f) \in Nat
      BY <1>2, <2>2, <2>3, <2>4 DEF Suyo
  <2>7. De(f, Cortando) # {} => Van(f) = 0
      BY <2>2, <2>3, <2>4, <2>6 DEF Suyo
  <2>8. QED
      BY <1>2, <2>4, <2>5, <2>6, <2>7
<1>6. QED
    BY <1>4, <1>5

(* The bytes of a file are in its own blocks.                              *)
LEMMA BytesPropios ==
    ASSUME HilosInv, CarpetasInv, NEW f \in ESPECIES, Entero(f),
           NEW i \in 1 .. Queda(f) + Van(f)
    PROVE  /\ Bloque(i) \in 1 .. Len(meta[f].bloques)
           /\ meta[f].bloques[Bloque(i)] \in Propios(f) \intersect Numeros
<1> DEFINE bl == meta[f].bloques
<1>1. /\ bl \in Seq(Numeros) /\ Len(bl) \in Nat /\ Queda(f) \in Nat /\ Van(f) \in Nat
      /\ meta[f].size \in Nat
      /\ De(f, Cortando) # {} => Van(f) = 0
  <2>1. Van(f) \in 0 .. Len(Nuevo(f)) => Van(f) \in Nat
      OBVIOUS
  <2>2. QED
      BY <2>1, TiposDelArchivo
<1>2. /\ Queda(f) + Van(f) <= Len(bl) * BLOCK_SIZE
      /\ meta[f].size <= Len(bl) * BLOCK_SIZE
      /\ De(f, Cortando) # {} => Queda(f) < meta[f].size
    BY DEF Entero, EnDisco
<1>3. Len(bl) * BLOCK_SIZE \in Nat
    BY <1>1, Constantes
<1> HIDE DEF bl
<1>4. Bloque(i) \in 1 .. Len(bl)
  <2>1. i \in Nat /\ i >= 1 /\ i <= Len(bl) * BLOCK_SIZE
      BY <1>1, <1>2, <1>3
  <2>2. QED
      BY <1>1, <2>1, EnSuBloque
<1>5. bl[Bloque(i)] \in Numeros
    BY <1>1, <1>4, ElementOfSeq
<1>6. CASE De(f, Cortando) = {}
  <2>1. Propios(f) = ToSet(bl)
      BY <1>6, Lugares DEF Propios, bl
  <2>2. bl[Bloque(i)] \in ToSet(bl)
      BY <1>1, <1>4, ElementosDe
  <2>3. QED
      BY <1>4, <1>5, <2>1, <2>2 DEF bl
<1>7. CASE De(f, Cortando) # {}
  <2>1. PICK m \in De(f, Cortando) : TRUE
      BY <1>7
  <2>2. /\ m \in DOMAIN hilo /\ hilo[m].pc \in Cortando /\ m.especie = f
        /\ hilo[m].pc \in Operando
      BY <2>1, Lugares DEF De
  <2>3. Suyo(m)
      BY <2>2, SuArchivo
  <2>4. PICK n \in Nat : n = Queda(f) /\ n = hilo[m].corte
      BY <1>1, <2>2, <2>3 DEF Suyo
  <2>5. n < Len(bl) * BLOCK_SIZE /\ i \in 1 .. n
      BY <1>1, <1>2, <1>3, <1>7, <2>4
  <2>6. Principio(QueQuedan(bl, n), bl, n)
      BY <1>1, <2>5, LosQueQuedan
  <2>7. PICK t : t = QueQuedan(bl, n)
      OBVIOUS
  <2>8. Bloque(i) \in 1 .. Len(t) /\ t[Bloque(i)] = bl[Bloque(i)] /\ t \in Seq(Numeros)
      BY <2>5, <2>6, <2>7 DEF Principio
  <2>9. bl[Bloque(i)] \in ToSet(t)
      BY <2>8, ElementosDe
  <2>10. ToSet(t) \subseteq Propios(f)
      BY <2>2, <2>3, <2>4, <2>7, Lugares DEF Suyo, bl
  <2>11. QED
      BY <1>4, <1>5, <2>9, <2>10 DEF bl
<1>8. QED
    BY <1>6, <1>7

(* The bytes on the disk are bytes.                                        *)
LEMMA TextoEs ==
    ASSUME NEW d, DiscoBien(d), NEW bl \in Seq(Numeros), NEW n \in Nat,
           n <= Len(bl) * BLOCK_SIZE, \A i \in 1 .. n : HayByte(d, bl, i)
    PROVE  /\ Texto(d, bl, n) \in Seq(Byte) /\ Len(Texto(d, bl, n)) = n
           /\ \A i \in 1 .. n : Texto(d, bl, n)[i] = ByteEn(d, bl, i)
<1>1. Len(bl) \in Nat
    BY LenProperties
<1>2. ASSUME NEW i \in 1 .. n PROVE ByteEn(d, bl, i) \in Byte
  <2>1. i \in Nat /\ i >= 1 /\ i <= Len(bl) * BLOCK_SIZE
      BY <1>1, Constantes
  <2>2. Bloque(i) \in 1 .. Len(bl) /\ Lugar(i) \in 1 .. BLOCK_SIZE
      BY <1>1, <2>1, EnSuBloque, LugarDe
  <2>3. bl[Bloque(i)] \in Numeros
      BY <2>2, ElementOfSeq
  <2>4. PICK s \in Seq(Byte) : s = d[bl[Bloque(i)]]
      BY <2>3 DEF DiscoBien
  <2>5. Lugar(i) <= Len(s)
      BY <2>4 DEF HayByte
  <2>6. PICK o \in Nat : o = Lugar(i) /\ o >= 1
      BY <2>2, Constantes
  <2>7. o \in 1 .. Len(s)
      BY <2>4, <2>5, <2>6, LenProperties
  <2>8. QED
      BY <2>4, <2>6, <2>7, ElementOfSeq DEF ByteEn
<1>3. Texto(d, bl, n) \in [1 .. n -> Byte]
    BY <1>2 DEF Texto
<1>4. \A i \in 1 .. n : Texto(d, bl, n)[i] = ByteEn(d, bl, i)
    BY DEF Texto
<1>5. QED
    BY <1>3, <1>4, SeqDeFuncion

(* A count has two digits at most.                                         *)
LEMMA CuentasChicas ==
    ASSUME NEW s, Bien(s), NEW l \in LUGARES
    PROVE  Cuentas(s)[l] \in 0 .. 99
<1>1. CASE \A i \in 1 .. Len(s) : s[i] # l
  <2>1. Cuentas(s)[l] = 0
      BY <1>1, CuentaDe
  <2>2. QED
      BY <2>1
<1>2. CASE \E i \in 1 .. Len(s) : s[i] = l
  <2>1. PICK i \in 1 .. Len(s) : s[i] = l
      BY <1>2
  <2>2. Cuentas(s)[l] = Cantidad(s, i)
      BY <2>1, CuentaDe
  <2>3. s \in Seq(Byte) /\ RegistroEn(s, i)
      BY <2>1 DEF Bien
  <2>4. Cantidad(s, i) \in 1 .. 99
      BY <2>1, <2>3, FinDelRegistro
  <2>5. QED
      BY <2>2, <2>4
<1>3. QED
    BY <1>1, <1>2

(* Answers are not taken back.                                             *)
LEMMA MasContestadas ==
    ASSUME HilosInv, NEW m, NEW h, Turno(m, h), hilo[m].rta # NULL => h.rta # NULL
    PROVE  /\ Cardinality(Contestadas) \in Nat /\ Cardinality(Contestadas') \in Nat
           /\ Cardinality(Contestadas) <= Cardinality(Contestadas')
           /\ Cardinality(Contestadas') <= 11
           /\ hilo[m].rta = NULL /\ h.rta # NULL =>
                Cardinality(Contestadas') = Cardinality(Contestadas) + 1
<1>1. /\ DOMAIN hilo' = DOMAIN hilo /\ hilo'[m] = h /\ m \in DOMAIN hilo
      /\ \A u \in DOMAIN hilo : u # m => hilo'[u] = hilo[u]
    BY LosHilos DEF Turno
<1>2. Contestadas \in SUBSET DOMAIN hilo /\ Contestadas' \in SUBSET DOMAIN hilo
    BY <1>1 DEF Contestadas
<1>3. /\ IsFiniteSet(DOMAIN hilo) /\ Cardinality(DOMAIN hilo) <= 11
      /\ Cardinality(DOMAIN hilo) \in Nat
    BY SusMensajes
<1>4. /\ IsFiniteSet(Contestadas) /\ IsFiniteSet(Contestadas')
      /\ Cardinality(Contestadas') <= Cardinality(DOMAIN hilo)
    BY <1>2, <1>3, FS_Subset
<1>5. Cardinality(Contestadas) \in Nat /\ Cardinality(Contestadas') \in Nat
    BY <1>4, FS_CardinalityType
<1>6. Contestadas \in SUBSET Contestadas'
    BY <1>1 DEF Contestadas
<1>7. Cardinality(Contestadas) <= Cardinality(Contestadas')
    BY <1>4, <1>6, FS_Subset
<1>8. ASSUME hilo[m].rta = NULL, h.rta # NULL
      PROVE  Cardinality(Contestadas') = Cardinality(Contestadas) + 1
  <2>1. Contestadas' = Contestadas \union {m} /\ m \notin Contestadas
      BY <1>1, <1>8 DEF Contestadas
  <2>2. QED
      BY <1>4, <2>1, FS_AddElement
<1>9. QED
    BY <1>3, <1>4, <1>5, <1>7, <1>8

(* What is left alone goes on as it was.                                   *)
LEMMA EnteroIgual ==
    ASSUME HilosInv, CarpetasInv, NEW f \in ESPECIES, Entero(f), Igual(f),
           \A b \in Propios(f) \intersect Numeros : disco'[b] = disco[b]
    PROVE  Entero(f)' /\ Todo(f)' = Todo(f)
<1> DEFINE bl == meta[f].bloques
           q == Queda(f)
           v == Van(f)
<1>1. q \in Nat /\ v \in Nat
  <2>1. Van(f) \in 0 .. Len(Nuevo(f)) => Van(f) \in Nat
      OBVIOUS
  <2>2. QED
      BY <2>1, TiposDelArchivo
<1>2. ASSUME NEW i \in 1 .. q + v
      PROVE  ByteEn(disco', bl, i) = ByteEn(disco, bl, i) /\ (HayByte(disco', bl, i) <=> HayByte(disco, bl, i))
  <2>1. bl[Bloque(i)] \in Propios(f) \intersect Numeros
      BY BytesPropios
  <2>2. disco'[bl[Bloque(i)]] = disco[bl[Bloque(i)]]
      BY <2>1
  <2>3. QED
      BY <2>2 DEF ByteEn, HayByte
<1>3. /\ meta'[f].bloques = bl /\ Queda(f)' = q /\ Van(f)' = v /\ Nuevo(f)' = Nuevo(f)
      /\ meta'[f].size = meta[f].size /\ De(f, Cortando)' = De(f, Cortando)
    BY DEF Igual
<1>4. /\ EnDisco(disco, bl, q, Nuevo(f), v) /\ meta[f].size <= Len(bl) * BLOCK_SIZE
      /\ De(f, Cortando) # {} => q < meta[f].size
      /\ Bien(Todo(f))
    BY DEF Entero
<1> HIDE DEF bl, q, v
<1>5. EnDisco(disco', bl, q, Nuevo(f), v)
  <2>1. /\ q + v <= Len(bl) * BLOCK_SIZE
        /\ \A i \in 1 .. q + v : HayByte(disco, bl, i)
        /\ \A i \in 1 .. v : ByteEn(disco, bl, q + i) = Nuevo(f)[i]
      BY <1>4 DEF EnDisco
  <2>2. \A i \in 1 .. v : q + i \in 1 .. q + v
      BY <1>1
  <2>3. \A i \in 1 .. v : ByteEn(disco', bl, q + i) = Nuevo(f)[i]
      BY <1>2, <2>1, <2>2
  <2>4. QED
      BY <1>2, <2>1, <2>3 DEF EnDisco
<1>6. Texto(disco', bl, q) = Texto(disco, bl, q)
  <2>1. \A i \in 1 .. q : i \in 1 .. q + v
      BY <1>1
  <2>2. \A i \in 1 .. q : ByteEn(disco', bl, i) = ByteEn(disco, bl, i)
      BY <1>2, <2>1
  <2>3. QED
      BY <2>2 DEF Texto
<1>7. Todo(f)' = Todo(f)
  <2>1. Todo(f)' = Texto(disco', meta'[f].bloques, Queda(f)') \o Nuevo(f)'
      BY DEF Todo
  <2>2. Todo(f) = Texto(disco, bl, q) \o Nuevo(f)
      BY DEF Todo, bl, q
  <2>3. QED
      BY <1>3, <1>6, <2>1, <2>2
<1>8. Entero(f)'
  <2>1. Bien(Todo(f)')
      BY <1>4, <1>7
  <2>2. EnDisco(disco', meta'[f].bloques, Queda(f)', Nuevo(f)', Van(f)')
      BY <1>3, <1>5
  <2>3. /\ meta'[f].size <= Len(meta'[f].bloques) * BLOCK_SIZE
        /\ De(f, Cortando)' # {} => Queda(f)' < meta'[f].size
      BY <1>3, <1>4
  <2>4. QED
      BY <2>1, <2>2, <2>3 DEF Entero
<1>9. QED
    BY <1>7, <1>8

(* The counts of what is left alone, too.                                  *)
LEMMA AcotadoIgual ==
    ASSUME HilosInv, NEW m, NEW h, Turno(m, h), hilo[m].rta # NULL => h.rta # NULL,
           NEW f \in ESPECIES, Acotado(f), Bien(Todo(f)), Todo(f)' = Todo(f)
    PROVE  Acotado(f)'
<1>1. PICK c \in Nat, e \in Nat :
        c = Cardinality(Contestadas) /\ e = Cardinality(Contestadas') /\ c <= e
    BY MasContestadas
<1>2. \A l \in LUGARES : Cuentas(Todo(f))[l] \in 0 .. 99
    BY CuentasChicas
<1>3. \A l \in LUGARES : Cuentas(Todo(f))[l] <= 9 * c
    BY <1>1 DEF Acotado
<1>4. ASSUME NEW l \in LUGARES PROVE Cuentas(Todo(f))[l] <= 9 * e
  <2>1. PICK n \in Nat : n = Cuentas(Todo(f))[l]
      BY <1>2
  <2>2. n <= 9 * c
      BY <1>3, <2>1
  <2>3. n <= 9 * e
      BY <1>1, <2>2
  <2>4. QED
      BY <2>1, <2>3
<1>5. QED
    BY <1>1, <1>4 DEF Acotado

(* What the files hold, with the records that are being written, is the    *)
(* same.                                                                   *)
TodoIgual == \A g \in ESPECIES : Todo(g)' = Todo(g)

(* The step of a thread that touches no file but its own.                  *)
LEMMA ContenidoSigue ==
    ASSUME HilosInv, CarpetasInv, ContenidoInv, BloquesInv,
           NEW m, NEW h, Turno(m, h), hilo[m].rta # NULL => h.rta # NULL,
           \A g \in ESPECIES : g # m.especie => meta'[g] = meta[g],
           DiscoBien(disco'), \A b \in Numeros \ Propios(m.especie) : disco'[b] = disco[b],
           Entero(m.especie)', Acotado(m.especie)'
    PROVE  ContenidoInv' /\ \A g \in ESPECIES : g # m.especie => Todo(g)' = Todo(g)
<1>1. m.especie \in ESPECIES
    BY SusMensajes DEF Turno
<1>2. ASSUME NEW g \in ESPECIES, g # m.especie
      PROVE  Entero(g)' /\ Acotado(g)' /\ Todo(g)' = Todo(g)
  <2>1. Igual(g)
      BY <1>2, Ajeno
  <2>2. Entero(g) /\ Acotado(g) /\ Bien(Todo(g))
      BY DEF ContenidoInv, Entero
  <2>3. Propios(g) \intersect Propios(m.especie) = {}
      BY <1>1, <1>2 DEF BloquesInv
  <2>4. \A b \in Propios(g) \intersect Numeros : disco'[b] = disco[b]
      BY <2>3
  <2>5. Entero(g)' /\ Todo(g)' = Todo(g)
      BY <2>1, <2>2, <2>4, EnteroIgual
  <2>6. Acotado(g)'
      BY <2>2, <2>5, AcotadoIgual
  <2>7. QED
      BY <2>5, <2>6
<1>3. QED
    BY <1>2 DEF ContenidoInv

-----------------------------------------------------------------------------
(* What it leaves of whose blocks are whose, and of the bitmap.            *)

(* The step of a thread on the blocks of its file.                         *)
LEMMA BloquesSiguen ==
    ASSUME HilosInv, CarpetasInv, BloquesInv,
           NEW m, NEW h, Turno(m, h), hilo[m].pc \in Operando,
           \A g \in ESPECIES : g # m.especie => meta'[g] = meta[g],
           Distintos(meta'[m.especie].bloques),
           \A g \in ESPECIES : g # m.especie => Propios(m.especie)' \intersect Propios(g) = {},
           h.pc \in Cortando => Devuelve(m)'
    PROVE  BloquesInv'
<1> DEFINE f == m.especie
<1>1. /\ DOMAIN hilo' = DOMAIN hilo /\ hilo'[m] = h /\ m \in DOMAIN hilo /\ f \in ESPECIES
      /\ \A u \in DOMAIN hilo : u # m => hilo'[u] = hilo[u]
    BY LosHilos, SusMensajes DEF Turno
<1>2. ASSUME NEW g \in ESPECIES, g # f
      PROVE  Propios(g)' = Propios(g) /\ meta'[g] = meta[g]
    BY <1>2, Ajeno DEF Igual
<1>3. /\ \A g \in ESPECIES : Distintos(meta'[g].bloques)
      /\ \A g, k \in ESPECIES : g # k => Propios(g)' \intersect Propios(k)' = {}
  <2>1. ASSUME NEW g \in ESPECIES PROVE Distintos(meta'[g].bloques)
    <3>1. CASE g = f
        BY <3>1
    <3>2. CASE g # f
        BY <1>2, <3>2 DEF BloquesInv
    <3>3. QED
        BY <3>1, <3>2
  <2>2. ASSUME NEW g \in ESPECIES, NEW k \in ESPECIES, g # k
        PROVE  Propios(g)' \intersect Propios(k)' = {}
    <3>1. CASE g = f
        BY <1>2, <2>2, <3>1
    <3>2. CASE k = f
        BY <1>2, <2>2, <3>2
    <3>3. CASE g # f /\ k # f
        BY <1>2, <2>2, <3>3 DEF BloquesInv
    <3>4. QED
        BY <3>1, <3>2, <3>3
  <2>3. QED
      BY <2>1, <2>2
<1>4. ASSUME NEW u \in DOMAIN hilo, hilo'[u].pc \in Cortando PROVE Devuelve(u)'
  <2>1. CASE u = m
      BY <1>1, <1>4, <2>1
  <2>2. CASE u # m
    <3>1. hilo'[u] = hilo[u] /\ hilo[u].pc \in Cortando /\ hilo[u].pc \in Operando
        BY <1>1, <1>4, <2>2, Lugares
    <3>2. u.especie # f /\ u.especie \in ESPECIES
        BY <1>1, <2>2, <3>1, SusMensajes DEF CarpetasInv
    <3>3. meta'[u.especie] = meta[u.especie] /\ Devuelve(u)
        BY <1>2, <3>1, <3>2 DEF BloquesInv
    <3>4. QED
        BY <3>1, <3>3 DEF Devuelve
  <2>3. QED
      BY <2>1, <2>2
<1>5. QED
    BY <1>1, <1>3, <1>4 DEF BloquesInv

(* And what it writes in the bitmap.                                       *)
LEMMA MapaSigue ==
    ASSUME HilosInv, MapaInv, NEW m, NEW h, Turno(m, h),
           \A g \in ESPECIES : g # m.especie => meta'[g] = meta[g],
           bitmap' \subseteq Numeros, pisado' \in BOOLEAN, fin' \in Finales,
           ~pisado' =>
             /\ ~pisado
             /\ bitmap' = (bitmap \ Tomados(m.especie)) \union Tomados(m.especie)'
             /\ \A g \in ESPECIES :
                  g # m.especie => Tomados(m.especie)' \intersect Tomados(g) = {}
    PROVE  MapaInv'
<1> DEFINE f == m.especie
<1>1. f \in ESPECIES
    BY SusMensajes DEF Turno
<1>2. ASSUME NEW g \in ESPECIES, g # f PROVE Tomados(g)' = Tomados(g)
    BY <1>2, Ajeno DEF Igual
<1>3. ASSUME ~pisado'
      PROVE  /\ bitmap' = UNION {Tomados(g)' : g \in ESPECIES}
             /\ \A g, k \in ESPECIES : g # k => Tomados(g)' \intersect Tomados(k)' = {}
  <2>1. /\ bitmap = UNION {Tomados(g) : g \in ESPECIES}
        /\ \A g, k \in ESPECIES : g # k => Tomados(g) \intersect Tomados(k) = {}
      BY <1>3 DEF MapaInv
  <2>2. /\ bitmap' = (bitmap \ Tomados(f)) \union Tomados(f)'
        /\ \A g \in ESPECIES : g # f => Tomados(f)' \intersect Tomados(g) = {}
      BY <1>3
  <2>3. \A x : x \in bitmap' <=> \E g \in ESPECIES : x \in Tomados(g)'
    <3>1. ASSUME NEW x \in bitmap' PROVE \E g \in ESPECIES : x \in Tomados(g)'
      <4>1. CASE x \in Tomados(f)'
          BY <1>1, <4>1
      <4>2. CASE x \in bitmap \ Tomados(f)
        <5>1. PICK g \in ESPECIES : x \in Tomados(g)
            BY <2>1, <4>2
        <5>2. g # f
            BY <4>2, <5>1
        <5>3. QED
            BY <1>2, <5>1, <5>2
      <4>3. QED
          BY <2>2, <3>1, <4>1, <4>2
    <3>2. ASSUME NEW g \in ESPECIES, NEW x \in Tomados(g)' PROVE x \in bitmap'
      <4>1. CASE g = f
          BY <2>2, <3>2, <4>1
      <4>2. CASE g # f
        <5>1. x \in Tomados(g)
            BY <1>2, <3>2, <4>2
        <5>2. x \in bitmap /\ x \notin Tomados(f)
            BY <1>1, <2>1, <4>2, <5>1
        <5>3. QED
            BY <2>2, <5>2
      <4>3. QED
          BY <4>1, <4>2
    <3>3. QED
        BY <3>1, <3>2
  <2>4. ASSUME NEW g \in ESPECIES, NEW k \in ESPECIES, g # k
        PROVE  Tomados(g)' \intersect Tomados(k)' = {}
    <3>1. CASE g = f
        BY <1>2, <2>2, <2>4, <3>1
    <3>2. CASE k = f
        BY <1>2, <2>2, <2>4, <3>2
    <3>3. CASE g # f /\ k # f
        BY <1>2, <2>1, <2>4, <3>3
    <3>4. QED
        BY <3>1, <3>2, <3>3
  <2>5. bitmap' = UNION {Tomados(g)' : g \in ESPECIES}
      BY <2>3
  <2>6. QED
      BY <2>4, <2>5
<1>4. QED
    BY <1>3 DEF MapaInv

(* A step that touches no block, of who is not rewriting its file.         *)
Quieta(m, h) ==
    /\ Turno(m, h) /\ hilo[m].pc \notin Escriben /\ h.pc \notin Escriben
    /\ hilo[m].rta # NULL => h.rta # NULL
    /\ \A g \in ESPECIES : meta'[g].size = meta[g].size /\ meta'[g].bloques = meta[g].bloques
    /\ disco' = disco /\ bitmap' = bitmap /\ pisado' = pisado /\ fin' = fin

(* It leaves what the files hold and their blocks.                         *)
LEMMA QuietaLoDeja ==
    ASSUME HilosInv, CarpetasInv, ContenidoInv, BloquesInv, MapaInv,
           NEW m, NEW h, Quieta(m, h)
    PROVE  ContenidoInv' /\ BloquesInv' /\ MapaInv' /\ TodoIgual
<1>1. Turno(m, h) /\ hilo[m].rta # NULL => h.rta # NULL
    BY DEF Quieta
<1>2. /\ disco' = disco /\ bitmap' = bitmap /\ pisado' = pisado /\ fin' = fin
      /\ \A g \in ESPECIES : meta'[g].size = meta[g].size /\ meta'[g].bloques = meta[g].bloques
    BY DEF Quieta
<1>3. Turno(m, h) /\ hilo[m].pc \notin Escriben /\ h.pc \notin Escriben
    BY DEF Quieta
<1>4. \A g \in ESPECIES : Igual(g)
    BY <1>2, <1>3, Ajeno
<1>5. ASSUME NEW g \in ESPECIES PROVE Entero(g)' /\ Acotado(g)' /\ Todo(g)' = Todo(g)
  <2>1. Entero(g) /\ Acotado(g) /\ Bien(Todo(g))
      BY DEF ContenidoInv, Entero
  <2>2. Entero(g)' /\ Todo(g)' = Todo(g)
      BY <1>2, <1>4, <2>1, EnteroIgual
  <2>3. Acotado(g)'
      BY <1>1, <1>3, <2>1, <2>2, AcotadoIgual DEF Quieta
  <2>4. QED
      BY <2>2, <2>3
<1>6. ContenidoInv'
    BY <1>2, <1>5 DEF ContenidoInv
<1>7. /\ DOMAIN hilo' = DOMAIN hilo /\ hilo'[m] = h /\ m \in DOMAIN hilo
      /\ \A u \in DOMAIN hilo : u # m => hilo'[u] = hilo[u]
    BY <1>3, LosHilos DEF Turno
<1>8. ASSUME NEW u \in DOMAIN hilo, hilo'[u].pc \in Cortando PROVE Devuelve(u)'
  <2>1. u # m /\ hilo'[u] = hilo[u]
      BY <1>3, <1>7, <1>8, Lugares
  <2>2. Devuelve(u) /\ u.especie \in ESPECIES
      BY <1>8, <2>1, SusMensajes DEF BloquesInv
  <2>3. meta'[u.especie].bloques = meta[u.especie].bloques
      BY <1>2, <2>2
  <2>4. QED
      BY <2>1, <2>2, <2>3 DEF Devuelve
<1>9. /\ \A g \in ESPECIES : Distintos(meta'[g].bloques)
      /\ \A g, k \in ESPECIES : g # k => Propios(g)' \intersect Propios(k)' = {}
    BY <1>2, <1>4 DEF BloquesInv, Igual
<1>10. BloquesInv'
    BY <1>2, <1>7, <1>8, <1>9 DEF BloquesInv
<1>11. \A g \in ESPECIES : Tomados(g)' = Tomados(g)
    BY <1>4 DEF Igual
<1>12. MapaInv'
  <2>1. UNION {Tomados(g)' : g \in ESPECIES} = UNION {Tomados(g) : g \in ESPECIES}
      BY <1>11
  <2>2. ~pisado => \A g, k \in ESPECIES : g # k => Tomados(g)' \intersect Tomados(k)' = {}
      BY <1>11 DEF MapaInv
  <2>3. QED
      BY <1>2, <2>1, <2>2 DEF MapaInv
<1>13. QED
    BY <1>5, <1>6, <1>10, <1>12 DEF TodoIgual

-----------------------------------------------------------------------------
(* The steps up to an open file, and from it.                              *)

(* The thread m goes to p, and has the answer r.                           *)
Muda(m, p, r) == hilo' = [hilo EXCEPT ![m] = [@ EXCEPT !.pc = p, !.rta = r]]

(* A thread that only goes somewhere else, with an answer or without.      *)
LEMMA Salta ==
    ASSUME HilosInv, NEW m \in DOMAIN hilo, NEW p \in Pcs, NEW r \in {NULL, 0, 1},
           hilo[m].pc \notin Escriben, p \notin Escriben \union {"saca"},
           p \in SinRespuesta => hilo[m].pc \in SinRespuesta /\ r = NULL,
           Muda(m, p, r)
    PROVE  \E h : Turno(m, h) /\ h.pc = p /\ h.rta = r
<1> DEFINE h0 == hilo[m]
           h == [h0 EXCEPT !.pc = p, !.rta = r]
<1>1. h0 \in Hilo /\ HiloBien(h0)
    BY DEF HilosInv
<1>2. /\ h \in Hilo /\ h.pc = p /\ h.rta = r /\ h.libera = h0.libera /\ h.van = h0.van
      /\ h.datos = h0.datos /\ h.vistos = h0.vistos
    BY <1>1 DEF Hilo
<1>3. h0.pc \notin Cortando /\ p \notin Cortando /\ p # "vuelcaLibre" /\ p # "vuelca" /\ p # "saca"
    BY Lugares
<1> HIDE DEF h
<1>4. HiloBien(h)
    BY <1>1, <1>2, <1>3 DEF HiloBien
<1>5. hilo' = [hilo EXCEPT ![m] = h]
    BY DEF h, Muda
<1>6. Turno(m, h)
    BY <1>2, <1>4, <1>5 DEF Turno
<1>7. QED
    BY <1>2, <1>6

(* The same when the answer is the one there was.                          *)
LEMMA Sigue1 ==
    ASSUME HilosInv, NEW m \in DOMAIN hilo, NEW p, Sigue(m, p)
    PROVE  \E r \in {NULL, 0, 1} :
             /\ r = hilo[m].rta
             /\ Muda(m, p, r)
<1>1. hilo[m] \in Hilo
    BY DEF HilosInv
<1>2. [hilo[m] EXCEPT !.pc = p, !.rta = hilo[m].rta] = [hilo[m] EXCEPT !.pc = p]
    BY <1>1 DEF Hilo
<1>3. hilo' = [hilo EXCEPT ![m] = [hilo[m] EXCEPT !.pc = p]]
    BY DEF Sigue
<1>4. QED
    BY <1>1, <1>2, <1>3 DEF Hilo, Muda

(* Nothing happens, or the process dies.                                   *)
LEMMA PasoNada ==
    ASSUME EnOrden, UNCHANGED <<dir, meta, disco, bitmap, abiertos, hilo, errada, pisado>>,
           fin' = fin \/ (fin = "no" /\ fin' \in Finales)
    PROVE  EnOrden' /\ TodoIgual
<1>1. HilosInv /\ CarpetasInv /\ TablaInv /\ ContenidoInv /\ BloquesInv /\ MapaInv
    BY DEF EnOrden
<1>2. HilosInv'
    BY <1>1 DEF HilosInv
<1>3. CarpetasInv'
    BY <1>1 DEF CarpetasInv
<1>4. ASSUME NEW f, NEW S PROVE De(f, S)' = De(f, S)
    BY DEF De
<1>5. TablaInv'
    BY <1>1, <1>4 DEF TablaInv, Entradas
<1>6. ASSUME NEW f PROVE Igual(f)
  <2>1. Escritor(f)' = Escritor(f)
      BY <1>4 DEF Escritor
  <2>2. Queda(f)' = Queda(f) /\ Nuevo(f)' = Nuevo(f) /\ Van(f)' = Van(f)
      BY <1>4, <2>1 DEF Queda, Nuevo, Van
  <2>3. Propios(f)' = Propios(f)
      BY <1>4 DEF Propios
  <2>4. Tomados(f)' = Tomados(f)
      BY <2>3 DEF Tomados
  <2>5. QED
      BY <1>4, <2>2, <2>3, <2>4 DEF Igual
<1>7. ASSUME NEW f \in ESPECIES PROVE Entero(f)' /\ Acotado(f)' /\ Todo(f)' = Todo(f)
  <2>1. Entero(f) /\ Acotado(f)
      BY <1>1 DEF ContenidoInv
  <2>2. Entero(f)' /\ Todo(f)' = Todo(f)
      BY <1>1, <1>6, <2>1, EnteroIgual
  <2>3. Contestadas' = Contestadas
      BY DEF Contestadas
  <2>4. QED
      BY <2>1, <2>2, <2>3 DEF Acotado
<1>8. ContenidoInv'
    BY <1>1, <1>7 DEF ContenidoInv
<1>9. ASSUME NEW m \in DOMAIN hilo, Devuelve(m) PROVE Devuelve(m)'
    BY <1>9 DEF Devuelve
<1>10. BloquesInv'
    BY <1>1, <1>6, <1>9 DEF BloquesInv, Igual
<1>11. MapaInv'
  <2>1. \A f : Tomados(f)' = Tomados(f)
      BY <1>6 DEF Igual
  <2>2. UNION {Tomados(f)' : f \in ESPECIES} = UNION {Tomados(f) : f \in ESPECIES}
      BY <2>1
  <2>3. ~pisado => \A f, g \in ESPECIES : f # g => Tomados(f)' \intersect Tomados(g)' = {}
      BY <1>1, <2>1 DEF MapaInv
  <2>4. QED
      BY <1>1, <2>2, <2>3 DEF MapaInv
<1>12. QED
    BY <1>2, <1>3, <1>5, <1>7, <1>8, <1>10, <1>11 DEF EnOrden, TodoIgual

(* The invariant after a step that touches no block.                       *)
LEMMA PasoQuieto ==
    ASSUME EnOrden, NEW m, NEW h, Quieta(m, h), CarpetasInv', TablaInv'
    PROVE  EnOrden' /\ TodoIgual
<1>1. HilosInv'
    BY LosHilos DEF EnOrden, Quieta
<1>2. ContenidoInv' /\ BloquesInv' /\ MapaInv' /\ TodoIgual
    BY QuietaLoDeja DEF EnOrden
<1>3. QED
    BY <1>1, <1>2 DEF EnOrden

(* find_tall_grass.                                                        *)
LEMMA PasoBusca ==
    ASSUME EnOrden, NEW m \in DOMAIN hilo, Busca(m) PROVE EnOrden' /\ TodoIgual
<1>1. HilosInv /\ CarpetasInv /\ TablaInv /\ ContenidoInv /\ BloquesInv /\ MapaInv
    BY DEF EnOrden
<1>2. /\ hilo[m].pc = "busca" /\ hilo[m].rta = NULL /\ hilo[m] \in Hilo
      /\ UNCHANGED <<dir, meta, disco, bitmap, abiertos, fin, errada, pisado>>
    BY <1>1 DEF Busca, historia, En, HilosInv, HiloBien, SinRespuesta
<1>3. PICK p \in Pcs, r \in {NULL, 0, 1} :
        /\ p \in {"abre", "crea", "responde"} /\ (p \in SinRespuesta => r = NULL)
        /\ Muda(m, p, r)
  <2>1. CASE dir[m.especie] # "no"
    <3>1. Sigue(m, "abre")
        BY <2>1 DEF Busca, historia, Sigue
    <3>2. Muda(m, "abre", NULL)
        BY <1>1, <1>2, <3>1, Sigue1
    <3>3. QED
        BY <3>2 DEF Pcs, SinRespuesta
  <2>2. CASE dir[m.especie] = "no" /\ m.tipo = "NEW"
    <3>1. Sigue(m, "crea")
        BY <2>2 DEF Busca, historia, Sigue
    <3>2. Muda(m, "crea", NULL)
        BY <1>1, <1>2, <3>1, Sigue1
    <3>3. QED
        BY <3>2 DEF Pcs, SinRespuesta
  <2>3. CASE dir[m.especie] = "no" /\ m.tipo # "NEW"
    <3>1. Muda(m, "responde", 0)
        BY <2>3 DEF Busca, historia, Muda
    <3>2. QED
        BY <3>1 DEF Pcs, SinRespuesta
  <2>4. QED
      BY <2>1, <2>2, <2>3
<1>4. PICK h : Turno(m, h) /\ h.pc = p /\ h.rta = r
  <2>1. /\ p \notin Escriben \union {"saca"}
        /\ hilo[m].pc \notin Escriben /\ hilo[m].pc \in SinRespuesta
      BY <1>2, <1>3 DEF SinRespuesta, Escriben, Cortando, Escribiendo
  <2>2. QED
      BY <1>1, <1>3, <2>1, Salta
<1>5. Quieta(m, h)
    BY <1>2, <1>3, <1>4 DEF Quieta, Escriben, Cortando, Escribiendo
<1>6. CarpetasInv'
  <2>1. h.pc \notin Operando /\ h.pc # "metadata"
      BY <1>3, <1>4 DEF Operando
  <2>2. meta \in [ESPECIES -> Metadata]
      BY <1>1 DEF CarpetasInv
  <2>3. QED
      BY <1>1, <1>2, <1>4, <2>1, <2>2, CarpetasQuietas
<1>7. TablaInv'
  <2>1. /\ h.pc \notin Operando /\ h.pc \notin EnTabla
        /\ hilo[m].pc \notin Operando /\ hilo[m].pc \notin EnTabla
      BY <1>2, <1>3, <1>4 DEF Operando, EnTabla, Cerrando
  <2>2. QED
      BY <1>1, <1>2, <1>4, <2>1, TablaQuieta
<1>8. QED
    BY <1>5, <1>6, <1>7, PasoQuieto

(* crear_ficheto, the directory.                                           *)
LEMMA PasoCrea ==
    ASSUME EnOrden, NEW m \in DOMAIN hilo, Crea(m) PROVE EnOrden' /\ TodoIgual
<1>1. HilosInv /\ CarpetasInv /\ TablaInv
    BY DEF EnOrden
<1> DEFINE f == m.especie
<1>2. /\ hilo[m].pc = "crea" /\ hilo[m].rta = NULL /\ hilo[m] \in Hilo
      /\ UNCHANGED <<meta, disco, bitmap, abiertos, fin, errada, pisado>>
      /\ f \in ESPECIES /\ meta \in [ESPECIES -> Metadata]
      /\ dir \in [ESPECIES -> {"no", "carpeta", "listo"}]
    BY <1>1, SusMensajes DEF Crea, historia, En, HilosInv, HiloBien, SinRespuesta, CarpetasInv
<1>3. ASSUME NEW p \in {"metadata", "abre"}, Sigue(m, p)
      PROVE  \E h : Turno(m, h) /\ h.pc = p /\ Quieta(m, h) /\ TablaInv'
  <2>1. Muda(m, p, NULL)
      BY <1>1, <1>2, <1>3, Sigue1
  <2>2. /\ p \in Pcs /\ p \notin Escriben \union {"saca"}
        /\ hilo[m].pc \notin Escriben /\ hilo[m].pc \in SinRespuesta
        /\ p \notin Operando /\ p \notin EnTabla
        /\ hilo[m].pc \notin Operando /\ hilo[m].pc \notin EnTabla
      BY <1>2 DEF Pcs, SinRespuesta, Escriben, Cortando, Escribiendo, Operando, EnTabla, Cerrando
  <2>3. PICK h : Turno(m, h) /\ h.pc = p /\ h.rta = NULL
      BY <1>1, <2>1, <2>2, Salta
  <2>4. Quieta(m, h)
      BY <1>2, <2>2, <2>3 DEF Quieta
  <2>5. TablaInv'
      BY <1>1, <1>2, <2>2, <2>3, TablaQuieta
  <2>6. QED
      BY <2>3, <2>4, <2>5
<1>4. CASE dir[f] = "no"
  <2>1. dir' = [dir EXCEPT ![f] = "carpeta"] /\ Sigue(m, "metadata")
      BY <1>4 DEF Crea, historia
  <2>2. PICK h : Turno(m, h) /\ h.pc = "metadata" /\ Quieta(m, h) /\ TablaInv'
      BY <1>3, <2>1
  <2>3. /\ DOMAIN hilo' = DOMAIN hilo /\ hilo'[m] = h
        /\ \A u \in DOMAIN hilo : u # m => hilo'[u] = hilo[u]
      BY <1>1, <2>2, LosHilos
  <2>4. "metadata" \notin Operando
      BY DEF Operando
  <2>5. \A u \in DOMAIN hilo : u.especie = f => hilo[u].pc \notin Operando /\ hilo[u].pc # "metadata"
      BY <1>1, <1>4 DEF CarpetasInv
  <2>6. \A u, v \in DOMAIN hilo :
          /\ u.especie = v.especie
          /\ \/ hilo'[u].pc \in Operando /\ hilo'[v].pc \in Operando
             \/ hilo'[u].pc = "metadata" /\ hilo'[v].pc = "metadata"
          => u = v
      BY <1>1, <2>2, <2>3, <2>4, <2>5 DEF CarpetasInv
  <2>7. \A u \in DOMAIN hilo : /\ hilo'[u].pc \in Operando => dir'[u.especie] = "listo"
                               /\ hilo'[u].pc = "metadata" => dir'[u.especie] = "carpeta"
    <3>1. ASSUME NEW u \in DOMAIN hilo
          PROVE  /\ hilo'[u].pc \in Operando => dir'[u.especie] = "listo"
                 /\ hilo'[u].pc = "metadata" => dir'[u.especie] = "carpeta"
      <4>1. CASE u = m
          BY <1>2, <2>1, <2>2, <2>3, <2>4, <4>1
      <4>2. CASE u # m
        <5>1. u.especie \in ESPECIES /\ hilo'[u] = hilo[u]
            BY <1>1, <2>3, <4>2, SusMensajes
        <5>2. u.especie # f => dir'[u.especie] = dir[u.especie]
            BY <1>2, <2>1, <5>1
        <5>3. QED
            BY <1>1, <2>5, <5>1, <5>2 DEF CarpetasInv
      <4>3. QED
          BY <4>1, <4>2
    <3>2. QED
        BY <3>1
  <2>8. dir' \in [ESPECIES -> {"no", "carpeta", "listo"}]
      BY <1>2, <2>1
  <2>9. \A g \in ESPECIES : dir'[g] # "listo" => meta[g] = Vacio
      BY <1>1, <1>2, <1>4, <2>1 DEF CarpetasInv
  <2>10. CarpetasInv'
      BY <1>2, <2>3, <2>6, <2>7, <2>8, <2>9 DEF CarpetasInv
  <2>11. QED
      BY <2>2, <2>10, PasoQuieto
<1>5. CASE dir[f] # "no"
  <2>1. dir' = dir /\ Sigue(m, "abre")
      BY <1>5 DEF Crea, historia
  <2>2. PICK h : Turno(m, h) /\ h.pc = "abre" /\ Quieta(m, h) /\ TablaInv'
      BY <1>3, <2>1
  <2>3. CarpetasInv'
    <3>1. h.pc \notin Operando /\ h.pc # "metadata"
        BY <2>2 DEF Operando
    <3>2. QED
        BY <1>1, <1>2, <2>1, <2>2, <3>1, CarpetasQuietas
  <2>4. QED
      BY <2>2, <2>3, PasoQuieto
<1>6. QED
    BY <1>4, <1>5

(* crear_ficheto, the metadata.                                            *)
LEMMA PasoCreaMetadata ==
    ASSUME EnOrden, NEW m \in DOMAIN hilo, CreaMetadata(m) PROVE EnOrden' /\ TodoIgual
<1>1. HilosInv /\ CarpetasInv /\ TablaInv
    BY DEF EnOrden
<1> DEFINE f == m.especie
<1>2. /\ hilo[m].pc = "metadata" /\ hilo[m].rta = NULL /\ hilo[m] \in Hilo
      /\ UNCHANGED <<disco, bitmap, abiertos, fin, errada, pisado>>
      /\ f \in ESPECIES /\ meta \in [ESPECIES -> Metadata]
      /\ dir \in [ESPECIES -> {"no", "carpeta", "listo"}]
      /\ dir' = [dir EXCEPT ![f] = "listo"] /\ Sigue(m, "abre")
    BY <1>1, SusMensajes DEF CreaMetadata, historia, En, HilosInv, HiloBien, SinRespuesta, CarpetasInv
<1>3. meta' = meta
  <2>1. dir[f] = "carpeta" /\ meta[f] = Vacio
      BY <1>1, <1>2 DEF CarpetasInv
  <2>2. meta' = [meta EXCEPT ![f] = Vacio]
      BY DEF CreaMetadata, historia
  <2>3. QED
      BY <1>2, <2>1, <2>2
<1>4. Muda(m, "abre", NULL)
    BY <1>1, <1>2, Sigue1
<1>5. /\ "abre" \in Pcs /\ "abre" \notin Escriben \union {"saca"} /\ hilo[m].pc \notin Escriben
      /\ hilo[m].pc \in SinRespuesta
      /\ "abre" \notin Operando /\ "abre" \notin EnTabla
      /\ hilo[m].pc \notin Operando /\ hilo[m].pc \notin EnTabla
    BY <1>2 DEF Pcs, SinRespuesta, Escriben, Cortando, Escribiendo, Operando, EnTabla, Cerrando
<1>6. PICK h : Turno(m, h) /\ h.pc = "abre" /\ h.rta = NULL
    BY <1>1, <1>4, <1>5, Salta
<1>7. Quieta(m, h)
    BY <1>2, <1>3, <1>5, <1>6 DEF Quieta
<1>8. TablaInv'
    BY <1>1, <1>2, <1>3, <1>5, <1>6, TablaQuieta
<1>9. CarpetasInv'
  <2>1. /\ DOMAIN hilo' = DOMAIN hilo /\ hilo'[m] = h
        /\ \A u \in DOMAIN hilo : u # m => hilo'[u] = hilo[u]
      BY <1>1, <1>6, LosHilos
  <2>2. \A u \in DOMAIN hilo : /\ hilo'[u].pc \in Operando => hilo[u].pc \in Operando
                               /\ hilo'[u].pc = "metadata" => hilo[u].pc = "metadata" /\ u # m
      BY <1>5, <1>6, <2>1
  <2>3. \A u, v \in DOMAIN hilo :
          /\ u.especie = v.especie
          /\ \/ hilo'[u].pc \in Operando /\ hilo'[v].pc \in Operando
             \/ hilo'[u].pc = "metadata" /\ hilo'[v].pc = "metadata"
          => u = v
      BY <1>1, <2>2 DEF CarpetasInv
  <2>4. ASSUME NEW u \in DOMAIN hilo
        PROVE  /\ hilo'[u].pc \in Operando => dir'[u.especie] = "listo"
               /\ hilo'[u].pc = "metadata" => dir'[u.especie] = "carpeta"
    <3>1. u.especie \in ESPECIES
        BY <1>1, SusMensajes
    <3>2. CASE u.especie = f
      <4>1. hilo'[u].pc # "metadata"
          BY <1>1, <1>2, <2>2, <3>2 DEF CarpetasInv
      <4>2. dir'[u.especie] = "listo"
          BY <1>2, <3>1, <3>2
      <4>3. QED
          BY <4>1, <4>2
    <3>3. CASE u.especie # f
      <4>1. dir'[u.especie] = dir[u.especie]
          BY <1>2, <3>1, <3>3
      <4>2. QED
          BY <1>1, <2>2, <4>1 DEF CarpetasInv
    <3>4. QED
        BY <3>2, <3>3
  <2>5. dir' \in [ESPECIES -> {"no", "carpeta", "listo"}]
      BY <1>2
  <2>6. \A g \in ESPECIES : dir'[g] # "listo" => meta[g] = Vacio
      BY <1>1, <1>2 DEF CarpetasInv
  <2>7. QED
      BY <1>2, <1>3, <2>1, <2>3, <2>4, <2>5, <2>6 DEF CarpetasInv
<1>10. QED
    BY <1>7, <1>8, <1>9, PasoQuieto

(* open_tall_grass, the table.                                             *)
LEMMA PasoAbre ==
    ASSUME EnOrden, NEW m \in DOMAIN hilo, Abre(m) PROVE EnOrden' /\ TodoIgual
<1>1. HilosInv /\ CarpetasInv /\ TablaInv /\ meta \in [ESPECIES -> Metadata]
    BY DEF EnOrden, CarpetasInv
<1>2. PICK p \in {"busca", "agrega"} : Sigue(m, p)
    BY DEF Abre, historia
<1>3. /\ hilo[m].pc = "abre" /\ hilo[m].rta = NULL
      /\ UNCHANGED <<dir, meta, disco, bitmap, abiertos, fin, errada, pisado>>
    BY <1>1 DEF Abre, historia, En, HilosInv, HiloBien, SinRespuesta
<1>4. Muda(m, p, NULL)
    BY <1>1, <1>2, <1>3, Sigue1
<1>5. /\ p \in Pcs /\ p \notin Escriben \union {"saca"} /\ hilo[m].pc \notin Escriben
      /\ hilo[m].pc \in SinRespuesta
      /\ p \notin Operando /\ p \notin EnTabla /\ p # "metadata"
      /\ hilo[m].pc \notin Operando /\ hilo[m].pc \notin EnTabla
    BY <1>3 DEF Pcs, SinRespuesta, Escriben, Cortando, Escribiendo, Operando, EnTabla, Cerrando
<1>6. PICK h : Turno(m, h) /\ h.pc = p /\ h.rta = NULL
    BY <1>1, <1>4, <1>5, Salta
<1>7. Quieta(m, h)
    BY <1>3, <1>5, <1>6 DEF Quieta
<1>8. TablaInv'
    BY <1>1, <1>3, <1>5, <1>6, TablaQuieta
<1>9. CarpetasInv'
    BY <1>1, <1>3, <1>5, <1>6, CarpetasQuietas
<1>10. QED
    BY <1>7, <1>8, <1>9, PasoQuieto

(* open_tall_grass, the entry.                                             *)
LEMMA PasoAgrega ==
    ASSUME EnOrden, NEW m \in DOMAIN hilo, Agrega(m) PROVE EnOrden' /\ TodoIgual
<1>1. HilosInv /\ CarpetasInv /\ TablaInv /\ meta \in [ESPECIES -> Metadata]
    BY DEF EnOrden, CarpetasInv
<1>2. /\ hilo[m].pc = "agrega" /\ hilo[m].rta = NULL /\ Sigue(m, "lee")
      /\ UNCHANGED <<dir, meta, disco, bitmap, fin, errada, pisado>>
      /\ abiertos' = Append(abiertos, m.especie)
    BY <1>1 DEF Agrega, historia, En, HilosInv, HiloBien, SinRespuesta
<1>3. Muda(m, "lee", NULL)
    BY <1>1, <1>2, Sigue1
<1>4. /\ "lee" \in Pcs /\ "lee" \notin Escriben \union {"saca"} /\ hilo[m].pc \notin Escriben
      /\ hilo[m].pc \in SinRespuesta
      /\ "lee" \notin Operando /\ hilo[m].pc \notin EnTabla
    BY <1>2 DEF Pcs, SinRespuesta, Escriben, Cortando, Escribiendo, Operando, EnTabla, Cerrando
<1>5. PICK h : Turno(m, h) /\ h.pc = "lee" /\ h.rta = NULL
    BY <1>1, <1>3, <1>4, Salta
<1>6. Quieta(m, h)
    BY <1>2, <1>4, <1>5 DEF Quieta
<1>7. TablaInv'
    BY <1>1, <1>2, <1>4, <1>5, TablaAgrega
<1>8. CarpetasInv'
    BY <1>1, <1>2, <1>4, <1>5, CarpetasQuietas
<1>9. QED
    BY <1>6, <1>7, <1>8, PasoQuieto

(* open_tall_grass, the metadata.                                          *)
LEMMA PasoLee ==
    ASSUME EnOrden, NEW m \in DOMAIN hilo, LeeSolo(m) PROVE EnOrden' /\ TodoIgual
<1>1. HilosInv /\ CarpetasInv /\ TablaInv /\ meta \in [ESPECIES -> Metadata]
    BY DEF EnOrden, CarpetasInv
<1> DEFINE f == m.especie
<1>2. /\ hilo[m].pc = "lee" /\ hilo[m].rta = NULL /\ Sigue(m, "opera") /\ f \in ESPECIES
      /\ dir[f] = "listo" /\ De(f, Operando) = {}
      /\ UNCHANGED <<dir, disco, bitmap, abiertos, fin, errada, pisado>>
      /\ meta' = [meta EXCEPT ![f].open = TRUE]
    BY <1>1, SusMensajes DEF LeeSolo, En, HilosInv, HiloBien, SinRespuesta
<1>3. Muda(m, "opera", NULL)
    BY <1>1, <1>2, Sigue1
<1>4. /\ "opera" \in Pcs /\ "opera" \notin Escriben \union {"saca"} /\ hilo[m].pc \notin Escriben
      /\ hilo[m].pc \in SinRespuesta
      /\ "opera" \in Operando
    BY <1>2 DEF Pcs, SinRespuesta, Escriben, Cortando, Escribiendo, Operando
<1>5. PICK h : Turno(m, h) /\ h.pc = "opera" /\ h.rta = NULL
    BY <1>1, <1>3, <1>4, Salta
<1>6. /\ meta' \in [ESPECIES -> Metadata]
      /\ \A g \in ESPECIES : meta'[g].size = meta[g].size /\ meta'[g].bloques = meta[g].bloques
      /\ \A g \in ESPECIES : g # f => meta'[g] = meta[g]
    BY <1>1, <1>2 DEF Metadata
<1>7. Quieta(m, h)
    BY <1>2, <1>4, <1>5, <1>6 DEF Quieta
<1>8. TablaInv'
    BY <1>1, <1>2, <1>4, <1>5, TablaLee
<1>9. CarpetasInv'
  <2>1. /\ DOMAIN hilo' = DOMAIN hilo /\ hilo'[m] = h
        /\ \A u \in DOMAIN hilo : u # m => hilo'[u] = hilo[u]
      BY <1>1, <1>5, LosHilos
  <2>2. \A u \in DOMAIN hilo :
          /\ u # m /\ hilo'[u].pc \in Operando => u.especie # f /\ hilo[u].pc \in Operando
          /\ hilo'[u].pc = "metadata" => hilo[u].pc = "metadata"
      BY <1>2, <1>5, <2>1 DEF De
  <2>3. \A u, v \in DOMAIN hilo :
          /\ u.especie = v.especie
          /\ \/ hilo'[u].pc \in Operando /\ hilo'[v].pc \in Operando
             \/ hilo'[u].pc = "metadata" /\ hilo'[v].pc = "metadata"
          => u = v
      BY <1>1, <2>2 DEF CarpetasInv
  <2>4. \A u \in DOMAIN hilo : /\ hilo'[u].pc \in Operando => dir[u.especie] = "listo"
                               /\ hilo'[u].pc = "metadata" => dir[u.especie] = "carpeta"
      BY <1>1, <1>2, <2>2 DEF CarpetasInv
  <2>5. \A g \in ESPECIES : dir[g] # "listo" => meta'[g] = Vacio
      BY <1>1, <1>2, <1>6 DEF CarpetasInv
  <2>6. QED
      BY <1>1, <1>2, <1>6, <2>1, <2>3, <2>4, <2>5 DEF CarpetasInv
<1>10. QED
    BY <1>7, <1>8, <1>9, PasoQuieto

(* The process dies.                                                       *)
LEMMA PasoTermina ==
    ASSUME EnOrden, fin = "no", NEW c \in Finales, Termina(c) PROVE EnOrden' /\ TodoIgual
BY PasoNada DEF Termina, historia

(* close_tall_grass, the metadata.                                         *)
LEMMA PasoCierra ==
    ASSUME EnOrden, NEW m \in DOMAIN hilo, CierraSolo(m) PROVE EnOrden' /\ TodoIgual
<1>1. HilosInv /\ CarpetasInv /\ TablaInv /\ meta \in [ESPECIES -> Metadata]
    BY DEF EnOrden, CarpetasInv
<1> DEFINE f == m.especie
<1>2. /\ hilo[m].pc = "cierra" /\ Sigue(m, "buscaPos") /\ f \in ESPECIES
      /\ UNCHANGED <<dir, disco, bitmap, abiertos, fin, errada, pisado>>
      /\ meta' = [meta EXCEPT ![f].open = FALSE]
    BY <1>1, SusMensajes DEF CierraSolo, En
<1>3. PICK r \in {NULL, 0, 1} :
        /\ r = hilo[m].rta
        /\ Muda(m, "buscaPos", r)
    BY <1>1, <1>2, Sigue1
<1>4. /\ "buscaPos" \in Pcs /\ "buscaPos" \notin Escriben \union {"saca"}
      /\ hilo[m].pc \notin Escriben /\ "buscaPos" \notin SinRespuesta
      /\ "buscaPos" \notin Operando /\ hilo[m].pc \in Operando
    BY <1>2 DEF Pcs, SinRespuesta, Escriben, Cortando, Escribiendo, Operando, Cerrando
<1>5. PICK h : Turno(m, h) /\ h.pc = "buscaPos" /\ h.rta = r
    BY <1>1, <1>3, <1>4, Salta
<1>6. /\ meta' \in [ESPECIES -> Metadata]
      /\ \A g \in ESPECIES : meta'[g].size = meta[g].size /\ meta'[g].bloques = meta[g].bloques
      /\ \A g \in ESPECIES : g # f => meta'[g] = meta[g]
    BY <1>1, <1>2 DEF Metadata
<1>7. Quieta(m, h)
    BY <1>2, <1>4, <1>5, <1>6, <1>3 DEF Quieta
<1>8. TablaInv'
    BY <1>1, <1>2, <1>4, <1>5, TablaCierra
<1>9. dir[f] = "listo"
    BY <1>1, <1>4 DEF CarpetasInv
<1>10. CarpetasInv'
    BY <1>1, <1>2, <1>4, <1>5, <1>6, <1>9, CarpetasQuietas
<1>11. QED
    BY <1>7, <1>8, <1>10, PasoQuieto

(* sacar_lista_archivos_abiertos, the search.                              *)
LEMMA PasoBuscaPos ==
    ASSUME EnOrden, NEW m \in DOMAIN hilo, BuscaPos(m) PROVE EnOrden' /\ TodoIgual
<1>1. HilosInv /\ CarpetasInv /\ TablaInv /\ meta \in [ESPECIES -> Metadata]
    BY DEF EnOrden, CarpetasInv
<1> DEFINE f == m.especie
           i == SelectInSeq(abiertos, LAMBDA g : g = f)
           h0 == hilo[m]
<1>2. /\ h0.pc = "buscaPos" /\ f \in ESPECIES /\ h0 \in Hilo /\ HiloBien(h0)
      /\ abiertos \in Seq(ESPECIES)
      /\ UNCHANGED <<dir, meta, disco, bitmap, abiertos, fin, errada, pisado>>
    BY <1>1, SusMensajes DEF BuscaPos, historia, En, HilosInv, TablaInv, Entradas
<1>3. CASE Contains(abiertos, f)
  <2>1. i \in Nat /\ i > 0
    <3> DEFINE I == {k \in 1 .. Len(abiertos) : abiertos[k] = f}
    <3>1. I # {} /\ I \in SUBSET Nat
      <4>1. DOMAIN abiertos = 1 .. Len(abiertos)
          BY <1>2, LenProperties
      <4>2. QED
          BY <1>3, <4>1 DEF Contains
    <3>2. \E n \in I : \A k \in I : n <= k
        BY <3>1, MinimoNat
    <3>3. i = CHOOSE n \in I : \A k \in I : n <= k
        BY <3>1 DEF SelectInSeq, Min
    <3>4. i \in I
      <4> HIDE DEF I, i
      <4>1. QED
          BY <3>2, <3>3
    <3>5. QED
        BY <3>4
  <2> HIDE DEF i
  <2> DEFINE h == [h0 EXCEPT !.pc = "saca", !.pos = i]
  <2>2. hilo' = [hilo EXCEPT ![m] = h]
      BY <1>3 DEF BuscaPos, historia, i
  <2>3. /\ h \in Hilo /\ h.pc = "saca" /\ h.pos = i /\ h.rta = h0.rta
        /\ h.libera = h0.libera /\ h.van = h0.van /\ h.datos = h0.datos
      BY <1>2, <2>1 DEF Hilo, Pcs, Cerrando
  <2>4. /\ "saca" \notin Escriben /\ h0.pc \notin Escriben /\ "saca" \notin SinRespuesta
        /\ "saca" \notin Operando /\ h0.pc \notin Operando /\ "saca" \in EnTabla /\ h0.pc \in EnTabla
      BY <1>2 DEF SinRespuesta, Escriben, Cortando, Escribiendo, Operando, EnTabla, Cerrando
  <2> HIDE DEF h
  <2>5. HiloBien(h)
      BY <1>2, <2>1, <2>3, <2>4, Lugares DEF HiloBien
  <2>6. Turno(m, h)
      BY <2>2, <2>3, <2>5 DEF Turno
  <2>7. Quieta(m, h)
      BY <1>2, <2>3, <2>4, <2>6 DEF Quieta
  <2>8. TablaInv'
      BY <1>1, <1>2, <2>3, <2>4, <2>6, TablaQuieta
  <2>9. CarpetasInv'
      BY <1>1, <1>2, <2>3, <2>4, <2>6, CarpetasQuietas
  <2>10. QED
      BY <2>7, <2>8, <2>9, PasoQuieto
<1>4. CASE ~Contains(abiertos, f)
  <2>1. Sigue(m, "responde")
      BY <1>4 DEF BuscaPos, historia, Sigue
  <2>2. PICK r \in {NULL, 0, 1} :
          /\ r = hilo[m].rta
          /\ Muda(m, "responde", r)
      BY <1>1, <2>1, Sigue1
  <2>3. /\ "responde" \in Pcs /\ "responde" \notin Escriben \union {"saca"}
        /\ h0.pc \notin Escriben /\ "responde" \notin SinRespuesta
        /\ "responde" \notin Operando /\ h0.pc \notin Operando
      BY <1>2 DEF Pcs, SinRespuesta, Escriben, Cortando, Escribiendo, Operando
  <2>4. PICK h : Turno(m, h) /\ h.pc = "responde" /\ h.rta = r
      BY <1>1, <2>2, <2>3, Salta
  <2>5. Quieta(m, h)
      BY <1>2, <2>3, <2>4, <2>2 DEF Quieta
  <2>6. TablaInv'
      BY <1>1, <1>2, <1>4, <2>4, TablaPerdida
  <2>7. CarpetasInv'
      BY <1>1, <1>2, <2>3, <2>4, CarpetasQuietas
  <2>8. QED
      BY <2>5, <2>6, <2>7, PasoQuieto
<1>5. QED
    BY <1>3, <1>4

(* sacar_lista_archivos_abiertos, the removal.                             *)
LEMMA PasoSaca ==
    ASSUME EnOrden, NEW m \in DOMAIN hilo, Saca(m) PROVE EnOrden' /\ TodoIgual
<1>1. HilosInv /\ CarpetasInv /\ TablaInv /\ meta \in [ESPECIES -> Metadata]
    BY DEF EnOrden, CarpetasInv
<1> DEFINE i == hilo[m].pos
<1>2. hilo[m].pc = "saca" /\ fin = "no" /\ i \in Nat /\ i > 0
    BY <1>1 DEF Saca, historia, En, HilosInv, HiloBien, Hilo
<1>3. CASE i > Len(abiertos)
  <2>1. Termina("tabla") /\ "tabla" \in Finales
      BY <1>3 DEF Saca, historia, Finales
  <2>2. QED
      BY <1>2, <2>1, PasoTermina
<1>4. CASE ~(i > Len(abiertos))
  <2>1. /\ abiertos' = RemoveAt(abiertos, i)
        /\ errada' = (errada \/ abiertos[i] # m.especie) /\ Sigue(m, "responde")
        /\ UNCHANGED <<dir, meta, disco, bitmap, fin, pisado>>
      BY <1>4 DEF Saca, historia
  <2>2. PICK r \in {NULL, 0, 1} :
          /\ r = hilo[m].rta
          /\ Muda(m, "responde", r)
      BY <1>1, <2>1, Sigue1
  <2>3. /\ "responde" \in Pcs /\ "responde" \notin Escriben \union {"saca"}
        /\ hilo[m].pc \notin Escriben /\ "responde" \notin SinRespuesta
        /\ "responde" \notin Operando
      BY <1>2 DEF Pcs, SinRespuesta, Escriben, Cortando, Escribiendo, Operando
  <2>4. PICK h : Turno(m, h) /\ h.pc = "responde" /\ h.rta = r
      BY <1>1, <2>2, <2>3, Salta
  <2>5. Quieta(m, h)
      BY <2>1, <2>3, <2>4, <2>2 DEF Quieta
  <2>6. TablaInv'
    <3>1. i <= Len(abiertos)
        BY <1>1, <1>2, <1>4, LenProperties DEF TablaInv, Entradas
    <3>2. QED
        BY <1>1, <1>2, <2>1, <2>4, <3>1, TablaSaca
  <2>7. CarpetasInv'
      BY <1>1, <2>1, <2>3, <2>4, CarpetasQuietas
  <2>8. QED
      BY <2>5, <2>6, <2>7, PasoQuieto
<1>5. QED
    BY <1>3, <1>4

(* envio_mensaje.                                                          *)
LEMMA PasoResponde ==
    ASSUME EnOrden, NEW m \in DOMAIN hilo, Responde(m) PROVE EnOrden' /\ TodoIgual
<1>1. HilosInv /\ CarpetasInv /\ TablaInv /\ meta \in [ESPECIES -> Metadata]
    BY DEF EnOrden, CarpetasInv
<1>2. /\ hilo[m].pc = "responde" /\ Sigue(m, "respondido")
      /\ UNCHANGED <<dir, meta, disco, bitmap, abiertos, fin, errada, pisado>>
    BY DEF Responde, historia, En
<1>3. PICK r \in {NULL, 0, 1} :
        /\ r = hilo[m].rta
        /\ Muda(m, "respondido", r)
    BY <1>1, <1>2, Sigue1
<1>4. /\ "respondido" \in Pcs /\ "respondido" \notin Escriben \union {"saca"}
      /\ hilo[m].pc \notin Escriben /\ "respondido" \notin SinRespuesta
      /\ "respondido" \notin Operando /\ "respondido" \notin EnTabla
      /\ hilo[m].pc \notin Operando /\ hilo[m].pc \notin EnTabla
    BY <1>2 DEF Pcs, SinRespuesta, Escriben, Cortando, Escribiendo, Operando, EnTabla, Cerrando
<1>5. PICK h : Turno(m, h) /\ h.pc = "respondido" /\ h.rta = r
    BY <1>1, <1>3, <1>4, Salta
<1>6. Quieta(m, h)
    BY <1>2, <1>4, <1>5, <1>3 DEF Quieta
<1>7. TablaInv'
    BY <1>1, <1>2, <1>4, <1>5, TablaQuieta
<1>8. CarpetasInv'
    BY <1>1, <1>2, <1>4, <1>5, CarpetasQuietas
<1>9. QED
    BY <1>6, <1>7, <1>8, PasoQuieto

-----------------------------------------------------------------------------
(* The steps on an open file.                                              *)

(* The thread m goes on working on its file, as h.                         *)
Opera(m, h) ==
    /\ Turno(m, h) /\ fin = "no" /\ hilo[m].pc \in Operando /\ h.pc \in Operando
    /\ hilo[m].rta # NULL => h.rta # NULL
    /\ meta' \in [ESPECIES -> Metadata]
    /\ meta'[m.especie].open = meta[m.especie].open
    /\ \A g \in ESPECIES : g # m.especie => meta'[g] = meta[g]
    /\ dir' = dir /\ abiertos' = abiertos /\ errada' = errada

(* It leaves the directory, the table and the threads in order, and is     *)
(* still the only one in its file.                                         *)
LEMMA OperaLoDemas ==
    ASSUME EnOrden, NEW m, NEW h, Opera(m, h)
    PROVE  /\ HilosInv' /\ CarpetasInv' /\ TablaInv'
           /\ Suyo(m) /\ Suyo(m)'
           /\ m.especie \in ESPECIES /\ hilo'[m] = h
<1>1. HilosInv /\ CarpetasInv /\ TablaInv /\ m \in DOMAIN hilo
    BY DEF EnOrden, Opera, Turno
<1>2. HilosInv' /\ DOMAIN hilo' = DOMAIN hilo /\ hilo'[m] = h
    BY <1>1, LosHilos DEF Opera
<1>3. m.especie \in ESPECIES /\ dir[m.especie] = "listo"
    BY <1>1, SusMensajes DEF CarpetasInv, Opera
<1>4. /\ "metadata" \notin Operando /\ Operando \subseteq EnTabla
    BY DEF Operando, EnTabla
<1>5. CarpetasInv'
  <2>1. \A f \in ESPECIES : dir[f] # "listo" => meta'[f] = meta[f]
      BY <1>3 DEF Opera
  <2>2. QED
      BY <1>1, <1>4, <2>1, CarpetasQuietas DEF Opera
<1>6. TablaInv'
  <2>1. \A f \in ESPECIES : meta'[f].open = meta[f].open
      BY DEF Opera
  <2>2. h.pc \in EnTabla /\ hilo[m].pc \in EnTabla
      BY <1>4 DEF Opera
  <2>3. QED
      BY <1>1, <2>1, <2>2, TablaQuieta DEF Opera
<1>7. Suyo(m)
    BY <1>1, SuArchivo DEF Opera
<1>8. Suyo(m)'
  <2>1. (\A u \in DOMAIN hilo : hilo[u].pc \in Operando => Suyo(u))'
      BY <1>2, <1>5, SuArchivoDespues
  <2>2. m \in DOMAIN hilo' /\ hilo'[m].pc \in Operando
      BY <1>1, <1>2 DEF Opera
  <2>3. QED
      BY <2>1, <2>2
<1>9. QED
    BY <1>2, <1>3, <1>5, <1>6, <1>7, <1>8

(* When it takes no block and gives none back.                             *)
LEMMA OperaConLosMismos ==
    ASSUME EnOrden, NEW m, NEW h, Opera(m, h),
           bitmap' = bitmap, pisado' = pisado, fin' = fin,
           Distintos(meta'[m.especie].bloques),
           Propios(m.especie)' \subseteq Propios(m.especie),
           Tomados(m.especie)' = Tomados(m.especie),
           h.pc \in Cortando => Devuelve(m)'
    PROVE  BloquesInv' /\ MapaInv'
<1>1. HilosInv /\ CarpetasInv /\ BloquesInv /\ MapaInv /\ Turno(m, h)
    BY DEF EnOrden, Opera
<1>2. m.especie \in ESPECIES
    BY OperaLoDemas
<1>3. \A g \in ESPECIES : g # m.especie => Propios(m.especie)' \intersect Propios(g) = {}
    BY <1>1, <1>2 DEF BloquesInv
<1>4. BloquesInv'
    BY <1>1, <1>2, <1>3, BloquesSiguen DEF Opera
<1>5. bitmap' \subseteq Numeros /\ pisado' \in BOOLEAN /\ fin' \in Finales
    BY <1>1 DEF MapaInv
<1>6. ASSUME ~pisado'
      PROVE  /\ ~pisado
             /\ bitmap' = (bitmap \ Tomados(m.especie)) \union Tomados(m.especie)'
             /\ \A g \in ESPECIES :
                  g # m.especie => Tomados(m.especie)' \intersect Tomados(g) = {}
  <2>1. /\ bitmap = UNION {Tomados(f) : f \in ESPECIES}
        /\ \A f, g \in ESPECIES : f # g => Tomados(f) \intersect Tomados(g) = {}
      BY <1>1, <1>6 DEF MapaInv
  <2>2. Tomados(m.especie) \subseteq bitmap
      BY <1>2, <2>1
  <2>3. QED
      BY <1>2, <1>6, <2>1, <2>2
<1>7. MapaInv'
    BY <1>1, <1>5, <1>6, MapaSigue DEF Opera
<1>8. QED
    BY <1>4, <1>7

(* The whole of the invariant, once its file is in order.                  *)
LEMMA OperaSigue ==
    ASSUME EnOrden, NEW m, NEW h, Opera(m, h),
           DiscoBien(disco'), \A b \in Numeros \ Propios(m.especie) : disco'[b] = disco[b],
           Entero(m.especie)', Acotado(m.especie)', BloquesInv', MapaInv'
    PROVE  /\ EnOrden'
           /\ \A g \in ESPECIES : g # m.especie => Todo(g)' = Todo(g)
<1>1. /\ HilosInv /\ CarpetasInv /\ ContenidoInv /\ BloquesInv /\ Turno(m, h)
    BY DEF EnOrden, Opera
<1>2. ContenidoInv' /\ \A g \in ESPECIES : g # m.especie => Todo(g)' = Todo(g)
    BY <1>1, ContenidoSigue DEF Opera
<1>3. HilosInv' /\ CarpetasInv' /\ TablaInv'
    BY OperaLoDemas
<1>4. QED
    BY <1>2, <1>3 DEF EnOrden

(* A file that keeps what it is to hold keeps its counts.                  *)
LEMMA OperaAcotado ==
    ASSUME EnOrden, NEW m, NEW h, Opera(m, h), Todo(m.especie)' = Todo(m.especie)
    PROVE  Acotado(m.especie)'
<1>1. m.especie \in ESPECIES
    BY OperaLoDemas
<1>2. HilosInv /\ Acotado(m.especie) /\ Bien(Todo(m.especie))
    BY <1>1 DEF EnOrden, ContenidoInv, Entero
<1>3. QED
    BY <1>1, <1>2, AcotadoIgual DEF Opera

(* What is known of the file of who works on it.                           *)
LEMMA OperaDatos ==
    ASSUME EnOrden, NEW m \in DOMAIN hilo, hilo[m].pc \in Operando, fin = "no"
    PROVE  /\ m.especie \in ESPECIES /\ m.lugar \in LUGARES /\ m.cant \in 1 .. 9
           /\ meta \in [ESPECIES -> Metadata]
           /\ meta[m.especie].bloques \in Seq(Numeros) /\ meta[m.especie].size \in Nat
           /\ Len(meta[m.especie].bloques) \in Nat
           /\ Distintos(meta[m.especie].bloques)
           /\ Suyo(m) /\ Entero(m.especie) /\ Acotado(m.especie) /\ DiscoBien(disco)
           /\ hilo[m] \in Hilo /\ HiloBien(hilo[m])
           /\ hilo[m].pc \in Cortando => Devuelve(m)
<1>1. HilosInv /\ CarpetasInv /\ ContenidoInv /\ BloquesInv
    BY DEF EnOrden
<1>2. m.especie \in ESPECIES /\ m.lugar \in LUGARES /\ m.cant \in 1 .. 9
    BY <1>1, SusMensajes
<1>3. /\ meta[m.especie].bloques \in Seq(Numeros) /\ meta[m.especie].size \in Nat
      /\ Len(meta[m.especie].bloques) \in Nat
    BY <1>1, <1>2, TiposDelArchivo
<1>4. Suyo(m)
    BY <1>1, SuArchivo
<1>5. QED
    BY <1>1, <1>2, <1>3, <1>4 DEF CarpetasInv, ContenidoInv, BloquesInv, HilosInv

(* Where the record of a position is, and its count.                       *)
LEMMA DondeEsta ==
    ASSUME NEW s, Bien(s), NEW l \in LUGARES
    PROVE  /\ Donde(s, l) = 0 => (\A k \in 1 .. Len(s) : s[k] # l) /\ Cuentas(s)[l] = 0
           /\ Donde(s, l) # 0 =>
                /\ Donde(s, l) \in 1 .. Len(s) /\ s[Donde(s, l)] = l
                /\ Cuentas(s)[l] = Cantidad(s, Donde(s, l)) /\ Cuentas(s)[l] > 0
<1>1. Len(s) \in Nat /\ s \in Seq(Byte)
    BY LenProperties DEF Bien
<1>2. CASE \A k \in 1 .. Len(s) : s[k] # l
    BY <1>2, CuentaDe
<1>3. ASSUME NEW k \in 1 .. Len(s), s[k] = l
      PROVE  /\ Donde(s, l) = k /\ k # 0 /\ Cuentas(s)[l] = Cantidad(s, k)
             /\ Cuentas(s)[l] > 0
  <2>1. Donde(s, l) = k /\ Cuentas(s)[l] = Cantidad(s, k)
      BY <1>3, CuentaDe
  <2>2. RegistroEn(s, k)
      BY <1>3 DEF Bien
  <2>3. Cantidad(s, k) \in 1 .. 99
      BY <1>1, <1>3, <2>2, FinDelRegistro
  <2>4. Cantidad(s, k) > 0
    <3>1. \A c \in 1 .. 99 : c > 0
        OBVIOUS
    <3>2. QED
        BY <2>3, <3>1
  <2>5. k # 0
      BY <1>1
  <2>6. QED
      BY <2>1, <2>4, <2>5
<1>4. QED
    BY <1>2, <1>3

(* The file of who is about to work on it.                                 *)
LEMMA AlOperar ==
    ASSUME EnOrden, NEW m \in DOMAIN hilo, hilo[m].pc = "opera", fin = "no",
           NEW f, f = m.especie, NEW s, s = Contenido(f),
           NEW bl, bl = meta[f].bloques
    PROVE  /\ hilo[m].rta = NULL /\ hilo[m].libera = <<>>
           /\ De(f, Cortando) = {}
           /\ s = Texto(disco, bl, meta[f].size) /\ s = Todo(f)
           /\ Bien(s) /\ Len(s) = meta[f].size
           /\ meta[f].size <= Len(bl) * BLOCK_SIZE
           /\ EnDisco(disco, bl, meta[f].size, <<>>, 0)
           /\ Propios(f) = ToSet(bl) /\ Tomados(f) = ToSet(bl)
           /\ \A l \in LUGARES : Cuentas(s)[l] <= 9 * Cardinality(Contestadas)
<1>1. "opera" \in Operando /\ "opera" \notin Escriben /\ "opera" \notin Cortando
    BY DEF Operando, Escriben, Cortando, Escribiendo
<1>2. /\ bl \in Seq(Numeros) /\ meta[f].size \in Nat /\ Suyo(m) /\ Entero(f) /\ Acotado(f)
      /\ DiscoBien(disco) /\ HiloBien(hilo[m]) /\ Len(bl) \in Nat
    BY <1>1, OperaDatos
<1>3. hilo[m].rta = NULL /\ hilo[m].libera = <<>>
    BY <1>1, <1>2 DEF HiloBien, SinRespuesta
<1>4. /\ De(f, Cortando) = {} /\ Queda(f) = meta[f].size /\ Nuevo(f) = <<>> /\ Van(f) = 0
      /\ Propios(f) = ToSet(bl) /\ Tomados(f) = ToSet(bl)
    BY <1>1, <1>2 DEF Suyo
<1>5. /\ meta[f].size <= Len(bl) * BLOCK_SIZE /\ EnDisco(disco, bl, meta[f].size, <<>>, 0)
      /\ Bien(Todo(f))
    BY <1>2, <1>4 DEF Entero
<1>6. s = Texto(disco, bl, meta[f].size)
    BY DEF Contenido, Leidos, Texto, ByteEn, Bloque, Lugar
<1>7. \A i \in 1 .. meta[f].size : HayByte(disco, bl, i)
  <2>1. meta[f].size + 0 = meta[f].size
      BY <1>2
  <2>2. QED
      BY <1>5, <2>1 DEF EnDisco
<1>8. s \in Seq(Byte) /\ Len(s) = meta[f].size
    BY <1>2, <1>5, <1>6, <1>7, TextoEs
<1>9. s = Todo(f)
  <2>1. s \o <<>> = s
      BY <1>8, ConcatEmptySeq
  <2>2. QED
      BY <1>4, <1>6, <2>1 DEF Todo
<1>10. QED
    BY <1>2, <1>3, <1>4, <1>5, <1>6, <1>8, <1>9 DEF Acotado

(* The thread m ends its work, and leaves the file as it was.              *)
LEMMA SoloResponde ==
    ASSUME EnOrden, NEW m \in DOMAIN hilo, hilo[m].pc = "opera", fin = "no",
           NEW r \in {0, 1}, NEW v \in SUBSET LUGARES,
           hilo' = [hilo EXCEPT ![m] = [@ EXCEPT !.pc = "cierra", !.rta = r, !.vistos = v]],
           UNCHANGED <<dir, meta, disco, bitmap, abiertos, fin, errada, pisado>>
    PROVE  EnOrden' /\ TodoIgual
<1> DEFINE h0 == hilo[m]
           h == [h0 EXCEPT !.pc = "cierra", !.rta = r, !.vistos = v]
<1>1. h0 \in Hilo /\ HiloBien(h0) /\ meta \in [ESPECIES -> Metadata]
    BY DEF EnOrden, HilosInv, CarpetasInv
<1>2. "cierra" \in Pcs
    BY DEF Pcs, Operando
<1>3. /\ h \in Hilo /\ h.pc = "cierra" /\ h.rta = r /\ h.libera = h0.libera
      /\ h.van = h0.van /\ h.datos = h0.datos
    BY <1>1, <1>2 DEF Hilo
<1>4. hilo' = [hilo EXCEPT ![m] = h]
    OBVIOUS
<1>5. /\ "cierra" \notin SinRespuesta /\ "cierra" \notin Cortando /\ "opera" \notin Cortando
      /\ "cierra" \notin Escriben /\ "opera" \notin Escriben
      /\ "opera" \in Operando /\ "cierra" \in Operando
    BY DEF SinRespuesta, Cortando, Escriben, Escribiendo, Operando
<1> HIDE DEF h
<1>6. HiloBien(h)
    BY <1>1, <1>3, <1>5 DEF HiloBien
<1>7. Turno(m, h)
    BY <1>3, <1>4, <1>6 DEF Turno
<1>8. h0.rta = NULL
    BY <1>1 DEF HiloBien, SinRespuesta
<1>9. Opera(m, h)
    BY <1>1, <1>3, <1>5, <1>7, <1>8 DEF Opera
<1>10. CarpetasInv' /\ TablaInv'
    BY <1>9, OperaLoDemas
<1>11. Quieta(m, h)
    BY <1>3, <1>5, <1>7, <1>8 DEF Quieta
<1>12. QED
    BY <1>10, <1>11, PasoQuieto

(* mensaje_get_pokemon.                                                    *)
LEMMA PasoGet ==
    ASSUME EnOrden, NEW m \in DOMAIN hilo, GetSolo(m) PROVE EnOrden' /\ TodoIgual
<1> DEFINE v == {l \in LUGARES : Donde(Contenido(m.especie), l) # 0}
<1>1. /\ hilo[m].pc = "opera" /\ fin = "no" /\ v \in SUBSET LUGARES
      /\ hilo' = [hilo EXCEPT ![m] = [@ EXCEPT !.pc = "cierra", !.rta = 1, !.vistos = v]]
      /\ UNCHANGED <<dir, meta, disco, bitmap, abiertos, fin, errada, pisado>>
    BY DEF GetSolo, En
<1> HIDE DEF v
<1>2. QED
    BY <1>1, SoloResponde

(* mensaje_catch_pokemon, when there is none.                              *)
LEMMA PasoCatchNada ==
    ASSUME EnOrden, NEW m \in DOMAIN hilo, CatchSolo(m), Donde(Contenido(m.especie), m.lugar) = 0
    PROVE  EnOrden' /\ TodoIgual
<1>1. /\ hilo[m].pc = "opera" /\ fin = "no"
      /\ hilo' = [hilo EXCEPT ![m].pc = "cierra", ![m].rta = 0]
      /\ UNCHANGED <<dir, meta, disco, bitmap, abiertos, fin, errada, pisado>>
    BY DEF CatchSolo, En
<1>2. hilo[m] \in Hilo /\ hilo \in [DOMAIN hilo -> Hilo]
    BY DEF EnOrden, HilosInv
<1>3. /\ hilo[m].vistos \in SUBSET LUGARES
      /\ [hilo[m] EXCEPT !.pc = "cierra", !.rta = 0]
           = [hilo[m] EXCEPT !.pc = "cierra", !.rta = 0, !.vistos = hilo[m].vistos]
    BY <1>2 DEF Hilo
<1>4. hilo' = [hilo EXCEPT ![m] = [hilo[m] EXCEPT !.pc = "cierra", !.rta = 0]]
    BY <1>1, <1>2
<1>5. hilo' = [hilo EXCEPT ![m] =
                 [@ EXCEPT !.pc = "cierra", !.rta = 0, !.vistos = hilo[m].vistos]]
    BY <1>3, <1>4
<1>6. QED
    BY <1>1, <1>3, <1>5, SoloResponde

(* What a message leaves: c pokemons of its species at its position, and   *)
(* the rest as it was.                                                     *)
Efecto(m, c) ==
    /\ \A g \in ESPECIES : g # m.especie => Todo(g)' = Todo(g)
    /\ Cambia(Todo(m.especie), Todo(m.especie)', m.lugar, c)

(* No count goes over what those who answered may have added.              *)
LEMMA CuentasDespues ==
    ASSUME EnOrden, NEW m, NEW h, Opera(m, h), NEW f, f = m.especie, NEW t, Todo(f)' = t,
           NEW c \in Nat, c <= 9 * Cardinality(Contestadas'),
           Cambia(Todo(f), t, m.lugar, c)
    PROVE  Acotado(f)'
<1>1. HilosInv /\ f \in ESPECIES
    BY OperaLoDemas DEF EnOrden
<1>2. Acotado(f) /\ Bien(Todo(f))
    BY <1>1 DEF EnOrden, ContenidoInv, Entero
<1>3. /\ Cardinality(Contestadas) \in Nat /\ Cardinality(Contestadas') \in Nat
      /\ Cardinality(Contestadas) <= Cardinality(Contestadas')
    BY <1>1, MasContestadas DEF Opera
<1>4. ASSUME NEW l \in LUGARES PROVE Cuentas(t)[l] <= 9 * Cardinality(Contestadas')
  <2>1. CASE l = m.lugar
      BY <2>1 DEF Cambia
  <2>2. CASE l # m.lugar
    <3>1. Cuentas(t)[l] = Cuentas(Todo(f))[l]
        BY <2>2 DEF Cambia
    <3>2. Cuentas(Todo(f))[l] \in 0 .. 99
        BY <1>2, CuentasChicas
    <3>3. Cuentas(Todo(f))[l] <= 9 * Cardinality(Contestadas)
        BY <1>2 DEF Acotado
    <3> HIDE DEF Cuentas
    <3>4. QED
        BY <1>3, <3>1, <3>2, <3>3
  <2>3. QED
      BY <2>1, <2>2
<1>5. QED
    BY <1>4 DEF Acotado

(* mensaje_new_pokemon, when there was none at the position.               *)
LEMMA PasoNewPrimero ==
    ASSUME EnOrden, NEW m \in DOMAIN hilo, NewSolo(m), Donde(Contenido(m.especie), m.lugar) = 0
    PROVE  EnOrden' /\ Efecto(m, m.cant)
<1> DEFINE f == m.especie
           bl == meta[f].bloques
           n == meta[f].size
           s == Contenido(f)
           r == Registro(m.lugar, m.cant)
           h0 == hilo[m]
           h == [h0 EXCEPT !.pc = "escribe", !.rta = 1, !.van = 0, !.datos = r]
<1>1. /\ h0.pc = "opera" /\ fin = "no"
      /\ hilo' = [hilo EXCEPT ![m] = h]
      /\ UNCHANGED <<dir, meta, disco, bitmap, abiertos, fin, errada, pisado>>
    BY DEF NewSolo, En
<1>2. "opera" \in Operando
    BY DEF Operando
<1>3. /\ f \in ESPECIES /\ m.lugar \in LUGARES /\ m.cant \in 1 .. 9 /\ m.cant \in 1 .. 99
      /\ m.cant \in Nat
      /\ meta \in [ESPECIES -> Metadata] /\ bl \in Seq(Numeros) /\ n \in Nat /\ Len(bl) \in Nat
      /\ Distintos(bl) /\ h0 \in Hilo /\ HiloBien(h0) /\ DiscoBien(disco)
    BY <1>1, <1>2, OperaDatos
<1>4. /\ h0.rta = NULL /\ h0.libera = <<>> /\ s = Texto(disco, bl, n) /\ s = Todo(f)
      /\ Bien(s) /\ Len(s) = n /\ n <= Len(bl) * BLOCK_SIZE
      /\ EnDisco(disco, bl, n, <<>>, 0) /\ Propios(f) = ToSet(bl) /\ Tomados(f) = ToSet(bl)
    BY <1>1, AlOperar
<1>5. r \in Seq(Byte) /\ Len(r) \in Nat
    BY <1>3, BytesDeRegistro
<1>6. /\ h \in Hilo /\ h.pc = "escribe" /\ h.rta = 1 /\ h.van = 0 /\ h.datos = r
      /\ h.libera = <<>>
    BY <1>3, <1>4, <1>5 DEF Hilo, Pcs, Operando
<1>7. /\ \A k \in 1 .. Len(s) : s[k] # m.lugar
      /\ Donde(s, m.lugar) = 0
    BY <1>3, <1>4, DondeEsta
<1> HIDE DEF s, n, bl, h
<1>8. Bien(s \o r) /\ Cambia(s, s \o r, m.lugar, m.cant)
  <2>1. \A k \in 1 .. Len(s) : s[k] # m.lugar
      BY <1>7
  <2>2. QED
      BY <1>3, <1>4, <2>1, ConOtroRegistro
<1> HIDE DEF r
<1>9. HiloBien(h)
    BY <1>5, <1>6 DEF HiloBien, SinRespuesta, Cortando
<1>10. Opera(m, h)
  <2>1. Turno(m, h)
      BY <1>1, <1>6, <1>9 DEF Turno
  <2>2. h.pc \in Operando
      BY <1>6 DEF Operando
  <2>3. QED
      BY <1>1, <1>2, <1>3, <1>4, <2>1, <2>2 DEF Opera
<1>11. /\ De(f, Cortando)' = {} /\ Queda(f)' = n /\ Nuevo(f)' = r /\ Van(f)' = 0
       /\ Propios(f)' = ToSet(bl) /\ Tomados(f)' = ToSet(bl)
  <2>1. Suyo(m)' /\ hilo'[m] = h /\ meta' = meta
      BY <1>1, <1>10, OperaLoDemas
  <2>2. "escribe" \in Escriben /\ "escribe" \notin Cortando
      BY Lugares
  <2>3. QED
      BY <1>6, <2>1, <2>2 DEF Suyo, bl, n
<1>12. Todo(f)' = s \o r
    BY <1>1, <1>4, <1>11 DEF Todo, Texto, ByteEn, bl, n
<1>13. Entero(f)'
  <2>1. EnDisco(disco, bl, n, r, 0)
      BY <1>4 DEF EnDisco
  <2>2. Bien(Todo(f)')
      BY <1>8, <1>12
  <2>3. EnDisco(disco, meta[f].bloques, Queda(f), Nuevo(f), Van(f))'
      BY <1>1, <1>11, <2>1 DEF EnDisco, HayByte, ByteEn, bl
  <2>4. QED
      BY <1>1, <1>4, <1>11, <2>2, <2>3 DEF Entero, bl, n
<1>14. Acotado(f)'
  <2>1. /\ Cardinality(Contestadas) \in Nat
        /\ Cardinality(Contestadas') = Cardinality(Contestadas) + 1
    <3>1. h.rta # NULL
        BY <1>3, <1>6, TallGrassAssumption
    <3>2. QED
        BY <1>4, <1>10, <3>1, MasContestadas DEF Opera, EnOrden
  <2>2. m.cant <= 9 * Cardinality(Contestadas')
      BY <1>3, <2>1
  <2>3. QED
      BY <1>3, <1>4, <1>8, <1>10, <1>12, <2>2, CuentasDespues
<1>15. BloquesInv' /\ MapaInv'
  <2>1. h.pc \notin Cortando
      BY <1>6, Lugares
  <2>2. QED
      BY <1>1, <1>3, <1>4, <1>10, <1>11, <2>1, OperaConLosMismos DEF bl
<1>16. EnOrden' /\ \A g \in ESPECIES : g # f => Todo(g)' = Todo(g)
    BY <1>1, <1>3, <1>10, <1>13, <1>14, <1>15, OperaSigue
<1>17. QED
    BY <1>4, <1>8, <1>12, <1>16 DEF Efecto

(* The text t that is left on the disk e of a file that had s, in its      *)
(* blocks bl, without its record at i.                                     *)
Borrado(e, bl, s, i, t) ==
    /\ DiscoBien(e)
    /\ \A b \in Numeros : ~Contains(bl, b) => e[b] = disco[b]
    /\ \A k \in 1 .. Len(t) : HayByte(e, bl, k)
    /\ t = Texto(e, bl, Len(t))
    /\ Bien(t) /\ Len(t) = Len(s) - (Hasta(s, i) - i + 1) /\ Len(t) \in Nat /\ Len(t) < Len(s)
    /\ \A k \in 1 .. Len(t) : t[k] # s[i]
    /\ Cambia(s, t, s[i], 0)

(* delet_tall_grass: what follows the record moves over it, byte by byte,  *)
(* and the end is cut off.                                                 *)
LEMMA BorradoEs ==
    ASSUME DiscoBien(disco), NEW bl \in Seq(Numeros), Distintos(bl),
           NEW n \in Nat, n <= Len(bl) * BLOCK_SIZE, EnDisco(disco, bl, n, <<>>, 0),
           NEW s, s = Texto(disco, bl, n), Bien(s), Len(s) = n,
           NEW i \in 1 .. n, s[i] \in LUGARES,
           NEW w, w = Hasta(s, i) - i + 1, NEW corte, corte = n - w,
           NEW e, e = Cortado(Grabado(bl, i - 1, SubSeq(s, i + w, n)), bl, corte)
    PROVE  Borrado(e, bl, s, i, Texto(e, bl, corte)) /\ corte \in Nat /\ corte < n
<1> DEFINE u == SubSeq(s, i + w, n)
           g == Grabado(bl, i - 1, u)
           t == Texto(e, bl, corte)
<1>1. s \in Seq(Byte) /\ Len(bl) \in Nat /\ RegistroEn(s, i) /\ n \in Nat /\ i \in Nat
    BY LenProperties DEF Bien
<1>2. w \in {3, 4} /\ i + w - 1 <= n
  <2>1. Hasta(s, i) <= n /\ (Hasta(s, i) = i + 2 \/ Hasta(s, i) = i + 3)
      BY <1>1, FinDelRegistro
  <2>2. n \in Nat /\ i \in Nat
      BY <1>1
  <2>3. QED
      BY <2>1, <2>2, SMTT(30)
<1>3. corte \in Nat /\ corte < n /\ i <= corte + 1
  <2>1. n \in Nat /\ i \in Nat /\ i >= 1
      BY <1>1
  <2>2. QED
      BY <1>2, <2>1, SMTT(30)
<1>4. /\ u \in Seq(Byte) /\ Len(u) = corte - (i - 1)
      /\ \A k \in 1 .. Len(u) : u[k] = s[i + w + k - 1]
  <2>1. i + w \in 1 .. n + 1
    <3>1. n \in Nat /\ i \in Nat
        BY <1>1
    <3>2. QED
        BY <1>2, <3>1, SMTT(30)
  <2>2. /\ u \in Seq(Byte) /\ Len(u) = n - (i + w) + 1
        /\ \A k \in 1 .. n - (i + w) + 1 : u[k] = s[(i + w) + k - 1]
    <3>1. ASSUME NEW a \in Int, a \in 1 .. n + 1
          PROVE  /\ SubSeq(s, a, n) \in Seq(Byte) /\ Len(SubSeq(s, a, n)) = n - a + 1
                 /\ \A k \in 1 .. n - a + 1 : SubSeq(s, a, n)[k] = s[a + k - 1]
      <4>1. \A k \in a .. n : s[k] \in Byte
          BY <1>1, <3>1
      <4>2. /\ SubSeq(s, a, n) \in Seq(Byte)
            /\ Len(SubSeq(s, a, n)) = IF a <= n THEN n - a + 1 ELSE 0
            /\ \A k \in 1 .. n - a + 1 : SubSeq(s, a, n)[k] = s[a + k - 1]
          BY <1>1, <4>1, SubSeqProperties
      <4>3. ~(a <= n) => n - a + 1 = 0
          BY <1>1, <3>1
      <4>4. QED
          BY <4>2, <4>3
    <3>2. i + w \in Int
        BY <2>1
    <3>3. QED
        BY <2>1, <3>1, <3>2
  <2>3. n - (i + w) + 1 = corte - (i - 1)
      BY <1>1, <1>2
  <2> HIDE DEF u
  <2>4. QED
      BY <1>1, <1>2, <2>2, <2>3
<1>5. \A k \in 1 .. n : HayByte(disco, bl, k)
  <2>1. n + 0 = n
      BY <1>1
  <2>2. QED
      BY <2>1 DEF EnDisco
<1> HIDE DEF u
<1>6. Grabacion(g, disco, bl, i - 1, u)
  <2>1. corte <= Len(bl) * BLOCK_SIZE
      BY <1>1, <1>3, Constantes
  <2>2. i - 1 \in Nat /\ i - 1 + Len(u) = corte
      BY <1>1, <1>3, <1>4
  <2>3. \A k \in 1 .. i - 1 : HayByte(disco, bl, k)
      BY <1>1, <1>5
  <2>4. QED
      BY <1>1, <1>4, <2>1, <2>2, <2>3, GrabadoEs DEF g
<1> HIDE DEF g
<1>7. /\ DiscoBien(g)
      /\ \A b \in Numeros : ~Contains(bl, b) => g[b] = disco[b]
      /\ \A k \in 1 .. corte : HayByte(g, bl, k)
      /\ \A k \in 1 .. i - 1 : ByteEn(g, bl, k) = ByteEn(disco, bl, k)
      /\ \A k \in 1 .. corte - (i - 1) : ByteEn(g, bl, i - 1 + k) = u[k]
  <2>1. i - 1 + Len(u) = corte
      BY <1>1, <1>3, <1>4
  <2>2. QED
      BY <1>4, <1>6, <2>1 DEF Grabacion
<1>8. Corte(e, g, bl, corte)
  <2>1. corte <= Len(bl) * BLOCK_SIZE
      BY <1>1, <1>3, Constantes
  <2>2. e = Cortado(g, bl, corte)
      BY DEF g, u
  <2>3. QED
      BY <1>1, <1>3, <1>7, <2>1, <2>2, CortadoEs
<1>9. /\ DiscoBien(e)
      /\ \A b \in Numeros : ~Contains(bl, b) => e[b] = disco[b]
      /\ \A k \in 1 .. corte : HayByte(e, bl, k) /\ ByteEn(e, bl, k) = ByteEn(g, bl, k)
    BY <1>7, <1>8 DEF Corte
<1>10. /\ t \in Seq(Byte) /\ Len(t) = corte
       /\ \A k \in 1 .. corte : t[k] = ByteEn(e, bl, k)
  <2>1. corte <= Len(bl) * BLOCK_SIZE
      BY <1>1, <1>3, Constantes
  <2>2. QED
      BY <1>1, <1>3, <1>9, <2>1, TextoEs
<1> HIDE DEF t
<1>11. ASSUME NEW k \in 1 .. i - 1 PROVE t[k] = s[k]
  <2>1. k \in 1 .. corte /\ k \in 1 .. n
      BY <1>1, <1>3
  <2>2. s[k] = ByteEn(disco, bl, k)
      BY <2>1 DEF Texto
  <2>3. QED
      BY <1>7, <1>9, <1>10, <2>1, <2>2
<1>12. ASSUME NEW k \in i .. corte PROVE t[k] = s[k + w]
  <2> DEFINE j == k - (i - 1)
  <2>1. k \in Int /\ w \in Int /\ i \in Int /\ corte \in Int /\ i <= k /\ k <= corte /\ i >= 1
      BY <1>1, <1>2, <1>3
  <2>2. /\ k \in 1 .. corte /\ j \in 1 .. corte - (i - 1) /\ i - 1 + j = k
        /\ i + w + j - 1 = k + w
      BY <2>1
  <2>3. t[k] = ByteEn(g, bl, k)
      BY <1>9, <1>10, <2>2
  <2>4. ByteEn(g, bl, i - 1 + j) = u[j]
      BY <1>7, <2>2
  <2>5. u[j] = s[i + w + j - 1]
      BY <1>4, <2>2
  <2> HIDE DEF j
  <2>6. QED
      BY <2>2, <2>3, <2>4, <2>5
<1>13. SinTramo(t, s, i, Hasta(s, i) - i + 1)
  <2>1. SinTramo(t, s, i, w)
      BY <1>10, <1>11, <1>12 DEF SinTramo
  <2>2. QED
      BY <2>1
<1>14. /\ Bien(t) /\ \A k \in 1 .. Len(t) : t[k] # s[i]
       /\ Cambia(s, t, s[i], 0)
    BY <1>13, SinElRegistro
<1>15. t = Texto(e, bl, Len(t))
    BY <1>10 DEF t
<1>16. Borrado(e, bl, s, i, t)
    BY <1>3, <1>9, <1>10, <1>14, <1>15 DEF Borrado
<1>17. QED
    BY <1>3, <1>16 DEF t

(* The blocks of a file that is being cut are those it had.                *)
LEMMA Devuelto ==
    ASSUME NEW bl \in Seq(Numeros), Distintos(bl), NEW n \in Nat,
           n < Len(bl) * BLOCK_SIZE, NEW a, a = ALiberar(bl, n)
    PROVE  /\ a \in Seq(Numeros) /\ Distintos(a) /\ ToSet(a) \subseteq ToSet(bl)
           /\ ToSet(a) \intersect ToSet(QueQuedan(bl, n)) = {}
           /\ ToSet(QueQuedan(bl, n)) \union ToSet(a) = ToSet(bl)
<1>1. Resto(a, QueQuedan(bl, n), bl)
    BY LosQueLibera
<1>2. QED
    BY <1>1 DEF Resto

(* delet_tall_grass up to the blocks to free, and the record to write.     *)
LEMMA PasoBorra ==
    ASSUME EnOrden, NEW m \in DOMAIN hilo, hilo[m].pc = "opera", fin = "no",
           NEW i, i = Donde(Contenido(m.especie), m.lugar), i # 0,
           NEW c \in 0 .. 99, c <= 9 * (Cardinality(Contestadas) + 1),
           BorraSolo(m, i, c),
           UNCHANGED <<dir, meta, bitmap, abiertos, fin, errada, pisado>>
    PROVE  EnOrden' /\ Efecto(m, c)
<1> DEFINE f == m.especie
           bl == meta[f].bloques
           n == meta[f].size
           s == Contenido(f)
           tam == Hasta(s, i) - i + 1
           corte == Len(s) - tam
           a == ALiberar(bl, corte)
           t == Texto(disco', bl, corte)
           datos == IF c > 0 THEN Registro(m.lugar, c) ELSE <<>>
           h0 == hilo[m]
           h == [h0 EXCEPT !.pc = "libera", !.rta = 1, !.corte = corte, !.van = 0,
                           !.libera = a, !.datos = datos]
<1>1. /\ disco' = Cortado(Grabado(bl, i - 1, SubSeq(s, i + tam, Len(s))), bl, corte)
      /\ hilo' = [hilo EXCEPT ![m] = h]
    BY DEF BorraSolo
<1>2. "opera" \in Operando
    BY DEF Operando
<1>3. /\ f \in ESPECIES /\ m.lugar \in LUGARES /\ meta \in [ESPECIES -> Metadata]
      /\ bl \in Seq(Numeros) /\ n \in Nat /\ Len(bl) \in Nat
      /\ Distintos(bl) /\ h0 \in Hilo /\ HiloBien(h0) /\ DiscoBien(disco)
    BY <1>2, OperaDatos
<1>4. /\ h0.rta = NULL /\ s = Texto(disco, bl, n) /\ s = Todo(f)
      /\ Bien(s) /\ Len(s) = n /\ n <= Len(bl) * BLOCK_SIZE
      /\ EnDisco(disco, bl, n, <<>>, 0) /\ Propios(f) = ToSet(bl) /\ Tomados(f) = ToSet(bl)
    BY AlOperar
<1> HIDE DEF s, n, bl
<1>5. i \in 1 .. n /\ s[i] = m.lugar
    BY <1>3, <1>4, DondeEsta DEF s
<1>6. Borrado(disco', bl, s, i, t) /\ corte \in Nat /\ corte < n
  <2>1. disco' = Cortado(Grabado(bl, i - 1, SubSeq(s, i + tam, n)), bl, corte)
      BY <1>1, <1>4
  <2>2. corte = n - tam
      BY <1>4
  <2> HIDE DEF corte, tam
  <2>3. tam = Hasta(s, i) - i + 1
      BY DEF tam
  <2>4. /\ DiscoBien(disco) /\ bl \in Seq(Numeros) /\ Distintos(bl)
        /\ n \in Nat /\ n <= Len(bl) * BLOCK_SIZE /\ EnDisco(disco, bl, n, <<>>, 0)
        /\ s = Texto(disco, bl, n) /\ Bien(s) /\ Len(s) = n
        /\ i \in 1 .. n /\ s[i] \in LUGARES
      BY <1>3, <1>4, <1>5
  <2>5. QED
      BY <2>1, <2>2, <2>3, <2>4, BorradoEs
<1> HIDE DEF t, corte
<1>7. /\ DiscoBien(disco') /\ \A b \in Numeros : ~Contains(bl, b) => disco'[b] = disco[b]
      /\ \A k \in 1 .. Len(t) : HayByte(disco', bl, k)
      /\ Bien(t) /\ Len(t) \in Nat
      /\ \A k \in 1 .. Len(t) : t[k] # m.lugar
      /\ Cambia(s, t, m.lugar, 0)
    BY <1>5, <1>6 DEF Borrado
<1>8. Len(t) = corte
    BY <1>4, <1>6 DEF Borrado, corte
<1>9. corte < Len(bl) * BLOCK_SIZE
    BY <1>3, <1>4, <1>6, Constantes
<1>10. /\ a \in Seq(Numeros) /\ Distintos(a) /\ ToSet(a) \subseteq ToSet(bl)
       /\ ToSet(a) \intersect ToSet(QueQuedan(bl, corte)) = {}
       /\ ToSet(QueQuedan(bl, corte)) \union ToSet(a) = ToSet(bl)
    BY <1>3, <1>6, <1>9, Devuelto
<1>11. /\ datos \in Seq(Byte) /\ Len(datos) \in Nat
       /\ Bien(t \o datos) /\ Cambia(s, t \o datos, m.lugar, c)
  <2>1. CASE c = 0
    <3>1. datos = <<>>
        BY <2>1
    <3>2. t \o <<>> = t
        BY <1>7, ConcatEmptySeq DEF Bien
    <3>3. <<>> \in Seq(Byte) /\ Len(<<>>) = 0
        OBVIOUS
    <3> HIDE DEF datos
    <3>4. QED
        BY <1>7, <2>1, <3>1, <3>2, <3>3
  <2>2. CASE c # 0
    <3>1. c > 0 /\ c \in 1 .. 99
        BY <2>2
    <3>2. datos = Registro(m.lugar, c)
        BY <3>1
    <3> HIDE DEF datos
    <3>3. Bien(t \o datos) /\ Cambia(t, t \o datos, m.lugar, c)
        BY <1>3, <1>7, <3>1, <3>2, ConOtroRegistro
    <3>4. datos \in Seq(Byte) /\ Len(datos) \in Nat
        BY <1>3, <3>1, <3>2, BytesDeRegistro
    <3>5. Cambia(s, t \o datos, m.lugar, c)
        BY <1>7, <3>3 DEF Cambia
    <3>6. QED
        BY <3>3, <3>4, <3>5
  <2>3. QED
      BY <2>1, <2>2
<1> HIDE DEF datos, a
<1>12. /\ h \in Hilo /\ h.pc = "libera" /\ h.rta = 1 /\ h.van = 0 /\ h.datos = datos
       /\ h.corte = corte /\ h.libera = a
    BY <1>3, <1>6, <1>10, <1>11 DEF Hilo, Pcs, Operando
<1> HIDE DEF h
<1>13. HiloBien(h)
    BY <1>11, <1>12 DEF HiloBien, SinRespuesta, Cortando
<1>14. Opera(m, h)
  <2>1. Turno(m, h)
      BY <1>1, <1>12, <1>13 DEF Turno
  <2>2. h.pc \in Operando
      BY <1>12 DEF Operando
  <2>3. QED
      BY <1>2, <1>3, <1>4, <2>1, <2>2 DEF Opera
<1>15. hilo'[m] = h /\ meta' = meta /\ meta'[f].bloques = bl /\ meta'[f].size = n
    BY <1>14, OperaLoDemas DEF bl, n
<1>16. /\ De(f, Cortando)' = {m} /\ Queda(f)' = corte /\ Nuevo(f)' = datos /\ Van(f)' = 0
       /\ Propios(f)' = ToSet(bl) /\ Tomados(f)' = ToSet(bl)
  <2>1. Suyo(m)'
      BY <1>14, OperaLoDemas
  <2>2. "libera" \in Escriben /\ "libera" \in Cortando /\ "libera" # "vuelcaLibre"
      BY Lugares
  <2>3. QED
      BY <1>10, <1>12, <1>15, <2>1, <2>2 DEF Suyo
<1>17. Todo(f)' = t \o datos
    BY <1>15, <1>16 DEF Todo, Texto, ByteEn, t
<1>18. Entero(f)'
  <2>1. EnDisco(disco', bl, corte, datos, 0)
    <3>1. corte + 0 = corte /\ corte <= Len(bl) * BLOCK_SIZE
        BY <1>3, <1>6, <1>9, Constantes
    <3>2. QED
        BY <1>7, <1>8, <3>1 DEF EnDisco
  <2>2. Bien(Todo(f)')
      BY <1>11, <1>17
  <2>3. EnDisco(disco, meta[f].bloques, Queda(f), Nuevo(f), Van(f))'
      BY <1>15, <1>16, <2>1 DEF EnDisco, HayByte, ByteEn
  <2>4. QED
      BY <1>4, <1>6, <1>15, <1>16, <2>2, <2>3 DEF Entero
<1>19. Acotado(f)'
  <2>1. /\ Cardinality(Contestadas) \in Nat
        /\ Cardinality(Contestadas') = Cardinality(Contestadas) + 1
    <3>1. h.rta # NULL
        BY <1>3, <1>12, TallGrassAssumption
    <3>2. QED
        BY <1>4, <1>14, <3>1, MasContestadas DEF Opera, EnOrden
  <2>2. c <= 9 * Cardinality(Contestadas') /\ c \in Nat
      BY <2>1
  <2>3. QED
      BY <1>3, <1>4, <1>11, <1>14, <1>17, <2>2, CuentasDespues
<1>20. BloquesInv' /\ MapaInv'
  <2>1. Devuelve(m)'
      BY <1>10, <1>12, <1>15 DEF Devuelve
  <2>2. QED
      BY <1>3, <1>4, <1>14, <1>15, <1>16, <2>1, OperaConLosMismos
<1>21. \A b \in Numeros \ Propios(f) : disco'[b] = disco[b]
    BY <1>4, <1>7 DEF Contains, ToSet
<1>22. EnOrden' /\ \A g \in ESPECIES : g # f => Todo(g)' = Todo(g)
    BY <1>7, <1>14, <1>18, <1>19, <1>20, <1>21, OperaSigue
<1>23. QED
    BY <1>4, <1>11, <1>17, <1>22 DEF Efecto

(* mensaje_new_pokemon, when there were some at the position.              *)
LEMMA PasoNewMas ==
    ASSUME EnOrden, NEW m \in DOMAIN hilo, NewSolo(m), Donde(Contenido(m.especie), m.lugar) # 0
    PROVE  /\ EnOrden'
           /\ Efecto(m, Cuentas(Todo(m.especie))[m.lugar] + m.cant)
<1> DEFINE s == Contenido(m.especie)
           i == Donde(s, m.lugar)
           c == Cantidad(s, i) + m.cant
<1>1. /\ hilo[m].pc = "opera" /\ fin = "no" /\ BorraSolo(m, i, c)
      /\ UNCHANGED <<dir, meta, bitmap, abiertos, fin, errada, pisado>>
    BY DEF NewSolo, En
<1>2. m.lugar \in LUGARES /\ m.cant \in 1 .. 9
    BY SusMensajes DEF EnOrden
<1>3. Bien(s) /\ s = Todo(m.especie) /\ Cuentas(s)[m.lugar] <= 9 * Cardinality(Contestadas)
      /\ hilo[m].rta = NULL
    BY <1>1, <1>2, AlOperar
<1>4. Cuentas(s)[m.lugar] = Cantidad(s, i) /\ Cuentas(s)[m.lugar] \in 0 .. 99
    BY <1>2, <1>3, DondeEsta, CuentasChicas
<1>5. Cardinality(Contestadas) \in Nat /\ Cardinality(Contestadas) + 1 <= 11
  <2>1. /\ IsFiniteSet(DOMAIN hilo) /\ Cardinality(DOMAIN hilo) \in Nat
        /\ Cardinality(DOMAIN hilo) <= 11
      BY SusMensajes DEF EnOrden
  <2>2. Contestadas \subseteq DOMAIN hilo \ {m}
      BY <1>3 DEF Contestadas
  <2>3. /\ Cardinality(DOMAIN hilo \ {m}) = Cardinality(DOMAIN hilo) - 1
        /\ IsFiniteSet(DOMAIN hilo \ {m})
      BY <2>1, FS_RemoveElement
  <2>4. /\ Cardinality(Contestadas) <= Cardinality(DOMAIN hilo \ {m})
        /\ IsFiniteSet(Contestadas)
      BY <2>2, <2>3, FS_Subset
  <2>5. Cardinality(Contestadas) \in Nat
      BY <2>4, FS_CardinalityType
  <2>6. QED
      BY <2>1, <2>3, <2>4, <2>5
<1>6. c \in 0 .. 99 /\ c <= 9 * (Cardinality(Contestadas) + 1)
  <2> DEFINE x == Cuentas(s)[m.lugar]
             k == Cardinality(Contestadas)
  <2>1. x \in 0 .. 99 /\ x <= 9 * k /\ k \in Nat /\ k + 1 <= 11
      BY <1>3, <1>4, <1>5
  <2>2. c = x + m.cant
      BY <1>4
  <2> HIDE DEF x, k, c
  <2>3. x + m.cant \in 0 .. 99 /\ x + m.cant <= 9 * (k + 1)
      BY <1>2, <2>1
  <2>4. QED
      BY <2>2, <2>3 DEF k
<1>7. c = Cuentas(Todo(m.especie))[m.lugar] + m.cant
    BY <1>3, <1>4
<1> HIDE DEF c, s, i
<1>8. EnOrden' /\ Efecto(m, c)
    BY <1>1, <1>6, PasoBorra DEF i, s
<1>9. QED
    BY <1>7, <1>8

(* mensaje_catch_pokemon, when there are some.                             *)
LEMMA PasoCatchUno ==
    ASSUME EnOrden, NEW m \in DOMAIN hilo, CatchSolo(m), Donde(Contenido(m.especie), m.lugar) # 0
    PROVE  /\ EnOrden'
           /\ Efecto(m, Cuentas(Todo(m.especie))[m.lugar] - 1)
           /\ Cuentas(Todo(m.especie))[m.lugar] > 0
<1> DEFINE s == Contenido(m.especie)
           i == Donde(s, m.lugar)
           c == Cantidad(s, i) - 1
<1>1. /\ hilo[m].pc = "opera" /\ fin = "no" /\ BorraSolo(m, i, c)
      /\ UNCHANGED <<dir, meta, bitmap, abiertos, fin, errada, pisado>>
    BY DEF CatchSolo, En
<1>2. m.lugar \in LUGARES
    BY SusMensajes DEF EnOrden
<1>3. Bien(s) /\ s = Todo(m.especie) /\ Cuentas(s)[m.lugar] <= 9 * Cardinality(Contestadas)
    BY <1>1, <1>2, AlOperar
<1>4. /\ Cuentas(s)[m.lugar] = Cantidad(s, i) /\ Cuentas(s)[m.lugar] \in 0 .. 99
      /\ Cuentas(s)[m.lugar] > 0
    BY <1>2, <1>3, DondeEsta, CuentasChicas
<1>5. Cardinality(Contestadas) \in Nat
  <2>1. IsFiniteSet(DOMAIN hilo)
      BY SusMensajes DEF EnOrden
  <2>2. IsFiniteSet(Contestadas)
      BY <2>1, FS_Subset DEF Contestadas
  <2>3. QED
      BY <2>2, FS_CardinalityType
<1>6. c \in 0 .. 99 /\ c <= 9 * (Cardinality(Contestadas) + 1)
  <2> DEFINE x == Cuentas(s)[m.lugar]
             k == Cardinality(Contestadas)
  <2>1. x \in 0 .. 99 /\ x <= 9 * k /\ k \in Nat /\ x > 0
      BY <1>3, <1>4, <1>5, <1>2
  <2>2. c = x - 1
      BY <1>4
  <2> HIDE DEF x, k, c
  <2>3. x - 1 \in 0 .. 99 /\ x - 1 <= 9 * (k + 1)
      BY <2>1
  <2>4. QED
      BY <2>2, <2>3 DEF k
<1>7. c = Cuentas(Todo(m.especie))[m.lugar] - 1 /\ Cuentas(Todo(m.especie))[m.lugar] > 0
    BY <1>3, <1>4
<1> HIDE DEF c, s, i
<1>8. EnOrden' /\ Efecto(m, c)
    BY <1>1, <1>6, PasoBorra DEF i, s
<1>9. QED
    BY <1>7, <1>8

(* What is left of a list without its first element.                       *)
LEMMA ColaDe ==
    ASSUME NEW a \in Seq(Numeros), a # <<>>, Distintos(a)
    PROVE  /\ Tail(a) \in Seq(Numeros) /\ Distintos(Tail(a))
           /\ Head(a) \in ToSet(a) /\ ToSet(Tail(a)) = ToSet(a) \ {Head(a)}
<1> DEFINE n == Len(a)
           t == Tail(a)
<1>1. n \in Nat /\ n > 0
    BY LenProperties, EmptySeq
<1>2. /\ t \in Seq(Numeros) /\ Len(t) = n - 1 /\ \A k \in 1 .. n - 1 : t[k] = a[k + 1]
      /\ Head(a) = a[1]
    BY <1>1, HeadTailProperties
<1> HIDE DEF t
<1>3. Distintos(t)
  <2>1. ASSUME NEW j \in 1 .. n - 1, NEW k \in 1 .. n - 1, t[j] = t[k] PROVE j = k
    <3>1. j + 1 \in 1 .. n /\ k + 1 \in 1 .. n /\ a[j + 1] = a[k + 1]
        BY <1>1, <1>2, <2>1
    <3>2. j + 1 = k + 1
        BY <3>1 DEF Distintos
    <3>3. QED
        BY <1>1, <3>2
  <2>2. QED
      BY <1>2, <2>1 DEF Distintos
<1>4. \A x : x \in ToSet(a) <=> \E k \in 1 .. n : a[k] = x
    BY ElementosDe
<1>5. \A x : x \in ToSet(t) <=> \E k \in 1 .. n - 1 : t[k] = x
    BY <1>2, ElementosDe
<1>6. ASSUME NEW x PROVE x \in ToSet(t) <=> x \in ToSet(a) /\ x # Head(a)
  <2>1. ASSUME x \in ToSet(t) PROVE x \in ToSet(a) /\ x # a[1]
    <3>1. PICK k \in 1 .. n - 1 : t[k] = x
        BY <1>5, <2>1
    <3>2. k + 1 \in 1 .. n /\ a[k + 1] = x /\ k + 1 # 1 /\ 1 \in 1 .. n
        BY <1>1, <1>2, <3>1
    <3>3. a[k + 1] # a[1]
        BY <3>2 DEF Distintos
    <3>4. QED
        BY <1>4, <3>2, <3>3
  <2>2. ASSUME x \in ToSet(a), x # a[1] PROVE x \in ToSet(t)
    <3>1. PICK k \in 1 .. n : a[k] = x
        BY <1>4, <2>2
    <3>2. k - 1 \in 1 .. n - 1 /\ (k - 1) + 1 = k
        BY <1>1, <2>2, <3>1
    <3>3. t[k - 1] = x
        BY <1>2, <3>1, <3>2
    <3>4. QED
        BY <1>5, <3>2, <3>3
  <2>3. QED
      BY <1>2, <2>1, <2>2
<1>7. Head(a) \in ToSet(a)
    BY <1>1, <1>2, <1>4
<1>8. QED
    BY <1>2, <1>3, <1>6, <1>7 DEF t

(* A step that touches neither the disk nor what its file is to hold.      *)
LEMMA OperaEntero ==
    ASSUME EnOrden, NEW m, NEW h, Opera(m, h), NEW f, f = m.especie,
           disco' = disco, meta'[f] = meta[f],
           Queda(f)' = Queda(f), Nuevo(f)' = Nuevo(f), Van(f)' = Van(f),
           De(f, Cortando)' # {} => De(f, Cortando) # {}
    PROVE  Entero(f)' /\ Acotado(f)' /\ Todo(f)' = Todo(f)
<1>1. f \in ESPECIES
    BY OperaLoDemas
<1>2. Entero(f)
    BY <1>1 DEF EnOrden, ContenidoInv
<1>3. Todo(f)' = Todo(f)
    BY DEF Todo, Texto, ByteEn
<1>4. EnDisco(disco, meta[f].bloques, Queda(f), Nuevo(f), Van(f))'
    BY <1>2 DEF Entero, EnDisco, HayByte, ByteEn
<1>5. Entero(f)'
    BY <1>2, <1>3, <1>4 DEF Entero
<1>6. QED
    BY <1>3, <1>5, OperaAcotado

(* liberar_bloque, what it reads.                                          *)
LEMMA PasoLibera ==
    ASSUME EnOrden, NEW m \in DOMAIN hilo, Libera(m) PROVE EnOrden' /\ TodoIgual
<1> DEFINE f == m.especie
           bl == meta[f].bloques
           h0 == hilo[m]
           h == [h0 EXCEPT !.pc = "vuelcaLibre", !.visto = bitmap]
<1>1. /\ h0.pc = "libera" /\ h0.libera # <<>> /\ fin = "no"
      /\ hilo' = [hilo EXCEPT ![m].pc = "vuelcaLibre", ![m].visto = bitmap]
      /\ UNCHANGED <<dir, meta, disco, bitmap, abiertos, fin, errada, pisado>>
    BY DEF Libera, historia, En
<1>2. /\ "libera" \in Operando /\ "libera" \in Cortando /\ "libera" \in Escriben
      /\ "vuelcaLibre" \in Operando /\ "vuelcaLibre" \in Cortando /\ "vuelcaLibre" \in Escriben
    BY DEF Operando, Cortando, Escriben
<1>3. /\ meta \in [ESPECIES -> Metadata] /\ f \in ESPECIES /\ Distintos(bl) /\ DiscoBien(disco)
      /\ h0 \in Hilo /\ HiloBien(h0) /\ Devuelve(m) /\ Suyo(m)
    BY <1>1, <1>2, OperaDatos
<1>4. bitmap \in SUBSET Numeros /\ hilo \in [DOMAIN hilo -> Hilo]
    BY DEF EnOrden, MapaInv, HilosInv
<1>5. /\ h \in Hilo /\ h.pc = "vuelcaLibre" /\ h.rta = h0.rta /\ h.van = h0.van
      /\ h.datos = h0.datos /\ h.libera = h0.libera /\ h.corte = h0.corte
    BY <1>3, <1>4 DEF Hilo, Pcs, Operando
<1>6. hilo' = [hilo EXCEPT ![m] = h]
    BY <1>1, <1>4
<1> HIDE DEF h
<1>7. Opera(m, h)
  <2>1. HiloBien(h)
      BY <1>1, <1>2, <1>3, <1>5 DEF HiloBien, SinRespuesta
  <2>2. Turno(m, h)
      BY <1>5, <1>6, <2>1 DEF Turno
  <2>3. QED
      BY <1>1, <1>2, <1>3, <1>5, <2>2 DEF Opera
<1>8. Suyo(m)' /\ hilo'[m] = h
    BY <1>7, OperaLoDemas
<1>9. /\ De(f, Cortando) = {m} /\ Queda(f) = h0.corte /\ Nuevo(f) = h0.datos /\ Van(f) = h0.van
      /\ Propios(f) = ToSet(QueQuedan(bl, h0.corte)) \union ToSet(h0.libera)
      /\ Tomados(f) = ToSet(QueQuedan(bl, h0.corte)) \union ToSet(h0.libera)
    BY <1>1, <1>2, <1>3 DEF Suyo
<1>10. /\ De(f, Cortando)' = {m} /\ Queda(f)' = h0.corte /\ Nuevo(f)' = h0.datos
       /\ Van(f)' = h0.van
       /\ Propios(f)' = ToSet(QueQuedan(bl, h0.corte)) \union ToSet(Tail(h0.libera))
       /\ Tomados(f)' = ToSet(QueQuedan(bl, h0.corte)) \union ToSet(h0.libera)
    BY <1>1, <1>2, <1>5, <1>8 DEF Suyo
<1>11. ToSet(Tail(h0.libera)) \subseteq ToSet(h0.libera)
  <2>1. h0.libera \in Seq(Numeros)
      BY <1>3 DEF Hilo
  <2>2. QED
      BY <1>1, <2>1, ColaDe, <1>3 DEF Devuelve
<1>12. Devuelve(m)'
    BY <1>1, <1>3, <1>5, <1>8 DEF Devuelve
<1>13. BloquesInv' /\ MapaInv'
    BY <1>1, <1>3, <1>7, <1>9, <1>10, <1>11, <1>12, OperaConLosMismos
<1>14. Entero(f)' /\ Acotado(f)' /\ Todo(f)' = Todo(f)
    BY <1>1, <1>7, <1>9, <1>10, OperaEntero
<1>15. QED
    BY <1>1, <1>3, <1>7, <1>13, <1>14, OperaSigue DEF TodoIgual

(* liberar_bloque, what it writes.                                         *)
LEMMA PasoVuelcaLibre ==
    ASSUME EnOrden, NEW m \in DOMAIN hilo, VuelcaLibre(m) PROVE EnOrden' /\ TodoIgual
<1> DEFINE f == m.especie
           bl == meta[f].bloques
           h0 == hilo[m]
           a == h0.libera
           q == QueQuedan(bl, h0.corte)
           h == [h0 EXCEPT !.pc = "libera", !.libera = Tail(a)]
<1>1. /\ h0.pc = "vuelcaLibre" /\ fin = "no"
      /\ hilo' = [hilo EXCEPT ![m] = h]
      /\ bitmap' = h0.visto \ {Head(a)}
      /\ pisado' = (pisado \/ bitmap # h0.visto)
      /\ UNCHANGED <<dir, meta, disco, abiertos, fin, errada>>
    BY DEF VuelcaLibre, historia, En
<1>2. /\ "libera" \in Operando /\ "libera" \in Cortando /\ "libera" \in Escriben
      /\ "vuelcaLibre" \in Operando /\ "vuelcaLibre" \in Cortando /\ "vuelcaLibre" \in Escriben
    BY DEF Operando, Cortando, Escriben
<1>3. /\ meta \in [ESPECIES -> Metadata] /\ f \in ESPECIES /\ Distintos(bl) /\ DiscoBien(disco)
      /\ h0 \in Hilo /\ HiloBien(h0) /\ Devuelve(m) /\ Suyo(m)
    BY <1>1, <1>2, OperaDatos
<1>4. /\ a \in Seq(Numeros) /\ a # <<>> /\ h0.visto \subseteq Numeros
      /\ Distintos(a) /\ ToSet(a) \subseteq ToSet(bl) /\ ToSet(a) \intersect ToSet(q) = {}
    BY <1>1, <1>3 DEF Hilo, HiloBien, Devuelve
<1>5. /\ Tail(a) \in Seq(Numeros) /\ Distintos(Tail(a))
      /\ ToSet(Tail(a)) = ToSet(a) \ {Head(a)} /\ Head(a) \in ToSet(a)
    BY <1>4, ColaDe
<1>6. /\ h \in Hilo /\ h.pc = "libera" /\ h.rta = h0.rta /\ h.van = h0.van
      /\ h.datos = h0.datos /\ h.libera = Tail(a) /\ h.corte = h0.corte
    BY <1>3, <1>5 DEF Hilo, Pcs, Operando
<1> HIDE DEF h
<1>7. Opera(m, h)
  <2>1. HiloBien(h)
      BY <1>1, <1>2, <1>3, <1>6 DEF HiloBien, SinRespuesta
  <2>2. Turno(m, h)
      BY <1>1, <1>6, <2>1 DEF Turno
  <2>3. QED
      BY <1>1, <1>2, <1>3, <1>6, <2>2 DEF Opera
<1>8. Suyo(m)' /\ hilo'[m] = h /\ HilosInv /\ CarpetasInv /\ BloquesInv /\ MapaInv
    BY <1>7, OperaLoDemas DEF EnOrden
<1>9. /\ De(f, Cortando) = {m} /\ Queda(f) = h0.corte /\ Nuevo(f) = h0.datos /\ Van(f) = h0.van
      /\ Propios(f) = ToSet(q) \union ToSet(Tail(a))
      /\ Tomados(f) = ToSet(q) \union ToSet(a)
    BY <1>1, <1>2, <1>3 DEF Suyo
<1>10. /\ De(f, Cortando)' = {m} /\ Queda(f)' = h0.corte /\ Nuevo(f)' = h0.datos
       /\ Van(f)' = h0.van
       /\ Propios(f)' = ToSet(q) \union ToSet(Tail(a))
       /\ Tomados(f)' = ToSet(q) \union ToSet(Tail(a))
    BY <1>1, <1>2, <1>6, <1>8 DEF Suyo
<1>11. Devuelve(m)'
  <2>1. hilo'[m].libera = Tail(a) /\ hilo'[m].corte = h0.corte /\ meta' = meta
      BY <1>1, <1>6, <1>8
  <2>2. ToSet(Tail(a)) \subseteq ToSet(bl) /\ ToSet(Tail(a)) \intersect ToSet(q) = {}
      BY <1>4, <1>5
  <2> HIDE DEF a
  <2>3. QED
      BY <1>5, <2>1, <2>2 DEF Devuelve
<1>12. BloquesInv'
  <2>1. \A g \in ESPECIES : g # f => Propios(f)' \intersect Propios(g) = {}
      BY <1>1, <1>3, <1>8, <1>9, <1>10 DEF BloquesInv
  <2>2. Distintos(meta'[f].bloques)
      BY <1>1, <1>3
  <2>3. QED
      BY <1>1, <1>2, <1>7, <1>8, <1>11, <2>1, <2>2, BloquesSiguen DEF Opera
<1>13. MapaInv'
  <2>1. bitmap' \subseteq Numeros /\ pisado' \in BOOLEAN /\ fin' \in Finales
      BY <1>1, <1>4, <1>8 DEF MapaInv
  <2>2. ASSUME ~pisado'
        PROVE  /\ ~pisado
               /\ bitmap' = (bitmap \ Tomados(f)) \union Tomados(f)'
               /\ \A g \in ESPECIES : g # f => Tomados(f)' \intersect Tomados(g) = {}
    <3>1. ~pisado /\ bitmap = h0.visto
        BY <1>1, <2>2, <1>8 DEF MapaInv
    <3>2. /\ bitmap = UNION {Tomados(g) : g \in ESPECIES}
          /\ \A g, k \in ESPECIES : g # k => Tomados(g) \intersect Tomados(k) = {}
        BY <1>8, <3>1 DEF MapaInv
    <3>3. Tomados(f)' = Tomados(f) \ {Head(a)} /\ Head(a) \in Tomados(f)
        BY <1>4, <1>5, <1>9, <1>10
    <3>4. Tomados(f) \subseteq bitmap
        BY <1>3, <3>2
    <3>5. bitmap' = (bitmap \ Tomados(f)) \union Tomados(f)'
        BY <1>1, <3>1, <3>3, <3>4
    <3>6. \A g \in ESPECIES : g # f => Tomados(f)' \intersect Tomados(g) = {}
        BY <1>3, <3>2, <3>3
    <3>7. QED
        BY <1>1, <3>1, <3>5, <3>6
  <2>3. QED
      BY <1>7, <1>8, <2>1, <2>2, MapaSigue DEF Opera
<1>14. Entero(f)' /\ Acotado(f)' /\ Todo(f)' = Todo(f)
    BY <1>1, <1>7, <1>9, <1>10, OperaEntero
<1>15. QED
    BY <1>1, <1>3, <1>7, <1>12, <1>13, <1>14, OperaSigue DEF TodoIgual

(* What is on the disk, seen through another list with the same blocks.    *)
LEMMA MismosBytes ==
    ASSUME NEW d, NEW bl, NEW q, NEW n \in Nat, NEW s, NEW v \in Nat,
           EnDisco(d, bl, n, s, v), n + v <= Len(q) * BLOCK_SIZE,
           \A i \in 1 .. n + v : q[Bloque(i)] = bl[Bloque(i)]
    PROVE  EnDisco(d, q, n, s, v) /\ Texto(d, q, n) = Texto(d, bl, n)
<1>1. \A i \in 1 .. n + v : ByteEn(d, q, i) = ByteEn(d, bl, i)
    BY DEF ByteEn
<1>2. \A i \in 1 .. n + v : HayByte(d, q, i)
    BY DEF EnDisco, HayByte
<1>3. \A i \in 1 .. v : n + i \in 1 .. n + v
    OBVIOUS
<1>4. EnDisco(d, q, n, s, v)
    BY <1>1, <1>2, <1>3 DEF EnDisco
<1>5. \A i \in 1 .. n : i \in 1 .. n + v
    OBVIOUS
<1>6. Texto(d, q, n) = Texto(d, bl, n)
    BY <1>1, <1>5 DEF Texto
<1>7. QED
    BY <1>4, <1>6

(* sacar_bloques_metadata and disminuir_byte_archivo.                      *)
LEMMA PasoRecorta ==
    ASSUME EnOrden, NEW m \in DOMAIN hilo, RecortaSolo(m) PROVE EnOrden' /\ TodoIgual
<1> DEFINE f == m.especie
           bl == meta[f].bloques
           h0 == hilo[m]
           corte == h0.corte
           q == QueQuedan(bl, corte)
           p == IF h0.datos = <<>> THEN "cierra" ELSE "escribe"
           h == [h0 EXCEPT !.pc = p]
<1>1. /\ h0.pc = "libera" /\ h0.libera = <<>> /\ fin = "no"
      /\ hilo' = [hilo EXCEPT ![m] = h]
      /\ meta' = [meta EXCEPT ![f] = [@ EXCEPT !.size = corte, !.bloques = q]]
      /\ UNCHANGED <<dir, disco, bitmap, abiertos, fin, errada, pisado>>
    BY DEF RecortaSolo, En, Sigue
<1>2. /\ "libera" \in Operando /\ "libera" \in Cortando /\ "libera" \in Escriben
      /\ p \in Operando /\ p \notin Cortando /\ p \notin {"vuelca", "vuelcaLibre", "saca"}
      /\ p \notin SinRespuesta /\ (p \in Escriben <=> h0.datos # <<>>) /\ p \in Pcs
    BY DEF Operando, Cortando, Escriben, Escribiendo, SinRespuesta, Pcs
<1>3. /\ meta \in [ESPECIES -> Metadata] /\ f \in ESPECIES /\ Distintos(bl) /\ DiscoBien(disco)
      /\ bl \in Seq(Numeros) /\ Len(bl) \in Nat /\ meta[f].size \in Nat
      /\ h0 \in Hilo /\ HiloBien(h0) /\ Suyo(m) /\ Entero(f)
    BY <1>1, <1>2, OperaDatos
<1>4. corte \in Nat /\ h0.van = 0 /\ h0.datos \in Seq(Byte) /\ h0.rta \in {NULL, 0, 1}
    BY <1>1, <1>2, <1>3 DEF Hilo, HiloBien
<1> HIDE DEF p
<1>5. /\ h \in Hilo /\ h.pc = p /\ h.rta = h0.rta /\ h.van = 0
      /\ h.datos = h0.datos /\ h.libera = <<>>
    BY <1>1, <1>2, <1>3, <1>4 DEF Hilo
<1> HIDE DEF h
<1>6. /\ De(f, Cortando) = {m} /\ Queda(f) = corte /\ Nuevo(f) = h0.datos /\ Van(f) = 0
      /\ Propios(f) = ToSet(q) \union ToSet(<<>>)
      /\ Tomados(f) = ToSet(q) \union ToSet(<<>>)
    BY <1>1, <1>2, <1>3, <1>4 DEF Suyo
<1>7. Propios(f) = ToSet(q) /\ Tomados(f) = ToSet(q)
    BY <1>6 DEF ToSet
<1>8. /\ meta[f].size <= Len(bl) * BLOCK_SIZE /\ corte < meta[f].size
      /\ EnDisco(disco, bl, corte, h0.datos, 0) /\ Bien(Todo(f))
      /\ Todo(f) = Texto(disco, bl, corte) \o h0.datos
    BY <1>3, <1>6 DEF Entero, Todo
<1>9. Principio(q, bl, corte)
  <2>1. corte < Len(bl) * BLOCK_SIZE
    <3> HIDE DEF bl, corte
    <3>1. QED
        BY <1>3, <1>4, <1>8, Constantes
  <2>2. QED
      BY <1>3, <1>4, <2>1, LosQueQuedan
<1> HIDE DEF q, bl, corte
<1>10. /\ q \in Seq(Numeros) /\ Len(q) \in 0 .. Len(bl) /\ corte <= Len(q) * BLOCK_SIZE
       /\ \A k \in 1 .. Len(q) : q[k] = bl[k]
       /\ \A i \in 1 .. corte : Bloque(i) \in 1 .. Len(q)
    BY <1>9 DEF Principio
<1>11. Distintos(q)
  <2>1. \A k \in 1 .. Len(q) : k \in 1 .. Len(bl)
      BY <1>3, <1>10
  <2>2. QED
      BY <1>3, <1>10, <2>1 DEF Distintos
<1>12. EnDisco(disco, q, corte, h0.datos, 0) /\ Texto(disco, q, corte) = Texto(disco, bl, corte)
  <2>1. corte + 0 = corte
      BY <1>4
  <2>2. \A i \in 1 .. corte + 0 : q[Bloque(i)] = bl[Bloque(i)]
      BY <1>10, <2>1
  <2>3. QED
      BY <1>4, <1>8, <1>10, <2>1, <2>2, MismosBytes
<1>13. /\ meta' \in [ESPECIES -> Metadata] /\ meta'[f].open = meta[f].open
       /\ meta'[f].size = corte /\ meta'[f].bloques = q
       /\ \A g \in ESPECIES : g # f => meta'[g] = meta[g]
  <2>1. meta[f] \in Metadata
      BY <1>3
  <2>2. /\ [meta[f] EXCEPT !.size = corte, !.bloques = q] \in Metadata
        /\ [meta[f] EXCEPT !.size = corte, !.bloques = q].open = meta[f].open
        /\ [meta[f] EXCEPT !.size = corte, !.bloques = q].size = corte
        /\ [meta[f] EXCEPT !.size = corte, !.bloques = q].bloques = q
      BY <1>4, <1>10, <2>1 DEF Metadata
  <2>3. QED
      BY <1>1, <1>3, <2>2
<1>14. Opera(m, h)
  <2>1. HiloBien(h)
    <3>1. Len(h0.datos) \in Nat
        BY <1>4, LenProperties
    <3>2. QED
        BY <1>2, <1>4, <1>5, <3>1 DEF HiloBien
  <2>2. Turno(m, h)
      BY <1>1, <1>5, <2>1 DEF Turno
  <2>3. QED
      BY <1>1, <1>2, <1>5, <1>13, <2>2 DEF Opera
<1>15. Suyo(m)' /\ hilo'[m] = h
    BY <1>14, OperaLoDemas
<1>16. /\ De(f, Cortando)' = {} /\ Queda(f)' = corte /\ Nuevo(f)' = h0.datos /\ Van(f)' = 0
       /\ Propios(f)' = ToSet(q) /\ Tomados(f)' = ToSet(q)
    BY <1>2, <1>5, <1>13, <1>15 DEF Suyo
<1>17. Todo(f)' = Todo(f)
  <2>1. disco' = disco /\ meta'[f].bloques = q
      BY <1>1, <1>13
  <2>2. Todo(f)' = Texto(disco', meta'[f].bloques, Queda(f)') \o Nuevo(f)'
      BY DEF Todo
  <2>3. QED
      BY <1>8, <1>12, <1>16, <2>1, <2>2
<1>18. Entero(f)'
  <2>1. EnDisco(disco, meta[f].bloques, Queda(f), Nuevo(f), Van(f))'
      BY <1>1, <1>12, <1>13, <1>16 DEF EnDisco, HayByte, ByteEn
  <2>2. QED
      BY <1>8, <1>10, <1>13, <1>16, <1>17, <2>1 DEF Entero
<1>19. BloquesInv' /\ MapaInv'
    BY <1>1, <1>2, <1>5, <1>7, <1>11, <1>13, <1>14, <1>16, OperaConLosMismos
<1>20. Acotado(f)'
    BY <1>14, <1>17, OperaAcotado
<1>21. QED
    BY <1>1, <1>3, <1>14, <1>17, <1>18, <1>19, <1>20, OperaSigue DEF TodoIgual

(* The disk once n more bytes of datos, of which van had been written, go  *)
(* to the end of a file of size bytes in the blocks bl.                    *)
Trozo(e, bl, size, datos, van, n) ==
    /\ bl \in Seq(Numeros) /\ Distintos(bl) /\ size \in Nat
    /\ datos \in Seq(Byte) /\ van \in Nat /\ n \in Nat
    /\ EnDisco(disco, bl, size, datos, van)
    /\ van + n <= Len(datos) /\ size + van + n <= Len(bl) * BLOCK_SIZE
    /\ e = Grabado(bl, size + van, SubSeq(datos, van + 1, van + n))

(* They are there, and nothing else moved.                                 *)
LEMMA UnTrozoMas ==
    ASSUME DiscoBien(disco), NEW bl, NEW size, NEW datos, NEW van, NEW n, NEW e,
           Trozo(e, bl, size, datos, van, n)
    PROVE  /\ DiscoBien(e)
           /\ \A b \in Numeros : ~Contains(bl, b) => e[b] = disco[b]
           /\ EnDisco(e, bl, size, datos, van + n)
           /\ Texto(e, bl, size) = Texto(disco, bl, size)
<1> DEFINE u == SubSeq(datos, van + 1, van + n)
           pos == size + van
           L == Len(datos)
<1> USE DEF Trozo
<1>1. L \in Nat /\ Len(bl) \in Nat /\ pos \in Nat
    BY LenProperties
<1>2. /\ u \in Seq(Byte) /\ Len(u) = n
      /\ \A k \in 1 .. n : u[k] = datos[van + k]
  <2>1. ASSUME NEW a \in Int, NEW z \in Int, a = van + 1, z = van + n
        PROVE  /\ SubSeq(datos, a, z) \in Seq(Byte) /\ Len(SubSeq(datos, a, z)) = n
               /\ \A k \in 1 .. n : SubSeq(datos, a, z)[k] = datos[van + k]
    <3>1. \A k \in a .. z : datos[k] \in Byte
        BY <1>1, <2>1
    <3>2. /\ SubSeq(datos, a, z) \in Seq(Byte)
          /\ Len(SubSeq(datos, a, z)) = IF a <= z THEN z - a + 1 ELSE 0
          /\ \A k \in 1 .. z - a + 1 : SubSeq(datos, a, z)[k] = datos[a + k - 1]
        BY <3>1, SubSeqProperties
    <3>3. z - a + 1 = n /\ (~(a <= z) => n = 0) /\ \A k \in 1 .. n : a + k - 1 = van + k
        BY <2>1
    <3>4. QED
        BY <3>2, <3>3
  <2>2. van + 1 \in Int /\ van + n \in Int
      OBVIOUS
  <2>3. QED
      BY <2>1, <2>2
<1> HIDE DEF u
<1>3. /\ \A i \in 1 .. pos : HayByte(disco, bl, i)
      /\ \A i \in 1 .. van : ByteEn(disco, bl, size + i) = datos[i]
    BY DEF EnDisco
<1>4. Grabacion(e, disco, bl, pos, u)
  <2>1. pos + Len(u) <= Len(bl) * BLOCK_SIZE
      BY <1>1, <1>2
  <2>2. QED
      BY <1>1, <1>2, <1>3, <2>1, GrabadoEs DEF u
<1>5. /\ DiscoBien(e)
      /\ \A b \in Numeros : ~Contains(bl, b) => e[b] = disco[b]
      /\ \A i \in 1 .. pos + n : HayByte(e, bl, i)
      /\ \A i \in 1 .. pos : ByteEn(e, bl, i) = ByteEn(disco, bl, i)
      /\ \A i \in 1 .. n : ByteEn(e, bl, pos + i) = u[i]
    BY <1>2, <1>4 DEF Grabacion
<1>6. ASSUME NEW i \in 1 .. van + n PROVE ByteEn(e, bl, size + i) = datos[i]
  <2>1. CASE i <= van
    <3>1. i \in 1 .. van /\ size + i \in 1 .. pos
        BY <2>1
    <3>2. QED
        BY <1>3, <1>5, <3>1
  <2>2. CASE ~(i <= van)
    <3>1. i - van \in 1 .. n /\ pos + (i - van) = size + i /\ van + (i - van) = i
        BY <2>2
    <3>2. ByteEn(e, bl, pos + (i - van)) = u[i - van] /\ u[i - van] = datos[van + (i - van)]
        BY <1>2, <1>5, <3>1
    <3>3. QED
        BY <3>1, <3>2
  <2>3. QED
      BY <2>1, <2>2
<1>7. EnDisco(e, bl, size, datos, van + n)
  <2>1. size + (van + n) = pos + n /\ pos + n <= Len(bl) * BLOCK_SIZE
      BY <1>1
  <2>2. QED
      BY <1>5, <1>6, <2>1 DEF EnDisco
<1>8. Texto(e, bl, size) = Texto(disco, bl, size)
  <2>1. \A i \in 1 .. size : i \in 1 .. pos
      OBVIOUS
  <2>2. QED
      BY <1>5, <2>1 DEF Texto
<1>9. QED
    BY <1>5, <1>7, <1>8

(* write_tall_grass, what goes to one block.                               *)
LEMMA PasoEscribe ==
    ASSUME EnOrden, NEW m \in DOMAIN hilo, EscribeSolo(m) PROVE EnOrden' /\ TodoIgual
<1> DEFINE f == m.especie
           bl == meta[f].bloques
           size == meta[f].size
           h0 == hilo[m]
           P == size + h0.van
           falta == Len(h0.datos) - h0.van
           lugar == BLOCK_SIZE - (P % BLOCK_SIZE)
           n == IF lugar < falta THEN lugar ELSE falta
           h == [h0 EXCEPT !.van = h0.van + n]
<1>1. /\ h0.pc = "escribe" /\ fin = "no" /\ falta > 0 /\ Relativo(P) < Len(bl)
      /\ disco' = Grabado(bl, P, SubSeq(h0.datos, h0.van + 1, h0.van + n))
      /\ hilo' = [hilo EXCEPT ![m].van = @ + n]
      /\ UNCHANGED <<dir, meta, bitmap, abiertos, fin, errada, pisado>>
    BY DEF EscribeSolo, En, PunteroSolo, Faltan, HayBloqueSolo
<1>2. /\ "escribe" \in Operando /\ "escribe" \in Escriben
      /\ "escribe" \notin Cortando /\ "escribe" \notin SinRespuesta
    BY DEF Operando, Cortando, Escriben, Escribiendo, SinRespuesta
<1>3. /\ meta \in [ESPECIES -> Metadata] /\ f \in ESPECIES /\ Distintos(bl) /\ DiscoBien(disco)
      /\ bl \in Seq(Numeros) /\ Len(bl) \in Nat /\ size \in Nat
      /\ h0 \in Hilo /\ HiloBien(h0) /\ Suyo(m) /\ Entero(f)
    BY <1>1, <1>2, OperaDatos
<1>4. /\ h0.van \in Nat /\ h0.datos \in Seq(Byte) /\ h0.van <= Len(h0.datos)
      /\ Len(h0.datos) \in Nat /\ h0.libera = <<>>
  <2>1. h0.van \in Nat /\ h0.datos \in Seq(Byte) /\ h0.van <= Len(h0.datos) /\ h0.libera = <<>>
      BY <1>1, <1>2, <1>3 DEF Hilo, HiloBien
  <2>2. QED
      BY <2>1, LenProperties
<1> HIDE DEF bl, size, lugar
<1>5. P \in Nat /\ falta \in Nat
    BY <1>1, <1>3, <1>4
<1> HIDE DEF P, falta
<1>6. /\ lugar \in Nat /\ lugar > 0 /\ P + lugar <= Len(bl) * BLOCK_SIZE
  <2> DEFINE r == Relativo(P)
             z == P % BLOCK_SIZE
  <2>1. r \in Nat /\ z \in 0 .. BLOCK_SIZE - 1 /\ P = r * BLOCK_SIZE + z
      BY <1>5, Division
  <2>2. r * BLOCK_SIZE + BLOCK_SIZE <= Len(bl) * BLOCK_SIZE
      BY <1>1, <1>3, <2>1, BloqueAntes
  <2>3. lugar = BLOCK_SIZE - z
      BY DEF lugar
  <2> HIDE DEF r, z
  <2> DEFINE x == r * BLOCK_SIZE
             y == Len(bl) * BLOCK_SIZE
  <2>4. x \in Nat /\ y \in Nat
      BY <1>3, <2>1, Constantes
  <2>5. P = x + z /\ x + BLOCK_SIZE <= y
      BY <2>1, <2>2
  <2> HIDE DEF x, y
  <2>6. lugar \in Nat /\ lugar > 0 /\ P + lugar <= y
      BY <2>1, <2>3, <2>4, <2>5, Constantes
  <2>7. QED
      BY <2>6 DEF y
<1>7. n \in Nat /\ n <= falta /\ n <= lugar
    BY <1>1, <1>5, <1>6
<1> HIDE DEF n
<1>8. /\ h0.van + n <= Len(h0.datos) /\ P = size + h0.van
      /\ size + h0.van + n <= Len(bl) * BLOCK_SIZE /\ h0.van + n \in Nat
  <2>1. h0.van + n <= Len(h0.datos) /\ h0.van + n \in Nat
      BY <1>4, <1>7 DEF falta
  <2>2. P = size + h0.van
      BY DEF P
  <2> DEFINE y == Len(bl) * BLOCK_SIZE
  <2>3. y \in Nat /\ P + lugar <= y
      BY <1>3, <1>6, Constantes
  <2> HIDE DEF y
  <2>4. size + h0.van + n <= y
      BY <1>3, <1>4, <1>6, <1>7, <2>2, <2>3
  <2>5. QED
      BY <2>1, <2>2, <2>4 DEF y
<1>9. /\ De(f, Cortando) = {} /\ Queda(f) = size /\ Nuevo(f) = h0.datos /\ Van(f) = h0.van
      /\ Propios(f) = ToSet(bl) /\ Tomados(f) = ToSet(bl)
    BY <1>1, <1>2, <1>3 DEF Suyo, bl, size
<1>10. /\ size <= Len(bl) * BLOCK_SIZE /\ EnDisco(disco, bl, size, h0.datos, h0.van)
       /\ Bien(Todo(f)) /\ Todo(f) = Texto(disco, bl, size) \o h0.datos
    BY <1>3, <1>9 DEF Entero, Todo, bl, size
<1>11. /\ DiscoBien(disco') /\ \A b \in Numeros : ~Contains(bl, b) => disco'[b] = disco[b]
       /\ EnDisco(disco', bl, size, h0.datos, h0.van + n)
       /\ Texto(disco', bl, size) = Texto(disco, bl, size)
  <2>1. disco' = Grabado(bl, size + h0.van, SubSeq(h0.datos, h0.van + 1, h0.van + n))
      BY <1>1, <1>8
  <2>2. /\ bl \in Seq(Numeros) /\ Distintos(bl) /\ DiscoBien(disco) /\ size \in Nat
        /\ h0.datos \in Seq(Byte) /\ h0.van \in Nat /\ n \in Nat
      BY <1>3, <1>4, <1>7
  <2>3. /\ EnDisco(disco, bl, size, h0.datos, h0.van)
        /\ h0.van + n <= Len(h0.datos) /\ size + h0.van + n <= Len(bl) * BLOCK_SIZE
      BY <1>8, <1>10
  <2>4. Trozo(disco', bl, size, h0.datos, h0.van, n)
      BY <2>1, <2>2, <2>3 DEF Trozo
  <2>5. QED
      BY <2>2, <2>4, UnTrozoMas
<1>12. /\ h \in Hilo /\ h.pc = "escribe" /\ h.rta = h0.rta /\ h.van = h0.van + n
       /\ h.datos = h0.datos /\ h.libera = <<>>
    BY <1>1, <1>3, <1>4, <1>8 DEF Hilo
<1>13. hilo' = [hilo EXCEPT ![m] = h]
  <2>1. hilo \in [DOMAIN hilo -> Hilo]
      BY DEF EnOrden, HilosInv
  <2>2. QED
      BY <1>1, <2>1
<1> HIDE DEF h
<1>14. Opera(m, h)
  <2>1. HiloBien(h)
      BY <1>2, <1>8, <1>12 DEF HiloBien
  <2>2. Turno(m, h)
      BY <1>12, <1>13, <2>1 DEF Turno
  <2>3. QED
      BY <1>1, <1>2, <1>3, <1>12, <2>2 DEF Opera
<1>15. Suyo(m)' /\ hilo'[m] = h
    BY <1>14, OperaLoDemas
<1>16. meta' = meta /\ meta'[f].bloques = bl /\ meta'[f].size = size
    BY <1>1 DEF bl, size
<1>17. /\ De(f, Cortando)' = {} /\ Queda(f)' = size /\ Nuevo(f)' = h0.datos
       /\ Van(f)' = h0.van + n /\ Propios(f)' = ToSet(bl) /\ Tomados(f)' = ToSet(bl)
    BY <1>2, <1>12, <1>15, <1>16 DEF Suyo
<1>18. Todo(f)' = Todo(f)
  <2>1. Todo(f)' = Texto(disco', meta'[f].bloques, Queda(f)') \o Nuevo(f)'
      BY DEF Todo
  <2>2. QED
      BY <1>10, <1>11, <1>16, <1>17, <2>1
<1>19. Entero(f)'
  <2>1. EnDisco(disco, meta[f].bloques, Queda(f), Nuevo(f), Van(f))'
      BY <1>11, <1>16, <1>17 DEF EnDisco, HayByte, ByteEn
  <2>2. QED
      BY <1>10, <1>16, <1>17, <1>18, <2>1 DEF Entero
<1>20. Acotado(f)'
    BY <1>14, <1>18, OperaAcotado
<1>21. BloquesInv' /\ MapaInv'
  <2>1. h.pc \notin Cortando /\ Distintos(meta'[f].bloques)
      BY <1>2, <1>3, <1>12, <1>16
  <2>2. QED
      BY <1>1, <1>9, <1>14, <1>17, <2>1, OperaConLosMismos
<1>22. \A b \in Numeros \ Propios(f) : disco'[b] = disco[b]
    BY <1>9, <1>11 DEF Contains, ToSet
<1>23. QED
    BY <1>3, <1>11, <1>14, <1>18, <1>19, <1>20, <1>21, <1>22, OperaSigue DEF TodoIgual

(* next, obtener_bloques_libres.                                           *)
LEMMA PasoPideBloque ==
    ASSUME EnOrden, NEW m \in DOMAIN hilo, PideBloqueSolo(m) PROVE EnOrden' /\ TodoIgual
<1> DEFINE f == m.especie
           bl == meta[f].bloques
           h0 == hilo[m]
           libres == Numeros \ bitmap
           b == CHOOSE x \in libres : \A o \in libres : x <= o
           h == [h0 EXCEPT !.pc = "vuelca", !.visto = bitmap, !.bloque = b]
<1>1. h0.pc = "escribe" /\ fin = "no"
    BY DEF PideBloqueSolo, En
<1>2. bitmap \subseteq Numeros /\ Numeros \subseteq Nat
    BY Constantes DEF EnOrden, MapaInv
<1>3. CASE bitmap = Numeros
  <2>1. Termina("sin_bloques") /\ "sin_bloques" \in Finales
      BY <1>3 DEF PideBloqueSolo, Finales
  <2>2. QED
      BY <1>1, <2>1, PasoTermina
<1>4. CASE bitmap # Numeros
  <2>1. /\ hilo' = [hilo EXCEPT ![m] = h] /\ Faltan(m) > 0
        /\ UNCHANGED <<dir, meta, disco, bitmap, abiertos, fin, errada, pisado>>
      BY <1>4 DEF PideBloqueSolo
  <2>2. b \in libres /\ b \in Nat
    <3>1. libres \in SUBSET Nat /\ libres # {}
        BY <1>2, <1>4
    <3>2. \E x \in libres : \A o \in libres : x <= o
        BY <3>1, MinimoNat
    <3> HIDE DEF libres
    <3>3. b \in libres
        BY <3>2
    <3>4. QED
        BY <3>1, <3>3
  <2> HIDE DEF b
  <2>3. /\ "escribe" \in Operando /\ "escribe" \in Escriben /\ "escribe" \notin Cortando
        /\ "vuelca" \in Operando /\ "vuelca" \in Escriben /\ "vuelca" \notin Cortando
        /\ "vuelca" \notin SinRespuesta
      BY DEF Operando, Cortando, Escriben, Escribiendo, SinRespuesta
  <2>4. /\ meta \in [ESPECIES -> Metadata] /\ f \in ESPECIES /\ Distintos(bl) /\ DiscoBien(disco)
        /\ h0 \in Hilo /\ HiloBien(h0) /\ Suyo(m)
      BY <1>1, <2>3, OperaDatos
  <2>5. /\ h \in Hilo /\ h.pc = "vuelca" /\ h.rta = h0.rta /\ h.van = h0.van
        /\ h.datos = h0.datos /\ h.libera = h0.libera /\ h.visto = bitmap /\ h.bloque = b
      BY <1>2, <2>2, <2>4 DEF Hilo, Pcs, Operando
  <2> HIDE DEF h
  <2>6. Opera(m, h)
    <3>1. HiloBien(h)
      <4>1. h0.van < Len(h0.datos)
        <5>1. h0.datos \in Seq(Byte) /\ h0.van \in Nat
            BY <2>4 DEF Hilo
        <5>2. Len(h0.datos) \in Nat
            BY <5>1, LenProperties
        <5>3. QED
            BY <2>1, <5>1, <5>2 DEF Faltan
      <4>2. QED
          BY <1>1, <2>2, <2>3, <2>4, <2>5, <4>1 DEF HiloBien
    <3>2. Turno(m, h)
        BY <2>1, <2>5, <3>1 DEF Turno
    <3>3. QED
        BY <1>1, <2>1, <2>3, <2>4, <2>5, <3>2 DEF Opera
  <2>7. Suyo(m)' /\ hilo'[m] = h
      BY <2>6, OperaLoDemas
  <2>8. /\ De(f, Cortando) = {} /\ Queda(f) = meta[f].size /\ Nuevo(f) = h0.datos
        /\ Van(f) = h0.van /\ Propios(f) = ToSet(bl) /\ Tomados(f) = ToSet(bl)
      BY <1>1, <2>3, <2>4 DEF Suyo
  <2>9. /\ De(f, Cortando)' = {} /\ Queda(f)' = meta[f].size /\ Nuevo(f)' = h0.datos
        /\ Van(f)' = h0.van /\ Propios(f)' = ToSet(bl) /\ Tomados(f)' = ToSet(bl)
      BY <2>1, <2>3, <2>5, <2>7 DEF Suyo
  <2>10. Entero(f)' /\ Acotado(f)' /\ Todo(f)' = Todo(f)
      BY <2>1, <2>6, <2>8, <2>9, OperaEntero
  <2>11. BloquesInv' /\ MapaInv'
    <3>1. h.pc \notin Cortando /\ Distintos(meta'[f].bloques)
        BY <2>1, <2>3, <2>4, <2>5
    <3>2. QED
        BY <2>1, <2>6, <2>8, <2>9, <3>1, OperaConLosMismos
  <2>12. QED
      BY <2>1, <2>4, <2>6, <2>10, <2>11, OperaSigue DEF TodoIgual
<1>5. QED
    BY <1>3, <1>4

(* A list of blocks with one more.                                         *)
LEMMA ConOtroBloque ==
    ASSUME NEW bl \in Seq(Numeros), NEW b \in Numeros, NEW q, q = Append(bl, b)
    PROVE  /\ q \in Seq(Numeros) /\ Len(q) = Len(bl) + 1
           /\ \A k \in 1 .. Len(bl) : q[k] = bl[k]
           /\ ToSet(q) = ToSet(bl) \union {b}
           /\ Distintos(bl) /\ b \notin ToSet(bl) => Distintos(q)
<1> DEFINE L == Len(bl)
<1>1. /\ q \in Seq(Numeros) /\ Len(q) = L + 1 /\ q[L + 1] = b
      /\ \A k \in 1 .. L : q[k] = bl[k]
    BY AppendProperties
<1>2. L \in Nat
    BY LenProperties
<1>3. \A x : x \in ToSet(bl) <=> \E k \in 1 .. L : bl[k] = x
    BY ElementosDe
<1>4. \A x : x \in ToSet(q) <=> \E k \in 1 .. L + 1 : q[k] = x
  <2>1. ASSUME NEW s \in Seq(Numeros)
        PROVE  \A x : x \in ToSet(s) <=> \E k \in 1 .. Len(s) : s[k] = x
      BY ElementosDe
  <2>2. q \in Seq(Numeros) /\ Len(q) = L + 1
      BY <1>1
  <2> HIDE DEF L
  <2>3. \A x : x \in ToSet(q) <=> \E k \in 1 .. Len(q) : q[k] = x
      BY <2>1, <2>2
  <2>4. QED
      BY <2>2, <2>3
<1> HIDE DEF L
<1>5. \A k \in 1 .. L + 1 : k \in 1 .. L \/ k = L + 1
    BY <1>2
<1>6. \A k \in 1 .. L : k \in 1 .. L + 1
    BY <1>2
<1>7. L + 1 \in 1 .. L + 1
    BY <1>2
<1>8. ASSUME NEW x PROVE x \in ToSet(q) <=> x \in ToSet(bl) \/ x = b
    BY <1>1, <1>3, <1>4, <1>5, <1>6, <1>7
<1>9. ASSUME Distintos(bl), b \notin ToSet(bl) PROVE Distintos(q)
  <2>1. ASSUME NEW j \in 1 .. L + 1, NEW k \in 1 .. L + 1, q[j] = q[k] PROVE j = k
    <3>1. CASE j \in 1 .. L /\ k \in 1 .. L
        BY <1>1, <1>9, <2>1, <3>1 DEF Distintos, L
    <3>2. CASE j = L + 1 /\ k \in 1 .. L
        BY <1>1, <1>3, <1>9, <2>1, <3>2
    <3>3. CASE j \in 1 .. L /\ k = L + 1
        BY <1>1, <1>3, <1>9, <2>1, <3>3
    <3>4. QED
        BY <1>5, <3>1, <3>2, <3>3
  <2>2. QED
      BY <1>1, <2>1 DEF Distintos
<1>10. QED
    BY <1>1, <1>8, <1>9 DEF L

(* A thread whose bitmap is the one in the file takes a block that nobody  *)
(* has.                                                                    *)
LEMMA NadieLoTiene ==
    ASSUME EnOrden, NEW m \in DOMAIN hilo, hilo[m].pc = "vuelca",
           pisado' = (pisado \/ bitmap # hilo[m].visto), ~pisado'
    PROVE  \A g \in ESPECIES : hilo[m].bloque \notin Tomados(g)
<1>1. MapaInv /\ HiloBien(hilo[m])
    BY DEF EnOrden, HilosInv
<1>2. ~pisado /\ bitmap = hilo[m].visto
    BY <1>1 DEF MapaInv
<1>3. bitmap = UNION {Tomados(g) : g \in ESPECIES}
    BY <1>1, <1>2 DEF MapaInv
<1>4. hilo[m].bloque \notin hilo[m].visto
    BY <1>1 DEF HiloBien
<1>5. QED
    BY <1>2, <1>3, <1>4

(* agregar_bloque_archivo, and the bitmap.                                 *)
LEMMA PasoVuelca ==
    ASSUME EnOrden, NEW m \in DOMAIN hilo, VuelcaSolo(m) PROVE EnOrden' /\ TodoIgual
<1> DEFINE f == m.especie
           bl == meta[f].bloques
           h0 == hilo[m]
           b == h0.bloque
           q == Append(bl, b)
           h == [h0 EXCEPT !.pc = "escribe"]
<1>1. /\ h0.pc = "vuelca" /\ fin = "no"
      /\ bitmap' = h0.visto \union {b}
      /\ pisado' = (pisado \/ bitmap # h0.visto)
      /\ meta' = [meta EXCEPT ![f].bloques = Append(@, b)]
      /\ \A g \in ESPECIES : b \notin Propios(g)
      /\ hilo' = [hilo EXCEPT ![m].pc = "escribe"]
      /\ UNCHANGED <<dir, disco, abiertos, fin, errada>>
    BY DEF VuelcaSolo, En, Sigue
<1>2. /\ "escribe" \in Operando /\ "escribe" \in Escriben /\ "escribe" \notin Cortando
      /\ "vuelca" \in Operando /\ "vuelca" \in Escriben /\ "vuelca" \notin Cortando
      /\ "escribe" \notin SinRespuesta /\ "escribe" \in Pcs
    BY DEF Operando, Cortando, Escriben, Escribiendo, SinRespuesta, Pcs
<1>3. /\ meta \in [ESPECIES -> Metadata] /\ f \in ESPECIES /\ Distintos(bl) /\ DiscoBien(disco)
      /\ bl \in Seq(Numeros) /\ Len(bl) \in Nat /\ meta[f].size \in Nat
      /\ h0 \in Hilo /\ HiloBien(h0) /\ Suyo(m) /\ Entero(f)
    BY <1>1, <1>2, OperaDatos
<1>4. b \in Numeros /\ b \notin h0.visto /\ h0.visto \subseteq Numeros /\ h0.van \in Nat
    BY <1>1, <1>3 DEF Hilo, HiloBien
<1>5. /\ h \in Hilo /\ h.pc = "escribe" /\ h.rta = h0.rta /\ h.van = h0.van
      /\ h.datos = h0.datos /\ h.libera = h0.libera
    BY <1>2, <1>3 DEF Hilo
<1>6. hilo' = [hilo EXCEPT ![m] = h]
  <2>1. hilo \in [DOMAIN hilo -> Hilo]
      BY DEF EnOrden, HilosInv
  <2>2. QED
      BY <1>1, <2>1
<1> HIDE DEF h
<1>7. /\ q \in Seq(Numeros) /\ Len(q) = Len(bl) + 1
      /\ \A k \in 1 .. Len(bl) : q[k] = bl[k]
      /\ ToSet(q) = ToSet(bl) \union {b}
      /\ b \notin ToSet(bl) => Distintos(q)
  <2>1. q = Append(bl, b) /\ b \in Numeros /\ bl \in Seq(Numeros) /\ Distintos(bl)
      BY <1>3, <1>4
  <2> HIDE DEF q, b, bl
  <2>2. QED
      BY <2>1, ConOtroBloque
<1>8. /\ meta' \in [ESPECIES -> Metadata] /\ meta'[f].open = meta[f].open
      /\ meta'[f].size = meta[f].size /\ meta'[f].bloques = q
      /\ \A g \in ESPECIES : g # f => meta'[g] = meta[g]
  <2>1. meta[f] \in Metadata
      BY <1>3
  <2>2. meta' = [meta EXCEPT ![f] = [meta[f] EXCEPT !.bloques = q]]
      BY <1>1, <1>3
  <2> HIDE DEF q
  <2>3. /\ [meta[f] EXCEPT !.bloques = q] \in Metadata
        /\ [meta[f] EXCEPT !.bloques = q].open = meta[f].open
        /\ [meta[f] EXCEPT !.bloques = q].size = meta[f].size
        /\ [meta[f] EXCEPT !.bloques = q].bloques = q
      BY <1>7, <2>1 DEF Metadata
  <2>4. QED
      BY <1>3, <2>2, <2>3
<1>9. Opera(m, h)
  <2>1. HiloBien(h)
      BY <1>1, <1>2, <1>3, <1>5 DEF HiloBien, Cortando
  <2>2. Turno(m, h)
      BY <1>5, <1>6, <2>1 DEF Turno
  <2>3. QED
      BY <1>1, <1>2, <1>5, <1>8, <2>2 DEF Opera
<1>10. Suyo(m)' /\ hilo'[m] = h /\ HilosInv /\ CarpetasInv /\ BloquesInv /\ MapaInv
    BY <1>9, OperaLoDemas DEF EnOrden
<1>11. /\ De(f, Cortando) = {} /\ Queda(f) = meta[f].size /\ Nuevo(f) = h0.datos
       /\ Van(f) = h0.van /\ Propios(f) = ToSet(bl) /\ Tomados(f) = ToSet(bl)
    BY <1>1, <1>2, <1>3 DEF Suyo
<1>12. /\ De(f, Cortando)' = {} /\ Queda(f)' = meta[f].size /\ Nuevo(f)' = h0.datos
       /\ Van(f)' = h0.van /\ Propios(f)' = ToSet(q) /\ Tomados(f)' = ToSet(q)
    BY <1>2, <1>5, <1>8, <1>10 DEF Suyo
<1> HIDE DEF q, b
<1>13. /\ meta[f].size <= Len(bl) * BLOCK_SIZE
       /\ EnDisco(disco, bl, meta[f].size, h0.datos, h0.van) /\ Bien(Todo(f))
       /\ Todo(f) = Texto(disco, bl, meta[f].size) \o h0.datos
    BY <1>3, <1>11 DEF Entero, Todo
<1>14. /\ EnDisco(disco, q, meta[f].size, h0.datos, h0.van)
       /\ Texto(disco, q, meta[f].size) = Texto(disco, bl, meta[f].size)
       /\ meta[f].size <= Len(q) * BLOCK_SIZE
  <2> DEFINE n == meta[f].size
             L == Len(bl)
             x == L * BLOCK_SIZE
  <2>1. n + h0.van <= x /\ n <= x /\ n \in Nat /\ L \in Nat /\ x \in Nat
      BY <1>3, <1>13, Constantes DEF EnDisco
  <2>2. Len(q) * BLOCK_SIZE = x + BLOCK_SIZE
    <3>1. \A z \in Nat : (z + 1) * BLOCK_SIZE = z * BLOCK_SIZE + BLOCK_SIZE
        BY Constantes
    <3>2. QED
        BY <1>3, <1>7, <3>1
  <2>3. \A i \in 1 .. n + h0.van : q[Bloque(i)] = bl[Bloque(i)]
    <3>1. ASSUME NEW i \in 1 .. n + h0.van PROVE Bloque(i) \in 1 .. L
      <4>1. i \in Nat /\ i >= 1 /\ i <= L * BLOCK_SIZE
        <5> HIDE DEF n
        <5>1. QED
            BY <1>4, <2>1
      <4>2. QED
          BY <1>3, <4>1, EnSuBloque
    <3>2. QED
        BY <1>7, <3>1
  <2>4. n + h0.van <= Len(q) * BLOCK_SIZE /\ n <= Len(q) * BLOCK_SIZE
    <3> HIDE DEF x, n
    <3>1. QED
        BY <1>4, <2>1, <2>2, Constantes
  <2>5. EnDisco(disco, bl, n, h0.datos, h0.van)
      BY <1>13
  <2>6. h0.van \in Nat
      BY <1>4
  <2> HIDE DEF n, x, bl, h0
  <2>7. EnDisco(disco, q, n, h0.datos, h0.van) /\ Texto(disco, q, n) = Texto(disco, bl, n)
      BY <2>1, <2>3, <2>4, <2>5, <2>6, MismosBytes
  <2>8. QED
      BY <2>4, <2>7 DEF n
<1>15. Todo(f)' = Todo(f)
  <2>1. Todo(f)' = Texto(disco', meta'[f].bloques, Queda(f)') \o Nuevo(f)'
      BY DEF Todo
  <2>2. QED
      BY <1>1, <1>8, <1>12, <1>13, <1>14, <2>1
<1>16. Entero(f)'
  <2>1. EnDisco(disco, meta[f].bloques, Queda(f), Nuevo(f), Van(f))'
      BY <1>1, <1>8, <1>12, <1>14 DEF EnDisco, HayByte, ByteEn
  <2>2. QED
      BY <1>8, <1>12, <1>13, <1>14, <1>15, <2>1 DEF Entero
<1>17. Acotado(f)'
    BY <1>9, <1>15, OperaAcotado
<1>18. BloquesInv'
  <2>1. /\ Distintos(meta'[f].bloques)
        /\ \A g \in ESPECIES : g # f => Propios(f)' \intersect Propios(g) = {}
    <3>1. \A g \in ESPECIES : b \notin Propios(g)
        BY <1>1 DEF b
    <3>2. b \notin ToSet(bl)
        BY <1>3, <1>11, <3>1
    <3>3. \A g \in ESPECIES : g # f => ToSet(bl) \intersect Propios(g) = {}
        BY <1>1, <1>3, <1>10, <1>11 DEF BloquesInv
    <3>4. QED
        BY <1>7, <1>8, <1>12, <3>1, <3>2, <3>3
  <2>2. h.pc \notin Cortando
      BY <1>2, <1>5
  <2>3. QED
      BY <1>1, <1>2, <1>9, <1>10, <2>1, <2>2, BloquesSiguen DEF Opera
<1>19. MapaInv'
  <2>1. bitmap' \subseteq Numeros /\ pisado' \in BOOLEAN /\ fin' \in Finales
    <3>1. bitmap' \subseteq Numeros
        BY <1>1, <1>4 DEF b
    <3>2. pisado' \in BOOLEAN /\ fin' \in Finales
        BY <1>1, <1>10 DEF MapaInv, Finales
    <3>3. QED
        BY <3>1, <3>2
  <2>2. ASSUME ~pisado'
        PROVE  /\ ~pisado
               /\ bitmap' = (bitmap \ Tomados(f)) \union Tomados(f)'
               /\ \A g \in ESPECIES : g # f => Tomados(f)' \intersect Tomados(g) = {}
    <3>1. ~pisado /\ bitmap = h0.visto
        BY <1>1, <1>10, <2>2 DEF MapaInv
    <3>2. /\ bitmap = UNION {Tomados(g) : g \in ESPECIES}
          /\ \A g, k \in ESPECIES : g # k => Tomados(g) \intersect Tomados(k) = {}
        BY <1>10, <3>1 DEF MapaInv
    <3>3. \A g \in ESPECIES : b \notin Tomados(g)
        BY <1>1, <2>2, NadieLoTiene DEF b
    <3>4. Tomados(f) \subseteq bitmap /\ Tomados(f)' = Tomados(f) \union {b}
        BY <1>3, <1>7, <1>11, <1>12, <3>2
    <3>5. bitmap' = (bitmap \ Tomados(f)) \union Tomados(f)'
        BY <1>1, <3>1, <3>4 DEF b
    <3>6. \A g \in ESPECIES : g # f => Tomados(f)' \intersect Tomados(g) = {}
        BY <1>3, <3>2, <3>3, <3>4
    <3>7. QED
        BY <3>1, <3>5, <3>6
  <2>3. QED
      BY <1>9, <1>10, <2>1, <2>2, MapaSigue DEF Opera
<1>20. QED
    BY <1>1, <1>3, <1>9, <1>15, <1>16, <1>17, <1>18, <1>19, OperaSigue DEF TodoIgual

(* The bytes that were after a file are its own once it is that long.      *)
LEMMA TextoMas ==
    ASSUME NEW d, DiscoBien(d), NEW bl \in Seq(Numeros), NEW n \in Nat, NEW s \in Seq(Byte),
           NEW k \in Nat, k = Len(s), EnDisco(d, bl, n, s, k)
    PROVE  /\ Texto(d, bl, n + k) = Texto(d, bl, n) \o s
           /\ EnDisco(d, bl, n + k, <<>>, 0)
           /\ Texto(d, bl, n + k) \o <<>> = Texto(d, bl, n + k)
<1> DEFINE a == Texto(d, bl, n)
           w == Texto(d, bl, n + k)
           u == a \o s
           top == Len(bl) * BLOCK_SIZE
<1>1. /\ n + k <= top /\ n + k \in Nat
      /\ \A i \in 1 .. n + k : HayByte(d, bl, i)
      /\ \A i \in 1 .. k : ByteEn(d, bl, n + i) = s[i]
    BY DEF EnDisco
<1>2. top \in Nat
  <2>1. Len(bl) \in Nat
      BY LenProperties
  <2>2. QED
      BY <2>1, Constantes
<1>3. n <= top /\ \A i \in 1 .. n : i \in 1 .. n + k
  <2> HIDE DEF top
  <2>1. QED
      BY <1>1, <1>2
<1>4. a \in Seq(Byte) /\ Len(a) = n /\ \A i \in 1 .. n : a[i] = ByteEn(d, bl, i)
    BY <1>1, <1>3, TextoEs
<1>5. w \in Seq(Byte) /\ Len(w) = n + k /\ \A i \in 1 .. n + k : w[i] = ByteEn(d, bl, i)
    BY <1>1, TextoEs
<1> HIDE DEF a, w, top
<1>6. /\ u \in Seq(Byte) /\ Len(u) = n + k
      /\ \A i \in 1 .. n + k : u[i] = IF i <= n THEN a[i] ELSE s[i - n]
  <2>1. /\ u \in Seq(Byte) /\ Len(u) = Len(a) + Len(s)
        /\ \A i \in 1 .. Len(a) + Len(s) : u[i] = IF i <= Len(a) THEN a[i] ELSE s[i - Len(a)]
      BY <1>4, ConcatProperties
  <2>2. Len(a) = n /\ Len(s) = k
      BY <1>4
  <2> HIDE DEF u
  <2>3. QED
      BY <2>1, <2>2
<1> HIDE DEF u
<1>7. ASSUME NEW i \in 1 .. n + k PROVE w[i] = u[i]
  <2>1. CASE i <= n
      BY <1>4, <1>5, <1>6, <2>1
  <2>2. CASE ~(i <= n)
    <3>1. i - n \in 1 .. k /\ n + (i - n) = i
        BY <2>2
    <3>2. ByteEn(d, bl, n + (i - n)) = s[i - n] /\ u[i] = s[i - n]
        BY <1>1, <1>6, <2>2, <3>1
    <3>3. QED
        BY <1>5, <3>1, <3>2
  <2>3. QED
      BY <2>1, <2>2
<1>8. w = u
    BY <1>5, <1>6, <1>7, SeqEqual
<1>9. EnDisco(d, bl, n + k, <<>>, 0)
  <2>1. (n + k) + 0 = n + k /\ 1 .. 0 = {}
      BY <1>1
  <2>2. QED
      BY <1>1, <2>1 DEF EnDisco, top
<1>10. w \o <<>> = w
    BY <1>5, ConcatEmptySeq
<1>11. QED
    BY <1>8, <1>9, <1>10 DEF w, u, a

(* agregar_byte_archivo.                                                   *)
LEMMA PasoCrece ==
    ASSUME EnOrden, NEW m \in DOMAIN hilo, CreceSolo(m) PROVE EnOrden' /\ TodoIgual
<1> DEFINE f == m.especie
           bl == meta[f].bloques
           n == meta[f].size
           h0 == hilo[m]
           k == Len(h0.datos)
           h == [h0 EXCEPT !.pc = "cierra"]
<1>1. /\ h0.pc = "escribe" /\ fin = "no" /\ k - h0.van = 0
      /\ meta' = [meta EXCEPT ![f].size = @ + k]
      /\ hilo' = [hilo EXCEPT ![m].pc = "cierra"]
      /\ UNCHANGED <<dir, disco, bitmap, abiertos, fin, errada, pisado>>
    BY DEF CreceSolo, En, Faltan, Sigue
<1>2. /\ "escribe" \in Operando /\ "escribe" \in Escriben
      /\ "escribe" \notin Cortando /\ "cierra" \in Operando /\ "cierra" \notin Escriben
      /\ "cierra" \notin Cortando /\ "cierra" \notin SinRespuesta /\ "cierra" \in Pcs
    BY DEF Operando, Cortando, Escriben, Escribiendo, SinRespuesta, Pcs
<1>3. /\ meta \in [ESPECIES -> Metadata] /\ f \in ESPECIES /\ Distintos(bl) /\ DiscoBien(disco)
      /\ bl \in Seq(Numeros) /\ Len(bl) \in Nat /\ n \in Nat
      /\ h0 \in Hilo /\ HiloBien(h0) /\ Suyo(m) /\ Entero(f)
    BY <1>1, <1>2, OperaDatos
<1>4. h0.van = k /\ k \in Nat /\ h0.datos \in Seq(Byte)
  <2>1. h0.datos \in Seq(Byte) /\ h0.van \in Nat
      BY <1>3 DEF Hilo
  <2>2. k \in Nat
      BY <2>1, LenProperties
  <2> HIDE DEF k
  <2>3. QED
      BY <1>1, <2>1, <2>2
<1>5. /\ h \in Hilo /\ h.pc = "cierra" /\ h.rta = h0.rta /\ h.van = h0.van
      /\ h.datos = h0.datos /\ h.libera = h0.libera
    BY <1>2, <1>3 DEF Hilo
<1>6. hilo' = [hilo EXCEPT ![m] = h]
  <2>1. hilo \in [DOMAIN hilo -> Hilo]
      BY DEF EnOrden, HilosInv
  <2>2. QED
      BY <1>1, <2>1
<1> HIDE DEF h, k
<1>7. /\ meta' \in [ESPECIES -> Metadata] /\ meta'[f].open = meta[f].open
      /\ meta'[f].size = n + k /\ meta'[f].bloques = bl
      /\ \A g \in ESPECIES : g # f => meta'[g] = meta[g]
  <2>1. meta[f] \in Metadata
      BY <1>3
  <2> DEFINE z == n + k
  <2>2. meta' = [meta EXCEPT ![f] = [meta[f] EXCEPT !.size = z]]
      BY <1>1, <1>3
  <2>3. z \in Nat
      BY <1>3, <1>4
  <2> HIDE DEF z
  <2>4. /\ [meta[f] EXCEPT !.size = z] \in Metadata
        /\ [meta[f] EXCEPT !.size = z].open = meta[f].open
        /\ [meta[f] EXCEPT !.size = z].size = z
        /\ [meta[f] EXCEPT !.size = z].bloques = bl
      BY <2>1, <2>3 DEF Metadata
  <2>5. QED
      BY <1>3, <2>2, <2>4 DEF z
<1>8. Opera(m, h)
  <2>1. HiloBien(h)
      BY <1>1, <1>2, <1>3, <1>5 DEF HiloBien, Cortando
  <2>2. Turno(m, h)
      BY <1>5, <1>6, <2>1 DEF Turno
  <2>3. QED
      BY <1>1, <1>2, <1>5, <1>7, <2>2 DEF Opera
<1>9. Suyo(m)' /\ hilo'[m] = h
    BY <1>8, OperaLoDemas
<1>10. /\ De(f, Cortando) = {} /\ Queda(f) = n /\ Nuevo(f) = h0.datos
       /\ Van(f) = k /\ Propios(f) = ToSet(bl) /\ Tomados(f) = ToSet(bl)
    BY <1>1, <1>2, <1>3, <1>4 DEF Suyo
<1>11. /\ De(f, Cortando)' = {} /\ Queda(f)' = n + k /\ Nuevo(f)' = <<>>
       /\ Van(f)' = 0 /\ Propios(f)' = ToSet(bl) /\ Tomados(f)' = ToSet(bl)
    BY <1>2, <1>5, <1>7, <1>9 DEF Suyo
<1>12. /\ EnDisco(disco, bl, n, h0.datos, k) /\ Bien(Todo(f))
       /\ Todo(f) = Texto(disco, bl, n) \o h0.datos
    BY <1>3, <1>10 DEF Entero, Todo
<1>13. n + k <= Len(bl) * BLOCK_SIZE
    BY <1>12 DEF EnDisco
<1>14. /\ Texto(disco, bl, n + k) = Texto(disco, bl, n) \o h0.datos
       /\ EnDisco(disco, bl, n + k, <<>>, 0)
       /\ Texto(disco, bl, n + k) \o <<>> = Texto(disco, bl, n + k)
  <2>1. k = Len(h0.datos)
      BY DEF k
  <2>2. QED
      BY <1>3, <1>4, <1>12, <2>1, TextoMas, ZenonT(40)
<1>15. Todo(f)' = Todo(f)
  <2>1. Todo(f)' = Texto(disco', meta'[f].bloques, Queda(f)') \o Nuevo(f)'
      BY DEF Todo
  <2>2. QED
      BY <1>1, <1>7, <1>11, <1>12, <1>14, <2>1
<1>16. Entero(f)'
  <2>1. EnDisco(disco, meta[f].bloques, Queda(f), Nuevo(f), Van(f))'
      BY <1>1, <1>7, <1>11, <1>14 DEF EnDisco, HayByte, ByteEn
  <2>2. QED
      BY <1>7, <1>11, <1>12, <1>13, <1>15, <2>1 DEF Entero
<1>17. Acotado(f)'
    BY <1>8, <1>15, OperaAcotado
<1>18. BloquesInv' /\ MapaInv'
  <2>1. h.pc \notin Cortando /\ Distintos(meta'[f].bloques)
      BY <1>2, <1>3, <1>5, <1>7
  <2>2. QED
      BY <1>1, <1>8, <1>10, <1>11, <2>1, OperaConLosMismos
<1>19. QED
    BY <1>1, <1>3, <1>8, <1>15, <1>16, <1>17, <1>18, OperaSigue DEF TodoIgual

-----------------------------------------------------------------------------
(* A handler that is alone with its file.                                   *)

(* The thread m is now r, and the others stay where they are.              *)
LEMMA UnHilo ==
    ASSUME HilosInv, NEW m \in DOMAIN hilo, NEW r, hilo' = [hilo EXCEPT ![m] = r]
    PROVE  /\ DOMAIN hilo' = DOMAIN hilo /\ hilo'[m] = r
           /\ \A u \in DOMAIN hilo : u # m => hilo'[u] = hilo[u]
BY DEF HilosInv

(* A step that leaves the copies as good as they were.                     *)
LEMMA CopiasSiguen ==
    ASSUME HilosInv, Copias, NEW m \in DOMAIN hilo, NEW r, hilo' = [hilo EXCEPT ![m] = r],
           \A u \in DOMAIN hilo : u # m => copia'[u] = copia[u],
           \A u \in DOMAIN hilo : leida'[u] = NULL,
           \A u \in DOMAIN hilo : u # m /\ hilo[u].pc \in Operando =>
               /\ meta'[u.especie].size = meta[u.especie].size
               /\ meta'[u.especie].bloques = meta[u.especie].bloques,
           r.pc \in Operando =>
               /\ copia'[m].size = meta'[m.especie].size
               /\ copia'[m].bloques = meta'[m.especie].bloques,
           r.pc = "vuelca" => ~HayBloque(m)'
    PROVE  Copias'
<1>1. /\ DOMAIN hilo' = DOMAIN hilo /\ hilo'[m] = r
      /\ \A u \in DOMAIN hilo : u # m => hilo'[u] = hilo[u]
    BY UnHilo
<1>2. ASSUME NEW u \in DOMAIN hilo, hilo'[u].pc \in Operando
      PROVE  /\ copia'[u].size = meta'[u.especie].size
             /\ copia'[u].bloques = meta'[u.especie].bloques
             /\ hilo'[u].pc = "vuelca" => ~HayBloque(u)'
  <2>1. CASE u = m
      BY <1>1, <1>2, <2>1
  <2>2. CASE u # m
    <3>1. hilo'[u] = hilo[u] /\ copia'[u] = copia[u]
        BY <1>1, <2>2
    <3>2. /\ copia[u].size = meta[u.especie].size
          /\ copia[u].bloques = meta[u.especie].bloques
          /\ hilo[u].pc = "vuelca" => ~HayBloque(u)
        BY <1>2, <3>1 DEF Copias
    <3>3. HayBloque(u)' = HayBloque(u)
        BY <3>1 DEF HayBloque, Puntero
    <3>4. QED
        BY <1>2, <2>2, <3>1, <3>2, <3>3
  <2>3. QED
      BY <2>1, <2>2
<1>3. QED
    BY <1>1, <1>2 DEF Copias

(* A step that reads or saves no Metadata.bin with blocks.                 *)
LEMMA CopiasQuietas ==
    ASSUME HilosInv, Copias, NEW m \in DOMAIN hilo, NEW r, hilo' = [hilo EXCEPT ![m] = r],
           copia' = copia, leida' = leida,
           \A f \in ESPECIES : /\ meta'[f].size = meta[f].size
                               /\ meta'[f].bloques = meta[f].bloques,
           r.pc \in Operando => hilo[m].pc \in Operando, r.pc # "vuelca"
    PROVE  Copias'
<1>1. \A u \in DOMAIN hilo : u.especie \in ESPECIES
    BY SusMensajes
<1>2. \A u \in DOMAIN hilo : leida[u] = NULL
    BY DEF Copias
<1>3. r.pc \in Operando => /\ copia[m].size = meta[m.especie].size
                           /\ copia[m].bloques = meta[m.especie].bloques
    BY DEF Copias
<1>4. QED
    BY <1>1, <1>2, <1>3, CopiasSiguen

(* Who works on a file saves it as it is now.                              *)
LEMMA SuBase ==
    ASSUME TiposInv, EnOrden, Copias, NEW m \in DOMAIN hilo, NEW f, f = m.especie
    PROVE  /\ f \in ESPECIES /\ leida[m] = NULL /\ Base(m) = meta[f]
           /\ meta \in [ESPECIES -> Metadata] /\ meta[f] \in Metadata
           /\ \A u \in DOMAIN hilo : leida[u] = NULL
           /\ \A u \in DOMAIN hilo : [leida EXCEPT ![m] = NULL][u] = NULL
           /\ Leyo(m) => dir[f] = "listo" /\ [dir EXCEPT ![f] = "listo"] = dir
           /\ hilo[m].pc \in Operando =>
                /\ copia[m].size = meta[f].size /\ copia[m].bloques = meta[f].bloques
                /\ \A u \in DOMAIN hilo :
                     u # m /\ hilo[u].pc \in Operando => u.especie # f /\ u.especie \in ESPECIES
<1>1. /\ HilosInv /\ CarpetasInv /\ f \in ESPECIES /\ leida[m] = NULL
      /\ \A u \in DOMAIN hilo : u.especie \in ESPECIES
    BY SusMensajes DEF EnOrden, Copias
<1>2. meta \in [ESPECIES -> Metadata] /\ dir \in [ESPECIES -> {"no", "carpeta", "listo"}]
    BY <1>1 DEF CarpetasInv
<1>3. leida \in [DOMAIN hilo -> Archivo \union {NULL}] /\ copia \in [DOMAIN hilo -> Ficha]
    BY DEF TiposInv
<1>4. Base(m) = meta[f]
    BY <1>1 DEF Base
<1>5. Leyo(m) => dir[f] = "listo" /\ [dir EXCEPT ![f] = "listo"] = dir
    BY <1>1, <1>2 DEF Leyo
<1>6. hilo[m].pc \in Operando =>
        /\ copia[m].size = meta[f].size /\ copia[m].bloques = meta[f].bloques
        /\ \A u \in DOMAIN hilo :
             u # m /\ hilo[u].pc \in Operando => u.especie # f /\ u.especie \in ESPECIES
    BY <1>1 DEF Copias, CarpetasInv
<1>7. \A u \in DOMAIN hilo : leida[u] = NULL
    BY DEF Copias
<1>8. \A u \in DOMAIN hilo : [leida EXCEPT ![m] = NULL][u] = NULL
    BY <1>3, <1>7
<1>9. QED
    BY <1>1, <1>2, <1>4, <1>5, <1>6, <1>7, <1>8

(* It finds its file well formed.                                          *)
LEMMA LegibleSolo ==
    ASSUME TiposInv, EnOrden, Copias, NEW m \in DOMAIN hilo, En(m, "opera"),
           NEW s, s = Contenido(m.especie)
    PROVE  TextoDe(m) = s /\ Legible(m)
<1> DEFINE f == m.especie
           bl == meta[f].bloques
           n == meta[f].size
<1>1. hilo[m].pc = "opera" /\ fin = "no" /\ hilo[m].pc \in Operando
    BY DEF En, Operando
<1>2. copia[m].size = n /\ copia[m].bloques = bl
    BY <1>1, SuBase
<1>3. TextoDe(m) = s
    BY <1>2 DEF TextoDe, Contenido
<1>4. /\ Bien(s) /\ Len(s) = n /\ n <= Len(bl) * BLOCK_SIZE /\ hilo[m].rta = NULL
      /\ EnDisco(disco, bl, n, <<>>, 0)
      /\ \A l \in LUGARES : Cuentas(s)[l] <= 9 * Cardinality(Contestadas)
    BY <1>1, AlOperar
<1>5. m.lugar \in LUGARES /\ m.cant \in 1 .. 9 /\ n \in Nat
    BY <1>1, OperaDatos
<1>6. EstaEntero(m)
  <2>1. \A i \in 1 .. n : HayByte(disco, bl, i)
    <3>1. n + 0 = n
        BY <1>5
    <3>2. QED
        BY <1>4, <3>1 DEF EnDisco
  <2>2. ASSUME NEW i \in 1 .. n
        PROVE  (i - 1) % BLOCK_SIZE < Len(disco[bl[Relativo(i - 1) + 1]])
    <3> DEFINE r == (i - 1) % BLOCK_SIZE
               k == Len(disco[bl[Relativo(i - 1) + 1]])
    <3>1. r + 1 <= k
        BY <2>1 DEF HayByte, Lugar, Bloque
    <3>2. r \in Nat /\ k \in Nat
      <4>1. i - 1 \in Nat
          BY <1>5
      <4>2. r \in Nat
          BY <4>1, Constantes
      <4>3. Bloque(i) \in 1 .. Len(bl)
        <5> DEFINE x == Len(bl) * BLOCK_SIZE
        <5>1. Len(bl) \in Nat
            BY <1>1, OperaDatos
        <5>2. x \in Nat
            BY <5>1, Constantes
        <5>3. n <= x
            BY <1>4
        <5> HIDE DEF x, n
        <5>4. i \in Nat /\ i >= 1 /\ i <= x
            BY <1>5, <5>2, <5>3
        <5>5. QED
            BY <5>1, <5>4, EnSuBloque DEF x
      <4>4. bl[Bloque(i)] \in Numeros
        <5>1. bl \in Seq(Numeros)
            BY <1>1, OperaDatos
        <5>2. QED
            BY <4>3, <5>1, ElementOfSeq
      <4>5. disco[bl[Bloque(i)]] \in Seq(Byte)
          BY <1>1, <4>4, OperaDatos DEF DiscoBien
      <4>6. QED
          BY <4>2, <4>5, LenProperties DEF Bloque
    <3> HIDE DEF r, k
    <3>3. r < k
        BY <3>1, <3>2
    <3>4. QED
        BY <3>3 DEF r, k
  <2>3. n \in 0 .. Len(bl) * BLOCK_SIZE
    <3>1. Len(bl) \in Nat
        BY <1>1, OperaDatos
    <3>2. Len(bl) * BLOCK_SIZE \in Nat
        BY <3>1, Constantes
    <3>3. QED
        BY <1>4, <1>5, <3>2
  <2>4. QED
      BY <1>2, <2>2, <2>3 DEF EstaEntero
<1>7. Registros(s)
  <2>1. DOMAIN s = 1 .. Len(s) /\ Len(s) \in Nat /\ s \in Seq(Byte)
      BY <1>4, LenProperties DEF Bien
  <2>2. \A i \in 1 .. Len(s) : s[i] \in LUGARES \union 0 .. 9 \union {FIN}
      BY <2>1, ElementOfSeq DEF Byte
  <2>3. \A i \in 1 .. Len(s) : (i = 1 \/ s[i - 1] = FIN) <=> s[i] \in LUGARES
    <3>1. ASSUME NEW i \in 1 .. Len(s), s[i] \in LUGARES PROVE i = 1 \/ s[i - 1] = FIN
      <4>1. i > 1 => s[i - 1] = FIN
          BY <1>4, <3>1 DEF Bien, RegistroEn
      <4>2. i \in Nat /\ i >= 1
          BY <2>1
      <4>3. QED
          BY <4>1, <4>2
    <3>2. QED
        BY <1>4, <3>1 DEF Bien
  <2>4. QED
      BY <1>4, <2>1, <2>2, <2>3 DEF Bien, Registros
<1>8. Cuantos(m) + m.cant <= 99
  <2>1. Cuantos(m) = Cuentas(s)[m.lugar]
      BY <1>3, <1>5 DEF Cuantos, Cuentas
  <2>2. Cuentas(s)[m.lugar] \in 0 .. 99
      BY <1>4, <1>5, CuentasChicas
  <2>3. Cardinality(Contestadas) \in Nat /\ Cardinality(Contestadas) <= 10
    <3>1. IsFiniteSet(DOMAIN hilo) /\ Cardinality(DOMAIN hilo) \in Nat /\ Cardinality(DOMAIN hilo) <= 11
        BY SusMensajes DEF EnOrden
    <3>2. m \notin Contestadas /\ Contestadas \union {m} \in SUBSET DOMAIN hilo
        BY <1>4 DEF Contestadas
    <3>3. IsFiniteSet(Contestadas) /\ Contestadas \subseteq DOMAIN hilo
        BY <3>1, <3>2, FS_Subset
    <3>4. Cardinality(Contestadas \union {m}) = Cardinality(Contestadas) + 1
        BY <3>2, <3>3, FS_AddElement
    <3>5. Cardinality(Contestadas \union {m}) <= Cardinality(DOMAIN hilo)
        BY <3>1, <3>2, FS_Subset
    <3>6. Cardinality(Contestadas) \in Nat
        BY <3>3, FS_CardinalityType
    <3>7. QED
        BY <3>1, <3>4, <3>5, <3>6
  <2>4. Cuentas(s)[m.lugar] <= 9 * Cardinality(Contestadas)
      BY <1>4, <1>5
  <2>5. \A c \in 0 .. 99, k \in Nat, j \in 1 .. 9 : c <= 9 * k /\ k <= 10 => c + j <= 99
      OBVIOUS
  <2>6. QED
      BY <1>5, <2>1, <2>2, <2>3, <2>4, <2>5
<1>9. QED
    BY <1>3, <1>6, <1>7, <1>8 DEF Legible

(* It reads its Metadata.bin, which nobody else has open.                  *)
LEMMA LeeDeUno ==
    ASSUME TiposInv, EnOrden, Copias, NEW m \in DOMAIN hilo, Lee(m), Sano'
    PROVE  LeeSolo(m) /\ Copias'
<1> DEFINE f == m.especie
           md == [meta[f] EXCEPT !.open = TRUE]
           c == [size |-> meta[f].size, bloques |-> meta[f].bloques]
           r == [hilo[m] EXCEPT !.pc = "opera"]
<1>1. /\ En(m, "lee") /\ Leyo(m) /\ hilo' = [hilo EXCEPT ![m] = r]
      /\ copia' = [copia EXCEPT ![m] = [size |-> Base(m).size, bloques |-> Base(m).bloques]]
      /\ meta' = [meta EXCEPT ![f] = [Base(m) EXCEPT !.open = TRUE]]
      /\ dir' = [dir EXCEPT ![f] = "listo"] /\ leida' = [leida EXCEPT ![m] = NULL]
      /\ doble' = (doble \/ HayOtro(m))
      /\ UNCHANGED <<disco, bitmap, abiertos, fin, errada, pisado, compartido>>
    BY DEF Lee, Copia, Guarda, Sigue
<1>2. De(f, Operando) = {}
  <2>1. ~HayOtro(m)
      BY <1>1 DEF Sano
  <2>2. m \notin De(f, Operando)
      BY <1>1 DEF De, En, Operando
  <2>3. QED
      BY <2>1, <2>2 DEF HayOtro
<1>3. Base(m) = meta[f] /\ f \in ESPECIES /\ meta[f] \in Metadata /\ meta \in [ESPECIES -> Metadata]
    BY SuBase
<1>4. copia' = [copia EXCEPT ![m] = c] /\ meta' = [meta EXCEPT ![f] = md]
    BY <1>1, <1>3
<1>5. dir[f] = "listo" /\ dir' = dir /\ \A u \in DOMAIN hilo : leida'[u] = NULL
    BY <1>1, SuBase
<1>6. LeeSolo(m)
  <2>1. meta' = [meta EXCEPT ![f].open = TRUE]
      BY <1>4
  <2>2. QED
      BY <1>1, <1>2, <1>5, <2>1 DEF LeeSolo, Sigue
<1>7. /\ meta'[f] = md /\ md.size = meta[f].size /\ md.bloques = meta[f].bloques
      /\ \A g \in ESPECIES : g # f => meta'[g] = meta[g]
    BY <1>3, <1>4 DEF Metadata
<1>8. /\ copia'[m] = c /\ c.size = meta[f].size /\ c.bloques = meta[f].bloques
      /\ \A u \in DOMAIN hilo : u # m => copia'[u] = copia[u]
    BY <1>4 DEF TiposInv
<1>9. HilosInv /\ \A u \in DOMAIN hilo : u.especie \in ESPECIES
    BY SusMensajes DEF EnOrden
<1>10. r.pc = "opera"
    BY DEF EnOrden, HilosInv, Hilo
<1> HIDE DEF r, c, md
<1>11. Copias'
    BY <1>1, <1>5, <1>7, <1>8, <1>9, <1>10, CopiasSiguen, Zenon
<1>12. QED
    BY <1>6, <1>11

(* What it does with a file that it finds well formed.                     *)
LEMMA OperaDeUno ==
    ASSUME TiposInv, EnOrden, Copias, NEW m \in DOMAIN hilo, New(m) \/ Catch(m) \/ Get(m)
    PROVE  (NewSolo(m) \/ CatchSolo(m) \/ GetSolo(m)) /\ Copias'
<1> DEFINE s == Contenido(m.especie)
           i == Donde(s, m.lugar)
<1>1. En(m, "opera")
    BY DEF New, Catch, Get
<1>2. "opera" \in Operando /\ hilo[m].pc = "opera" /\ HilosInv /\ hilo[m] \in Hilo
    BY <1>1 DEF En, Operando, EnOrden, HilosInv
<1>3. /\ TextoDe(m) = s /\ copia[m].size = meta[m.especie].size
      /\ copia[m].bloques = meta[m.especie].bloques
    BY <1>1, <1>2, LegibleSolo, SuBase
<1>4. i # 0 => Cuantos(m) = Cantidad(s, i)
    BY <1>3 DEF Cuantos
<1>5. ASSUME NEW k, NEW c, Borra(m, k, c)
      PROVE  BorraSolo(m, k, c) /\ \E r : hilo' = [hilo EXCEPT ![m] = r] /\ r.pc = "libera"
  <2>1. BorraSolo(m, k, c)
      BY <1>3, <1>5 DEF Borra, BorraSolo
  <2>2. PICK q, w, d : hilo' = [hilo EXCEPT ![m] =
            [@ EXCEPT !.pc = "libera", !.rta = 1, !.corte = q, !.van = 0, !.libera = w,
                      !.datos = d]]
      BY <2>1 DEF BorraSolo
  <2> DEFINE r == [hilo[m] EXCEPT !.pc = "libera", !.rta = 1, !.corte = q, !.van = 0,
                                  !.libera = w, !.datos = d]
  <2>3. hilo' = [hilo EXCEPT ![m] = r] /\ r.pc = "libera"
      BY <1>2, <2>2 DEF Hilo
  <2>4. QED
      BY <2>1, <2>3
<1> HIDE DEF s, i
<1>6. CASE New(m)
  <2>1. NewSolo(m)
      BY <1>3, <1>4, <1>5, <1>6 DEF New, NewSolo, memoria, historia, s, i
  <2>2. \E r : hilo' = [hilo EXCEPT ![m] = r] /\ r.pc \in {"libera", "escribe"}
    <3>1. CASE Donde(TextoDe(m), m.lugar) = 0
      <4> DEFINE r == [hilo[m] EXCEPT !.pc = "escribe", !.rta = 1, !.van = 0,
                                      !.datos = Registro(m.lugar, m.cant)]
      <4>1. hilo' = [hilo EXCEPT ![m] = r]
          BY <1>6, <3>1 DEF New
      <4>2. r.pc = "escribe"
          BY <1>2 DEF Hilo
      <4>3. QED
          BY <4>1, <4>2
    <3>2. CASE Donde(TextoDe(m), m.lugar) # 0
      <4>1. \E k, c : Borra(m, k, c)
          BY <1>6, <3>2 DEF New
      <4>2. QED
          BY <1>5, <4>1
    <3>3. QED
        BY <3>1, <3>2
  <2>3. /\ copia' = copia /\ leida' = leida /\ meta' = meta
      BY <1>6 DEF New, memoria
  <2>4. Copias'
      BY <1>2, <2>2, <2>3, CopiasQuietas
  <2>5. QED
      BY <2>1, <2>4
<1>7. CASE Catch(m)
  <2>1. CatchSolo(m)
      BY <1>3, <1>4, <1>5, <1>7 DEF Catch, CatchSolo, memoria, historia, s, i
  <2>2. \E r : hilo' = [hilo EXCEPT ![m] = r] /\ r.pc \in {"libera", "cierra"}
    <3>1. CASE Donde(TextoDe(m), m.lugar) = 0
      <4> DEFINE r == [hilo[m] EXCEPT !.pc = "cierra", !.rta = 0]
      <4>1. hilo' = [hilo EXCEPT ![m] = r]
          BY <1>2, <1>7, <3>1 DEF Catch, HilosInv
      <4>2. r.pc = "cierra"
          BY <1>2 DEF Hilo
      <4>3. QED
          BY <4>1, <4>2
    <3>2. CASE Donde(TextoDe(m), m.lugar) # 0
      <4>1. \E k, c : Borra(m, k, c)
          BY <1>7, <3>2 DEF Catch
      <4>2. QED
          BY <1>5, <4>1
    <3>3. QED
        BY <3>1, <3>2
  <2>3. /\ copia' = copia /\ leida' = leida /\ meta' = meta
      BY <1>7 DEF Catch, memoria
  <2>4. Copias'
      BY <1>2, <2>2, <2>3, CopiasQuietas
  <2>5. QED
      BY <2>1, <2>4
<1>8. CASE Get(m)
  <2>1. GetSolo(m)
      BY <1>3, <1>8 DEF Get, GetSolo, memoria, historia, s
  <2> DEFINE r == [hilo[m] EXCEPT !.pc = "cierra", !.rta = 1,
                     !.vistos = {l \in LUGARES : Donde(TextoDe(m), l) # 0}]
  <2>2. hilo' = [hilo EXCEPT ![m] = r] /\ r.pc = "cierra"
      BY <1>2, <1>8 DEF Get, Hilo
  <2>3. /\ copia' = copia /\ leida' = leida /\ meta' = meta
      BY <1>8 DEF Get, memoria
  <2> HIDE DEF r
  <2>4. Copias'
      BY <1>2, <2>2, <2>3, CopiasQuietas
  <2>5. QED
      BY <2>1, <2>4
<1>9. QED
    BY <1>6, <1>7, <1>8

(* A step that saves the Metadata.bin of its file, and its copy with it.   *)
LEMMA CopiasGuarda ==
    ASSUME TiposInv, EnOrden, Copias, NEW m \in DOMAIN hilo, hilo[m].pc \in Operando,
           NEW md, Guarda(m, md), NEW r, hilo' = [hilo EXCEPT ![m] = r], NEW c,
           copia' = [copia EXCEPT ![m] = c],
           r.pc \in Operando => c.size = md.size /\ c.bloques = md.bloques,
           r.pc # "vuelca"
    PROVE  Copias'
<1>1. /\ HilosInv /\ m.especie \in ESPECIES /\ meta \in [ESPECIES -> Metadata]
      /\ \A u \in DOMAIN hilo : [leida EXCEPT ![m] = NULL][u] = NULL
      /\ \A u \in DOMAIN hilo :
           u # m /\ hilo[u].pc \in Operando => u.especie # m.especie /\ u.especie \in ESPECIES
    BY SuBase DEF EnOrden
<1>2. meta'[m.especie] = md /\ \A g \in ESPECIES : g # m.especie => meta'[g] = meta[g]
    BY <1>1 DEF Guarda
<1>3. copia'[m] = c /\ \A u \in DOMAIN hilo : u # m => copia'[u] = copia[u]
    BY DEF TiposInv
<1>4. \A u \in DOMAIN hilo : leida'[u] = NULL
    BY <1>1 DEF Guarda
<1>5. \A u \in DOMAIN hilo : u # m /\ hilo[u].pc \in Operando => meta'[u.especie] = meta[u.especie]
    BY <1>1, <1>2
<1>6. r.pc \in Operando =>
        /\ copia'[m].size = meta'[m.especie].size
        /\ copia'[m].bloques = meta'[m.especie].bloques
    BY <1>2, <1>3
<1>7. HilosInv
    BY <1>1
<1>8. QED
    BY <1>3, <1>4, <1>5, <1>6, <1>7, CopiasSiguen

(* sacar_bloques_metadata and disminuir_byte_archivo.                      *)
LEMMA RecortaDeUno ==
    ASSUME TiposInv, EnOrden, Copias, NEW m \in DOMAIN hilo, Recorta(m)
    PROVE  \/ Termina("sin_bloques") /\ fin = "no"
           \/ RecortaSolo(m) /\ Copias'
<1> DEFINE f == m.especie
           corte == hilo[m].corte
           bl == QueQuedan(meta[f].bloques, corte)
           md == [meta[f] EXCEPT !.size = corte, !.bloques = bl]
           c == [size |-> corte, bloques |-> bl]
           p == IF hilo[m].datos = <<>> THEN "cierra" ELSE "escribe"
           r == [hilo[m] EXCEPT !.pc = p]
<1>1. En(m, "libera") /\ hilo[m].libera = <<>> /\ Leyo(m) /\ fin = "no"
    BY DEF Recorta, En
<1>2. hilo[m].pc \in Operando /\ hilo[m] \in Hilo
    BY <1>1 DEF En, Operando, EnOrden, HilosInv
<1>3. /\ Base(m) = meta[f] /\ f \in ESPECIES /\ meta[f] \in Metadata
      /\ meta \in [ESPECIES -> Metadata] /\ dir[f] = "listo" /\ [dir EXCEPT ![f] = "listo"] = dir
      /\ copia[m].size = meta[f].size
    BY <1>1, <1>2, SuBase
<1>4. Base(m).size - (copia[m].size - corte) = corte
  <2>1. meta[f].size \in Nat /\ corte \in Nat
      BY <1>2, <1>3 DEF Metadata, Hilo
  <2>2. \A x, y \in Nat : x - (x - y) = y
      OBVIOUS
  <2> HIDE DEF corte, f
  <2>3. QED
      BY <1>3, <2>1, <2>2 DEF f
<1>5. CASE ~(corte > 0 /\ Relativo(corte) >= Len(Base(m).bloques))
  <2>1. /\ Guarda(m, md) /\ Copia(m, corte, bl) /\ Sigue(m, p)
        /\ UNCHANGED <<disco, bitmap, abiertos, fin, historia>>
      BY <1>3, <1>4, <1>5 DEF Recorta
  <2>2. RecortaSolo(m)
      BY <1>1, <1>3, <2>1 DEF RecortaSolo, Guarda, historia
  <2>3. /\ hilo' = [hilo EXCEPT ![m] = r] /\ r.pc = p /\ p # "vuelca"
        /\ copia' = [copia EXCEPT ![m] = c]
        /\ c.size = md.size /\ c.bloques = md.bloques
      BY <1>2, <1>3, <2>1 DEF Sigue, Copia, Hilo, Metadata
  <2> HIDE DEF r, c, md, p
  <2>4. Copias'
      BY <1>2, <2>1, <2>3, CopiasGuarda
  <2>5. QED
      BY <2>2, <2>4
<1>6. CASE corte > 0 /\ Relativo(corte) >= Len(Base(m).bloques)
    BY <1>1, <1>6 DEF Recorta
<1>7. QED
    BY <1>5, <1>6

(* The bytes that go to one block.                                         *)
LEMMA EscribeDeUno ==
    ASSUME TiposInv, EnOrden, Copias, NEW m \in DOMAIN hilo, Escribe(m)
    PROVE  EscribeSolo(m) /\ Copias'
<1>1. hilo[m].pc = "escribe" /\ hilo[m].pc \in Operando /\ HilosInv /\ hilo[m] \in Hilo
    BY DEF Escribe, En, Operando, EnOrden, HilosInv
<1>2. copia[m].size = meta[m.especie].size /\ copia[m].bloques = meta[m.especie].bloques
    BY <1>1, SuBase
<1>3. Puntero(m) = PunteroSolo(m) /\ HayBloque(m) = HayBloqueSolo(m)
    BY <1>2 DEF Puntero, PunteroSolo, HayBloque, HayBloqueSolo
<1>4. EscribeSolo(m)
    BY <1>2, <1>3 DEF Escribe, EscribeSolo, memoria, historia
<1>5. PICK n : hilo' = [hilo EXCEPT ![m].van = @ + n]
    BY DEF Escribe
<1> DEFINE r == [hilo[m] EXCEPT !.van = @ + n]
<1>6. hilo' = [hilo EXCEPT ![m] = r] /\ r.pc = "escribe"
    BY <1>1, <1>5 DEF Hilo
<1> HIDE DEF r
<1>7. copia' = copia /\ leida' = leida /\ meta' = meta
    BY DEF Escribe, memoria
<1>8. QED
    BY <1>1, <1>4, <1>6, <1>7, CopiasQuietas

(* next, obtener_bloques_libres.                                           *)
LEMMA PideBloqueDeUno ==
    ASSUME TiposInv, EnOrden, Copias, NEW m \in DOMAIN hilo, PideBloque(m)
    PROVE  PideBloqueSolo(m) /\ Copias'
<1>1. /\ hilo[m].pc = "escribe" /\ hilo[m].pc \in Operando /\ HilosInv /\ hilo[m] \in Hilo
      /\ ~HayBloque(m)
    BY DEF PideBloque, En, Operando, EnOrden, HilosInv
<1>2. copia[m].size = meta[m.especie].size /\ copia[m].bloques = meta[m.especie].bloques
    BY <1>1, SuBase
<1>3. Puntero(m) = PunteroSolo(m) /\ HayBloque(m) = HayBloqueSolo(m)
    BY <1>2 DEF Puntero, PunteroSolo, HayBloque, HayBloqueSolo
<1>4. PideBloqueSolo(m)
    BY <1>2, <1>3 DEF PideBloque, PideBloqueSolo, memoria, historia
<1>5. copia' = copia /\ leida' = leida /\ meta' = meta
    BY DEF PideBloque, memoria, Termina
<1>6. Copias'
  <2>1. CASE bitmap = Numeros
    <3>1. hilo' = hilo
        BY <2>1 DEF PideBloque, Termina
    <3>2. \A u : HayBloque(u)' = HayBloque(u)
        BY <1>5, <3>1 DEF HayBloque, Puntero
    <3>3. QED
        BY <1>5, <3>1, <3>2 DEF Copias
  <2>2. CASE bitmap # Numeros
    <3>1. PICK n : hilo' = [hilo EXCEPT ![m] =
              [@ EXCEPT !.pc = "vuelca", !.visto = bitmap, !.bloque = n]]
        BY <2>2 DEF PideBloque
    <3> DEFINE r == [hilo[m] EXCEPT !.pc = "vuelca", !.visto = bitmap, !.bloque = n]
    <3>2. hilo' = [hilo EXCEPT ![m] = r] /\ r.van = hilo[m].van /\ r.pc = "vuelca"
        BY <1>1, <3>1 DEF Hilo
    <3> HIDE DEF r
    <3>3. hilo'[m].van = hilo[m].van
        BY <1>1, <3>2, UnHilo
    <3>4. ~HayBloque(m)'
        BY <1>1, <1>5, <3>3 DEF HayBloque, Puntero
    <3>5. \A u \in DOMAIN hilo : leida'[u] = NULL
        BY <1>5 DEF Copias
    <3>6. QED
        BY <1>1, <1>2, <1>5, <3>2, <3>4, <3>5, CopiasSiguen
  <2>3. QED
      BY <2>1, <2>2
<1>7. QED
    BY <1>4, <1>6

(* A file that is being written ends where its blocks do, if not before.   *)
LEMMA PunteroDeUno ==
    ASSUME TiposInv, EnOrden, Copias, NEW m \in DOMAIN hilo, En(m, "vuelca"),
           NEW L, L = Len(meta[m.especie].bloques)
    PROVE  Relativo(Puntero(m)) = L
<1> DEFINE f == m.especie
           bl == meta[f].bloques
           p == Puntero(m)
<1>1. /\ hilo[m].pc = "vuelca" /\ fin = "no" /\ "vuelca" \in Operando
      /\ "vuelca" \in Escriben /\ "vuelca" \notin Cortando
    BY DEF En, Operando, Escriben, Escribiendo, Cortando
<1>2. /\ copia[m].size = meta[f].size /\ copia[m].bloques = bl /\ ~HayBloque(m)
    BY <1>1, SuBase DEF Copias
<1>3. /\ L \in Nat /\ meta[f].size \in Nat /\ Suyo(m) /\ Entero(f) /\ hilo[m] \in Hilo
    BY <1>1, OperaDatos
<1>4. p = meta[f].size + hilo[m].van /\ p \in Nat
    BY <1>2, <1>3 DEF Puntero, Hilo
<1>5. Queda(f) = meta[f].size /\ Van(f) = hilo[m].van
    BY <1>1, <1>3 DEF Suyo
<1>6. p <= L * BLOCK_SIZE
    BY <1>3, <1>4, <1>5 DEF Entero, EnDisco
<1>7. ~(Relativo(p) < L)
    BY <1>2 DEF HayBloque
<1> HIDE DEF p
<1>8. PICK q \in Nat, t \in Nat : q = Relativo(p) /\ p = q * BLOCK_SIZE + t
  <2>1. /\ Relativo(p) \in Nat /\ p % BLOCK_SIZE \in 0 .. BLOCK_SIZE - 1
        /\ p = Relativo(p) * BLOCK_SIZE + (p % BLOCK_SIZE)
      BY <1>4, Division
  <2>2. QED
      BY <2>1, Constantes
<1>9. ~(L < q)
  <2>1. L < q => L * BLOCK_SIZE + BLOCK_SIZE <= q * BLOCK_SIZE
      BY <1>3, BloqueAntes
  <2>2. q * BLOCK_SIZE \in Nat /\ L * BLOCK_SIZE \in Nat
      BY <1>3, Constantes
  <2>3. \A x, y, z, w \in Nat : w > 0 => ~(y + w <= x /\ x + z <= y)
      OBVIOUS
  <2>4. q * BLOCK_SIZE + t <= L * BLOCK_SIZE
      BY <1>6, <1>8
  <2>5. QED
      BY <1>8, <2>1, <2>2, <2>3, <2>4, Constantes
<1>10. QED
    BY <1>3, <1>7, <1>8, <1>9 DEF p

(* agregar_bloque_archivo.                                                 *)
LEMMA VuelcaDeUno ==
    ASSUME TiposInv, EnOrden, Copias, NEW m \in DOMAIN hilo, Vuelca(m), Sano'
    PROVE  VuelcaSolo(m) /\ Copias'
<1> DEFINE f == m.especie
           nuevo == hilo[m].bloque
           bl == Append(meta[f].bloques, nuevo)
           md == [meta[f] EXCEPT !.bloques = bl]
           c == [size |-> copia[m].size, bloques |-> bl]
           r == [hilo[m] EXCEPT !.pc = "escribe"]
<1>1. /\ En(m, "vuelca") /\ Leyo(m) /\ hilo[m].pc \in Operando /\ hilo[m] \in Hilo
      /\ HilosInv
    BY DEF Vuelca, En, Operando, EnOrden, HilosInv
<1>2. /\ Base(m) = meta[f] /\ f \in ESPECIES /\ meta[f] \in Metadata /\ leida[m] = NULL
      /\ meta \in [ESPECIES -> Metadata] /\ dir[f] = "listo" /\ [dir EXCEPT ![f] = "listo"] = dir
      /\ copia[m].size = meta[f].size
    BY <1>1, SuBase
<1>3. Relativo(Puntero(m)) = Len(Base(m).bloques)
    BY <1>1, <1>2, PunteroDeUno
<1>4. /\ ~Contains(Base(m).bloques, nuevo)
      /\ \A g \in ESPECIES : nuevo \notin Propios(g)
    BY DEF Sano, Vuelca
<1>5. /\ Toma(m) /\ fin' = fin /\ Guarda(m, md) /\ Copia(m, copia[m].size, bl) /\ disco' = disco
      /\ hilo' = [hilo EXCEPT ![m].pc = "escribe", ![m].van = hilo[m].van]
      /\ UNCHANGED <<abiertos, errada, doble>>
    BY <1>2, <1>3, <1>4 DEF Vuelca
<1>6. hilo' = [hilo EXCEPT ![m].pc = "escribe"] /\ hilo' = [hilo EXCEPT ![m] = r]
      /\ r.pc = "escribe"
    BY <1>1, <1>5 DEF Hilo, HilosInv
<1>7. VuelcaSolo(m)
    BY <1>1, <1>2, <1>4, <1>5, <1>6 DEF VuelcaSolo, Guarda, Toma, Sigue
<1>8. /\ copia' = [copia EXCEPT ![m] = c] /\ c.size = md.size /\ c.bloques = md.bloques
    BY <1>2, <1>5 DEF Copia, Metadata
<1> HIDE DEF r, c, md
<1>9. Copias'
    BY <1>1, <1>5, <1>6, <1>8, CopiasGuarda
<1>10. QED
    BY <1>7, <1>9

(* agregar_byte_archivo.                                                   *)
LEMMA CreceDeUno ==
    ASSUME TiposInv, EnOrden, Copias, NEW m \in DOMAIN hilo, Crece(m)
    PROVE  CreceSolo(m) /\ Copias'
<1> DEFINE f == m.especie
           n == meta[f].size + Len(hilo[m].datos)
           md == [meta[f] EXCEPT !.size = n]
           c == [size |-> n, bloques |-> copia[m].bloques]
           r == [hilo[m] EXCEPT !.pc = "cierra"]
<1>1. /\ En(m, "escribe") /\ Leyo(m) /\ hilo[m].pc \in Operando /\ hilo[m] \in Hilo
    BY DEF Crece, En, Operando, EnOrden, HilosInv
<1>2. /\ Base(m) = meta[f] /\ f \in ESPECIES /\ meta[f] \in Metadata
      /\ meta \in [ESPECIES -> Metadata] /\ dir[f] = "listo" /\ [dir EXCEPT ![f] = "listo"] = dir
      /\ copia[m].bloques = meta[f].bloques
    BY <1>1, SuBase
<1>3. /\ Guarda(m, md) /\ Copia(m, n, copia[m].bloques) /\ Sigue(m, "cierra")
      /\ UNCHANGED <<disco, bitmap, abiertos, fin, historia>>
    BY <1>2 DEF Crece
<1>4. CreceSolo(m)
    BY <1>1, <1>2, <1>3 DEF Crece, CreceSolo, Guarda, historia
<1>5. /\ hilo' = [hilo EXCEPT ![m] = r] /\ r.pc = "cierra"
      /\ copia' = [copia EXCEPT ![m] = c] /\ c.size = md.size /\ c.bloques = md.bloques
    BY <1>1, <1>2, <1>3 DEF Sigue, Copia, Hilo, Metadata
<1> HIDE DEF r, c, md
<1>6. Copias'
    BY <1>1, <1>3, <1>5, CopiasGuarda
<1>7. QED
    BY <1>4, <1>6

(* OPEN becomes N.                                                         *)
LEMMA CierraDeUno ==
    ASSUME TiposInv, EnOrden, Copias, NEW m \in DOMAIN hilo, Cierra(m)
    PROVE  CierraSolo(m) /\ Copias'
<1> DEFINE f == m.especie
           md == [meta[f] EXCEPT !.open = FALSE]
           r == [hilo[m] EXCEPT !.pc = "buscaPos"]
<1>1. /\ En(m, "cierra") /\ Leyo(m) /\ hilo[m].pc \in Operando /\ hilo[m] \in Hilo
    BY DEF Cierra, En, Operando, EnOrden, HilosInv
<1>2. /\ Base(m) = meta[f] /\ f \in ESPECIES /\ meta[f] \in Metadata
      /\ meta \in [ESPECIES -> Metadata] /\ dir[f] = "listo" /\ [dir EXCEPT ![f] = "listo"] = dir
    BY <1>1, SuBase
<1>3. /\ Guarda(m, md) /\ copia' = [copia EXCEPT ![m] = SinCopia] /\ Sigue(m, "buscaPos")
      /\ UNCHANGED <<disco, bitmap, abiertos, fin, historia>>
    BY <1>2 DEF Cierra
<1>4. CierraSolo(m)
    BY <1>1, <1>2, <1>3 DEF CierraSolo, Guarda, historia
<1>5. hilo' = [hilo EXCEPT ![m] = r] /\ r.pc = "buscaPos" /\ "buscaPos" \notin Operando
    BY <1>1, <1>3 DEF Sigue, Hilo, Operando
<1> HIDE DEF r, md
<1>6. Copias'
    BY <1>1, <1>3, <1>5, CopiasGuarda
<1>7. QED
    BY <1>4, <1>6

(* A step that only moves its thread.                                      *)
LEMMA CopiasAlMover ==
    ASSUME EnOrden, Copias, NEW m \in DOMAIN hilo,
           \/ Busca(m) \/ Crea(m) \/ CreaMetadata(m) \/ Abre(m) \/ Agrega(m)
           \/ Libera(m) \/ VuelcaLibre(m) \/ BuscaPos(m) \/ Responde(m)
    PROVE  Copias'
<1>1. HilosInv /\ CarpetasInv /\ hilo[m] \in Hilo /\ m.especie \in ESPECIES
    BY SusMensajes DEF EnOrden, HilosInv
<1> DEFINE Bueno(r) == /\ hilo' = [hilo EXCEPT ![m] = r] /\ r.pc # "vuelca"
                       /\ r.pc \in Operando => hilo[m].pc \in Operando
<1>2. ASSUME NEW p, Sigue(m, p), p # "vuelca", p \in Operando => hilo[m].pc \in Operando
      PROVE  \E r : Bueno(r)
  <2> DEFINE r == [hilo[m] EXCEPT !.pc = p]
  <2>1. hilo' = [hilo EXCEPT ![m] = r] /\ r.pc = p
      BY <1>1, <1>2 DEF Sigue, Hilo
  <2>2. Bueno(r)
      BY <1>2, <2>1
  <2>3. QED
      BY <2>2
<1>3. \A p \in {"abre", "crea", "metadata", "busca", "agrega", "lee", "respondido", "responde", "saca"} :
        p # "vuelca" /\ p \notin Operando
    BY DEF Operando
<1>4. \A p \in {"libera", "vuelcaLibre"} : p # "vuelca" /\ p \in Operando
    BY DEF Operando
<1>5. \E r : Bueno(r)
  <2>1. CASE Busca(m)
    <3> DEFINE r == IF dir[m.especie] # "no" THEN [hilo[m] EXCEPT !.pc = "abre"]
                    ELSE IF m.tipo = "NEW" THEN [hilo[m] EXCEPT !.pc = "crea"]
                    ELSE [hilo[m] EXCEPT !.pc = "responde", !.rta = 0]
    <3>1. hilo' = [hilo EXCEPT ![m] = r]
        BY <2>1 DEF Busca
    <3>2. r.pc \in {"abre", "crea", "responde"}
        BY <1>1 DEF Hilo
    <3> HIDE DEF r
    <3>3. Bueno(r)
        BY <1>3, <3>1, <3>2
    <3>4. QED
        BY <3>3
  <2>2. CASE Crea(m)
      BY <1>2, <1>3, <2>2 DEF Crea
  <2>3. CASE CreaMetadata(m)
      BY <1>2, <1>3, <2>3 DEF CreaMetadata
  <2>4. CASE Abre(m)
      BY <1>2, <1>3, <2>4 DEF Abre
  <2>5. CASE Agrega(m)
      BY <1>2, <1>3, <2>5 DEF Agrega
  <2>6. CASE Libera(m)
    <3> DEFINE r == [hilo[m] EXCEPT !.pc = "vuelcaLibre", !.visto = bitmap]
    <3>1. hilo' = [hilo EXCEPT ![m] = r] /\ r.pc = "vuelcaLibre" /\ hilo[m].pc = "libera"
        BY <1>1, <2>6 DEF Libera, HilosInv, Hilo, En
    <3> HIDE DEF r
    <3>2. Bueno(r)
        BY <1>4, <3>1
    <3>3. QED
        BY <3>2
  <2>7. CASE VuelcaLibre(m)
    <3> DEFINE r == [hilo[m] EXCEPT !.pc = "libera", !.libera = Tail(hilo[m].libera)]
    <3>1. hilo' = [hilo EXCEPT ![m] = r] /\ r.pc = "libera" /\ hilo[m].pc = "vuelcaLibre"
        BY <1>1, <2>7 DEF VuelcaLibre, Hilo, En
    <3> HIDE DEF r
    <3>2. Bueno(r)
        BY <1>4, <3>1
    <3>3. QED
        BY <3>2
  <2>8. CASE BuscaPos(m)
    <3> DEFINE k == SelectInSeq(abiertos, LAMBDA f : f = m.especie)
               r == IF Contains(abiertos, m.especie)
                    THEN [hilo[m] EXCEPT !.pc = "saca", !.pos = k]
                    ELSE [hilo[m] EXCEPT !.pc = "responde"]
    <3>1. hilo' = [hilo EXCEPT ![m] = r]
        BY <2>8 DEF BuscaPos
    <3> HIDE DEF k
    <3>2. r.pc \in {"saca", "responde"}
        BY <1>1 DEF Hilo
    <3> HIDE DEF r
    <3>3. Bueno(r)
        BY <1>3, <3>1, <3>2
    <3>4. QED
        BY <3>3
  <2>9. CASE Responde(m)
      BY <1>2, <1>3, <2>9 DEF Responde
  <2>10. QED
      BY <2>1, <2>2, <2>3, <2>4, <2>5, <2>6, <2>7, <2>8, <2>9
<1>6. copia' = copia /\ leida' = leida
    BY DEF Busca, Crea, CreaMetadata, Abre, Agrega, Libera, VuelcaLibre, BuscaPos, Responde,
           memoria
<1>7. \A f \in ESPECIES : meta'[f] = meta[f]
  <2>1. CASE CreaMetadata(m)
    <3>1. meta[m.especie] = Vacio /\ meta \in [ESPECIES -> Metadata]
        BY <1>1, <2>1 DEF CreaMetadata, En, CarpetasInv
    <3>2. meta' = [meta EXCEPT ![m.especie] = Vacio]
        BY <2>1 DEF CreaMetadata
    <3>3. QED
        BY <3>1, <3>2
  <2>2. CASE ~CreaMetadata(m)
      BY <2>2 DEF Busca, Crea, Abre, Agrega, Libera, VuelcaLibre, BuscaPos, Responde
  <2>3. QED
      BY <2>1, <2>2
<1>8. QED
    BY <1>1, <1>5, <1>6, <1>7, CopiasQuietas

(* Nothing happens to the copies.                                          *)
LEMMA CopiasNada ==
    ASSUME Copias, UNCHANGED <<hilo, meta, copia, leida>>
    PROVE  Copias'
<1>1. \A u : HayBloque(u)' = HayBloque(u)
    BY DEF HayBloque, Puntero
<1>2. QED
    BY <1>1 DEF Copias

(* The removal of an entry of the table.                                   *)
LEMMA CopiasAlSacar ==
    ASSUME EnOrden, Copias, NEW m \in DOMAIN hilo, Saca(m)
    PROVE  Copias'
<1>1. HilosInv /\ hilo[m] \in Hilo
    BY DEF EnOrden, HilosInv
<1>2. CASE hilo[m].pos > Len(abiertos)
    BY <1>2, CopiasNada DEF Saca, Termina, memoria
<1>3. CASE ~(hilo[m].pos > Len(abiertos))
  <2> DEFINE r == [hilo[m] EXCEPT !.pc = "responde"]
  <2>1. hilo' = [hilo EXCEPT ![m] = r] /\ r.pc = "responde" /\ "responde" \notin Operando
      BY <1>1, <1>3 DEF Saca, Sigue, Hilo, Operando
  <2>2. copia' = copia /\ leida' = leida /\ meta' = meta
      BY <1>3 DEF Saca, memoria
  <2> HIDE DEF r
  <2>3. QED
      BY <1>1, <2>1, <2>2, CopiasQuietas
<1>4. QED
    BY <1>2, <1>3

-----------------------------------------------------------------------------
(* The steps until a file is opened twice or gets a block that was in one. *)

Muere == \E c \in Finales : fin = "no" /\ Termina(c)
Solo(m) ==
    \/ Busca(m) \/ Crea(m) \/ CreaMetadata(m) \/ Abre(m) \/ Agrega(m) \/ LeeSolo(m)
    \/ NewSolo(m) \/ CatchSolo(m) \/ GetSolo(m) \/ Libera(m) \/ VuelcaLibre(m) \/ RecortaSolo(m)
    \/ EscribeSolo(m) \/ PideBloqueSolo(m) \/ VuelcaSolo(m) \/ CreceSolo(m)
    \/ CierraSolo(m) \/ BuscaPos(m) \/ Saca(m) \/ Responde(m) \/ Muere

(* A handler is alone with its file, and stays so.                         *)
LEMMA DeUno ==
    ASSUME TiposInv, EnOrden, Copias, NEW m \in DOMAIN hilo,
           Abrir(m) \/ Operar(m) \/ Cerrar(m), Sano'
    PROVE  Solo(m) /\ Copias'
<1>1. ~Relee(m) /\ ~CierraVacia(m)
    BY DEF Sano, Relee, CierraVacia
<1>2. ASSUME Termina("sin_metadata") \/ Termina("sin_bloques"), fin = "no"
      PROVE  Muere /\ Copias'
    BY <1>2, CopiasNada DEF Muere, Finales, Termina, memoria
<1>3. LeeMal(m) => Muere /\ Copias'
    BY <1>2 DEF LeeMal
<1>4. ~Ilegible(m)
  <2>1. ASSUME En(m, "opera") PROVE Legible(m)
      BY <2>1, LegibleSolo
  <2>2. ASSUME En(m, "escribe") PROVE ~(copia[m].size < 0)
    <3>1. fin = "no" /\ hilo[m].pc = "escribe" /\ hilo[m].pc \in Operando
        BY <2>2 DEF En, Operando
    <3>2. copia[m].size = meta[m.especie].size /\ meta[m.especie].size \in Nat
        BY <3>1, SuBase, OperaDatos
    <3>3. QED
        BY <3>2
  <2>3. QED
      BY <2>1, <2>2 DEF Ilegible
<1>5. CASE Abrir(m)
    BY <1>1, <1>3, <1>5, CopiasAlMover, LeeDeUno DEF Abrir, Solo
<1>6. CASE Operar(m)
  <2>1. CASE New(m) \/ Catch(m) \/ Get(m)
      BY <2>1, OperaDeUno DEF Solo
  <2>2. CASE Libera(m) \/ VuelcaLibre(m)
      BY <2>2, CopiasAlMover DEF Solo
  <2>3. CASE Recorta(m)
      BY <1>2, <2>3, RecortaDeUno DEF Solo
  <2>4. CASE Escribe(m) \/ PideBloque(m) \/ Vuelca(m) \/ Crece(m)
      BY <2>4, EscribeDeUno, PideBloqueDeUno, VuelcaDeUno, CreceDeUno DEF Solo
  <2>5. QED
      BY <1>4, <1>6, <2>1, <2>2, <2>3, <2>4 DEF Operar
<1>7. CASE Cerrar(m)
    BY <1>1, <1>7, CopiasAlMover, CopiasAlSacar, CierraDeUno DEF Cerrar, Solo
<1>8. QED
    BY <1>5, <1>6, <1>7

(* What it finds in order it leaves in order.                              *)
LEMMA PasoSolo ==
    ASSUME EnOrden, NEW m \in DOMAIN hilo, Solo(m) PROVE EnOrden'
<1>1. CASE NewSolo(m)
    BY <1>1, PasoNewPrimero, PasoNewMas
<1>2. CASE CatchSolo(m)
    BY <1>2, PasoCatchNada, PasoCatchUno
<1>3. CASE Busca(m) \/ Crea(m) \/ CreaMetadata(m) \/ Abre(m) \/ Agrega(m) \/ LeeSolo(m)
    BY <1>3, PasoBusca, PasoCrea, PasoCreaMetadata, PasoAbre, PasoAgrega, PasoLee
<1>4. CASE GetSolo(m) \/ Libera(m) \/ VuelcaLibre(m) \/ RecortaSolo(m)
    BY <1>4, PasoGet, PasoLibera, PasoVuelcaLibre, PasoRecorta
<1>5. CASE EscribeSolo(m) \/ PideBloqueSolo(m) \/ VuelcaSolo(m) \/ CreceSolo(m)
    BY <1>5, PasoEscribe, PasoPideBloque, PasoVuelca, PasoCrece
<1>6. CASE CierraSolo(m) \/ BuscaPos(m) \/ Saca(m) \/ Responde(m)
    BY <1>6, PasoCierra, PasoBuscaPos, PasoSaca, PasoResponde
<1>7. CASE Muere
    BY <1>7, PasoTermina DEF Muere
<1>8. QED
    BY <1>1, <1>2, <1>3, <1>4, <1>5, <1>6, <1>7 DEF Solo

(* What is noted of the history stays, and only who gets a block notes that *)
(* it is shared.                                                           *)
LEMMA Anotado ==
    ASSUME NEW m \in DOMAIN hilo, Abrir(m) \/ Operar(m) \/ Cerrar(m), ~Vuelca(m)
    PROVE  compartido' = compartido /\ (pisado => pisado') /\ (doble => doble')
<1> DEFINE Firme == compartido' = compartido /\ (pisado => pisado') /\ (doble => doble')
<1>1. Abrir(m) => Firme
  <2>1. Busca(m) \/ Crea(m) \/ CreaMetadata(m) \/ Abre(m) \/ Agrega(m) => Firme
      BY DEF Busca, Crea, CreaMetadata, Abre, Agrega, historia
  <2>2. Relee(m) => Firme
      BY DEF Relee, Toma
  <2>3. Lee(m) => Firme
    <3>1. ASSUME Lee(m)
          PROVE  /\ compartido' = compartido /\ pisado' = pisado
                 /\ doble' = (doble \/ HayOtro(m))
        BY <3>1 DEF Lee
    <3>2. QED
        BY <3>1, Zenon
  <2>4. LeeMal(m) => Firme
      BY DEF LeeMal, Termina, historia
  <2> HIDE DEF Firme
  <2>5. QED
      BY <2>1, <2>2, <2>3, <2>4 DEF Abrir
<1>2. Operar(m) => Firme
  <2>1. New(m) => Firme
      BY DEF New, historia
  <2>2. Catch(m) => Firme
      BY DEF Catch, historia
  <2>3. Get(m) \/ Libera(m) => Firme
      BY DEF Get, Libera, historia
  <2>4. VuelcaLibre(m) => Firme
    <3>1. ASSUME VuelcaLibre(m)
          PROVE  /\ compartido' = compartido /\ doble' = doble
                 /\ pisado' = (pisado \/ bitmap # hilo[m].visto)
        BY <3>1 DEF VuelcaLibre
    <3>2. QED
        BY <3>1, Zenon
  <2>5. Recorta(m) => Firme
      BY DEF Recorta, Termina, historia
  <2>6. Escribe(m) \/ PideBloque(m) \/ Crece(m) => Firme
      BY DEF Escribe, PideBloque, Crece, Termina, historia
  <2>7. Ilegible(m) => Firme
      BY DEF Ilegible, Termina, historia
  <2> HIDE DEF Firme
  <2>8. QED
      BY <2>1, <2>2, <2>3, <2>4, <2>5, <2>6, <2>7 DEF Operar
<1>3. Cerrar(m) => Firme
    BY DEF Cerrar, Cierra, CierraVacia, BuscaPos, Saca, Responde, Termina, historia
<1>4. QED
    BY <1>1, <1>2, <1>3

(* Nothing is in order again.                                              *)
LEMMA SanoAntes ==
    ASSUME NEW m \in DOMAIN hilo, Abrir(m) \/ Operar(m) \/ Cerrar(m), Sano'
    PROVE  Sano
<1>1. CASE Vuelca(m)
  <2>1. doble' = doble /\ (compartido => compartido')
      BY <1>1 DEF Vuelca
  <2>2. QED
      BY <2>1 DEF Sano
<1>2. CASE ~Vuelca(m)
    BY <1>2, Anotado DEF Sano
<1>3. QED
    BY <1>1, <1>2

(* No block is shared before a stale bitmap is written or a file opened    *)
(* twice.                                                                  *)
LEMMA CompartirSigue ==
    ASSUME IInv, NEW m \in DOMAIN hilo, Abrir(m) \/ Operar(m) \/ Cerrar(m)
    PROVE  SinCompartir'
<1>1. CASE Vuelca(m)
  <2>1. ASSUME ~pisado', ~doble' PROVE ~compartido'
    <3>1. ~doble /\ doble' = doble
        BY <1>1, <2>1 DEF Vuelca
    <3>2. leida[m] # NULL => ~pisado
        BY <1>1, <2>1 DEF Vuelca
    <3>3. leida[m] = NULL => pisado' = (pisado \/ bitmap # hilo[m].visto)
        BY <1>1 DEF Vuelca, Toma
    <3>4. ~pisado
        BY <2>1, <3>2, <3>3 DEF IInv, TiposInv
    <3>5. Sano /\ TiposInv /\ EnOrden /\ Copias
        BY <3>1, <3>4 DEF IInv, SinCompartir, Sano
    <3>6. /\ leida[m] = NULL /\ hilo[m].pc = "vuelca" /\ fin = "no" /\ hilo[m].pc \in Operando
        BY <1>1, <3>5 DEF Vuelca, En, Copias, Operando
    <3>7. \A g \in ESPECIES : hilo[m].bloque \notin Tomados(g)
        BY <2>1, <3>3, <3>5, <3>6, NadieLoTiene
    <3>8. \A g \in ESPECIES : hilo[m].bloque \notin Propios(g)
        BY <3>7 DEF Tomados
    <3>9. ~Contains(Base(m).bloques, hilo[m].bloque)
      <4>1. /\ Base(m) = meta[m.especie] /\ m.especie \in ESPECIES /\ Suyo(m)
            /\ "vuelca" \notin Cortando
          BY <3>5, <3>6, SuBase, OperaDatos DEF Cortando
      <4>2. Propios(m.especie) = ToSet(meta[m.especie].bloques)
          BY <3>6, <4>1 DEF Suyo
      <4>3. QED
          BY <3>8, <4>1, <4>2 DEF Contains, ToSet
    <3>10. QED
        BY <1>1, <3>5, <3>8, <3>9 DEF Vuelca, Sano
  <2>2. QED
      BY <2>1 DEF SinCompartir
<1>2. CASE ~Vuelca(m)
    BY <1>2, Anotado DEF IInv, SinCompartir
<1>3. QED
    BY <1>1, <1>2

-----------------------------------------------------------------------------
(* The types, of every step.                                               *)

(* A step of a thread that leaves every variable with its type.            *)
LEMMA TiposSiguen ==
    ASSUME TiposInv, NEW m, NEW h, Turno(m, h), Entradas',
           dir' \in [ESPECIES -> {"no", "carpeta", "listo"}], meta' \in [ESPECIES -> Archivo],
           copia' \in [DOMAIN hilo -> Ficha], leida' \in [DOMAIN hilo -> Archivo \union {NULL}],
           DiscoDe(disco'), bitmap' \subseteq Numeros,
           fin' \in Finales \union {"ilegible", "bloque_doble"},
           pisado' \in BOOLEAN, doble' \in BOOLEAN, compartido' \in BOOLEAN
    PROVE  TiposInv'
<1>1. HilosInv' /\ DOMAIN hilo' = DOMAIN hilo
    BY LosHilos DEF TiposInv
<1>2. QED
    BY <1>1 DEF TiposInv, DiscoDe

(* The same of one that writes only the table of open files.               *)
LEMMA TiposDelHilo ==
    ASSUME TiposInv, NEW m, NEW h, Turno(m, h), Entradas',
           dir' \in [ESPECIES -> {"no", "carpeta", "listo"}], meta' \in [ESPECIES -> Archivo],
           UNCHANGED <<disco, bitmap, memoria, fin, pisado, doble, compartido>>
    PROVE  TiposInv'
<1>1. UNCHANGED <<copia, leida>>
    BY DEF memoria
<1>2. QED
    BY <1>1, TiposSiguen DEF TiposInv

(* The process dies.                                                       *)
LEMMA TiposAlMorir ==
    ASSUME TiposInv, NEW c \in Finales \union {"ilegible", "bloque_doble"}, Termina(c)
    PROVE  TiposInv'
<1>1. /\ UNCHANGED <<dir, meta, disco, bitmap, abiertos, hilo, copia, leida>> /\ fin' = c
      /\ UNCHANGED <<errada, pisado, doble, compartido>>
    BY DEF Termina, memoria, historia
<1>2. HilosInv'
    BY <1>1 DEF HilosInv, TiposInv
<1>3. Entradas'
    BY <1>1 DEF Entradas, De, TiposInv
<1>4. QED
    BY <1>1, <1>2, <1>3 DEF TiposInv, DiscoDe

(* A thread that only goes somewhere else.                                 *)
LEMMA TurnoSigue ==
    ASSUME HilosInv, NEW m \in DOMAIN hilo, hilo[m].libera = <<>>,
           NEW p \in Pcs \ (Cortando \union {"vuelca", "saca"}), Sigue(m, p),
           p \in SinRespuesta => hilo[m].pc \in SinRespuesta
    PROVE  \E h : Turno(m, h) /\ h.pc = p
<1> DEFINE h0 == hilo[m]
           h == [h0 EXCEPT !.pc = p]
<1>1. h0 \in Hilo /\ HiloBien(h0)
    BY DEF HilosInv
<1>2. /\ h \in Hilo /\ h.pc = p /\ h.rta = h0.rta /\ h.libera = h0.libera /\ h.van = h0.van
      /\ h.datos = h0.datos /\ h.vistos = h0.vistos
    BY <1>1 DEF Hilo
<1>3. p \notin Cortando /\ p # "vuelcaLibre" /\ p # "vuelca" /\ p # "saca"
    BY DEF Cortando
<1> HIDE DEF h
<1>4. HiloBien(h)
    BY <1>1, <1>2, <1>3 DEF HiloBien
<1>5. hilo' = [hilo EXCEPT ![m] = h]
    BY DEF h, Sigue
<1>6. QED
    BY <1>2, <1>4, <1>5 DEF Turno

(* What a thread is and has at hand.                                       *)
LEMMA SuTipo ==
    ASSUME TiposInv, NEW m \in DOMAIN hilo
    PROVE  /\ HilosInv /\ Entradas /\ hilo[m] \in Hilo /\ HiloBien(hilo[m])
           /\ m.especie \in ESPECIES /\ m.lugar \in LUGARES /\ m.cant \in 1 .. 9
           /\ copia[m] \in Ficha /\ copia[m].size \in Int /\ copia[m].bloques \in Seq(Numeros)
           /\ Base(m) \in Archivo /\ Base(m).size \in Int /\ Base(m).bloques \in Seq(Numeros)
           /\ meta \in [ESPECIES -> Archivo] /\ DiscoDe(disco) /\ bitmap \subseteq Numeros
<1>1. HilosInv /\ Entradas
    BY DEF TiposInv
<1>2. hilo[m] \in Hilo /\ HiloBien(hilo[m])
    BY <1>1 DEF HilosInv
<1>3. m.especie \in ESPECIES /\ m.lugar \in LUGARES /\ m.cant \in 1 .. 9
    BY <1>1, SusMensajes
<1>4. copia[m] \in Ficha
    BY DEF TiposInv
<1>5. Base(m) \in Archivo
  <2>1. leida[m] \in Archivo \union {NULL} /\ meta[m.especie] \in Archivo
      BY <1>3 DEF TiposInv
  <2>2. QED
      BY <2>1 DEF Base
<1>6. copia[m].size \in Int /\ copia[m].bloques \in Seq(Numeros)
    BY <1>4 DEF Ficha
<1>7. Base(m).size \in Int /\ Base(m).bloques \in Seq(Numeros)
    BY <1>5 DEF Archivo
<1>8. QED
    BY <1>1, <1>2, <1>3, <1>4, <1>5, <1>6, <1>7 DEF TiposInv

(* A step that saves a Metadata.bin.                                       *)
LEMMA GuardaTipos ==
    ASSUME TiposInv, NEW m \in DOMAIN hilo, NEW md \in Archivo, Guarda(m, md)
    PROVE  /\ meta' \in [ESPECIES -> Archivo]
           /\ dir' \in [ESPECIES -> {"no", "carpeta", "listo"}]
           /\ leida' \in [DOMAIN hilo -> Archivo \union {NULL}]
<1>1. meta' = [meta EXCEPT ![m.especie] = md] /\ meta \in [ESPECIES -> Archivo]
    BY DEF Guarda, TiposInv
<1>2. dir' = [dir EXCEPT ![m.especie] = "listo"] /\ dir \in [ESPECIES -> {"no", "carpeta", "listo"}]
    BY DEF Guarda, TiposInv
<1>3. /\ leida' = [leida EXCEPT ![m] = NULL]
      /\ leida \in [DOMAIN hilo -> Archivo \union {NULL}]
    BY DEF Guarda, TiposInv
<1>4. QED
    BY <1>1, <1>2, <1>3

(* The same of the copy.                                                   *)
LEMMA CopiaTipos ==
    ASSUME TiposInv, NEW m \in DOMAIN hilo, NEW n \in Int, NEW bl \in Seq(Numeros),
           Copia(m, n, bl)
    PROVE  copia' \in [DOMAIN hilo -> Ficha]
<1>1. [size |-> n, bloques |-> bl] \in Ficha
    BY DEF Ficha
<1>2. copia \in [DOMAIN hilo -> Ficha]
    BY DEF TiposInv
<1>3. QED
    BY <1>1, <1>2 DEF Copia

(* write_tall_grass leaves no more than a block in each.                   *)
LEMMA GrabadoTipos ==
    ASSUME DiscoDe(disco), NEW bl \in Seq(Numeros), NEW pos \in Nat, NEW s \in Seq(Byte)
    PROVE  DiscoDe(Grabado(bl, pos, s))
<1>1. DOMAIN bl = 1 .. Len(bl) /\ Len(s) \in Nat /\ BLOCK_SIZE \in Nat /\ BLOCK_SIZE > 0
    BY LenProperties, Constantes
<1> DEFINE T == Byte \union {NULL}
<1>2. ASSUME NEW b \in Numeros
      PROVE  Grabado(bl, pos, s)[b] \in Seq(T) /\ Len(Grabado(bl, pos, s)[b]) <= BLOCK_SIZE
  <2> DEFINE k == CHOOSE j \in DOMAIN bl : bl[j] = b
             ini == k * BLOCK_SIZE - BLOCK_SIZE
             llega == IF pos + Len(s) - ini < BLOCK_SIZE THEN pos + Len(s) - ini ELSE BLOCK_SIZE
             largo == IF llega > Len(disco[b]) THEN llega ELSE Len(disco[b])
             e == [o \in 1 .. largo |->
                     IF ini + o > pos /\ ini + o <= pos + Len(s) THEN s[ini + o - pos]
                     ELSE Estirado(disco[b], largo)[o]]
             x == Grabado(bl, pos, s)[b]
  <2>1. /\ disco[b] \in Seq(T) /\ Len(disco[b]) \in Nat /\ Len(disco[b]) <= BLOCK_SIZE
      BY LenProperties DEF DiscoDe
  <2>2. CASE ~Contains(bl, b)
    <3>1. x = disco[b]
        BY <2>2 DEF Grabado
    <3>2. QED
        BY <2>1, <3>1
  <2>3. CASE Contains(bl, b)
    <3>1. x = IF ini + BLOCK_SIZE <= pos \/ ini >= pos + Len(s) THEN disco[b] ELSE e
        BY <2>3, Zenon DEF Grabado
    <3>2. k \in Nat
      <4>1. k \in DOMAIN bl
          BY <2>3 DEF Contains
      <4>2. QED
          BY <1>1, <4>1
    <3>3. ini \in Int
        BY <1>1, <3>2
    <3> HIDE DEF ini
    <3>4. ASSUME ~(ini >= pos + Len(s))
          PROVE  largo \in Nat /\ largo <= BLOCK_SIZE
      <4>1. llega \in Nat /\ llega <= BLOCK_SIZE
          BY <1>1, <3>3, <3>4
      <4> HIDE DEF llega
      <4>2. QED
          BY <1>1, <2>1, <4>1
    <3>5. ASSUME ~(ini >= pos + Len(s)) PROVE e \in [1 .. largo -> T]
      <4> HIDE DEF llega, T
      <4>1. PICK n \in Nat : n = largo
          BY <3>4, <3>5
      <4> HIDE DEF largo
      <4>2. ASSUME NEW o \in 1 .. largo PROVE e[o] \in T
        <5>1. o \in Nat /\ o >= 1
            BY <4>1
        <5>2. CASE ini + o > pos /\ ini + o <= pos + Len(s)
          <6>1. ini + o - pos \in 1 .. Len(s)
              BY <1>1, <3>3, <5>1, <5>2
          <6>2. s[ini + o - pos] \in Byte
              BY <6>1, ElementOfSeq
          <6>3. QED
              BY <5>2, <6>2 DEF T
        <5>3. CASE ~(ini + o > pos /\ ini + o <= pos + Len(s))
          <6>1. e[o] = IF o <= Len(disco[b]) THEN disco[b][o] ELSE NULL
              BY <5>3 DEF Estirado
          <6>2. o <= Len(disco[b]) => disco[b][o] \in T
            <7>1. o <= Len(disco[b]) => o \in 1 .. Len(disco[b])
                BY <2>1, <5>1
            <7>2. QED
                BY <2>1, <7>1, ElementOfSeq
          <6>3. QED
              BY <6>1, <6>2 DEF T
        <5>4. QED
            BY <5>2, <5>3
      <4>3. QED
          BY <4>2
    <3>6. ASSUME ~(ini >= pos + Len(s)) PROVE e \in Seq(T) /\ Len(e) <= BLOCK_SIZE
      <4>1. PICK n \in Nat : n = largo /\ n <= BLOCK_SIZE
          BY <3>4, <3>6
      <4>2. e \in [1 .. n -> T]
          BY <3>5, <3>6, <4>1
      <4> HIDE DEF e, T, largo
      <4>3. e \in Seq(T) /\ Len(e) = n
          BY <4>1, <4>2, SeqDeFuncion
      <4>4. QED
          BY <4>1, <4>3
    <3> HIDE DEF e, T
    <3>7. QED
        BY <2>1, <3>1, <3>6
  <2>4. QED
      BY <2>2, <2>3
<1>3. QED
    BY <1>2 DEF DiscoDe

(* And so does truncate_tall_grass.                                        *)
LEMMA CortadoTipos ==
    ASSUME NEW d, DiscoDe(d), NEW bl, NEW n \in Nat
    PROVE  DiscoDe(Cortado(d, bl, n))
<1> DEFINE T == Byte \union {NULL}
           r == n % BLOCK_SIZE
<1>1. r \in Nat /\ r <= BLOCK_SIZE
  <2>1. r \in 0 .. BLOCK_SIZE - 1
      BY Division
  <2> HIDE DEF r
  <2>2. QED
      BY <2>1, Constantes
<1>2. ASSUME NEW b \in Numeros
      PROVE  Cortado(d, bl, n)[b] \in Seq(T) /\ Len(Cortado(d, bl, n)[b]) <= BLOCK_SIZE
  <2> DEFINE x == Cortado(d, bl, n)[b]
  <2>1. d[b] \in Seq(T) /\ Len(d[b]) \in Nat /\ Len(d[b]) <= BLOCK_SIZE
      BY LenProperties DEF DiscoDe
  <2>2. x = d[b] \/ x = Estirado(d[b], r) \/ x = <<>>
      BY DEF Cortado
  <2>3. Estirado(d[b], r) \in Seq(T) /\ Len(Estirado(d[b], r)) <= BLOCK_SIZE
    <3> HIDE DEF r
    <3>1. ASSUME NEW o \in 1 .. r
          PROVE  (IF o <= Len(d[b]) THEN d[b][o] ELSE NULL) \in T
      <4>1. o <= Len(d[b]) => o \in 1 .. Len(d[b])
          BY <1>1, <2>1
      <4>2. o <= Len(d[b]) => d[b][o] \in T
          BY <2>1, <4>1, ElementOfSeq
      <4>3. QED
          BY <4>2
    <3>2. Estirado(d[b], r) \in [1 .. r -> T]
        BY <3>1 DEF Estirado
    <3>3. Estirado(d[b], r) \in Seq(T) /\ Len(Estirado(d[b], r)) = r
        BY <1>1, <3>2, SeqDeFuncion
    <3>4. QED
        BY <1>1, <3>3
  <2>4. <<>> \in Seq(T) /\ Len(<<>>) = 0
      OBVIOUS
  <2>5. x \in Seq(T) /\ Len(x) <= BLOCK_SIZE
    <3> HIDE DEF x, T, r
    <3>1. 0 <= BLOCK_SIZE
        BY Constantes
    <3>2. QED
        BY <2>1, <2>2, <2>3, <2>4, <3>1
  <2>6. QED
      BY <2>5
<1>3. QED
    BY <1>2 DEF DiscoDe

(* The steps up to the table of open files.                                *)
LEMMA TiposAlEntrar ==
    ASSUME TiposInv, NEW m \in DOMAIN hilo,
           Busca(m) \/ Crea(m) \/ CreaMetadata(m) \/ Abre(m) \/ Agrega(m)
    PROVE  TiposInv'
<1> DEFINE h0 == hilo[m]
           D == [ESPECIES -> {"no", "carpeta", "listo"}]
<1>1. /\ HilosInv /\ Entradas /\ h0 \in Hilo /\ HiloBien(h0) /\ m.especie \in ESPECIES
      /\ meta \in [ESPECIES -> Archivo]
    BY SuTipo
<1>2. dir \in D
    BY DEF TiposInv
<1>3. h0.pc \in {"busca", "crea", "metadata", "abre", "agrega"}
    BY DEF Busca, Crea, CreaMetadata, Abre, Agrega, En
<1>4. h0.pc \in SinRespuesta /\ h0.pc \notin Cortando /\ h0.pc \notin EnTabla
    BY <1>3 DEF SinRespuesta, Cortando, EnTabla, Operando, Cerrando
<1>5. h0.libera = <<>>
    BY <1>1, <1>4 DEF HiloBien
<1>6. UNCHANGED <<disco, bitmap, memoria, fin, errada, pisado, doble, compartido>>
    BY DEF Busca, Crea, CreaMetadata, Abre, Agrega, historia
<1>7. \A p \in {"abre", "crea", "metadata", "busca", "agrega", "lee"} :
        /\ p \in Pcs \ (Cortando \union {"vuelca", "saca"}) /\ p \in SinRespuesta
        /\ p \in EnTabla <=> p = "lee"
    BY DEF Pcs, SinRespuesta, Cortando, EnTabla, Operando, Cerrando
<1>8. ASSUME NEW p \in {"abre", "crea", "metadata", "busca", "agrega"}, Sigue(m, p),
             abiertos' = abiertos, dir' \in D, meta' \in [ESPECIES -> Archivo]
      PROVE  TiposInv'
  <2>1. PICK h : Turno(m, h) /\ h.pc = p
      BY <1>1, <1>4, <1>5, <1>7, <1>8, TurnoSigue
  <2>2. Entradas'
      BY <1>1, <1>4, <1>6, <1>7, <1>8, <2>1, EntradasQuietas
  <2>3. QED
      BY <1>6, <1>8, <2>1, <2>2, TiposDelHilo
<1>9. CASE Busca(m)
  <2>1. dir' = dir /\ meta' = meta /\ abiertos' = abiertos
      BY <1>9 DEF Busca
  <2>2. CASE Sigue(m, "abre") \/ Sigue(m, "crea")
      BY <1>1, <1>2, <1>8, <2>1, <2>2
  <2>3. CASE hilo' = [hilo EXCEPT ![m] = [@ EXCEPT !.pc = "responde", !.rta = 0]]
    <3> DEFINE h == [h0 EXCEPT !.pc = "responde", !.rta = 0]
    <3>1. /\ h \in Hilo /\ h.pc = "responde" /\ h.libera = <<>> /\ h.van = h0.van
          /\ h.datos = h0.datos /\ hilo' = [hilo EXCEPT ![m] = h]
        BY <1>1, <1>5, <2>3 DEF Hilo, Pcs
    <3> HIDE DEF h
    <3>2. "responde" \notin SinRespuesta \union Cortando /\ "responde" \notin EnTabla
        BY DEF SinRespuesta, Cortando, EnTabla, Operando, Cerrando
    <3>3. HiloBien(h)
        BY <1>1, <3>1, <3>2 DEF HiloBien
    <3>4. Turno(m, h)
        BY <3>1, <3>3 DEF Turno
    <3>5. Entradas'
        BY <1>1, <1>4, <1>6, <2>1, <3>1, <3>2, <3>4, EntradasQuietas
    <3>6. QED
        BY <1>1, <1>2, <1>6, <2>1, <3>4, <3>5, TiposDelHilo
  <2>4. QED
      BY <1>1, <1>9, <2>2, <2>3 DEF Busca, Sigue, HilosInv
<1>10. CASE Crea(m)
  <2>1. dir' \in D
      BY <1>2, <1>10 DEF Crea
  <2>2. meta' = meta /\ abiertos' = abiertos /\ (Sigue(m, "metadata") \/ Sigue(m, "abre"))
      BY <1>10 DEF Crea
  <2>3. QED
      BY <1>1, <1>8, <2>1, <2>2
<1>11. CASE CreaMetadata(m)
  <2>1. dir' \in D
      BY <1>2, <1>11 DEF CreaMetadata
  <2>2. Vacio \in Archivo
      BY DEF Vacio, Archivo
  <2>3. meta' \in [ESPECIES -> Archivo]
      BY <1>1, <1>11, <2>2 DEF CreaMetadata
  <2>4. abiertos' = abiertos /\ Sigue(m, "abre")
      BY <1>11 DEF CreaMetadata
  <2>5. QED
      BY <1>8, <2>1, <2>3, <2>4
<1>12. CASE Abre(m)
  <2>1. /\ dir' = dir /\ meta' = meta /\ abiertos' = abiertos
        /\ Sigue(m, "busca") \/ Sigue(m, "agrega")
      BY <1>12 DEF Abre
  <2>2. QED
      BY <1>1, <1>2, <1>8, <2>1
<1>13. CASE Agrega(m)
  <2>1. /\ dir' = dir /\ meta' = meta /\ abiertos' = Append(abiertos, m.especie)
        /\ Sigue(m, "lee")
      BY <1>13 DEF Agrega
  <2>2. PICK h : Turno(m, h) /\ h.pc = "lee"
      BY <1>1, <1>4, <1>5, <1>7, <2>1, TurnoSigue
  <2>3. Entradas'
      BY <1>1, <1>4, <1>6, <2>1, <2>2, EntradasAgrega
  <2>4. QED
      BY <1>1, <1>2, <1>6, <2>1, <2>2, <2>3, TiposDelHilo
<1>14. QED
    BY <1>9, <1>10, <1>11, <1>12, <1>13

(* A thread with an entry that works on its file, or begins or ends to.    *)
LEMMA EntradasAlOperar ==
    ASSUME HilosInv, Entradas, NEW m, NEW h, Turno(m, h),
           hilo[m].pc \in {"lee"} \union Operando, h.pc \in Operando \union {"buscaPos"},
           abiertos' = abiertos, errada' = errada
    PROVE  Entradas'
<1>1. h.pc \in EnTabla /\ hilo[m].pc \in EnTabla
    BY DEF EnTabla, Cerrando
<1>2. QED
    BY <1>1, EntradasQuietas

(* The bitmap with one block more.                                         *)
LEMMA TomaTipos ==
    ASSUME TiposInv, NEW m \in DOMAIN hilo, hilo[m].pc = "vuelca", Toma(m)
    PROVE  bitmap' \subseteq Numeros /\ pisado' \in BOOLEAN
<1>1. hilo[m].bloque \in Numeros /\ hilo[m].visto \subseteq Numeros
    BY SuTipo DEF HiloBien, Hilo
<1>2. bitmap' = hilo[m].visto \union {hilo[m].bloque}
    BY DEF Toma
<1>3. pisado' \in BOOLEAN
  <2>1. pisado' = (pisado \/ bitmap # hilo[m].visto)
      BY DEF Toma
  <2>2. QED
      BY <2>1, Zenon
<1>4. QED
    BY <1>1, <1>2, <1>3

(* config_create and config_save as two steps, and as one.                 *)
LEMMA TiposAlLeer ==
    ASSUME TiposInv, NEW m \in DOMAIN hilo, Relee(m) \/ Lee(m)
    PROVE  TiposInv'
<1>1. CASE Relee(m)
  <2>1. /\ leida' = [leida EXCEPT ![m] = meta[m.especie]] /\ doble' = TRUE
        /\ UNCHANGED <<dir, meta, disco, abiertos, hilo, copia, fin, errada, compartido>>
        /\ (hilo[m].pc = "vuelca" /\ Toma(m)) \/ UNCHANGED <<bitmap, pisado>>
      BY <1>1 DEF Relee
  <2>2. bitmap' \subseteq Numeros /\ pisado' \in BOOLEAN
      BY <2>1, TomaTipos DEF TiposInv
  <2>3. leida' \in [DOMAIN hilo -> Archivo \union {NULL}]
    <3>1. meta[m.especie] \in Archivo
        BY SuTipo
    <3>2. leida \in [DOMAIN hilo -> Archivo \union {NULL}]
        BY DEF TiposInv
    <3>3. QED
        BY <2>1, <3>1, <3>2
  <2>4. HilosInv'
      BY <2>1 DEF HilosInv, TiposInv
  <2>5. Entradas'
      BY <2>1 DEF Entradas, De, TiposInv
  <2>6. QED
      BY <2>1, <2>2, <2>3, <2>4, <2>5 DEF TiposInv, DiscoDe
<1>2. CASE Lee(m)
  <2> DEFINE md == [Base(m) EXCEPT !.open = TRUE]
  <2>1. /\ hilo[m].pc = "lee" /\ Copia(m, Base(m).size, Base(m).bloques) /\ Guarda(m, md)
        /\ Sigue(m, "opera")
        /\ UNCHANGED <<disco, bitmap, abiertos, fin, errada, pisado, compartido>>
        /\ doble' = (doble \/ HayOtro(m))
      BY <1>2 DEF Lee, En
  <2>2. /\ HilosInv /\ Entradas /\ HiloBien(hilo[m]) /\ Base(m) \in Archivo
        /\ Base(m).size \in Int /\ Base(m).bloques \in Seq(Numeros)
      BY SuTipo
  <2>3. doble' \in BOOLEAN
      BY <2>1, Zenon
  <2>4. md \in Archivo
      BY <2>2 DEF Archivo
  <2>5. /\ "opera" \in Pcs \ (Cortando \union {"vuelca", "saca"}) /\ "lee" \in SinRespuesta
        /\ "lee" \notin Cortando /\ "opera" \in Operando
      BY DEF Pcs, SinRespuesta, Cortando, Operando
  <2>6. PICK h : Turno(m, h) /\ h.pc = "opera"
    <3>1. hilo[m].libera = <<>>
        BY <2>1, <2>2, <2>5 DEF HiloBien
    <3>2. QED
        BY <2>1, <2>2, <2>5, <3>1, TurnoSigue
  <2>7. Entradas'
      BY <2>1, <2>2, <2>5, <2>6, EntradasAlOperar
  <2> HIDE DEF md
  <2>8. /\ meta' \in [ESPECIES -> Archivo]
        /\ dir' \in [ESPECIES -> {"no", "carpeta", "listo"}]
        /\ leida' \in [DOMAIN hilo -> Archivo \union {NULL}]
      BY <2>1, <2>4, GuardaTipos
  <2>9. copia' \in [DOMAIN hilo -> Ficha]
      BY <2>1, <2>2, CopiaTipos
  <2>10. QED
      BY <2>1, <2>3, <2>6, <2>7, <2>8, <2>9, TiposSiguen DEF TiposInv
<1>3. QED
    BY <1>1, <1>2

(* A step on an open file that writes at most its bytes.                   *)
LEMMA TiposAlOperar ==
    ASSUME TiposInv, NEW m, NEW h, Turno(m, h), hilo[m].pc \in Operando, h.pc \in Operando,
           DiscoDe(disco'), UNCHANGED <<dir, meta, bitmap, abiertos, memoria, fin, historia>>
    PROVE  TiposInv'
<1>1. /\ UNCHANGED <<copia, leida>>
      /\ UNCHANGED <<errada, pisado, doble, compartido>>
    BY DEF memoria, historia
<1>2. Entradas'
    BY <1>1, EntradasAlOperar DEF TiposInv
<1>3. QED
    BY <1>1, <1>2, TiposSiguen DEF TiposInv

(* The text of a file that can be read, and its blocks.                    *)
LEMMA TextoLegible ==
    ASSUME TiposInv, NEW m \in DOMAIN hilo, Legible(m), NEW s, s = TextoDe(m),
           NEW i, i = Donde(s, m.lugar), i # 0
    PROVE  /\ s \in Seq(Byte) /\ i \in 1 .. Len(s) /\ s[i] \in LUGARES /\ RegistroEn(s, i)
           /\ Len(copia[m].bloques) >= 1 /\ Cuantos(m) = Cantidad(s, i)
<1> DEFINE n == copia[m].size
           bl == copia[m].bloques
           l == m.lugar
<1>1. n \in Nat /\ n <= Len(bl) * BLOCK_SIZE /\ Registros(s) /\ l \in LUGARES
      /\ bl \in Seq(Numeros) /\ Len(bl) \in Nat
  <2>1. n \in 0 .. Len(bl) * BLOCK_SIZE /\ Registros(s)
      BY DEF Legible, EstaEntero
  <2>2. bl \in Seq(Numeros) /\ l \in LUGARES /\ Len(bl) \in Nat
      BY SuTipo, LenProperties
  <2>3. Len(bl) * BLOCK_SIZE \in Nat
    <3>1. BLOCK_SIZE \in Nat
        BY Constantes
    <3>2. \A x, y \in Nat : x * y \in Nat
        OBVIOUS
    <3>3. QED
        BY ONLY <2>2, <3>1, <3>2
  <2>4. QED
      BY <2>1, <2>2, <2>3
<1>2. DOMAIN s = 1 .. n /\ s = [j \in 1 .. n |-> s[j]]
    BY DEF TextoDe, Leidos
<1>3. \A j \in 1 .. n : s[j] \in Byte
    BY <1>1, <1>2 DEF Registros, Byte
<1>4. s \in Seq(Byte) /\ Len(s) = n
  <2>1. s \in [1 .. n -> Byte]
      BY <1>2, <1>3
  <2> HIDE DEF n
  <2>2. QED
      BY <1>1, <2>1, SeqDeFuncion
<1>5. i \in 1 .. n /\ s[i] = l
  <2> DEFINE I == {j \in 1 .. n : s[j] = l}
             Primera(j) == s[j] = l /\ \A k \in 1 .. j - 1 : s[k] # l
  <2> HIDE DEF n
  <2>1. I # {} /\ I \in SUBSET Nat
      BY <1>1, <1>2 DEF Donde
  <2>2. PICK j \in I : \A k \in I : j <= k
      BY <2>1, MinimoNat
  <2>3. \A k \in 1 .. j - 1 : s[k] # l
    <3>1. ASSUME NEW k \in 1 .. j - 1, s[k] = l PROVE FALSE
      <4>1. k \in I /\ k < j
          BY <1>1, <2>2, <3>1
      <4>2. QED
          BY <1>1, <2>2, <4>1
    <3>2. QED
        BY <3>1
  <2>4. j \in 1 .. n /\ Primera(j)
      BY <2>2, <2>3
  <2>5. i = CHOOSE k \in 1 .. n : Primera(k)
      BY <1>2, Zenon DEF Donde
  <2> HIDE DEF Primera, I
  <2>6. i \in 1 .. n /\ Primera(i)
      BY <2>4, <2>5
  <2>7. QED
      BY <2>6 DEF Primera
<1>6. RegistroEn(s, i)
    BY <1>1, <1>2, <1>5 DEF Registros
<1>7. Len(bl) >= 1
  <2>1. CASE Len(bl) = 0
    <3>1. Len(bl) * BLOCK_SIZE = 0
        BY <2>1, Constantes
    <3>2. QED
        BY <1>1, <1>5, <3>1
  <2>2. QED
      BY <1>1, <2>1
<1>8. Cuantos(m) = Cantidad(s, i)
    BY DEF Cuantos
<1>9. QED
    BY <1>1, <1>4, <1>5, <1>6, <1>7, <1>8

(* delet_tall_grass.                                                       *)
LEMMA TiposAlBorrar ==
    ASSUME TiposInv, NEW m \in DOMAIN hilo, En(m, "opera"), Legible(m),
           NEW s, s = TextoDe(m), NEW i, i = Donde(s, m.lugar), i # 0, NEW c \in 0 .. 99,
           Borra(m, i, c), UNCHANGED <<dir, meta, bitmap, abiertos, memoria, fin, historia>>
    PROVE  TiposInv'
<1> DEFINE h0 == hilo[m]
           bl == copia[m].bloques
           tam == Hasta(s, i) - i + 1
           corte == Len(s) - tam
           cola == SubSeq(s, i + tam, Len(s))
           datos == IF c > 0 THEN Registro(m.lugar, c) ELSE <<>>
           libera == ALiberar(bl, corte)
           h == [h0 EXCEPT !.pc = "libera", !.rta = 1, !.corte = corte, !.van = 0,
                           !.libera = libera, !.datos = datos]
<1>1. /\ s \in Seq(Byte) /\ i \in 1 .. Len(s) /\ s[i] \in LUGARES /\ RegistroEn(s, i)
      /\ Len(bl) >= 1 /\ Len(s) \in Nat
    BY TextoLegible, LenProperties
<1>2. /\ h0.pc = "opera" /\ h0 \in Hilo /\ bl \in Seq(Numeros) /\ DiscoDe(disco)
      /\ m.lugar \in LUGARES /\ HilosInv /\ Len(bl) \in Nat
    BY SuTipo, LenProperties DEF En
<1>3. Hasta(s, i) \in i .. Len(s)
  <2>1. Hasta(s, i) <= Len(s) /\ Hasta(s, i) = IF s[i + 2] = FIN THEN i + 2 ELSE i + 3
      BY <1>1, FinDelRegistro
  <2>2. QED
      BY <1>1, <2>1
<1>4. corte \in Nat /\ i - 1 \in Nat /\ i + tam \in Nat \ {0} /\ cola \in Seq(Byte)
  <2>1. PICK e \in Nat, n \in Nat : e = Hasta(s, i) /\ n = Len(s) /\ i \in 1 .. e /\ e <= n
      BY <1>1, <1>3
  <2>2. i + tam \in Nat \ {0} /\ corte \in Nat /\ i - 1 \in Nat
    <3>1. tam = e - i + 1 /\ corte = n - (e - i + 1)
        BY <2>1
    <3>2. \A a \in 1 .. e : /\ a + (e - a + 1) \in Nat \ {0} /\ a - 1 \in Nat
                            /\ e <= n => n - (e - a + 1) \in Nat
        BY <2>1
    <3> HIDE DEF tam, corte
    <3>3. QED
        BY <2>1, <3>1, <3>2
  <2> HIDE DEF tam
  <2>3. SubSeq(s, i + tam, Len(s)) \in Seq(Byte)
    <3>1. PICK a \in Nat \ {0}, b \in Nat : a = i + tam /\ b = Len(s)
        BY <1>1, <2>2
    <3>2. \A k \in a .. b : s[k] \in Byte
      <4>1. \A k \in a .. b : k \in 1 .. Len(s)
          BY <3>1
      <4>2. QED
          BY <1>1, <4>1, ElementOfSeq
    <3>3. SubSeq(s, a, b) \in Seq(Byte)
        BY <1>1, <3>1, <3>2, SubSeqProperties
    <3>4. QED
        BY <3>1, <3>3
  <2>4. QED
      BY <2>2, <2>3
<1>5. disco' = Cortado(Grabado(bl, i - 1, cola), bl, corte) /\ hilo' = [hilo EXCEPT ![m] = h]
    BY DEF Borra
<1>6. datos \in Seq(Byte)
  <2>1. c > 0 => c \in 1 .. 99
      OBVIOUS
  <2>2. c > 0 => Registro(m.lugar, c) \in Seq(Byte)
      BY <1>2, <2>1, BytesDeRegistro
  <2>3. QED
      BY <2>2
<1> HIDE DEF cola, corte, datos
<1>7. DiscoDe(disco')
    BY <1>2, <1>4, <1>5, GrabadoTipos, CortadoTipos
<1>8. libera \in Seq(Numeros)
  <2> DEFINE r == Relativo(corte) + 2
             fin0 == IF corte = 0 THEN <<bl[1]>> ELSE <<>>
  <2>1. r \in Nat \ {0}
    <3>1. Relativo(corte) \in Nat
        BY <1>4, Division
    <3>2. QED
        BY <3>1
  <2>2. SubSeq(bl, r, Len(bl)) \in Seq(Numeros)
    <3> HIDE DEF r
    <3>1. PICK a \in Nat \ {0}, b \in Nat : a = r /\ b = Len(bl)
        BY <1>2, <2>1
    <3>2. \A k \in a .. b : k \in 1 .. Len(bl)
        BY <3>1
    <3>3. SubSeq(bl, a, b) \in Seq(Numeros)
        BY <1>2, <3>1, <3>2, SubSeqProperties
    <3>4. QED
        BY <3>1, <3>3
  <2>3. fin0 \in Seq(Numeros)
    <3>1. bl[1] \in Numeros
      <4>1. 1 \in 1 .. Len(bl)
          BY <1>1, <1>2
      <4>2. QED
          BY <1>2, <4>1, ElementOfSeq
    <3>2. <<bl[1]>> \in Seq(Numeros) /\ <<>> \in Seq(Numeros)
        BY <3>1
    <3>3. QED
        BY <3>2
  <2>4. libera = SubSeq(bl, r, Len(bl)) \o fin0
      BY DEF ALiberar
  <2> HIDE DEF fin0, r
  <2>5. QED
      BY <2>2, <2>3, <2>4, ConcatProperties
<1> HIDE DEF libera
<1>9. /\ h \in Hilo /\ h.pc = "libera" /\ h.rta = 1 /\ h.van = 0 /\ h.datos = datos
    BY <1>2, <1>4, <1>6, <1>8 DEF Hilo, Pcs, Operando
<1> HIDE DEF h
<1>10. HiloBien(h)
  <2>1. "libera" \notin SinRespuesta /\ "libera" \in Cortando
      BY DEF SinRespuesta, Cortando
  <2>2. Len(datos) \in Nat
      BY <1>6, LenProperties
  <2>3. QED
      BY <1>9, <2>1, <2>2 DEF HiloBien
<1>11. Turno(m, h)
    BY <1>5, <1>9, <1>10 DEF Turno
<1>12. "opera" \in Operando /\ "libera" \in Operando
    BY DEF Operando
<1>13. QED
    BY <1>2, <1>7, <1>9, <1>11, <1>12, TiposAlOperar

(* What a message does with its file.                                      *)
LEMMA TiposDelMensaje ==
    ASSUME TiposInv, NEW m \in DOMAIN hilo, New(m) \/ Catch(m) \/ Get(m)
    PROVE  TiposInv'
<1> DEFINE h0 == hilo[m]
           s == TextoDe(m)
           i == Donde(s, m.lugar)
<1>1. /\ h0.pc = "opera" /\ Legible(m) /\ En(m, "opera")
      /\ UNCHANGED <<dir, meta, bitmap, abiertos, memoria, fin, historia>>
    BY DEF New, Catch, Get, En
<1>2. /\ h0 \in Hilo /\ HiloBien(h0) /\ DiscoDe(disco) /\ m.lugar \in LUGARES /\ m.cant \in 1 .. 9
      /\ HilosInv
    BY SuTipo
<1>3. /\ "opera" \in Operando /\ "escribe" \in Operando /\ "cierra" \in Operando
      /\ "opera" \notin Cortando /\ "escribe" \notin Cortando \union SinRespuesta
      /\ "cierra" \notin Cortando \union SinRespuesta
    BY DEF Operando, Cortando, SinRespuesta
<1>4. h0.libera = <<>>
    BY <1>1, <1>2, <1>3 DEF HiloBien
<1>5. ASSUME NEW h, h \in Hilo, HiloBien(h), hilo' = [hilo EXCEPT ![m] = h],
             h.pc \in {"escribe", "cierra"}, disco' = disco
      PROVE  TiposInv'
  <2>1. Turno(m, h)
      BY <1>5 DEF Turno
  <2>2. DiscoDe(disco')
      BY <1>2, <1>5
  <2>3. h.pc \in Operando /\ hilo[m].pc \in Operando
      BY <1>1, <1>3, <1>5
  <2>4. QED
      BY <1>1, <2>1, <2>2, <2>3, TiposAlOperar
<1>6. ASSUME i # 0
      PROVE  /\ Cuantos(m) \in 1 .. 99
             /\ Cuantos(m) + m.cant \in 0 .. 99 /\ Cuantos(m) - 1 \in 0 .. 99
  <2>1. /\ s \in Seq(Byte) /\ i \in 1 .. Len(s) /\ s[i] \in LUGARES /\ RegistroEn(s, i)
        /\ Cuantos(m) = Cantidad(s, i)
      BY <1>1, <1>6, TextoLegible
  <2>2. Cantidad(s, i) \in 1 .. 99
      BY <2>1, FinDelRegistro
  <2>3. Cuantos(m) + m.cant <= 99
      BY <1>1 DEF Legible
  <2>4. \A k \in 1 .. 99, c \in 1 .. 9 : k + c <= 99 => k + c \in 0 .. 99 /\ k - 1 \in 0 .. 99
      OBVIOUS
  <2>5. Cuantos(m) \in 1 .. 99
      BY <2>1, <2>2
  <2>6. QED
      BY <1>2, <2>3, <2>4, <2>5
<1>7. CASE New(m)
  <2>1. CASE i = 0
    <3> DEFINE datos == Registro(m.lugar, m.cant)
               h == [h0 EXCEPT !.pc = "escribe", !.rta = 1, !.van = 0, !.datos = datos]
    <3>1. hilo' = [hilo EXCEPT ![m] = h] /\ disco' = disco
        BY <1>7, <2>1 DEF New
    <3>2. datos \in Seq(Byte) /\ Len(datos) \in Nat
      <4>1. m.cant \in 1 .. 99
          BY <1>2
      <4>2. QED
          BY <1>2, <4>1, BytesDeRegistro
    <3> HIDE DEF datos
    <3>3. /\ h \in Hilo /\ h.pc = "escribe" /\ h.van = 0 /\ h.datos = datos
          /\ h.libera = <<>>
        BY <1>2, <1>4, <3>2 DEF Hilo, Pcs, Operando
    <3> HIDE DEF h
    <3>4. HiloBien(h)
        BY <1>3, <3>2, <3>3 DEF HiloBien
    <3>5. QED
        BY <1>5, <3>1, <3>3, <3>4
  <2>2. CASE i # 0
    <3>1. Borra(m, i, Cuantos(m) + m.cant)
        BY <1>7, <2>2 DEF New
    <3>2. QED
        BY <1>1, <1>6, <2>2, <3>1, TiposAlBorrar
  <2>3. QED
      BY <2>1, <2>2
<1>8. CASE Catch(m)
  <2>1. CASE i = 0
    <3> DEFINE h == [h0 EXCEPT !.pc = "cierra", !.rta = 0]
    <3>1. hilo' = [hilo EXCEPT ![m] = h] /\ disco' = disco
        BY <1>2, <1>8, <2>1 DEF Catch, HilosInv
    <3>2. /\ h \in Hilo /\ h.pc = "cierra" /\ h.van = h0.van /\ h.datos = h0.datos
          /\ h.libera = <<>>
        BY <1>2, <1>4 DEF Hilo, Pcs, Operando
    <3> HIDE DEF h
    <3>3. HiloBien(h)
        BY <1>2, <1>3, <3>2 DEF HiloBien
    <3>4. QED
        BY <1>5, <3>1, <3>2, <3>3
  <2>2. CASE i # 0
    <3>1. Borra(m, i, Cuantos(m) - 1)
        BY <1>8, <2>2 DEF Catch
    <3>2. QED
        BY <1>1, <1>6, <2>2, <3>1, TiposAlBorrar
  <2>3. QED
      BY <2>1, <2>2
<1>9. CASE Get(m)
  <2> DEFINE v == {l \in LUGARES : Donde(TextoDe(m), l) # 0}
             h == [h0 EXCEPT !.pc = "cierra", !.rta = 1, !.vistos = v]
  <2>1. hilo' = [hilo EXCEPT ![m] = h] /\ disco' = disco /\ v \subseteq LUGARES
      BY <1>9 DEF Get
  <2> HIDE DEF v
  <2>2. /\ h \in Hilo /\ h.pc = "cierra" /\ h.van = h0.van /\ h.datos = h0.datos
        /\ h.libera = <<>>
      BY <1>2, <1>4, <2>1 DEF Hilo, Pcs, Operando
  <2> HIDE DEF h
  <2>3. HiloBien(h)
      BY <1>2, <1>3, <2>2 DEF HiloBien
  <2>4. QED
      BY <1>5, <2>1, <2>2, <2>3
<1>10. QED
    BY <1>7, <1>8, <1>9

(* liberar_bloque.                                                         *)
LEMMA TiposAlLiberar ==
    ASSUME TiposInv, NEW m \in DOMAIN hilo, Libera(m) \/ VuelcaLibre(m)
    PROVE  TiposInv'
<1> DEFINE h0 == hilo[m]
<1>1. /\ HilosInv /\ h0 \in Hilo /\ HiloBien(h0) /\ DiscoDe(disco) /\ bitmap \subseteq Numeros
      /\ h0.libera \in Seq(Numeros)
    BY SuTipo DEF Hilo
<1>2. /\ "libera" \in Operando /\ "vuelcaLibre" \in Operando
      /\ "libera" \in Cortando /\ "vuelcaLibre" \in Cortando
      /\ "libera" \notin SinRespuesta /\ "vuelcaLibre" \notin SinRespuesta
    BY DEF Operando, Cortando, SinRespuesta
<1>3. CASE Libera(m)
  <2> DEFINE h == [h0 EXCEPT !.pc = "vuelcaLibre", !.visto = bitmap]
  <2>1. /\ hilo' = [hilo EXCEPT ![m] = h] /\ h0.pc = "libera" /\ h0.libera # <<>>
        /\ disco' = disco /\ UNCHANGED <<dir, meta, bitmap, abiertos, memoria, fin, historia>>
      BY <1>1, <1>3 DEF Libera, En, HilosInv
  <2>2. /\ h \in Hilo /\ h.pc = "vuelcaLibre" /\ h.van = h0.van /\ h.datos = h0.datos
        /\ h.libera = h0.libera
      BY <1>1 DEF Hilo, Pcs, Operando
  <2> HIDE DEF h
  <2>3. HiloBien(h)
      BY <1>1, <1>2, <2>1, <2>2 DEF HiloBien
  <2>4. Turno(m, h)
      BY <2>1, <2>2, <2>3 DEF Turno
  <2>5. DiscoDe(disco')
      BY <1>1, <2>1
  <2>6. QED
      BY <1>2, <2>1, <2>2, <2>4, <2>5, TiposAlOperar
<1>4. CASE VuelcaLibre(m)
  <2> DEFINE h == [h0 EXCEPT !.pc = "libera", !.libera = Tail(h0.libera)]
  <2>1. /\ hilo' = [hilo EXCEPT ![m] = h] /\ h0.pc = "vuelcaLibre"
        /\ bitmap' = h0.visto \ {Head(h0.libera)}
        /\ pisado' = (pisado \/ bitmap # h0.visto)
        /\ UNCHANGED <<dir, meta, disco, abiertos, memoria, fin, errada, doble, compartido>>
      BY <1>4 DEF VuelcaLibre, En
  <2>2. h0.libera # <<>> /\ Tail(h0.libera) \in Seq(Numeros)
      BY <1>1, <2>1 DEF HiloBien
  <2>3. /\ h \in Hilo /\ h.pc = "libera" /\ h.van = h0.van /\ h.datos = h0.datos
      BY <1>1, <2>2 DEF Hilo, Pcs, Operando
  <2> HIDE DEF h
  <2>4. HiloBien(h)
      BY <1>1, <1>2, <2>1, <2>3 DEF HiloBien
  <2>5. Turno(m, h)
      BY <2>1, <2>3, <2>4 DEF Turno
  <2>6. Entradas'
      BY <1>1, <1>2, <2>1, <2>3, <2>5, EntradasAlOperar DEF TiposInv
  <2>7. bitmap' \subseteq Numeros
      BY <1>1, <2>1 DEF Hilo
  <2>8. pisado' \in BOOLEAN
      BY <2>1, Zenon
  <2>9. UNCHANGED <<copia, leida>>
      BY <2>1 DEF memoria
  <2>10. QED
      BY <2>1, <2>5, <2>6, <2>7, <2>8, <2>9, TiposSiguen DEF TiposInv
<1>5. QED
    BY <1>3, <1>4

(* A step that saves a Metadata.bin and goes on with the same bytes.       *)
LEMMA TiposAlGuardar ==
    ASSUME TiposInv, NEW m \in DOMAIN hilo, NEW md \in Archivo, Guarda(m, md),
           copia' \in [DOMAIN hilo -> Ficha],
           hilo[m].libera = <<>>, hilo[m].pc \in Operando,
           NEW p \in {"escribe", "cierra", "buscaPos"}, Sigue(m, p),
           UNCHANGED <<disco, bitmap, abiertos, fin, historia>>
    PROVE  TiposInv'
<1>1. HilosInv /\ Entradas
    BY SuTipo
<1>2. /\ p \in Pcs \ (Cortando \union {"vuelca", "saca"}) /\ p \notin SinRespuesta
      /\ p \in Operando \union {"buscaPos"}
    BY DEF Pcs, Cortando, Operando, Cerrando, SinRespuesta
<1>3. UNCHANGED <<errada, pisado, doble, compartido>>
    BY DEF historia
<1>4. PICK h : Turno(m, h) /\ h.pc = p
    BY <1>1, <1>2, TurnoSigue
<1>5. Entradas'
    BY <1>1, <1>2, <1>3, <1>4, EntradasAlOperar
<1>6. QED
    BY <1>3, <1>4, <1>5, GuardaTipos, TiposSiguen DEF TiposInv

(* sacar_bloques_metadata and disminuir_byte_archivo.                      *)
LEMMA TiposAlRecortar ==
    ASSUME TiposInv, NEW m \in DOMAIN hilo, Recorta(m)
    PROVE  TiposInv'
<1> DEFINE h0 == hilo[m]
           q == Relativo(h0.corte)
           b0 == Base(m).bloques
           bl == QueQuedan(b0, h0.corte)
           size == Base(m).size - (copia[m].size - h0.corte)
           md == [Base(m) EXCEPT !.size = size, !.bloques = bl]
           p == IF h0.datos = <<>> THEN "cierra" ELSE "escribe"
<1>1. /\ h0 \in Hilo /\ h0.corte \in Nat /\ copia[m].size \in Int /\ Base(m) \in Archivo
      /\ Base(m).size \in Int /\ b0 \in Seq(Numeros) /\ Len(b0) \in Nat
    BY SuTipo, LenProperties DEF Hilo
<1>2. CASE h0.corte > 0 /\ q >= Len(b0)
  <2>1. Termina("sin_bloques") /\ "sin_bloques" \in Finales
      BY <1>2 DEF Recorta, Finales
  <2>2. QED
      BY <2>1, TiposAlMorir
<1>3. CASE ~(h0.corte > 0 /\ q >= Len(b0))
  <2>1. /\ Guarda(m, md) /\ Copia(m, size, bl) /\ Sigue(m, p) /\ h0.libera = <<>>
        /\ h0.pc = "libera" /\ UNCHANGED <<disco, bitmap, abiertos, fin, historia>>
      BY <1>3, Zenon DEF Recorta, En
  <2>2. size \in Int
      BY <1>1
  <2>3. bl \in Seq(Numeros)
    <3>1. q \in Nat
        BY <1>1, Division
    <3>2. CASE h0.corte = 0
        BY <3>2 DEF QueQuedan
    <3>3. CASE h0.corte # 0
      <4>1. bl = SubSeq(b0, 1, IF q < Len(b0) THEN q + 1 ELSE Len(b0))
          BY <3>3 DEF QueQuedan
      <4>2. PICK k \in Nat : k = (IF q < Len(b0) THEN q + 1 ELSE Len(b0)) /\ k <= Len(b0)
          BY <1>1, <3>1
      <4>3. \A j \in 1 .. k : j \in 1 .. Len(b0)
          BY <1>1, <4>2
      <4>4. \A j \in 1 .. k : b0[j] \in Numeros
          BY <1>1, <4>3, ElementOfSeq
      <4>5. SubSeq(b0, 1, k) \in Seq(Numeros)
          BY <1>1, <4>4, SubSeqProperties
      <4>6. QED
          BY <4>1, <4>2, <4>5
    <3>4. QED
        BY <3>2, <3>3
  <2> HIDE DEF size, bl
  <2>4. md \in Archivo
      BY <1>1, <2>2, <2>3 DEF Archivo
  <2>5. copia' \in [DOMAIN hilo -> Ficha]
      BY <2>1, <2>2, <2>3, CopiaTipos
  <2>6. p \in {"escribe", "cierra", "buscaPos"} /\ h0.pc \in Operando
      BY <2>1 DEF Operando
  <2> HIDE DEF md, p
  <2>7. QED
      BY <2>1, <2>4, <2>5, <2>6, TiposAlGuardar
<1>4. QED
    BY <1>2, <1>3

(* agregar_byte_archivo, and what close_tall_grass does with OPEN.         *)
LEMMA TiposAlCrecer ==
    ASSUME TiposInv, NEW m \in DOMAIN hilo, Crece(m) \/ Cierra(m)
    PROVE  TiposInv'
<1> DEFINE h0 == hilo[m]
<1>1. /\ h0 \in Hilo /\ HiloBien(h0) /\ Base(m) \in Archivo
      /\ Base(m).size \in Int /\ copia[m].bloques \in Seq(Numeros) /\ Len(h0.datos) \in Nat
      /\ copia \in [DOMAIN hilo -> Ficha]
    BY SuTipo, LenProperties DEF Hilo, TiposInv
<1>2. h0.pc \in {"escribe", "cierra"}
    BY DEF Crece, Cierra, En
<1>3. h0.pc \in Operando /\ h0.libera = <<>>
    BY <1>1, <1>2 DEF Operando, Cortando, HiloBien
<1>4. CASE Crece(m)
  <2> DEFINE size == Base(m).size + Len(h0.datos)
             md == [Base(m) EXCEPT !.size = size]
  <2>1. /\ Guarda(m, md) /\ Copia(m, size, copia[m].bloques) /\ Sigue(m, "cierra")
        /\ UNCHANGED <<disco, bitmap, abiertos, fin, historia>>
      BY <1>4 DEF Crece
  <2>2. size \in Int
      BY <1>1
  <2> HIDE DEF size
  <2>3. md \in Archivo
      BY <1>1, <2>2 DEF Archivo
  <2>4. copia' \in [DOMAIN hilo -> Ficha]
      BY <1>1, <2>1, <2>2, CopiaTipos
  <2> HIDE DEF md
  <2>5. QED
      BY <1>3, <2>1, <2>3, <2>4, TiposAlGuardar
<1>5. CASE Cierra(m)
  <2> DEFINE md == [Base(m) EXCEPT !.open = FALSE]
  <2>1. /\ Guarda(m, md) /\ copia' = [copia EXCEPT ![m] = SinCopia] /\ Sigue(m, "buscaPos")
        /\ UNCHANGED <<disco, bitmap, abiertos, fin, historia>>
      BY <1>5 DEF Cierra
  <2>2. md \in Archivo
      BY <1>1 DEF Archivo
  <2>3. copia' \in [DOMAIN hilo -> Ficha]
    <3>1. SinCopia \in Ficha
        BY DEF SinCopia, Ficha
    <3>2. QED
        BY <1>1, <2>1, <3>1
  <2> HIDE DEF md
  <2>4. QED
      BY <1>3, <2>1, <2>2, <2>3, TiposAlGuardar
<1>6. QED
    BY <1>4, <1>5

(* write_tall_grass, the bytes that go to one block.                       *)
LEMMA TiposAlEscribir ==
    ASSUME TiposInv, NEW m \in DOMAIN hilo, Escribe(m)
    PROVE  TiposInv'
<1> DEFINE h0 == hilo[m]
           bl == copia[m].bloques
           r == Puntero(m) % BLOCK_SIZE
           lugar == BLOCK_SIZE - r
           n == IF lugar < Faltan(m) THEN lugar ELSE Faltan(m)
           h == [h0 EXCEPT !.van = h0.van + n]
<1>1. /\ h0.pc = "escribe" /\ copia[m].size >= 0 /\ Faltan(m) > 0
      /\ disco' = Grabado(bl, Puntero(m), SubSeq(h0.datos, h0.van + 1, h0.van + n))
      /\ hilo' = [hilo EXCEPT ![m].van = h0.van + n]
      /\ UNCHANGED <<dir, meta, bitmap, abiertos, memoria, fin, historia>>
    BY DEF Escribe, En
<1>2. /\ h0 \in Hilo /\ HiloBien(h0) /\ bl \in Seq(Numeros) /\ copia[m].size \in Int
      /\ DiscoDe(disco) /\ HilosInv /\ h0.datos \in Seq(Byte) /\ h0.van \in Nat
      /\ Len(h0.datos) \in Nat /\ h0.van <= Len(h0.datos)
    BY SuTipo, LenProperties DEF Hilo, HiloBien
<1>3. Puntero(m) \in Nat
    BY <1>1, <1>2 DEF Puntero
<1>4. r \in 0 .. BLOCK_SIZE - 1
    BY <1>3, Division
<1> HIDE DEF r
<1>5. lugar \in Nat
    BY <1>4, Constantes
<1> HIDE DEF lugar
<1>6. Faltan(m) = Len(h0.datos) - h0.van
    BY DEF Faltan
<1>7. n \in Nat /\ h0.van + n <= Len(h0.datos)
    BY <1>1, <1>2, <1>5, <1>6
<1> HIDE DEF n
<1>8. SubSeq(h0.datos, h0.van + 1, h0.van + n) \in Seq(Byte)
  <2>1. PICK a \in Nat \ {0}, b \in Nat : a = h0.van + 1 /\ b = h0.van + n /\ b <= Len(h0.datos)
      BY <1>2, <1>7
  <2>2. \A k \in a .. b : k \in 1 .. Len(h0.datos)
      BY <1>2, <2>1
  <2>3. \A k \in a .. b : h0.datos[k] \in Byte
      BY <1>2, <2>2, ElementOfSeq
  <2>4. SubSeq(h0.datos, a, b) \in Seq(Byte)
      BY <1>2, <2>1, <2>3, SubSeqProperties
  <2>5. QED
      BY <2>1, <2>4
<1>9. DiscoDe(disco')
    BY <1>1, <1>2, <1>3, <1>8, GrabadoTipos
<1>10. /\ h \in Hilo /\ h.pc = "escribe" /\ h.van = h0.van + n /\ h.datos = h0.datos
       /\ h.rta = h0.rta /\ h.vistos = h0.vistos /\ h.libera = h0.libera
       /\ hilo' = [hilo EXCEPT ![m] = h]
  <2>1. h0.van + n \in Nat
      BY <1>2, <1>7
  <2>2. hilo' = [hilo EXCEPT ![m] = h]
      BY <1>1
  <2>3. QED
      BY <1>1, <1>2, <2>1, <2>2 DEF Hilo
<1> HIDE DEF h
<1>11. "escribe" \notin SinRespuesta \union Cortando /\ "escribe" \in Operando
    BY DEF SinRespuesta, Cortando, Operando
<1>12. HiloBien(h)
    BY <1>1, <1>2, <1>7, <1>10, <1>11 DEF HiloBien
<1>13. Turno(m, h)
    BY <1>10, <1>12 DEF Turno
<1>14. QED
    BY <1>1, <1>9, <1>10, <1>11, <1>13, TiposAlOperar

(* obtener_bloques_libres.                                                 *)
LEMMA TiposAlPedir ==
    ASSUME TiposInv, NEW m \in DOMAIN hilo, PideBloque(m)
    PROVE  TiposInv'
<1> DEFINE h0 == hilo[m]
           libres == Numeros \ bitmap
           b == CHOOSE x \in libres : \A o \in libres : x <= o
           h == [h0 EXCEPT !.pc = "vuelca", !.visto = bitmap, !.bloque = b]
<1>1. /\ h0 \in Hilo /\ HiloBien(h0) /\ DiscoDe(disco) /\ HilosInv /\ h0.datos \in Seq(Byte)
      /\ h0.van \in Nat /\ Len(h0.datos) \in Nat /\ bitmap \subseteq Numeros
      /\ Numeros \subseteq Nat
    BY SuTipo, LenProperties, Constantes DEF Hilo
<1>2. CASE bitmap = Numeros
  <2>1. Termina("sin_bloques") /\ "sin_bloques" \in Finales
      BY <1>2 DEF PideBloque, Finales
  <2>2. QED
      BY <2>1, TiposAlMorir
<1>3. CASE bitmap # Numeros
  <2>1. /\ hilo' = [hilo EXCEPT ![m] = h] /\ h0.pc = "escribe" /\ Faltan(m) > 0 /\ disco' = disco
        /\ UNCHANGED <<dir, meta, bitmap, abiertos, memoria, fin, historia>>
      BY <1>3 DEF PideBloque, En
  <2>2. b \in libres /\ b \in Nat
    <3>1. libres \in SUBSET Nat /\ libres # {}
        BY <1>1, <1>3
    <3>2. \E x \in libres : \A o \in libres : x <= o
        BY <3>1, MinimoNat
    <3> HIDE DEF libres
    <3>3. b \in libres
        BY <3>2
    <3>4. QED
        BY <3>1, <3>3
  <2> HIDE DEF b
  <2>3. /\ h \in Hilo /\ h.pc = "vuelca" /\ h.van = h0.van /\ h.datos = h0.datos
        /\ h.libera = h0.libera /\ h.visto = bitmap /\ h.bloque = b
      BY <1>1, <2>2 DEF Hilo, Pcs, Operando
  <2> HIDE DEF h
  <2>4. /\ "vuelca" \notin SinRespuesta \union Cortando /\ "vuelca" \in Operando
        /\ "escribe" \in Operando /\ "escribe" \notin Cortando
      BY DEF SinRespuesta, Cortando, Operando
  <2>5. h0.van < Len(h0.datos)
      BY <1>1, <2>1 DEF Faltan
  <2>6. HiloBien(h)
      BY <1>1, <2>1, <2>2, <2>3, <2>4, <2>5 DEF HiloBien
  <2>7. Turno(m, h)
      BY <2>1, <2>3, <2>6 DEF Turno
  <2>8. DiscoDe(disco')
      BY <1>1, <2>1
  <2>9. QED
      BY <2>1, <2>3, <2>4, <2>7, <2>8, TiposAlOperar
<1>4. QED
    BY <1>2, <1>3

(* agregar_bloque_archivo.                                                 *)
LEMMA TiposAlVolcar ==
    ASSUME TiposInv, NEW m \in DOMAIN hilo, Vuelca(m)
    PROVE  TiposInv'
<1> DEFINE h0 == hilo[m]
           nuevo == h0.bloque
           bl == Append(Base(m).bloques, nuevo)
           md == [Base(m) EXCEPT !.bloques = bl]
           suelto == Len(Base(m).bloques) # Relativo(Puntero(m))
           pos == Puntero(m) % BLOCK_SIZE
           byte == h0.datos[h0.van + 1]
           van == IF suelto THEN h0.van + 1 ELSE h0.van
           h == [h0 EXCEPT !.pc = "escribe", !.van = van]
<1>1. /\ h0.pc = "vuelca" /\ Guarda(m, md) /\ Copia(m, copia[m].size, bl)
      /\ disco' = (IF suelto THEN Grabado(<<nuevo>>, pos, <<byte>>) ELSE disco)
      /\ hilo' = [hilo EXCEPT ![m].pc = "escribe", ![m].van = van]
      /\ UNCHANGED <<abiertos, errada, doble>>
    BY DEF Vuelca, En
<1>2. fin' \in Finales \union {"ilegible", "bloque_doble"}
  <2>1. fin' = "bloque_doble" \/ fin' = fin
      BY DEF Vuelca
  <2>2. QED
      BY <2>1 DEF TiposInv
<1>3. bitmap' \subseteq Numeros /\ pisado' \in BOOLEAN
  <2>1. Toma(m) \/ UNCHANGED <<bitmap, pisado>>
      BY DEF Vuelca
  <2>2. QED
      BY <1>1, <2>1, TomaTipos DEF TiposInv
<1>4. compartido' \in BOOLEAN
  <2>1. compartido' = (compartido \/ Contains(Base(m).bloques, nuevo)
                                  \/ \E f \in ESPECIES : nuevo \in Propios(f))
      BY DEF Vuelca
  <2>2. QED
      BY <2>1, Zenon
<1>5. /\ h0 \in Hilo /\ HiloBien(h0) /\ HilosInv /\ Entradas /\ Base(m) \in Archivo
      /\ Base(m).bloques \in Seq(Numeros) /\ copia[m].size \in Int /\ DiscoDe(disco)
      /\ h0.datos \in Seq(Byte) /\ h0.van \in Nat /\ Len(h0.datos) \in Nat
    BY SuTipo, LenProperties DEF Hilo
<1>6. nuevo \in Numeros /\ h0.van + 1 \in 1 .. Len(h0.datos) /\ byte \in Byte
  <2>1. nuevo \in Numeros /\ h0.van < Len(h0.datos)
      BY <1>1, <1>5 DEF HiloBien
  <2>2. h0.van + 1 \in 1 .. Len(h0.datos)
      BY <1>5, <2>1
  <2>3. QED
      BY <1>5, <2>1, <2>2, ElementOfSeq
<1> HIDE DEF nuevo, suelto, byte
<1>7. bl \in Seq(Numeros)
    BY <1>5, <1>6, AppendProperties
<1> HIDE DEF bl
<1>8. md \in Archivo
    BY <1>5, <1>7 DEF Archivo
<1> HIDE DEF md
<1>9. /\ meta' \in [ESPECIES -> Archivo]
      /\ dir' \in [ESPECIES -> {"no", "carpeta", "listo"}]
      /\ leida' \in [DOMAIN hilo -> Archivo \union {NULL}]
      /\ copia' \in [DOMAIN hilo -> Ficha]
    BY <1>1, <1>5, <1>7, <1>8, GuardaTipos, CopiaTipos
<1>10. DiscoDe(disco')
  <2>1. <<nuevo>> \in Seq(Numeros) /\ <<byte>> \in Seq(Byte)
      BY <1>6
  <2>2. pos \in Nat
    <3>1. \A n \in Int, k \in Nat \ {0} : n % k \in Nat
        OBVIOUS
    <3>2. Puntero(m) \in Int
        BY <1>5 DEF Puntero
    <3>3. QED
        BY <3>1, <3>2, Constantes
  <2>3. QED
      BY <1>1, <1>5, <2>1, <2>2, GrabadoTipos
<1>11. /\ h \in Hilo /\ h.pc = "escribe" /\ h.van <= Len(h0.datos) /\ h.datos = h0.datos
       /\ h.libera = h0.libera /\ hilo' = [hilo EXCEPT ![m] = h]
  <2>1. van \in Nat /\ van <= Len(h0.datos)
      BY <1>5, <1>6
  <2> HIDE DEF van
  <2>2. hilo' = [hilo EXCEPT ![m] = h]
      BY <1>1, <1>5 DEF HilosInv, Hilo
  <2>3. QED
      BY <1>5, <2>1, <2>2 DEF Hilo, Pcs, Operando
<1> HIDE DEF h
<1>12. /\ "escribe" \notin SinRespuesta \union Cortando /\ "escribe" \in Operando
       /\ "vuelca" \notin Cortando /\ "vuelca" \in Operando
    BY DEF SinRespuesta, Cortando, Operando
<1>13. HiloBien(h)
    BY <1>1, <1>5, <1>11, <1>12 DEF HiloBien
<1>14. Turno(m, h)
    BY <1>11, <1>13 DEF Turno
<1>15. Entradas'
    BY <1>1, <1>5, <1>11, <1>12, <1>14, EntradasAlOperar
<1>16. QED
    BY <1>1, <1>2, <1>3, <1>4, <1>9, <1>10, <1>14, <1>15, TiposSiguen DEF TiposInv

(* close_tall_grass and the answer.                                        *)
LEMMA TiposAlCerrar ==
    ASSUME TiposInv, NEW m \in DOMAIN hilo,
           CierraVacia(m) \/ BuscaPos(m) \/ Saca(m) \/ Responde(m)
    PROVE  TiposInv'
<1> DEFINE f == m.especie
           h0 == hilo[m]
           D == [ESPECIES -> {"no", "carpeta", "listo"}]
<1>1. /\ HilosInv /\ Entradas /\ h0 \in Hilo /\ HiloBien(h0) /\ f \in ESPECIES
      /\ meta \in [ESPECIES -> Archivo] /\ dir \in D
    BY SuTipo DEF TiposInv
<1>2. h0.pc \in {"cierra", "buscaPos", "saca", "responde"}
    BY DEF CierraVacia, BuscaPos, Saca, Responde, En
<1>3. h0.pc \notin Cortando /\ h0.libera = <<>>
    BY <1>1, <1>2 DEF HiloBien, Cortando
<1>4. /\ "cierra" \in Operando /\ "buscaPos" \in EnTabla /\ "saca" \in EnTabla
      /\ "responde" \notin EnTabla /\ "respondido" \notin EnTabla /\ "saca" \notin SinRespuesta
      /\ "saca" \notin Cortando
      /\ \A p \in {"buscaPos", "responde", "respondido"} :
           p \in Pcs \ (Cortando \union {"vuelca", "saca"}) /\ p \notin SinRespuesta
    BY DEF EnTabla, Cerrando, Operando, SinRespuesta, Cortando, Pcs
<1>5. ASSUME NEW p \in {"buscaPos", "responde", "respondido"}, Sigue(m, p)
      PROVE  \E h : Turno(m, h) /\ h.pc = p
    BY <1>1, <1>3, <1>4, <1>5, TurnoSigue
<1>6. CASE CierraVacia(m)
  <2>1. /\ h0.pc = "cierra" /\ dir' = [dir EXCEPT ![f] = "carpeta"]
        /\ copia' = [copia EXCEPT ![m] = SinCopia] /\ doble' = TRUE /\ Sigue(m, "buscaPos")
        /\ UNCHANGED <<meta, disco, bitmap, abiertos, leida, fin, errada, pisado, compartido>>
      BY <1>6 DEF CierraVacia, En
  <2>2. PICK h : Turno(m, h) /\ h.pc = "buscaPos"
      BY <1>5, <2>1
  <2>3. Entradas'
      BY <1>1, <1>4, <2>1, <2>2, EntradasAlOperar
  <2>4. dir' \in D
      BY <1>1, <2>1
  <2>5. copia' \in [DOMAIN hilo -> Ficha]
    <3>1. SinCopia \in Ficha /\ copia \in [DOMAIN hilo -> Ficha]
        BY DEF SinCopia, Ficha, TiposInv
    <3>2. QED
        BY <2>1, <3>1
  <2>6. QED
      BY <2>1, <2>2, <2>3, <2>4, <2>5, TiposSiguen DEF TiposInv
<1>7. CASE BuscaPos(m)
  <2> DEFINE i == SelectInSeq(abiertos, LAMBDA g : g = f)
  <2>1. /\ h0.pc = "buscaPos" /\ errada' = errada
        /\ UNCHANGED <<dir, meta, disco, bitmap, abiertos, memoria, fin, pisado, doble, compartido>>
      BY <1>7 DEF BuscaPos, En, historia
  <2>2. CASE Contains(abiertos, f)
    <3>1. i \in Nat /\ i > 0
      <4> DEFINE I == {k \in 1 .. Len(abiertos) : abiertos[k] = f}
      <4>1. I # {} /\ I \in SUBSET Nat
        <5>1. DOMAIN abiertos = 1 .. Len(abiertos)
            BY <1>1, LenProperties DEF Entradas
        <5>2. QED
            BY <2>2, <5>1 DEF Contains
      <4>2. \E n \in I : \A k \in I : n <= k
          BY <4>1, MinimoNat
      <4>3. i = CHOOSE n \in I : \A k \in I : n <= k
          BY <4>1 DEF SelectInSeq, Min
      <4>4. i \in I
        <5> HIDE DEF I, i
        <5>1. QED
            BY <4>2, <4>3
      <4>5. QED
          BY <4>4
    <3> HIDE DEF i
    <3> DEFINE h == [h0 EXCEPT !.pc = "saca", !.pos = i]
    <3>2. hilo' = [hilo EXCEPT ![m] = h]
        BY <1>7, <2>2 DEF BuscaPos, i
    <3>3. /\ h \in Hilo /\ h.pc = "saca" /\ h.pos = i /\ h.libera = <<>> /\ h.van = h0.van
          /\ h.datos = h0.datos
        BY <1>1, <1>3, <3>1 DEF Hilo, Pcs, Cerrando
    <3> HIDE DEF h
    <3>4. HiloBien(h)
        BY <1>1, <1>4, <3>1, <3>3 DEF HiloBien
    <3>5. Turno(m, h)
        BY <3>2, <3>3, <3>4 DEF Turno
    <3>6. Entradas'
        BY <1>1, <1>4, <2>1, <3>3, <3>5, EntradasQuietas
    <3>7. QED
        BY <1>1, <2>1, <3>5, <3>6, TiposDelHilo
  <2>3. CASE ~Contains(abiertos, f)
    <3>1. Sigue(m, "responde")
        BY <1>7, <2>3 DEF BuscaPos, Sigue
    <3>2. PICK h : Turno(m, h) /\ h.pc = "responde"
        BY <1>5, <3>1
    <3>3. Entradas'
        BY <1>1, <2>1, <2>3, <3>2, EntradasPerdida
    <3>4. QED
        BY <1>1, <2>1, <3>2, <3>3, TiposDelHilo
  <2>4. QED
      BY <2>2, <2>3
<1>8. CASE Saca(m)
  <2> DEFINE i == h0.pos
  <2>1. h0.pc = "saca" /\ i \in Nat /\ i > 0
      BY <1>1, <1>8 DEF Saca, En, HiloBien, Hilo
  <2>2. CASE i > Len(abiertos)
    <3>1. Termina("tabla") /\ "tabla" \in Finales
        BY <1>8, <2>2 DEF Saca, Finales
    <3>2. QED
        BY <3>1, TiposAlMorir
  <2>3. CASE ~(i > Len(abiertos))
    <3>1. /\ abiertos' = RemoveAt(abiertos, i)
          /\ errada' = (errada \/ abiertos[i] # f) /\ Sigue(m, "responde")
          /\ UNCHANGED <<dir, meta, disco, bitmap, memoria, fin, pisado, doble, compartido>>
        BY <1>8, <2>3 DEF Saca
    <3>2. PICK h : Turno(m, h) /\ h.pc = "responde"
        BY <1>5, <3>1
    <3>3. i <= Len(abiertos)
        BY <1>1, <2>1, <2>3, LenProperties DEF Entradas
    <3>4. Entradas'
        BY <1>1, <2>1, <3>1, <3>2, <3>3, EntradasSaca
    <3>5. QED
        BY <1>1, <3>1, <3>2, <3>4, TiposDelHilo
  <2>4. QED
      BY <2>2, <2>3
<1>9. CASE Responde(m)
  <2>1. /\ h0.pc = "responde" /\ errada' = errada /\ Sigue(m, "respondido")
        /\ UNCHANGED <<dir, meta, disco, bitmap, abiertos, memoria, fin, pisado, doble, compartido>>
      BY <1>9 DEF Responde, En, historia
  <2>2. PICK h : Turno(m, h) /\ h.pc = "respondido"
      BY <1>5, <2>1
  <2>3. Entradas'
      BY <1>1, <1>4, <2>1, <2>2, EntradasQuietas
  <2>4. QED
      BY <1>1, <2>1, <2>2, <2>3, TiposDelHilo
<1>10. QED
    BY <1>6, <1>7, <1>8, <1>9

(* Every step.                                                             *)
LEMMA TiposDelPaso ==
    ASSUME TiposInv, NEW m \in DOMAIN hilo, Abrir(m) \/ Operar(m) \/ Cerrar(m)
    PROVE  TiposInv'
<1>1. ASSUME Termina("sin_metadata") \/ Termina("ilegible") PROVE TiposInv'
    BY <1>1, TiposAlMorir DEF Finales
<1>2. CASE Abrir(m)
    BY <1>1, <1>2, TiposAlEntrar, TiposAlLeer DEF Abrir, LeeMal
<1>3. CASE Operar(m)
  <2>1. CASE New(m) \/ Catch(m) \/ Get(m) \/ Ilegible(m)
      BY <1>1, <2>1, TiposDelMensaje DEF Ilegible
  <2>2. CASE Libera(m) \/ VuelcaLibre(m) \/ Recorta(m)
      BY <2>2, TiposAlLiberar, TiposAlRecortar
  <2>3. CASE Escribe(m) \/ PideBloque(m) \/ Vuelca(m) \/ Crece(m)
      BY <2>3, TiposAlEscribir, TiposAlPedir, TiposAlVolcar, TiposAlCrecer
  <2>4. QED
      BY <1>3, <2>1, <2>2, <2>3 DEF Operar
<1>4. CASE Cerrar(m)
    BY <1>4, TiposAlCrecer, TiposAlCerrar DEF Cerrar
<1>5. QED
    BY <1>2, <1>3, <1>4

-----------------------------------------------------------------------------
(* The invariant.                                                          *)

(* At the start no thread works on a file, and there is nothing in any.    *)
LEMMA AlPrincipio ==
    ASSUME Init
    PROVE  EnOrden
<1>1. PICK S \in ESCENARIOS : hilo = [m \in S |-> Quieto]
    BY DEF Init
<1>2. /\ dir = [f \in ESPECIES |-> "no"] /\ meta = [f \in ESPECIES |-> Vacio]
      /\ disco = [b \in Numeros |-> <<>>] /\ bitmap = {} /\ abiertos = <<>>
      /\ fin = "no" /\ errada = FALSE /\ pisado = FALSE
    BY DEF Init
<1>3. DOMAIN hilo = S /\ \A m \in S : hilo[m] = Quieto
    BY <1>1
<1>4. /\ Quieto \in Hilo /\ HiloBien(Quieto) /\ Quieto.pc = "busca" /\ Quieto.libera = <<>>
      /\ Quieto.rta = NULL
    BY DEF Quieto, Hilo, HiloBien, Pcs, SinRespuesta, Cortando
<1>5. HilosInv
  <2>1. hilo \in [S -> Hilo]
      BY <1>1, <1>4
  <2>2. QED
      BY <1>3, <1>4, <2>1 DEF HilosInv
<1>6. /\ "busca" \notin Operando /\ "busca" \notin Cortando /\ "busca" \notin Escriben
      /\ "busca" \notin {"lee"} \union Operando \union Cerrando
    BY DEF Operando, Cortando, Escriben, Escribiendo, Cerrando
<1>7. ASSUME NEW f, NEW pcs, "busca" \notin pcs PROVE De(f, pcs) = {}
    BY <1>3, <1>4, <1>7 DEF De
<1>8. /\ Vacio \in Metadata /\ Vacio.size = 0 /\ Vacio.bloques = <<>> /\ Vacio.open = FALSE
    BY DEF Vacio, Metadata
<1>9. \A f \in ESPECIES : meta[f] = Vacio
    BY <1>2
<1>10. CarpetasInv
  <2>1. dir \in [ESPECIES -> {"no", "carpeta", "listo"}] /\ meta \in [ESPECIES -> Metadata]
      BY <1>2, <1>8
  <2>2. \A m \in DOMAIN hilo : hilo[m].pc \notin Operando /\ hilo[m].pc # "metadata"
      BY <1>3, <1>4, <1>6
  <2>3. QED
      BY <1>9, <2>1, <2>2 DEF CarpetasInv
<1>11. TablaInv
  <2>1. <<>> \in Seq(ESPECIES)
      OBVIOUS
  <2>2. ASSUME NEW f \in ESPECIES PROVE Veces(abiertos, f) = 0
    <3>1. LugaresDe(abiertos, f) = {}
        BY <1>2 DEF LugaresDe
    <3>2. QED
        BY <3>1, FS_EmptySet DEF Veces
  <2>3. ASSUME NEW f \in ESPECIES
        PROVE  /\ De(f, Operando) = {}
               /\ Cardinality(De(f, {"lee"} \union Operando \union Cerrando)) = 0
      BY <1>6, <1>7, FS_EmptySet
  <2>4. QED
      BY <1>2, <1>8, <1>9, <2>1, <2>2, <2>3 DEF TablaInv, Entradas, EnTabla
<1>12. ASSUME NEW f \in ESPECIES
       PROVE  /\ De(f, Cortando) = {} /\ Queda(f) = 0 /\ Nuevo(f) = <<>> /\ Van(f) = 0
              /\ Todo(f) = <<>> /\ Propios(f) = {} /\ Tomados(f) = {}
  <2>1. De(f, Cortando) = {} /\ De(f, Escriben) = {} /\ De(f, {"libera", "vuelcaLibre"}) = {}
      BY <1>6, <1>7
  <2>2. Queda(f) = 0 /\ Nuevo(f) = <<>> /\ Van(f) = 0
      BY <1>8, <1>9, <2>1 DEF Queda, Nuevo, Van
  <2>3. Todo(f) = <<>>
    <3>1. Texto(disco, meta[f].bloques, 0) = <<>>
        BY DEF Texto
    <3>2. <<>> \o <<>> = <<>>
        OBVIOUS
    <3>3. QED
        BY <2>2, <3>1, <3>2 DEF Todo
  <2>4. Propios(f) = {}
      BY <1>8, <1>9, <2>1 DEF Propios, ToSet
  <2>5. UNION {ToSet(hilo[u].libera) : u \in {v \in DOMAIN hilo : v.especie = f}} = {}
      BY <1>5, <2>1, SinLibera
  <2>6. QED
      BY <2>1, <2>2, <2>3, <2>4, <2>5 DEF Tomados
<1>13. ContenidoInv
  <2>1. DiscoBien(disco)
    <3>1. <<>> \in Seq(Byte) /\ Len(<<>>) = 0
        OBVIOUS
    <3>2. QED
        BY <1>2, <3>1, Constantes DEF DiscoBien
  <2>2. ASSUME NEW f \in ESPECIES PROVE Entero(f) /\ Acotado(f)
    <3>1. meta[f].size = 0 /\ meta[f].bloques = <<>>
        BY <1>8, <1>9
    <3>2. 0 <= Len(<<>>) * BLOCK_SIZE /\ 0 + 0 = 0 /\ 1 .. 0 = {}
        BY Constantes
    <3>3. EnDisco(disco, <<>>, 0, <<>>, 0)
        BY <3>2 DEF EnDisco
    <3>4. <<>> \in Seq(Byte) /\ Len(<<>>) = 0
        OBVIOUS
    <3>5. Bien(<<>>)
        BY <3>2, <3>4 DEF Bien
    <3>6. Entero(f)
        BY <1>12, <3>1, <3>2, <3>3, <3>5 DEF Entero
    <3>7. Contestadas = {}
        BY <1>3, <1>4 DEF Contestadas
    <3>8. Cardinality(Contestadas) = 0
        BY <3>7, FS_EmptySet
    <3>9. \A l \in LUGARES : Cuentas(<<>>)[l] = 0
        BY <3>2, <3>4, <3>5, CuentaDe
    <3>10. Acotado(f)
        BY <1>12, <3>8, <3>9 DEF Acotado
    <3>11. QED
        BY <3>6, <3>10
  <2>3. QED
      BY <2>1, <2>2 DEF ContenidoInv
<1>14. BloquesInv
  <2>1. \A f \in ESPECIES : Distintos(meta[f].bloques)
      BY <1>8, <1>9 DEF Distintos
  <2>2. \A m \in DOMAIN hilo : hilo[m].pc \notin Cortando
      BY <1>3, <1>4, <1>6
  <2>3. QED
      BY <1>12, <2>1, <2>2 DEF BloquesInv
<1>15. MapaInv
    BY <1>2, <1>12 DEF MapaInv, Finales
<1>16. QED
    BY <1>5, <1>10, <1>11, <1>13, <1>14, <1>15 DEF EnOrden

(* And nobody has opened anything.                                         *)
LEMMA TodoAlPrincipio ==
    ASSUME Init
    PROVE  IInv
<1>1. EnOrden
    BY AlPrincipio
<1>2. PICK S \in ESCENARIOS : /\ hilo = [m \in S |-> Quieto]
                              /\ copia = [m \in S |-> SinCopia] /\ leida = [m \in S |-> NULL]
    BY DEF Init
<1>3. DOMAIN hilo = S /\ \A m \in S : hilo[m].pc = "busca"
    BY <1>2 DEF Quieto
<1>4. pisado = FALSE /\ doble = FALSE /\ compartido = FALSE /\ disco = [b \in Numeros |-> <<>>]
    BY DEF Init
<1>5. copia \in [DOMAIN hilo -> Ficha] /\ leida \in [DOMAIN hilo -> Archivo \union {NULL}]
  <2>1. SinCopia \in Ficha
      BY DEF SinCopia, Ficha
  <2>2. QED
      BY <1>2, <1>3, <2>1
<1>6. meta \in [ESPECIES -> Archivo]
  <2>1. Vacio \in Archivo /\ meta = [f \in ESPECIES |-> Vacio]
      BY DEF Vacio, Archivo, Init
  <2>2. QED
      BY <2>1
<1>7. DiscoDe(disco)
  <2>1. <<>> \in Seq(Byte \union {NULL}) /\ Len(<<>>) = 0
      OBVIOUS
  <2>2. QED
      BY <1>4, <2>1, Constantes DEF DiscoDe
<1>8. TiposInv
    BY <1>1, <1>4, <1>5, <1>6, <1>7 DEF TiposInv, EnOrden, CarpetasInv, TablaInv, MapaInv
<1>9. Copias
  <2>1. "busca" \notin Operando
      BY DEF Operando
  <2>2. QED
      BY <1>2, <1>3, <2>1 DEF Copias
<1>10. QED
    BY <1>1, <1>4, <1>8, <1>9 DEF IInv, SinCompartir

(* Whatever a thread does next.                                            *)
LEMMA CadaPaso ==
    ASSUME IInv, NEW m \in DOMAIN hilo, Abrir(m) \/ Operar(m) \/ Cerrar(m)
    PROVE  IInv'
<1>1. TiposInv' /\ SinCompartir'
    BY TiposDelPaso, CompartirSigue DEF IInv
<1>2. ASSUME Sano' PROVE EnOrden' /\ Copias'
  <2>1. TiposInv /\ EnOrden /\ Copias
      BY <1>2, SanoAntes DEF IInv
  <2>2. Solo(m) /\ Copias'
      BY <1>2, <2>1, DeUno
  <2>3. QED
      BY <2>1, <2>2, PasoSolo
<1>3. QED
    BY <1>1, <1>2 DEF IInv

(* When nobody does anything.                                              *)
LEMMA NadaPasa ==
    ASSUME IInv, UNCHANGED vars
    PROVE  IInv'
<1>1. /\ UNCHANGED <<dir, meta, disco, bitmap, abiertos, hilo, copia, leida, fin>>
      /\ UNCHANGED <<errada, pisado, doble, compartido>>
    BY DEF vars, memoria, historia
<1>2. TiposInv' /\ SinCompartir' /\ Sano' = Sano
  <2>1. HilosInv' /\ Entradas'
      BY <1>1 DEF IInv, TiposInv, HilosInv, Entradas, De
  <2>2. QED
      BY <1>1, <2>1 DEF IInv, TiposInv, DiscoDe, SinCompartir, Sano
<1>3. ASSUME Sano PROVE EnOrden' /\ Copias'
  <2>1. EnOrden /\ Copias
      BY <1>3 DEF IInv
  <2>2. QED
      BY <1>1, <2>1, PasoNada, CopiasNada
<1>4. QED
    BY <1>2, <1>3 DEF IInv

(* The inductive invariant. Of any handlers on the file system: what they  *)
(* keep has its type, the table of open files its entries, and no block is *)
(* in two files unless a file was opened twice or a stale bitmap written.  *)
(* Until a file is opened twice or two get the same block, also all that   *)
(* keeps the files in order: one handler at a time with each, whose copy   *)
(* of the metadata is the Metadata.bin, files that are lists of records,   *)
(* and the bitmap of their blocks. What a double opening leaves is not     *)
(* excluded, and nothing more is said of it.                               *)
THEOREM Invariante == Spec => []IInv
<1>1. Init => IInv
    BY TodoAlPrincipio
<1>2. IInv /\ [Next]_vars => IInv'
  <2>1. ASSUME IInv, Next PROVE IInv'
    <3>1. PICK m \in DOMAIN hilo : Abrir(m) \/ Operar(m) \/ Cerrar(m)
        BY <2>1 DEF Next, Paso
    <3>2. QED
        BY <2>1, <3>1, CadaPaso
  <2>2. ASSUME IInv, UNCHANGED vars PROVE IInv'
      BY <2>2, NadaPasa
  <2>3. QED
      BY <2>1, <2>2
<1>3. QED
    BY <1>1, <1>2, PTL DEF Spec

(* Every variable has its type, and a block file holds no more than a      *)
(* block, whatever the handlers interleave, after a file was opened twice  *)
(* too.                                                                    *)
THEOREM TiposCorrectos == Spec => []TypeOK
<1>1. ASSUME IInv PROVE TypeOK
  <2>1. TiposInv /\ HilosInv /\ Entradas
      BY <1>1 DEF IInv, TiposInv
  <2>2. ASSUME NEW m \in DOMAIN hilo
        PROVE  /\ hilo[m].rta \in {NULL, 0, 1} /\ hilo[m].datos \in Seq(Byte)
               /\ hilo[m].van \in 0 .. Len(hilo[m].datos) /\ hilo[m].visto \subseteq Numeros
               /\ copia[m] \in [size : Int, bloques : Seq(Numeros)]
               /\ leida[m] \in Archivo \union {NULL}
    <3>1. hilo[m] \in Hilo /\ HiloBien(hilo[m])
        BY <2>1 DEF HilosInv
    <3>2. /\ hilo[m].rta \in {NULL, 0, 1} /\ hilo[m].datos \in Seq(Byte)
          /\ hilo[m].visto \subseteq Numeros /\ hilo[m].van \in Nat
        BY <3>1 DEF Hilo
    <3>3. hilo[m].van <= Len(hilo[m].datos) /\ Len(hilo[m].datos) \in Nat
        BY <3>1, <3>2, LenProperties DEF HiloBien
    <3>4. copia[m] \in Ficha /\ leida[m] \in Archivo \union {NULL}
        BY <2>1 DEF TiposInv
    <3>5. QED
        BY <3>2, <3>3, <3>4 DEF Ficha
  <2>3. /\ dir \in [ESPECIES -> {"no", "carpeta", "listo"}] /\ meta \in [ESPECIES -> Archivo]
        /\ DiscoDe(disco) /\ bitmap \subseteq Numeros /\ abiertos \in Seq(ESPECIES)
        /\ fin \in Finales \union {"ilegible", "bloque_doble"}
        /\ errada \in BOOLEAN /\ pisado \in BOOLEAN /\ doble \in BOOLEAN /\ compartido \in BOOLEAN
      BY <2>1 DEF TiposInv, Entradas
  <2>4. QED
      BY <2>2, <2>3 DEF TypeOK, Finales, DiscoDe
<1>2. QED
    BY <1>1, Invariante, PTL

(* Unless a handler removed the entry of another, the table of open files  *)
(* has an entry for each handler between its open and its close, also when *)
(* several have the same file open. OPEN is Y while one of them works on   *)
(* the file, but only until a file is opened twice or two get the same     *)
(* block: from then on the first to close writes N under the others.       *)
THEOREM LaTablaEsFiel == Spec => []TablaFiel
<1>1. ASSUME IInv PROVE TablaFiel
  <2>1. Entradas /\ (Sano => TablaInv)
      BY <1>1 DEF IInv, TiposInv, EnOrden
  <2>2. \A f : Veces(abiertos, f) = Cardinality({i \in DOMAIN abiertos : abiertos[i] = f})
      BY DEF Veces, LugaresDe
  <2>3. QED
      BY <2>1, <2>2 DEF Entradas, EnTabla, TablaInv, TablaFiel
<1>2. QED
    BY <1>1, Invariante, PTL

(* As long as no handler wrote a bitmap that was not the one it had read,  *)
(* nor opened a file that another had open, the blocks taken are those of  *)
(* the files and those being given back: no block leaks, and none is in    *)
(* two files. Two handlers that have the same file open lose a block even  *)
(* with a bitmap that is not stale, and of them it says nothing.           *)
THEOREM ElBitmapEsFiel == Spec => []BitmapFiel
<1>1. ASSUME EnOrden, ~pisado
      PROVE  /\ bitmap = (UNION {Propios(f) : f \in ESPECIES})
                         \union (UNION {ToSet(hilo[m].libera) : m \in DOMAIN hilo})
             /\ \A f, g \in ESPECIES : f # g => Propios(f) \intersect Propios(g) = {}
  <2>1. /\ bitmap = UNION {Tomados(f) : f \in ESPECIES}
        /\ \A f, g \in ESPECIES : f # g => Tomados(f) \intersect Tomados(g) = {}
      BY <1>1 DEF EnOrden, MapaInv
  <2>2. \A m \in DOMAIN hilo : m.especie \in ESPECIES
      BY <1>1, SusMensajes DEF EnOrden
  <2>3. \A f : Propios(f) \subseteq Tomados(f)
      BY DEF Tomados
  <2>4. ASSUME NEW x
        PROVE  (\E f \in ESPECIES : x \in Tomados(f))
                 <=> \/ \E f \in ESPECIES : x \in Propios(f)
                     \/ \E m \in DOMAIN hilo : x \in ToSet(hilo[m].libera)
    <3>1. ASSUME NEW f PROVE x \in Tomados(f) <=>
              \/ x \in Propios(f)
              \/ \E m \in DOMAIN hilo : m.especie = f /\ x \in ToSet(hilo[m].libera)
        BY DEF Tomados
    <3>2. QED
        BY <2>2, <3>1
  <2>5. bitmap = (UNION {Propios(f) : f \in ESPECIES})
                 \union (UNION {ToSet(hilo[m].libera) : m \in DOMAIN hilo})
    <3> DEFINE A == UNION {Tomados(f) : f \in ESPECIES}
               B == UNION {Propios(f) : f \in ESPECIES}
               C == UNION {ToSet(hilo[m].libera) : m \in DOMAIN hilo}
    <3>1. \A x : x \in A <=> \E f \in ESPECIES : x \in Tomados(f)
        OBVIOUS
    <3>2. \A x : x \in B <=> \E f \in ESPECIES : x \in Propios(f)
        OBVIOUS
    <3>3. \A x : x \in C <=> \E m \in DOMAIN hilo : x \in ToSet(hilo[m].libera)
        OBVIOUS
    <3>4. bitmap = A
        BY <2>1
    <3> HIDE DEF A, B, C
    <3>5. \A x : x \in A <=> x \in B \/ x \in C
        BY <2>4, <3>1, <3>2, <3>3
    <3>6. bitmap = B \union C
        BY <3>4, <3>5
    <3>7. QED
        BY <3>6 DEF B, C
  <2>6. QED
      BY <2>1, <2>3, <2>5
<1>2. IInv => BitmapFiel
  <2>1. ASSUME IInv, ~pisado, ~doble PROVE ~compartido /\ EnOrden
      BY <2>1 DEF IInv, SinCompartir, Sano
  <2>2. QED
      BY <1>1, <2>1 DEF BitmapFiel
<1>3. QED
    BY <1>2, Invariante, PTL
=============================================================================
