------------------------------- MODULE DialFS -------------------------------
(***************************************************************************)
(* The file system of an interface of type DIALFS: a bitmap, an area of    *)
(* blocks and, for each file, its metadata (first block and size): a file  *)
(* is one run of blocks.  The interface serves one request at a time; the  *)
(* compaction, where a TRUNCATE moves the other files one by one and puts  *)
(* the file that grows after them, is modelled a file at a time, the other *)
(* requests in one step each.  The process may die in the middle of one,   *)
(* and is started again: the bitmap and the blocks are files mapped in     *)
(* memory, so what was done is kept, and nothing is checked or repaired.   *)
(***************************************************************************)
EXTENDS Integers, Sequences, FiniteSets, FiniteSetsExt

CONSTANTS Nombres,       \* names of files
          Ninguno,       \* no request, no compaction, no crash
          TamBloque,     \* BLOCK_SIZE
          CantBloques,   \* BLOCK_COUNT
          Valores,       \* what a byte may hold, 0 included
          Copias,        \* orders in which memcpy copies areas that overlap
          Tamanios,      \* bound: the sizes a TRUNCATE asks for
          Datos          \* bound: what a WRITE writes; a READ reads as much

Bloques == 0..(CantBloques - 1)
Bytes == 0..(CantBloques * TamBloque - 1)

Pedidos == [op : {"create", "delete", "truncate", "write", "read"}, archivo : Nombres,
            tam : Nat, puntero : Nat, dato : Seq(Valores)]
Caidas == [donde : {"borra", "achica", "compacta"}, archivo : Nombres]
Tareas == [faltan : SUBSET Nombres, offset : Nat, copia : Seq(Valores)]

ASSUME DialFSAssumption ==
    /\ TamBloque \in Nat \ {0} /\ CantBloques \in Nat \ {0} /\ 0 \in Valores
    /\ Copias # {} /\ Copias \subseteq {"adelante", "atras"} /\ Datos \subseteq Seq(Valores)
    /\ Tamanios \subseteq Nat
    /\ Ninguno \notin Nombres \cup Pedidos \cup Caidas \cup Tareas

VARIABLES
    bitmap,      \* the blocks whose bit is set
    disco,       \* block_fs
    metadatas,   \* the metadata of the files that have it
    madre,       \* the names in archivo_madre
    vacios,      \* names with an empty metadata file, left by a crash
    pedido,      \* the request that is being served
    respuesta,   \* what a READ delivered
    tarea,       \* the compaction in progress
    caida        \* history: the crash that broke the blocks of a file

archivos == <<madre, vacios>>
vars == <<bitmap, disco, metadatas, archivos, pedido, respuesta, tarea, caida>>

Existentes == DOMAIN metadatas

TypeOK ==
    /\ bitmap \subseteq Bloques /\ disco \in [Bytes -> Valores]
    /\ Existentes \subseteq Nombres /\ madre \subseteq Existentes \cup vacios
    /\ vacios \subseteq Nombres \ Existentes /\ caida \in Caidas \cup {Ninguno}
    /\ \A n \in Existentes : metadatas[n] \in [inicio : Bloques, tam : Nat]
    /\ pedido \in Pedidos \cup {Ninguno}
    /\ respuesta \in Seq(Valores)
    /\ tarea \in Tareas \cup {Ninguno}
    /\ tarea # Ninguno => /\ pedido # Ninguno /\ pedido.op = "truncate"
                          /\ tarea.faltan \subseteq Existentes \ {pedido.archivo}

-----------------------------------------------------------------------------
(* Mutant: a file of size zero has no block. *)
CalcularBloquesSinMinimo(tam) == (tam + TamBloque - 1) \div TamBloque

(* An empty file has a block too.                                          *)
CalcularBloques(tam) == IF tam = 0 THEN 1 ELSE (tam + TamBloque - 1) \div TamBloque

Tramo(inicio, n) == inicio..(inicio + n - 1)
BloquesDe(n) == Tramo(metadatas[n].inicio, CalcularBloques(metadatas[n].tam))

HayLibre == bitmap # Bloques
BloqueLibre == Min(Bloques \ bitmap)

(* Free blocks in a row from one on.                                       *)
EspacioContiguo(desde) == Min({b \in bitmap : b >= desde} \cup {CantBloques}) - desde

LeerDisco(inicio, desde, tam) ==
    [i \in 1..tam |-> disco[inicio * TamBloque + desde + i - 1]]
Grabar(inicio, desde, dato) ==
    disco' = [b \in Bytes |->
                LET i == b - (inicio * TamBloque + desde) + 1
                IN IF i \in DOMAIN dato THEN dato[i] ELSE disco[b]]

(* memcpy_datos_origen_destino.  The areas overlap when a file moves less  *)
(* than its size: what is then copied depends on the order of the copy.    *)
Copiado(destino, origen, tam, orden) ==
    LET salto == (origen - destino) * TamBloque
        fuente(i) == IF orden = "adelante" THEN i ELSE i + ((tam - i) \div salto) * salto
    IN [i \in 1..tam |-> disco[origen * TamBloque + fuente(i) - 1]]

Init ==
    /\ bitmap = {} /\ disco = [b \in Bytes |-> 0] /\ metadatas = << >>
    /\ madre = {} /\ vacios = {} /\ caida = Ninguno
    /\ pedido = Ninguno /\ respuesta = <<>> /\ tarea = Ninguno

-----------------------------------------------------------------------------
(* What programs may ask.  TRUNCATE, WRITE and READ are of a file that     *)
(* exists, inside it, and no more blocks are asked for than there are:     *)
(* the interface checks none of this.                                      *)
Otros(n) == Existentes \ {n}
Ocupan(S) == MapThenSumSet(LAMBDA n : CalcularBloques(metadatas[n].tam), S)
Entra(n, tam) == Ocupan(Otros(n)) + CalcularBloques(tam) <= CantBloques

Pide(op, n, tam, puntero, dato) ==
    /\ pedido = Ninguno
    /\ pedido' = [op |-> op, archivo |-> n, tam |-> tam, puntero |-> puntero, dato |-> dato]
    /\ respuesta' = <<>>
    /\ UNCHANGED <<bitmap, disco, metadatas, archivos, tarea, caida>>

PideAlta == \E n \in Nombres : Pide("create", n, 0, 0, <<>>)
PideBaja == \E n \in Nombres : Pide("delete", n, 0, 0, <<>>)
PideTamanio == \E n \in Existentes, tam \in Tamanios :
                  Entra(n, tam) /\ Pide("truncate", n, tam, 0, <<>>)
PideEscritura == \E n \in Existentes, d \in Datos : \E p \in 0..(metadatas[n].tam - Len(d)) :
                  Pide("write", n, Len(d), p, d)
PideLectura == \E n \in Existentes, d \in Datos : \E p \in 0..(metadatas[n].tam - Len(d)) :
                  Pide("read", n, Len(d), p, <<>>)

-----------------------------------------------------------------------------
Sirve(op) == pedido # Ninguno /\ pedido.op = op /\ tarea = Ninguno
Archivo == metadatas[pedido.archivo]
Contesta(bytes) == pedido' = Ninguno /\ respuesta' = bytes

(* archivo_madre, a list of names in a text file.                          *)
AgregarNombre == madre' = madre \cup {pedido.archivo}
EliminarNombre == madre' = madre \ {pedido.archivo}

Crear ==
    /\ Sirve("create") /\ HayLibre /\ pedido.archivo \notin Existentes \cup vacios
    /\ bitmap' = bitmap \cup {BloqueLibre}
    /\ metadatas' = [n \in Existentes \cup {pedido.archivo} |->
                       IF n \in Existentes THEN metadatas[n]
                       ELSE [inicio |-> BloqueLibre, tam |-> 0]]
    /\ AgregarNombre
    /\ Contesta(<<>>)
    /\ UNCHANGED <<disco, vacios, tarea, caida>>

Borrar ==
    /\ Sirve("delete") /\ pedido.archivo \in Existentes
    /\ LET libera == Tramo(Archivo.inicio, CalcularBloques(Archivo.tam))
       IN /\ bitmap' = bitmap \ libera
          /\ disco' = [b \in Bytes |-> IF b \div TamBloque \in libera THEN 0 ELSE disco[b]]
    /\ metadatas' = [n \in Existentes \ {pedido.archivo} |-> metadatas[n]]
    /\ EliminarNombre
    /\ Contesta(<<>>)
    /\ UNCHANGED <<vacios, tarea, caida>>

NoHaceNada ==
    /\ \/ Sirve("create") /\ (~HayLibre \/ pedido.archivo \in Existentes \cup vacios)
       \/ Sirve("delete") /\ pedido.archivo \notin Existentes \cup vacios
    /\ Contesta(<<>>)
    /\ UNCHANGED <<bitmap, disco, metadatas, archivos, tarea, caida>>

Escribir ==
    /\ Sirve("write")
    /\ Grabar(Archivo.inicio, pedido.puntero, pedido.dato)
    /\ Contesta(<<>>)
    /\ UNCHANGED <<bitmap, metadatas, archivos, tarea, caida>>

Leer ==
    /\ Sirve("read")
    /\ Contesta(LeerDisco(Archivo.inicio, pedido.puntero, pedido.tam))
    /\ UNCHANGED <<bitmap, disco, metadatas, archivos, tarea, caida>>

-----------------------------------------------------------------------------
(* TRUNCATE.                                                               *)
Tiene == CalcularBloques(Archivo.tam)
Alcanza == pedido.tam <= Tiene * TamBloque
HayContiguo == EspacioContiguo(Archivo.inicio + Tiene) * TamBloque
               >= pedido.tam - Tiene * TamBloque
ModificarMetadata(n, inicio, tam) ==
    metadatas' = [metadatas EXCEPT ![n] = [inicio |-> inicio, tam |-> tam]]

Achicar ==
    /\ Sirve("truncate") /\ Alcanza
    /\ bitmap' = bitmap \ Tramo(Archivo.inicio + CalcularBloques(pedido.tam),
                                Tiene - CalcularBloques(pedido.tam))
    /\ ModificarMetadata(pedido.archivo, Archivo.inicio, pedido.tam)
    /\ Contesta(<<>>)
    /\ UNCHANGED <<disco, archivos, tarea, caida>>

(* Mutant: the blocks are taken without looking whether they are free. *)
AgrandarSinMirar ==
    /\ Sirve("truncate") /\ ~Alcanza /\ Archivo.inicio + CalcularBloques(pedido.tam) <= CantBloques
    /\ bitmap' = bitmap \cup Tramo(Archivo.inicio + Tiene,
                                   CalcularBloques(pedido.tam - Tiene * TamBloque))
    /\ ModificarMetadata(pedido.archivo, Archivo.inicio, pedido.tam)
    /\ Contesta(<<>>)
    /\ UNCHANGED <<disco, archivos, tarea, caida>>

Agrandar ==
    /\ Sirve("truncate") /\ ~Alcanza /\ HayContiguo
    /\ bitmap' = bitmap \cup Tramo(Archivo.inicio + Tiene,
                                   CalcularBloques(pedido.tam - Tiene * TamBloque))
    /\ ModificarMetadata(pedido.archivo, Archivo.inicio, pedido.tam)
    /\ Contesta(<<>>)
    /\ UNCHANGED <<disco, archivos, tarea, caida>>

(* The metadata of every name of the list is read, and must hold an extent.*)
MetadatasLegibles == madre \cap vacios = {}

(* The data of the file that grows is kept aside; its bits stay set.       *)
IniciarCompactacion ==
    /\ Sirve("truncate") /\ ~Alcanza /\ ~HayContiguo /\ MetadatasLegibles
    /\ tarea' = [faltan |-> madre \ {pedido.archivo}, offset |-> 0,
                 copia |-> LeerDisco(Archivo.inicio, 0, Archivo.tam)]
    /\ UNCHANGED <<bitmap, disco, metadatas, archivos, pedido, respuesta, caida>>

Compactando == tarea # Ninguno
(* Mutant: the list of metadata is not sorted. *)
EsElSiguienteSinOrdenar(n) == n \in tarea.faltan
EsElSiguiente(n) ==
    n \in tarea.faltan /\ \A o \in tarea.faltan : metadatas[n].inicio <= metadatas[o].inicio

(* liberar_bloques is given the blocks of the file plus offset: it clears  *)
(* bits past the file, which later files set again when they move.         *)
ReasignarBitmap(nuevo, anterior, cant) ==
    bitmap' = (bitmap \ Tramo(anterior, cant + nuevo)) \cup Tramo(nuevo, cant)

MoverArchivo ==
    /\ Compactando
    /\ \E n \in Nombres :
         /\ EsElSiguiente(n)
         /\ LET inicio == metadatas[n].inicio
                tam == metadatas[n].tam
                cant == CalcularBloques(tam)
            IN /\ IF tarea.offset = inicio
                  THEN UNCHANGED <<bitmap, disco, metadatas>>
                  ELSE /\ \E orden \in Copias :
                            Grabar(tarea.offset, 0, Copiado(tarea.offset, inicio, tam, orden))
                       /\ ReasignarBitmap(tarea.offset, inicio, cant)
                       /\ ModificarMetadata(n, tarea.offset, tam)
               /\ tarea' = [tarea EXCEPT !.faltan = @ \ {n}, !.offset = @ + cant]
    /\ UNCHANGED <<archivos, pedido, respuesta, caida>>

(* The file that grows goes to the first free block.  The model stops      *)
(* where the blocks it is given are not all on the disk: the code writes   *)
(* past the end of its areas.                                              *)
Coloca == Tramo(BloqueLibre, CalcularBloques(pedido.tam))
ColocarAlFinal ==
    /\ Compactando /\ tarea.faltan = {} /\ HayLibre /\ Coloca \subseteq Bloques
    /\ Grabar(BloqueLibre, 0, tarea.copia)
    /\ ModificarMetadata(pedido.archivo, BloqueLibre, pedido.tam)
    /\ bitmap' = bitmap \cup Coloca
    /\ tarea' = Ninguno
    /\ Contesta(<<>>)
    /\ UNCHANGED <<archivos, caida>>

-----------------------------------------------------------------------------
(* The process dies in the middle of a request, which gets no answer, and  *)
(* is started again.  The bits of a run are set and cleared one by one.    *)
Muere == pedido # Ninguno /\ tarea' = Ninguno /\ Contesta(<<>>)
Rompe(donde) == Muere /\ caida' = [donde |-> donde, archivo |-> pedido.archivo]

(* fopen, the bit, the name and the metadata are written in this order.    *)
MuereCreando ==
    /\ Sirve("create") /\ HayLibre /\ pedido.archivo \notin Existentes \cup vacios
    /\ vacios' = vacios \cup {pedido.archivo}
    /\ \/ UNCHANGED <<bitmap, madre>>
       \/ /\ bitmap' = bitmap \cup {BloqueLibre}
          /\ madre' \in {madre, madre \cup {pedido.archivo}}
    /\ Muere
    /\ UNCHANGED <<disco, metadatas, caida>>

(* The bits, the data, the name (archivo_madre is removed, and a file      *)
(* without the name renamed in its place) and the metadata last.           *)
MuereBorrando ==
    /\ Sirve("delete") /\ pedido.archivo \in Existentes
    /\ LET n == CalcularBloques(Archivo.tam)
           libera(k) == Tramo(Archivo.inicio, k)
       IN \/ /\ \E k \in 1..n : bitmap' = bitmap \ libera(k)
             /\ UNCHANGED <<disco, madre>>
          \/ /\ bitmap' = bitmap \ libera(n)
             /\ disco' = [b \in Bytes |-> IF b \div TamBloque \in libera(n) THEN 0 ELSE disco[b]]
             /\ madre' \in {madre, {}, madre \ {pedido.archivo}}
    /\ Rompe("borra")
    /\ UNCHANGED <<metadatas, vacios>>

MuereAchicando ==
    /\ Sirve("truncate") /\ Alcanza
    /\ \E k \in 1..(Tiene - CalcularBloques(pedido.tam)) :
         bitmap' = bitmap \ Tramo(Archivo.inicio + CalcularBloques(pedido.tam), k)
    /\ Rompe("achica")
    /\ UNCHANGED <<disco, metadatas, archivos>>

(* Mutant: the metadata is saved before the bits. *)
MuereAgrandandoAlReves ==
    /\ Sirve("truncate") /\ ~Alcanza /\ HayContiguo
    /\ ModificarMetadata(pedido.archivo, Archivo.inicio, pedido.tam)
    /\ Muere
    /\ UNCHANGED <<bitmap, disco, archivos, caida>>

MuereAgrandando ==
    /\ Sirve("truncate") /\ ~Alcanza /\ HayContiguo
    /\ \E k \in 1..CalcularBloques(pedido.tam - Tiene * TamBloque) :
         bitmap' = bitmap \cup Tramo(Archivo.inicio + Tiene, k)
    /\ Muere
    /\ UNCHANGED <<disco, metadatas, archivos, caida>>

(* Between two files, or with a file copied, in part or whole, and its     *)
(* bits cleared and set in part, before its metadata is saved.             *)
MuereMoviendo ==
    /\ Compactando
    /\ \/ UNCHANGED <<bitmap, disco>>
       \/ \E n \in tarea.faltan :
            LET inicio == metadatas[n].inicio
                tam == metadatas[n].tam
                cant == CalcularBloques(tam)
                quedan == bitmap \ Tramo(inicio, cant + tarea.offset)
                copiado(orden, k) == SubSeq(Copiado(tarea.offset, inicio, tam, orden), 1, k)
            IN /\ EsElSiguiente(n) /\ tarea.offset # inicio
               /\ \E orden \in Copias, k \in 0..tam :
                    /\ Grabar(tarea.offset, 0, copiado(orden, k))
                    /\ \/ UNCHANGED bitmap
                       \/ k = tam /\ \E i \in 1..(cant + tarea.offset) :
                                       bitmap' = bitmap \ Tramo(inicio, i)
                       \/ k = tam /\ \E i \in 1..cant :
                                       bitmap' = quedan \cup Tramo(tarea.offset, i)
    /\ Rompe("compacta")
    /\ UNCHANGED <<metadatas, archivos>>

MuereColocando ==
    /\ Compactando /\ tarea.faltan = {} /\ HayLibre /\ Coloca \subseteq Bloques
    /\ Grabar(BloqueLibre, 0, tarea.copia)
    /\ \/ UNCHANGED <<bitmap, metadatas>>
       \/ /\ ModificarMetadata(pedido.archivo, BloqueLibre, pedido.tam)
          /\ \E k \in 0..(Cardinality(Coloca) - 1) : bitmap' = bitmap \cup Tramo(BloqueLibre, k)
    /\ Rompe("compacta")
    /\ UNCHANGED archivos

(* Before anything was done, or with part of the data of a WRITE.          *)
MuereSinMas ==
    /\ ~Compactando
    /\ \/ UNCHANGED disco
       \/ /\ Sirve("write")
          /\ \E k \in DOMAIN pedido.dato :
               Grabar(Archivo.inicio, pedido.puntero, SubSeq(pedido.dato, 1, k))
    /\ Muere
    /\ UNCHANGED <<bitmap, metadatas, archivos, caida>>

(* A metadata file with nothing in it is read all the same, by a request   *)
(* of that file or by the compaction before it moves anything: the process *)
(* dies again.                                                             *)
MuereConVacio ==
    /\ tarea = Ninguno /\ pedido # Ninguno
    /\ \/ pedido.op # "create" /\ pedido.archivo \in vacios
       \/ Sirve("truncate") /\ ~Alcanza /\ ~HayContiguo /\ ~MetadatasLegibles
    /\ Muere
    /\ UNCHANGED <<bitmap, disco, metadatas, archivos, caida>>

Caer == MuereCreando \/ MuereBorrando \/ MuereAchicando \/ MuereAgrandando
        \/ MuereMoviendo \/ MuereColocando \/ MuereSinMas \/ MuereConVacio

-----------------------------------------------------------------------------
(* After a crash that broke the blocks of a file nothing is said: the next *)
(* requests only spread the damage.                                        *)
Rota == caida # Ninguno

Pedir == PideAlta \/ PideBaja \/ PideTamanio \/ PideEscritura \/ PideLectura

Servir == Crear \/ Borrar \/ NoHaceNada \/ Escribir \/ Leer \/ Achicar \/ Agrandar
          \/ IniciarCompactacion \/ MoverArchivo \/ ColocarAlFinal

Next == ~Rota /\ (Pedir \/ Servir \/ Caer)

Spec == Init /\ [][Next]_vars

-----------------------------------------------------------------------------
(* No block belongs to two files and every block of a file is marked, so   *)
(* that nobody else is given it: at rest, and during the compaction for    *)
(* the files that are not in flight (the bits of the files yet to move may *)
(* have been cleared by one that moved).  A crash while a file is created, *)
(* grows in place or is written keeps it so.                               *)
EnSuLugar == IF Compactando THEN Existentes \ (tarea.faltan \cup {pedido.archivo})
             ELSE Existentes
Comparten(n, o) == n # o /\ BloquesDe(n) \cap BloquesDe(o) # {}
SinMarcar(n) == ~(BloquesDe(n) \subseteq bitmap)

BloquesDeUno ==
    ~Rota =>
      /\ \A n, o \in Existentes :
           ~(Compactando /\ pedido.archivo \in {n, o}) => ~Comparten(n, o)
      /\ \A n \in EnSuLugar : ~SinMarcar(n)

(* What the other crashes leave: a file that was deleted or shrunk, and    *)
(* only that one, on blocks that are free; after a compaction cut short    *)
(* the file that was to grow may share its blocks, and no other two do.    *)
(* The list of names is lost only in the middle of a DELETE.               *)
CaidaDelimitada ==
    Rota =>
      /\ \A n, o \in Existentes :
           Comparten(n, o) => caida.donde = "compacta" /\ caida.archivo \in {n, o}
      /\ \A n \in Existentes : SinMarcar(n) => caida.donde = "compacta" \/ n = caida.archivo
      /\ caida.donde # "borra" => Existentes \subseteq madre

(* The files that moved are packed in front of those yet to move, so that  *)
(* no copy runs over data nobody copied yet.                               *)
CompactaEnOrden ==
    Compactando =>
      /\ UNION {BloquesDe(n) : n \in EnSuLugar} = 0..(tarea.offset - 1)
      /\ \A n \in tarea.faltan : metadatas[n].inicio >= tarea.offset

(* Outside the compaction, and without a crash, no bit is left set that    *)
(* belongs to no file: a request that is served in one step changes the    *)
(* marked blocks exactly as it changes the blocks of the files.            *)
Sobrantes == bitmap \ UNION {BloquesDe(n) : n \in Existentes}
SoloCompactarPierde == [][Servir /\ tarea = Ninguno => Sobrantes' = Sobrantes]_vars

(* The programs see files with contents of their own, and a crash loses at *)
(* most the file of the request and the one that was being moved: the      *)
(* refinement reads a file through its metadata and, while it is in        *)
(* flight, its copy.                                                       *)
Contenido ==
    [n \in Nombres |->
       IF n \notin Existentes THEN <<>>
       ELSE IF Compactando /\ n = pedido.archivo THEN tarea.copia
       ELSE LeerDisco(metadatas[n].inicio, 0, metadatas[n].tam)]

Alto == INSTANCE Archivos WITH existentes <- Existentes, contenido <- Contenido
ImplementaArchivos == Alto!Spec
=============================================================================
