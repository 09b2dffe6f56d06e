------------------------------ MODULE Archivos ------------------------------
(* What DialFS promises to the programs: files with names, each a sequence *)
(* of bytes of its own, and one request at a time.  A read answers the     *)
(* bytes that were written; a change of size keeps the prefix that fits    *)
(* and says nothing of the bytes it adds; no request touches another file. *)
(* No blocks, bitmap or compaction.  The contents after a step are         *)
(* constrained, never enumerated: module DialFS implements this one.       *)
EXTENDS Integers, Sequences

CONSTANTS Nombres, Ninguno

VARIABLES existentes,   \* the names that are in use
          contenido,    \* the bytes of each file
          pedido,       \* the request the kernel sent and waits for
          respuesta     \* the bytes the last request delivered

Init == /\ existentes = {} /\ contenido = [n \in Nombres |-> <<>>]
        /\ pedido = Ninguno /\ respuesta = <<>>

Pide ==
    /\ pedido = Ninguno /\ pedido' # Ninguno /\ respuesta' = <<>>
    /\ UNCHANGED <<existentes, contenido>>

Contesta(bytes) == pedido' = Ninguno /\ respuesta' = bytes

(* A file is not created if its name is in use or there is no room.        *)
Crea(n) ==
    /\ existentes' \in {existentes, existentes \cup {n}}
    /\ contenido' = contenido
    /\ Contesta(<<>>)

Borra(n) ==
    /\ existentes' = existentes \ {n}
    /\ contenido' = [contenido EXCEPT ![n] = <<>>]
    /\ Contesta(<<>>)

Trunca(n, tam) ==
    LET queda == IF tam < Len(contenido[n]) THEN tam ELSE Len(contenido[n])
    IN /\ \A o \in Nombres \ {n} : contenido'[o] = contenido[o]
       /\ Len(contenido'[n]) = tam
       /\ SubSeq(contenido'[n], 1, queda) = SubSeq(contenido[n], 1, queda)
       /\ UNCHANGED existentes
       /\ Contesta(<<>>)

Escribe(n, puntero, dato) ==
    /\ contenido' = [contenido EXCEPT
         ![n] = [i \in DOMAIN @ |-> IF i - puntero \in DOMAIN dato
                                    THEN dato[i - puntero] ELSE @[i]]]
    /\ UNCHANGED existentes
    /\ Contesta(<<>>)

Lee(n, puntero, tam) ==
    /\ Contesta(SubSeq(contenido[n], puntero + 1, puntero + tam))
    /\ UNCHANGED <<existentes, contenido>>

(* The process dies before it answers: the file of the request may be      *)
(* left with any bytes and, if it changed size, one other file too.        *)
Pierde ==
    /\ \E otro \in Nombres :
         /\ otro = pedido.archivo \/ pedido.op = "truncate"
         /\ \A n \in Nombres \ {pedido.archivo, otro} : contenido'[n] = contenido[n]
    /\ UNCHANGED existentes
    /\ Contesta(<<>>)

Next ==
    \/ Pide
    \/ /\ pedido # Ninguno
       /\ \/ Pierde
          \/ pedido.op = "create" /\ Crea(pedido.archivo)
          \/ pedido.op = "delete" /\ Borra(pedido.archivo)
          \/ pedido.op = "truncate" /\ Trunca(pedido.archivo, pedido.tam)
          \/ pedido.op = "write" /\ Escribe(pedido.archivo, pedido.puntero, pedido.dato)
          \/ pedido.op = "read" /\ Lee(pedido.archivo, pedido.puntero, pedido.tam)

Spec == Init /\ [][Next]_<<existentes, contenido, pedido, respuesta>>
=============================================================================
