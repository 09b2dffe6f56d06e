-------------------------- MODULE EspaciosPrivados --------------------------
(* What paging promises to the programs: each process has a memory of its  *)
(* own, addressed by bytes from zero.  A read, a write or a copy is done in *)
(* pieces from the first byte to the last, touches no byte but its own, and *)
(* a change of size keeps what fits.  No pages, frames or translations.    *)
(* What a process asks for is only constrained, never enumerated: the      *)
(* module is the property that module Memoria implements.                  *)
EXTENDS Integers, Sequences

CONSTANTS Pids, Valores

VARIABLES mem,       \* the bytes of each process
          orden      \* what is being done to the memory of each process

Nada == [tipo |-> "nada", dl |-> 0, tam |-> 0, dato |-> <<>>, hechos |-> 0]

Init == mem = [p \in Pids |-> <<>>] /\ orden = [p \in Pids |-> Nada]

Entra(p, dl, tam) == dl + tam <= Len(mem[p])

Pide(p) ==
    /\ orden[p] = Nada
    /\ \/ /\ orden'[p].tipo = "escribe" /\ Len(orden'[p].dato) = orden'[p].tam
          /\ Entra(p, orden'[p].dl, orden'[p].tam)
       \/ /\ orden'[p].tipo = "lee" /\ orden'[p].dato = <<>>
          /\ Entra(p, orden'[p].dl, orden'[p].tam)
       \/ orden'[p].tipo = "ajusta"
    /\ orden'[p].hechos = 0
    /\ orden' = [orden EXCEPT ![p] = orden'[p]]
    /\ UNCHANGED mem

EscribeTramo(p) ==
    /\ orden[p].tipo = "escribe"
    /\ \E n \in (orden[p].hechos + 1)..orden[p].tam :
         /\ mem' = [mem EXCEPT ![p] =
                      [i \in DOMAIN @ |->
                         IF i - orden[p].dl \in (orden[p].hechos + 1)..n
                         THEN orden[p].dato[i - orden[p].dl] ELSE @[i]]]
         /\ orden' = [orden EXCEPT ![p].hechos = n]

LeeTramo(p) ==
    /\ orden[p].tipo = "lee"
    /\ \E n \in (orden[p].hechos + 1)..orden[p].tam :
         orden' = [orden EXCEPT
                     ![p].dato = @ \o SubSeq(mem[p], orden[p].dl + orden[p].hechos + 1,
                                             orden[p].dl + n),
                     ![p].hechos = n]
    /\ UNCHANGED mem

(* The second half of a copy: what was read is written somewhere else.     *)
Copia(p) ==
    /\ orden[p].tipo = "lee" /\ orden[p].hechos = orden[p].tam
    /\ orden'[p].tipo = "escribe" /\ orden'[p].dato = orden[p].dato
    /\ orden'[p].hechos = 0 /\ orden'[p].tam = orden[p].tam
    /\ Entra(p, orden'[p].dl, orden'[p].tam)
    /\ orden' = [orden EXCEPT ![p] = orden'[p]]
    /\ UNCHANGED mem

AjustaTramo(p) ==
    /\ orden[p].tipo = "ajusta"
    /\ orden' = [orden EXCEPT ![p].hechos = 1]
    /\ \E n \in 0..(IF Len(mem'[p]) < Len(mem[p]) THEN Len(mem'[p]) ELSE Len(mem[p])) :
         /\ n \in {Len(mem[p]), Len(mem'[p])}
         /\ SubSeq(mem'[p], 1, n) = SubSeq(mem[p], 1, n)
    /\ mem' = [mem EXCEPT ![p] = mem'[p]]

(* A change of size ends with room for what was asked, or with nothing     *)
(* changed.                                                                *)
Termina(p) ==
    /\ \/ orden[p].tipo \in {"escribe", "lee"} /\ orden[p].hechos = orden[p].tam
       \/ orden[p].tipo = "ajusta" /\ (Len(mem[p]) >= orden[p].tam \/ orden[p].hechos = 0)
    /\ orden' = [orden EXCEPT ![p] = Nada]
    /\ UNCHANGED mem

(* The process ends; what was being done to its memory, if anything, stops. *)
Abandona(p) ==
    /\ orden' = [orden EXCEPT ![p] = Nada]
    /\ UNCHANGED mem

Borra(p) ==
    /\ orden[p] = Nada
    /\ mem' = [mem EXCEPT ![p] = <<>>]
    /\ UNCHANGED orden

Next == \E p \in Pids :
           Pide(p) \/ EscribeTramo(p) \/ LeeTramo(p) \/ Copia(p) \/ AjustaTramo(p)
           \/ Termina(p) \/ Abandona(p) \/ Borra(p)

Spec == Init /\ [][Next]_<<mem, orden>>
=============================================================================
