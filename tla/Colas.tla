------------------------------- MODULE Colas -------------------------------
(***************************************************************************)
(* The process queues of the kernel (t_squeue, utils/listas.c).            *)
(*                                                                         *)
(* Every queue is a FIFO of pcb pointers protected by its own mutex, so a  *)
(* single push, pop, peek or remove is atomic.  A pcb is represented by    *)
(* its pid, and the queues of the kernel by one function from the name of  *)
(* a queue to its contents: the five state queues plus one queue of        *)
(* blocked requests per I/O interface.                                     *)
(***************************************************************************)
EXTENDS Integers, Sequences, FiniteSets, SequencesExt

CONSTANTS MaxProcesos,  \* bound: how many pids the console may ever assign
          Interfaces    \* names of the I/O interfaces that may connect

Pids == 0..(MaxProcesos - 1)     \* pid_contador starts at 0
Nadie == -1                      \* "no pid", the -1 of PID_INTERRUMPIR

EstadosKernel == {"NEW", "READY", "READYPLUS", "EXEC", "EXIT"}
NombresCola == EstadosKernel \cup Interfaces

ASSUME ColasAssumption ==
    /\ MaxProcesos \in Nat \ {0}
    /\ Interfaces \cap EstadosKernel = {}

-----------------------------------------------------------------------------
ColasVacias == [q \in NombresCola |-> <<>>]

(* squeue_is_empty, squeue_any_satisfy with the condition pcb->pid == p.   *)
Vacia(c, q) == c[q] = <<>>
Esta(c, q, p) == Contains(c[q], p)

(* squeue_push, squeue_pop, squeue_remove_by_condition (a pid is at most   *)
(* once in a queue, SinRepetidos, so any position that holds it is the     *)
(* first).                                                                 *)
Posicion(s, p) == CHOOSE k \in 1..Len(s) : s[k] = p
Push(c, q, p) == [c EXCEPT ![q] = Append(@, p)]
Pop(c, q) == [c EXCEPT ![q] = Tail(@)]
Quita(c, q, p) == [c EXCEPT ![q] = RemoveAt(@, Posicion(@, p))]

(* A pcb popped from the head of one queue and pushed to another, and one  *)
(* removed from anywhere in a queue and pushed to another.                 *)
PasaCabeza(c, de, a) == Push(Pop(c, de), a, Head(c[de]))
Pasa(c, p, de, a) == Push(Quita(c, de, p), a, p)

-----------------------------------------------------------------------------
(* No pcb is in two queues, nor twice in one.                              *)
SinRepetidos(c) ==
    \A q1, q2 \in NombresCola :
        \A i \in 1..Len(c[q1]), j \in 1..Len(c[q2]) :
            c[q1][i] = c[q2][j] => q1 = q2 /\ i = j

(* The pids that some queue of the set Q holds.                            *)
Ubicados(c, Q) == {p \in Pids : \E q \in Q : Esta(c, q, p)}
=============================================================================
