------------------------- MODULE BusquedaExclusiva -------------------------
(* What stopping the scheduler promises to whoever kills a process: while  *)
(* it searches the queues no scheduler thread is inside a critical section *)
(* and nobody else searches.  The threads share the scheduler like readers *)
(* share a lock, and a kill takes it like a writer.                        *)
CONSTANTS Hilos,          \* the scheduler threads
          Finalizadores   \* the threads that kill a process

VARIABLES dentro,         \* the threads inside their critical section
          buscando        \* the kills that search the queues

Init == dentro = {} /\ buscando = {}

Entra(h) ==
    /\ buscando = {}
    /\ h \notin dentro
    /\ dentro' = dentro \cup {h}
    /\ UNCHANGED buscando

Sale(h) ==
    /\ h \in dentro
    /\ dentro' = dentro \ {h}
    /\ UNCHANGED buscando

EmpiezaBusqueda(k) ==
    /\ dentro = {} /\ buscando = {}
    /\ buscando' = {k}
    /\ UNCHANGED dentro

TerminaBusqueda(k) ==
    /\ k \in buscando
    /\ buscando' = buscando \ {k}
    /\ UNCHANGED dentro

Next == \/ \E h \in Hilos : Entra(h) \/ Sale(h)
        \/ \E k \in Finalizadores : EmpiezaBusqueda(k) \/ TerminaBusqueda(k)

Spec == Init /\ [][Next]_<<dentro, buscando>>
=============================================================================
