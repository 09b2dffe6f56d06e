------------------------------ MODULE Semaforo ------------------------------
(* What WAIT and SIGNAL promise to the programs: a resource is a set of    *)
(* Instancias[r] units, a unit has one holder, and a unit given back goes  *)
(* to the process that has waited for it the longest, before any other     *)
(* that asks for it later.                                                 *)
EXTENDS Integers, Sequences, FiniteSets

CONSTANTS Procesos, Recursos, Instancias

VARIABLES tiene,    \* units each process holds
          espera    \* processes blocked by each resource, in order

Libres(r) == Instancias[r] - Cardinality(UNION {{p} \X (1..tiene[p][r]) : p \in Procesos})
Bloqueados == UNION {{espera[r][i] : i \in 1..Len(espera[r])} : r \in Recursos}

Init ==
    /\ tiene = [p \in Procesos |-> [r \in Recursos |-> 0]]
    /\ espera = [r \in Recursos |-> <<>>]

Toma(p, r) ==
    /\ p \notin Bloqueados
    /\ Libres(r) > 0 /\ espera[r] = <<>>
    /\ tiene' = [tiene EXCEPT ![p][r] = @ + 1]
    /\ UNCHANGED espera

Aguarda(p, r) ==
    /\ p \notin Bloqueados
    /\ Libres(r) = 0
    /\ espera' = [espera EXCEPT ![r] = Append(@, p)]
    /\ UNCHANGED tiene

Suelta(p, r) ==
    /\ p \notin Bloqueados /\ tiene[p][r] > 0
    /\ tiene' = [tiene EXCEPT ![p][r] = @ - 1]
    /\ UNCHANGED espera

Entrega(r) ==
    /\ Libres(r) > 0 /\ espera[r] # <<>>
    /\ tiene' = [tiene EXCEPT ![Head(espera[r])][r] = @ + 1]
    /\ espera' = [espera EXCEPT ![r] = Tail(@)]

Next == \E r \in Recursos :
            \/ Entrega(r)
            \/ \E p \in Procesos : Toma(p, r) \/ Aguarda(p, r) \/ Suelta(p, r)

Spec == Init /\ [][Next]_<<tiene, espera>>
=============================================================================
