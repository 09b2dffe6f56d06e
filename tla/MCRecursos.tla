----------------------------- MODULE MCRecursos -----------------------------
(* Instances of Recursos for TLC, and what comments of the kernel promise  *)
(* that the code does not keep.                                            *)
EXTENDS Recursos

CONSTANTS a, b, c, r1

Simetria == Permutations({a, b, c})
UnaUnidad == (r1 :> 1)

(* manejo_recursos.c:77: a process leaves cola_blocked because an instance *)
(* is being released.  So a unit has one holder.                           *)
Exclusion ==
    \A r \in NombresRecurso :
        Cardinality(Tomadas(r)) <= Instancias[r]
=============================================================================
