------------------------------ MODULE MCControl ------------------------------
(* Instances of ControlPlanificacion for TLC, and what the comments of     *)
(* consola.c promise that the code does not keep when commands overlap.    *)
EXTENDS ControlPlanificacion

(* consola.c:276: with the scheduler started a kill must stop it, search,  *)
(* and start it again.                                                     *)
TodoKillTermina ==
    \A k \in Finalizadores : (fin[k].paso = "espera") ~> (fin[k].paso = "termino")
=============================================================================
