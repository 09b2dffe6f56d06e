--------------------------- MODULE MCPlanificador ---------------------------
(* Instances of Planificador for TLC: the .cfg files give every constant.  *)
EXTENDS Planificador
=============================================================================
