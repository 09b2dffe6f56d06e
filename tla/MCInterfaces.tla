---------------------------- MODULE MCInterfaces ----------------------------
(* Two connections of one name, the second may come while the first is     *)
(* added or after it was lost, and a third of another name.                *)
EXTENDS Interfaces

CONSTANTS c1, c2, c3, p1, p2

NombresDados == [c \in Conexiones |-> IF c = c3 THEN "fs" ELSE "gen"]
=============================================================================
