----------------------------- MODULE MCMemoria -----------------------------
(* Instances of Memoria for TLC: pages of two bytes, three frames, and data *)
(* whose bytes tell the pieces of an access apart.                         *)
EXTENDS Memoria

Registros == {<<1>>, <<1, 0, 1, 1>>}
=============================================================================
