------------------------------ MODULE MCDialFS ------------------------------
(* Instances of DialFS for TLC: blocks of two bytes, so that sizes round,  *)
(* and data that tells one byte of a file from the next.                   *)
EXTENDS DialFS, TLC

MisDatos == {<<1>>}
Simetria == Permutations(Nombres)
=============================================================================
