----------------------------- MODULE MCCicloCPU -----------------------------
(* Programs for TLC, in the style of memoria/pseudos, with bytes of four   *)
(* values and words of two bytes.  Cuentas truncates, wraps and moves      *)
(* bytes between registers of both sizes and the memory; Lazo asks for     *)
(* interfaces and jumps; Eterno never leaves by itself.                    *)
EXTENDS CicloCPU

CONSTANTS p0, p1

I(op, d, o, n) == [op |-> op, d |-> d, o |-> o, n |-> n]
Sin(op) == I(op, "", "", 0)

Cuentas == << I("SET", "AX", "", 6), I("SET", "EBX", "", 7), I("SUM", "AX", "EBX", 0),
              I("SUB", "EBX", "AX", 0), I("SET", "SI", "", 1), I("MOV_OUT", "SI", "EBX", 0),
              I("MOV_IN", "DX", "SI", 0), I("COPY_STRING", "", "", 2),
              I("MOV_IN", "ECX", "DI", 0), I("SUB", "AX", "DX", 0), Sin("EXIT") >>

Lazo == << I("SET", "CX", "", 2), I("SET", "BX", "", 1), I("SUB", "CX", "BX", 0), Sin("IO"),
           I("JNZ", "CX", "", 2), I("SET", "PC", "", 7), Sin("IO"), Sin("RESIZE"),
           I("MOV_OUT", "EAX", "BX", 0), Sin("EXIT") >>

Eterno == << I("SET", "BX", "", -1), Sin("WAIT"), I("JNZ", "BX", "", 4), Sin("EXIT"),
             Sin("SIGNAL"), Sin("INVALIDA") >>

Pseudocodigos == [p \in Pids |-> IF p = p0 THEN {Cuentas, Lazo} ELSE {Eterno}]
=============================================================================
