--------------------------- MODULE Instrucciones ----------------------------
(* What each instruction does to the registers of the CPU and to the       *)
(* memory of the process (cpu/src/instrucciones.c, the cases of            *)
(* decode_and_execute in cicloInstruccion.c, conversores.c), with the      *)
(* widths and the promotions of C.  A register file is a function from     *)
(* register names to values.  The memory of a process is its bytes by      *)
(* logical address: module Memoria checks that the pages, the TLB and the  *)
(* pieces of an access amount to that.                                     *)
EXTENDS Integers, Sequences

CONSTANTS Byte,     \* values of a uint8_t
          Palabra   \* bytes of a uint32_t

ASSUME AnchosAssumption == Byte \in Nat \ {0} /\ Palabra \in Nat \ {0}

Reg8 == {"AX", "BX", "CX", "DX"}
Reg32 == {"EAX", "EBX", "ECX", "EDX", "SI", "DI"}
Generales == Reg8 \cup Reg32
Registros == Generales \cup {"PC"}

M8 == Byte
M32 == Byte ^ Palabra

(* string_to_register8 or string_to_register32: the width of a register;   *)
(* tam_registro: its bytes.                                                *)
Modulo(r) == IF r \in Reg8 THEN M8 ELSE M32
tam_registro(r) == IF r \in Reg8 THEN 1 ELSE Palabra

(* A register file whose values fit, and the one a process starts with     *)
(* (iniciar_registros_vacios).                                             *)
EnAncho(R, rs) == R \in [rs -> Nat] /\ \A r \in rs : R[r] < Modulo(r)
Vacios == [r \in Generales |-> 0]

set(R, r, n) == [R EXCEPT ![r] = n % Modulo(r)]

Avanza(R) == [R EXCEPT !["PC"] = (@ + 1) % M32]

InstruccionSET(R, r, n) == IF r = "PC" THEN set(R, r, n) ELSE Avanza(set(R, r, n))

(* Two uint8_t are added as int and truncated; if one is a uint32_t the    *)
(* sum wraps at 32 bits before it is stored.                               *)
sum(R, d, o) ==
    [R EXCEPT ![d] = IF {d, o} \subseteq Reg8 THEN (@ + R[o]) % M8
                     ELSE ((@ + R[o]) % M32) % Modulo(d)]

sub(R, d, o) ==
    [R EXCEPT ![d] = IF {d, o} \subseteq Reg8 THEN (@ - R[o]) % M8
                     ELSE ((@ - R[o]) % M32) % Modulo(d)]

jnz(R, r, n) == IF R[r] # 0 THEN [R EXCEPT !["PC"] = n % M32] ELSE Avanza(R)

(* The bytes of an int as they lie in memory, and the int that starts with *)
(* the bytes given, the rest zero (contenido_leer).                        *)
BytesDe(v, n) == [i \in 1..n |-> (v \div Byte ^ (i - 1)) % Byte]

ConBytes(s) ==
    LET suma[i \in 0..Len(s)] ==
            IF i = 0 THEN 0 ELSE suma[i - 1] + s[i] * Byte ^ (i - 1)
    IN suma[Len(s)]

Lee(mem, dl, tam) == [i \in 1..tam |-> mem[dl + i]]

Escribe(mem, dl, s) ==
    [k \in DOMAIN mem |-> IF k - dl \in DOMAIN s THEN s[k - dl] ELSE mem[k]]

MovIn(R, mem, d, o) == set(R, d, ConBytes(Lee(mem, R[o], tam_registro(d))))

MovOut(R, mem, d, o) == Escribe(mem, R[d], BytesDe(R[o], tam_registro(o)))

CopyString(R, mem, n) == Escribe(mem, R["DI"], Lee(mem, R["SI"], n))
=============================================================================
