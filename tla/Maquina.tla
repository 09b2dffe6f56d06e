------------------------------ MODULE Maquina -------------------------------
(* What the programs may count on: each process runs its own program from  *)
(* the first instruction on, one instruction at a time and in order, on    *)
(* registers and memory that nobody else touches, however many times it is *)
(* stopped and resumed, and each request it makes is made once.  Registers *)
(* hold numbers modulo their size and a number takes the bytes of its      *)
(* register in memory, the low one first.  There is no kernel, no quantum  *)
(* and no message here; a process may stop being run at any time.  Module  *)
(* CicloCPU implements this.                                               *)
EXTENDS Integers, Sequences

CONSTANTS Pids, Celdas, Tam8, Tam32, Chicos, Grandes

VARIABLES programa,   \* the instructions of each process
          proc        \* the registers and the memory of each process, and how
                      \* many requests to interfaces and resources it made

Nombres == Chicos \cup Grandes \cup {"PC"}
Inicial == [reg |-> [r \in Nombres |-> 0], mem |-> [i \in 1..Celdas |-> 0], pedidos |-> 0]

Init == proc = [p \in Pids |-> Inicial]

Cabe(r, n) == n % (IF r \in Chicos THEN Tam8 ELSE Tam32)
Largo(r) == CHOOSE n \in 1..Celdas : Tam8 ^ n = (IF r \in Chicos THEN Tam8 ELSE Tam32)

(* The process m after the instruction at its PC.                          *)
Pone(m, r, n) == [m EXCEPT !.reg[r] = Cabe(r, n)]
Sigue(m) == Pone(m, "PC", m.reg["PC"] + 1)
Salta(m, n) == Pone(m, "PC", n)
Numero(m, dir, r) ==
    LET cifra == [i \in 1..Largo(r) |-> m.mem[dir + i]]
        vale[i \in 0..Largo(r)] ==
            IF i = 0 THEN 0 ELSE cifra[Largo(r) - i + 1] + Tam8 * vale[i - 1]
    IN vale[Largo(r)]
Guarda(m, dir, r) ==
    [m EXCEPT !.mem = [k \in 1..Celdas |->
        IF k \in (dir + 1)..(dir + Largo(r))
        THEN (m.reg[r] % Tam8 ^ (k - dir)) \div Tam8 ^ (k - dir - 1) ELSE m.mem[k]]]
Copia(m, de, a, n) ==
    [m EXCEPT !.mem = [k \in 1..Celdas |->
        IF k \in (a + 1)..(a + n) THEN m.mem[k - a + de] ELSE m.mem[k]]]

Ejecuta(m, i) ==
    CASE i.op = "SET" /\ i.d = "PC" -> Salta(m, i.n)
      [] i.op = "SET" /\ i.d # "PC" -> Sigue(Pone(m, i.d, i.n))
      [] i.op = "SUM" -> Sigue(Pone(m, i.d, m.reg[i.d] + m.reg[i.o]))
      [] i.op = "SUB" -> Sigue(Pone(m, i.d, m.reg[i.d] - m.reg[i.o]))
      [] i.op = "JNZ" -> IF m.reg[i.d] = 0 THEN Sigue(m) ELSE Salta(m, i.n)
      [] i.op = "MOV_IN" -> Sigue(Pone(m, i.d, Numero(m, m.reg[i.o], i.d)))
      [] i.op = "MOV_OUT" -> Sigue(Guarda(m, m.reg[i.d], i.o))
      [] i.op = "COPY_STRING" -> Sigue(Copia(m, m.reg["SI"], m.reg["DI"], i.n))
      [] i.op = "RESIZE" -> Sigue(m)
      [] i.op \in {"IO", "WAIT", "SIGNAL"} -> Sigue([m EXCEPT !.pedidos = @ + 1])
      [] OTHER -> m

Corre(p) ==
    proc' = [proc EXCEPT ![p] = Ejecuta(@, programa[p][@.reg["PC"] + 1])]

Next == (\E p \in Pids : Corre(p)) /\ UNCHANGED programa

Spec == Init /\ [][Next]_<<programa, proc>>
=============================================================================
