-------------------------- MODULE RecursosPruebas --------------------------
(***************************************************************************)
(* Proofs about module Recursos, for any number of processes, of resources *)
(* and of units.  Base holds in every state: a pcb is in one place at most *)
(* and each thread and the CPU hold what their step says.  It gives the    *)
(* types and SinDuplicados.                                                *)
(* Until the thread of an interface releases resources the sections that   *)
(* change the units exclude each other (Exclusivos) and no pcb is lost     *)
(* (Justos): NoCae and UnLugar.                                            *)
(* There the units of every resource are counted (Cuadrado, Ordenado): for *)
(* each unit taken in advance, given back or owed to a process that waits  *)
(* there is a step of a thread or a place in a queue.  Cuadra and          *)
(* NadieEsperaEnVano follow, and, when nobody is killed while it waits for *)
(* a resource, that the code implements the semaphore of module Semaforo.  *)
(***************************************************************************)
EXTENDS Recursos, SecuenciasTeoremas, FiniteSetTheorems, FunctionTheorems

-----------------------------------------------------------------------------
(* Sequences that do not repeat: the queues of the code are such.          *)
Distintos(s) == \A i, j \in 1..Len(s) : s[i] = s[j] => i = j

(* The elements of a sequence, its length and the test squeue_contains.    *)
LEMMA ElementosDe ==
    ASSUME NEW S, NEW s \in Seq(S)
    PROVE  /\ Len(s) \in Nat /\ ToSet(s) \subseteq S
           /\ \A x : x \in ToSet(s) <=> \E i \in 1..Len(s) : s[i] = x
           /\ \A x : x \in ToSet(s) <=> Contains(s, x)
           /\ s = <<>> <=> ToSet(s) = {}
           /\ s = <<>> <=> Len(s) = 0
<1>1. Len(s) \in Nat /\ DOMAIN s = 1..Len(s) /\ \A i \in 1..Len(s) : s[i] \in S
  OBVIOUS
<1>2. s = <<>> <=> Len(s) = 0
  OBVIOUS
<1>3. \A x : x \in ToSet(s) <=> \E i \in 1..Len(s) : s[i] = x
  BY <1>1 DEF ToSet
<1>4. ToSet(s) \subseteq S
  BY <1>1, <1>3
<1>5. s = <<>> <=> ToSet(s) = {}
  <2>1. CASE s = <<>>
    BY <1>2, <1>3, <2>1
  <2>2. CASE Len(s) # 0
    <3>1. 1 \in 1..Len(s)
      BY <1>1, <2>2
    <3>2. s[1] \in ToSet(s)
      BY <1>3, <3>1
    <3>3. QED
      BY <1>2, <2>2, <3>2
  <2>3. QED
    BY <2>1, <2>2, <1>2
<1>6. \A x : x \in ToSet(s) <=> Contains(s, x)
  BY <1>1, <1>3 DEF Contains
<1>7. QED
  BY <1>1, <1>2, <1>3, <1>4, <1>5, <1>6

(* A push at the end of a queue.                                           *)
LEMMA AlFinal ==
    ASSUME NEW S, NEW s \in Seq(S), NEW x \in S
    PROVE  /\ Append(s, x) \in Seq(S) /\ Len(Append(s, x)) = Len(s) + 1
           /\ Append(s, x) # <<>>
           /\ ToSet(Append(s, x)) = ToSet(s) \cup {x}
           /\ Distintos(s) /\ x \notin ToSet(s) => Distintos(Append(s, x))
<1>1. /\ Append(s, x) \in Seq(S) /\ Len(Append(s, x)) = Len(s) + 1 /\ Len(s) \in Nat
      /\ \A i \in 1..Len(s) : Append(s, x)[i] = s[i]
      /\ Append(s, x)[Len(s) + 1] = x
  OBVIOUS
<1> DEFINE t == Append(s, x)
<1> HIDE DEF t
<1>2. /\ t \in Seq(S) /\ Len(t) = Len(s) + 1 /\ Len(s) \in Nat
      /\ \A i \in 1..Len(s) : t[i] = s[i]
      /\ t[Len(s) + 1] = x
  BY <1>1 DEF t
<1>3. \A y : y \in ToSet(t) <=> \E i \in 1..Len(t) : t[i] = y
  BY <1>2, ElementosDe
<1>4. \A y : y \in ToSet(s) <=> \E i \in 1..Len(s) : s[i] = y
  BY ElementosDe
<1>5. \A y : y \in ToSet(t) <=> y \in ToSet(s) \/ y = x
  <2>1. ASSUME NEW y \in ToSet(s) PROVE y \in ToSet(t)
    <3>1. PICK i \in 1..Len(s) : s[i] = y
      BY <1>4
    <3>2. i \in 1..Len(t) /\ t[i] = y
      BY <3>1, <1>2
    <3>3. QED
      BY <3>2, <1>3
  <2>2. x \in ToSet(t)
    <3>1. Len(s) + 1 \in 1..Len(t)
      BY <1>2
    <3>2. QED
      BY <3>1, <1>2, <1>3
  <2>3. ASSUME NEW y \in ToSet(t) PROVE y \in ToSet(s) \/ y = x
    <3>1. PICK i \in 1..Len(t) : t[i] = y
      BY <1>3
    <3>2. i \in 1..Len(s) \/ i = Len(s) + 1
      BY <1>2
    <3>3. QED
      BY <3>1, <3>2, <1>2, <1>4
  <2>4. QED
    BY <2>1, <2>2, <2>3
<1>6. ASSUME Distintos(s), x \notin ToSet(s) PROVE Distintos(t)
  <2> SUFFICES ASSUME NEW i \in 1..Len(t), NEW j \in 1..Len(t), t[i] = t[j]
               PROVE  i = j
    BY DEF Distintos
  <2>1. (i \in 1..Len(s) \/ i = Len(s) + 1) /\ (j \in 1..Len(s) \/ j = Len(s) + 1)
    BY <1>2
  <2>2. \A k \in 1..Len(s) : s[k] # x
    BY <1>4, <1>6
  <2>3. QED
    BY <2>1, <2>2, <1>2, <1>6 DEF Distintos
<1>7. t # <<>>
  BY <1>2
<1>8. QED
  BY <1>2, <1>5, <1>6, <1>7 DEF t

(* A pop of the first of a queue that is not empty.                        *)
LEMMA SinElPrimero ==
    ASSUME NEW S, NEW s \in Seq(S), s # <<>>
    PROVE  /\ Head(s) \in ToSet(s) /\ Head(s) \in S
           /\ Tail(s) \in Seq(S) /\ Len(Tail(s)) = Len(s) - 1
           /\ Distintos(s) => ToSet(Tail(s)) = ToSet(s) \ {Head(s)} /\ Distintos(Tail(s))
<1> DEFINE t == Tail(s)
           x == Head(s)
<1>1. Len(s) \in Nat /\ Len(s) >= 1 /\ x = s[1] /\ x \in S
  OBVIOUS
<1>2. /\ t \in Seq(S) /\ Len(t) = Len(s) - 1
      /\ \A i \in 1..(Len(s) - 1) : t[i] = s[i + 1]
  BY HeadTailProperties
<1> HIDE DEF t, x
<1>3. \A y : y \in ToSet(t) <=> \E i \in 1..Len(t) : t[i] = y
  BY <1>2, ElementosDe
<1>4. \A y : y \in ToSet(s) <=> \E i \in 1..Len(s) : s[i] = y
  BY ElementosDe
<1>5. x \in ToSet(s)
  BY <1>1, <1>4
<1>6. ASSUME Distintos(s)
      PROVE  ToSet(t) = ToSet(s) \ {x} /\ Distintos(t)
  <2>1. ASSUME NEW y \in ToSet(t) PROVE y \in ToSet(s) \ {x}
    <3>1. PICK i \in 1..Len(t) : t[i] = y
      BY <1>3
    <3>2. i + 1 \in 1..Len(s) /\ s[i + 1] = y /\ i + 1 # 1 /\ 1 \in 1..Len(s)
      BY <3>1, <1>1, <1>2
    <3>3. s[i + 1] # s[1]
      BY <3>2, <1>6 DEF Distintos
    <3>4. QED
      BY <3>2, <3>3, <1>1, <1>4
  <2>2. ASSUME NEW y \in ToSet(s) \ {x} PROVE y \in ToSet(t)
    <3>1. PICK i \in 1..Len(s) : s[i] = y
      BY <1>4
    <3>2. i # 1
      BY <3>1, <1>1
    <3>3. i - 1 \in 1..Len(t) /\ t[i - 1] = s[(i - 1) + 1] /\ (i - 1) + 1 = i
      BY <3>1, <3>2, <1>1, <1>2
    <3>4. QED
      BY <3>1, <3>3, <1>3
  <2>3. Distintos(t)
    <3> SUFFICES ASSUME NEW i \in 1..Len(t), NEW j \in 1..Len(t), t[i] = t[j]
                 PROVE  i = j
      BY DEF Distintos
    <3>1. /\ i + 1 \in 1..Len(s) /\ j + 1 \in 1..Len(s)
          /\ t[i] = s[i + 1] /\ t[j] = s[j + 1]
      BY <1>1, <1>2
    <3>2. i + 1 = j + 1
      BY <3>1, <1>6 DEF Distintos
    <3>3. QED
      BY <3>2, <1>1, <1>2
  <2>4. QED
    BY <2>1, <2>2, <2>3
<1>7. QED
  BY <1>1, <1>2, <1>5, <1>6 DEF t, x

(* A pcb leaves the middle of a queue, as buscar_proceso_finalizar takes   *)
(* it.                                                                     *)
LEMMA SinUno ==
    ASSUME NEW S, NEW s \in Seq(S), NEW p, Contains(s, p)
    PROVE  /\ p \in ToSet(s) /\ Sin(s, p) \in Seq(S) /\ Len(Sin(s, p)) = Len(s) - 1
           /\ Distintos(s) => ToSet(Sin(s, p)) = ToSet(s) \ {p} /\ Distintos(Sin(s, p))
<1> DEFINE k == CHOOSE i \in 1..Len(s) : s[i] = p
           t == Sin(s, p)
<1>1. /\ Len(s) \in Nat /\ p \in ToSet(s)
      /\ \A y : y \in ToSet(s) <=> \E i \in 1..Len(s) : s[i] = y
  BY ElementosDe
<1>2. k \in 1..Len(s) /\ s[k] = p
  BY <1>1
<1>3. t = RemoveAt(s, k)
  BY DEF Sin
<1> HIDE DEF k, t
<1>4. /\ t \in Seq(S) /\ Len(t) = Len(s) - 1
      /\ \A i \in 1..(Len(s) - 1) : t[i] = IF i < k THEN s[i] ELSE s[i + 1]
  BY <1>2, <1>3, RemoveAtPropiedades
<1>5. \A y : y \in ToSet(t) <=> \E i \in 1..Len(t) : t[i] = y
  BY <1>4, ElementosDe
<1>6. ASSUME Distintos(s)
      PROVE  ToSet(t) = ToSet(s) \ {p} /\ Distintos(t)
  <2>1. ASSUME NEW i \in 1..Len(t)
        PROVE  \E m \in 1..Len(s) : t[i] = s[m] /\ m # k /\ m = (IF i < k THEN i ELSE i + 1)
    BY <1>1, <1>2, <1>4
  <2>2. ASSUME NEW y \in ToSet(t) PROVE y \in ToSet(s) \ {p}
    <3>1. PICK i \in 1..Len(t) : t[i] = y
      BY <1>5
    <3>2. PICK m \in 1..Len(s) : t[i] = s[m] /\ m # k
      BY <2>1
    <3>3. s[m] # s[k]
      BY <3>2, <1>2, <1>6 DEF Distintos
    <3>4. QED
      BY <3>1, <3>2, <3>3, <1>1, <1>2
  <2>3. ASSUME NEW y \in ToSet(s) \ {p} PROVE y \in ToSet(t)
    <3>1. PICK i \in 1..Len(s) : s[i] = y
      BY <1>1
    <3>2. i # k
      BY <3>1, <1>2
    <3>3. CASE i < k
      <4>1. i \in 1..Len(t) /\ t[i] = s[i]
        BY <3>1, <3>3, <1>1, <1>2, <1>4
      <4>2. QED
        BY <4>1, <3>1, <1>5
    <3>4. CASE i > k
      <4>1. i - 1 \in 1..Len(t) /\ ~(i - 1 < k) /\ (i - 1) + 1 = i
        BY <3>1, <3>4, <1>1, <1>2, <1>4
      <4>2. t[i - 1] = s[i]
        BY <4>1, <1>4
      <4>3. QED
        BY <4>1, <4>2, <3>1, <1>5
    <3>5. QED
      BY <3>2, <3>3, <3>4, <1>2
  <2>4. Distintos(t)
    <3> SUFFICES ASSUME NEW i \in 1..Len(t), NEW j \in 1..Len(t), t[i] = t[j]
                 PROVE  i = j
      BY DEF Distintos
    <3>1. PICK m \in 1..Len(s) : t[i] = s[m] /\ m = (IF i < k THEN i ELSE i + 1)
      BY <2>1
    <3>2. PICK n \in 1..Len(s) : t[j] = s[n] /\ n = (IF j < k THEN j ELSE j + 1)
      BY <2>1
    <3>3. m = n
      BY <3>1, <3>2, <1>6 DEF Distintos
    <3>4. QED
      BY <3>1, <3>2, <3>3, <1>1, <1>2, <1>4
  <2>5. QED
    BY <2>2, <2>3, <2>4
<1>7. QED
  BY <1>1, <1>4, <1>6 DEF t

-----------------------------------------------------------------------------
(* The records of the scheduler and of the releases, field by field.       *)
EstadosCP == [paso : PasosCP, pid : Procesos \cup {Nadie},
              r : NombresRecurso \cup {Nadie}, leido : Int]
PasosLibera == {"suma", "guarda", "mira", "saca"}
EstadosLibera == [pid : Procesos \cup {Nadie}, paso : PasosLibera,
                  r : NombresRecurso \cup {Nadie}, leido : Int, faltan : [NombresRecurso -> Nat]]

(* The short-term scheduler changes its step and keeps the rest.           *)
LEMMA CPSigue ==
    ASSUME NEW c \in EstadosCP, NEW s
    PROVE  [c EXCEPT !.paso = s] = [paso |-> s, pid |-> c.pid, r |-> c.r, leido |-> c.leido]
<1> DEFINE F(x) == [x EXCEPT !.paso = s]
           r == [paso |-> c.paso, pid |-> c.pid, r |-> c.r, leido |-> c.leido]
<1>1. c = r
  BY DEF EstadosCP
<1>2. F(r) = [paso |-> s, pid |-> c.pid, r |-> c.r, leido |-> c.leido]
  OBVIOUS
<1> HIDE DEF F, r
<1>3. F(c) = F(r)
  BY <1>1
<1>4. QED
  BY <1>2, <1>3 DEF F

(* The CPU changes its step and keeps its process.                         *)
LEMMA CPUSigue ==
    ASSUME NEW P, NEW c \in [paso : P, pid : Procesos \cup {Nadie}], NEW s
    PROVE  [c EXCEPT !.paso = s] = [paso |-> s, pid |-> c.pid]
<1> DEFINE F(x) == [x EXCEPT !.paso = s]
           r == [paso |-> c.paso, pid |-> c.pid]
<1>1. c = r
  OBVIOUS
<1>2. F(r) = [paso |-> s, pid |-> c.pid]
  OBVIOUS
<1> HIDE DEF F, r
<1>3. F(c) = F(r)
  BY <1>1
<1>4. QED
  BY <1>2, <1>3 DEF F

(* A release changes its step and keeps the rest.                          *)
LEMMA LiberaSigue ==
    ASSUME NEW l \in [Hilos -> EstadosLibera], NEW h \in Hilos, NEW s
    PROVE  [l EXCEPT ![h].paso = s]
             = [l EXCEPT ![h] = [pid |-> l[h].pid, paso |-> s, r |-> l[h].r,
                                 leido |-> l[h].leido, faltan |-> l[h].faltan]]
<1> DEFINE F(y) == [y EXCEPT !.paso = s]
           G(y) == [l EXCEPT ![h] = y]
           v == [pid |-> l[h].pid, paso |-> l[h].paso, r |-> l[h].r, leido |-> l[h].leido,
                 faltan |-> l[h].faltan]
           w == [pid |-> l[h].pid, paso |-> s, r |-> l[h].r, leido |-> l[h].leido,
                 faltan |-> l[h].faltan]
<1>1. l[h] = v
  BY DEF EstadosLibera
<1>2. F(v) = w
  OBVIOUS
<1> HIDE DEF F, v, w
<1>3. F(l[h]) = w
  BY <1>1, <1>2
<1>4. [l EXCEPT ![h].paso = s] = G(F(l[h]))
  BY DEF F, G
<1>5. QED
  BY <1>3, <1>4 DEF G, w

(* A release has written a unit back: its step and what it has left to     *)
(* give.                                                                   *)
LEMMA LiberaGuarda ==
    ASSUME NEW l \in [Hilos -> EstadosLibera], NEW h \in Hilos, NEW r \in NombresRecurso
    PROVE  [l EXCEPT ![h].paso = "mira", ![h].faltan[r] = @ - 1]
             = [l EXCEPT ![h] = [pid |-> l[h].pid, paso |-> "mira", r |-> l[h].r,
                                 leido |-> l[h].leido,
                                 faltan |-> [l[h].faltan EXCEPT ![r] = l[h].faltan[r] - 1]]]
<1> DEFINE e == l[h].faltan[r] - 1
           f == l[h].faltan
           F(y) == [y EXCEPT !.faltan[r] = e]
           m == [l EXCEPT ![h].paso = "mira"]
           v == [pid |-> l[h].pid, paso |-> "mira", r |-> l[h].r, leido |-> l[h].leido,
                 faltan |-> f]
           w == [pid |-> l[h].pid, paso |-> "mira", r |-> l[h].r, leido |-> l[h].leido,
                 faltan |-> [f EXCEPT ![r] = e]]
<1>1. [l EXCEPT ![h].paso = "mira", ![h].faltan[r] = @ - 1]
        = [m EXCEPT ![h] = F(m[h])]
  OBVIOUS
<1>2. m = [l EXCEPT ![h] = v]
  BY LiberaSigue, ZenonT(40)
<1> HIDE DEF e, m, f
<1>3. F(v) = w
  OBVIOUS
<1> HIDE DEF v, w, F
<1>4. m[h] = v
  BY <1>2
<1>5. F(m[h]) = w
  BY <1>3, <1>4
<1>6. [m EXCEPT ![h] = w] = [l EXCEPT ![h] = w]
  BY <1>2
<1>7. QED
  BY <1>1, <1>5, <1>6 DEF w, e, f

-----------------------------------------------------------------------------
(* Where each pcb is.  The kinds of places are sets of processes.          *)
EnPermiso(p) == cp.pid = p
EnLibera(p) == \E h \in Hilos : libera[h].pid = p
EnEspera(p) == \E r \in NombresRecurso : p \in ToSet(espera[r])

Separados ==
    /\ Distintos(ready) /\ Distintos(exec) /\ Distintos(enIO)
    /\ \A r \in NombresRecurso : Distintos(espera[r])
    /\ \A p \in Procesos :
         /\ p \in ToSet(ready) => p \notin ToSet(exec) /\ p \notin ToSet(enIO)
         /\ p \in ToSet(ready) \cup ToSet(exec) => ~EnEspera(p)
         /\ p \in ToSet(exec) => p \notin ToSet(enIO)
         /\ p \in ToSet(enIO) => ~EnEspera(p)
         /\ p \in ToSet(ready) \cup ToSet(exec) \cup ToSet(enIO) \/ EnEspera(p) =>
              p \notin salida /\ ~EnPermiso(p) /\ ~EnLibera(p)
         /\ p \in salida => ~EnPermiso(p) /\ ~EnLibera(p)
         /\ EnPermiso(p) => ~EnLibera(p)
         /\ \A r, q \in NombresRecurso : p \in ToSet(espera[r]) \cap ToSet(espera[q]) => r = q
         /\ \A h, k \in Hilos : libera[h].pid = p /\ libera[k].pid = p => h = k

Ubicado(p) ==
    \/ p \in ToSet(ready) \cup ToSet(exec) \cup ToSet(enIO) \cup salida
    \/ EnEspera(p) \/ EnPermiso(p) \/ EnLibera(p)

(* What the scheduler thread has in hand at each point of its code.        *)
EnPedido == cp.paso \notin {"despacha", "recibe", "fin", "fin_invalido"}
PasosWait == {"wait_mira", "wait_remira", "wait_encola"}
Hilero ==
    /\ EnPedido => cp.pid # Nadie /\ cp.r # Nadie
    /\ ~EnPedido => cp.pid = Nadie
    /\ Liberando("cp") <=> cp.paso \in {"fin", "fin_invalido"}
    /\ Liberando("mata") => cp.paso \in {"despacha", "recibe"}
    /\ \A h \in Hilos :
         /\ libera[h].paso # "suma" => Liberando(h) /\ libera[h].r # Nadie
         /\ libera[h].paso = "guarda" => libera[h].faltan[libera[h].r] > 0

(* The one process in EXEC is in the CPU, or in the socket on its way to   *)
(* it or from it; the CPU that asked for a resource hears of no other      *)
(* before it is answered, but for the kills of the one that asked.         *)
Turno ==
    /\ Len(exec) = IF cp.paso = "recibe" THEN 1 ELSE 0
    /\ cp.paso # "recibe" => cpu.paso \in {"libre", "pide"} /\ contexto.pid = Nadie
                             /\ despacho = Nadie /\ aviso # "MISMO_PID"
    /\ despacho # Nadie => /\ exec = <<despacho>> /\ contexto.pid = Nadie
                           /\ cpu.paso \in {"libre", "pide"} /\ aviso # "MISMO_PID"
    /\ contexto.pid # Nadie => /\ exec = <<contexto.pid>> /\ despacho = Nadie /\ aviso = "nada"
                               /\ cpu.paso \in {"libre", "pide"}
                               /\ contexto.motivo \in MotivosConAviso =>
                                    cpu.paso = "pide" /\ cpu.pid = contexto.pid
    /\ cpu.paso = "ejecuta" => /\ exec = <<cpu.pid>> /\ contexto.pid = Nadie
                               /\ despacho = Nadie /\ aviso = "nada"
    /\ cpu.paso = "perdida" => contexto.pid = Nadie /\ despacho = Nadie /\ aviso = "nada"
    /\ aviso = "MISMO_PID" => exec = <<cpu.pid>> /\ cpu.paso = "pide"
    /\ aviso # "nada" => cpu.paso = "pide" /\ contexto.pid = Nadie
    /\ EnPedido \/ cp.paso = "fin_invalido" => cpu.paso = "pide" /\ aviso = "nada"
    /\ EnPedido => cpu.pid = cp.pid

(* The units a process asked for and did not give back are those it was    *)
(* told it has, and the one it waits for.                                  *)
Esperada(p, r) ==
    IF p \in ToSet(espera[r]) \/ (cp.pid = p /\ cp.r = r /\ cp.paso \in PasosWait) THEN 1 ELSE 0
Activo(p) ==
    p \in ToSet(ready) \cup ToSet(exec) \cup ToSet(enIO) \/ EnEspera(p) \/ EnPermiso(p)
CuentasDe(p, r) ==
    /\ Activo(p) => usadas[p][r] = tiene[p][r] + Esperada(p, r)
    /\ \A h \in Hilos : libera[h].pid = p =>
         libera[h].faltan[r] \in {tiene[p][r], tiene[p][r] + 1}
    /\ p \in salida => tiene[p][r] = 0
    /\ contexto.pid = p /\ contexto.r = r /\ contexto.motivo = "SIGNAL" => tiene[p][r] > 0
    /\ cp.pid = p /\ cp.r = r /\ cp.paso = "signal_guarda" => tiene[p][r] > 0
Cuentas == \A p \in Procesos, r \in NombresRecurso : CuentasDe(p, r)

Base == TypeOK /\ Separados /\ Hilero /\ Turno /\ Cuentas

-----------------------------------------------------------------------------
(* Until the thread of an interface releases resources the sections are    *)
(* exclusive.                                                              *)
Exclusivos ==
    /\ ~caido /\ Libre("io")
    /\ cp.paso = "signal_saca" => espera[cp.r] # <<>>
    /\ \A h \in Hilos : libera[h].paso = "saca" => espera[libera[h].r] # <<>>
    /\ cp.paso \in {"wait_guarda", "signal_guarda"} => cp.leido = instancias[cp.r]
    /\ \A h \in Hilos : libera[h].paso = "guarda" =>
         libera[h].leido = instancias[libera[h].r]
    /\ cp.paso \in {"wait_remira", "wait_encola"} => instancias[cp.r] < 0

(* A unit taken for a process that is not yet in the queue, and one given  *)
(* back for which nobody was woken yet.                                    *)
Pedida(r) == IF cp.paso \in PasosWait /\ cp.r = r THEN 1 ELSE 0
Devuelta(r) ==
    IF (cp.paso \in {"signal_mira", "signal_saca"} /\ cp.r = r)
       \/ \E h \in Hilos : libera[h].paso \in {"mira", "saca"} /\ libera[h].r = r
    THEN 1 ELSE 0
(* The unit a process killed while blocked never had.                      *)
DeMas(h, r) == IF Liberando(h) THEN libera[h].faltan[r] - tiene[libera[h].pid][r] ELSE 0

SinMatarEspera == "ESPERA" \notin MataEn

(* Who is in a queue is owed a unit; the units the programs have, and those *)
(* asked for in a queue or in the hands of the scheduler, are accounted.   *)
Ordenado(r) ==
    /\ espera[r] # <<>> => instancias[r] + Len(espera[r]) + Pedida(r) <= Devuelta(r)
    /\ instancias[r] + Cardinality(Tomadas(r)) + Len(espera[r]) + Pedida(r) + DeMas("mata", r)
         = Instancias[r]
    /\ DeMas("cp", r) = 0
    /\ SinMatarEspera => DeMas("mata", r) = 0
    /\ SinMatarEspera => Devuelta(r) <= instancias[r] + Len(espera[r]) + Pedida(r)
Cuadrado(r) == instancias[r] + Cardinality(Deudas(r)) = Instancias[r]

Justos == \A p \in Procesos : Ubicado(p)

-----------------------------------------------------------------------------
(* The parts of the state, typed.                                          *)
LEMMA Tipos ==
    ASSUME TypeOK
    PROVE  /\ ready \in Seq(Procesos) /\ exec \in Seq(Procesos) /\ enIO \in Seq(Procesos)
           /\ \A r \in NombresRecurso : espera[r] \in Seq(Procesos)
           /\ espera \in [NombresRecurso -> Seq(Procesos)]
           /\ instancias \in [NombresRecurso -> Int]
           /\ usadas \in [Procesos -> [NombresRecurso -> Nat]]
           /\ tiene \in [Procesos -> [NombresRecurso -> Nat]]
           /\ cp \in EstadosCP /\ libera \in [Hilos -> EstadosLibera]
           /\ cp.paso \in PasosCP /\ cp.pid \in Procesos \cup {Nadie}
           /\ cp.r \in NombresRecurso \cup {Nadie} /\ cp.leido \in Int
           /\ \A h \in Hilos :
                /\ libera[h] \in EstadosLibera
                /\ libera[h].pid \in Procesos \cup {Nadie} /\ libera[h].paso \in PasosLibera
                /\ libera[h].r \in NombresRecurso \cup {Nadie} /\ libera[h].leido \in Int
                /\ libera[h].faltan \in [NombresRecurso -> Nat]
                /\ \A r \in NombresRecurso : libera[h].faltan[r] \in Nat
           /\ \A r \in NombresRecurso : instancias[r] \in Int
           /\ \A p \in Procesos, r \in NombresRecurso : usadas[p][r] \in Nat /\ tiene[p][r] \in Nat
           /\ cpu.pid \in Procesos \cup {Nadie} /\ contexto.pid \in Procesos \cup {Nadie}
           /\ contexto.r \in NombresRecurso \cup {Nadie} /\ contexto.motivo \in Motivos
<1>1. cp \in EstadosCP /\ libera \in [Hilos -> EstadosLibera]
  BY DEF TypeOK, EstadosCP, EstadosLibera, PasosLibera
<1>2. /\ cp.paso \in PasosCP /\ cp.pid \in Procesos \cup {Nadie}
      /\ cp.r \in NombresRecurso \cup {Nadie} /\ cp.leido \in Int
  BY <1>1 DEF EstadosCP
<1>3. ASSUME NEW h \in Hilos
      PROVE  /\ libera[h] \in EstadosLibera
             /\ libera[h].pid \in Procesos \cup {Nadie} /\ libera[h].paso \in PasosLibera
             /\ libera[h].r \in NombresRecurso \cup {Nadie} /\ libera[h].leido \in Int
             /\ libera[h].faltan \in [NombresRecurso -> Nat]
  <2>1. libera[h] \in EstadosLibera
    BY <1>1
  <2>2. QED
    BY <2>1 DEF EstadosLibera
<1>4. \A h \in Hilos, r \in NombresRecurso : libera[h].faltan[r] \in Nat
  BY <1>3
<1>5. /\ cpu.pid \in Procesos \cup {Nadie} /\ contexto.pid \in Procesos \cup {Nadie}
      /\ contexto.r \in NombresRecurso \cup {Nadie} /\ contexto.motivo \in Motivos
  BY DEF TypeOK
<1>6. \A p \in Procesos, r \in NombresRecurso : usadas[p][r] \in Nat /\ tiene[p][r] \in Nat
  BY DEF TypeOK
<1>7. QED
  BY <1>1, <1>2, <1>3, <1>4, <1>5, <1>6 DEF TypeOK

TiposColas ==
    /\ ready \in Seq(Procesos) /\ exec \in Seq(Procesos) /\ salida \subseteq Procesos
    /\ enIO \in Seq(Procesos) /\ espera \in [NombresRecurso -> Seq(Procesos)]
TiposCuentas ==
    /\ instancias \in [NombresRecurso -> Int]
    /\ usadas \in [Procesos -> [NombresRecurso -> Nat]]
    /\ tiene \in [Procesos -> [NombresRecurso -> Nat]]
TiposHilos == cp \in EstadosCP /\ libera \in [Hilos -> EstadosLibera]
TiposMaquina ==
    /\ io \in {"atiende", "drena", "fuera"} /\ redirigidos \subseteq Procesos
    /\ intUsuario \in BOOLEAN /\ caido \in BOOLEAN
    /\ senial \in Procesos \cup {Nadie} /\ interrupcion \in Procesos \cup {Nadie}
    /\ despacho \in Procesos \cup {Nadie}
    /\ aviso \in {"nada", "MISMO_PID", "NUEVO_PID"}
    /\ cpu \in [paso : {"libre", "ejecuta", "pide", "perdida"}, pid : Procesos \cup {Nadie}]
    /\ contexto \in [pid : Procesos \cup {Nadie}, motivo : Motivos, r : NombresRecurso \cup {Nadie}]

(* The type invariant, part by part, and what preserves each part.         *)
LEMMA TiposPartes ==
    /\ TypeOK <=> TiposColas /\ TiposCuentas /\ TiposHilos /\ TiposMaquina
    /\ TypeOK' <=> TiposColas' /\ TiposCuentas' /\ TiposHilos' /\ TiposMaquina'
    /\ TiposColas /\ UNCHANGED colas => TiposColas'
    /\ TiposCuentas /\ UNCHANGED cuentas => TiposCuentas'
    /\ TiposMaquina /\ UNCHANGED <<io, redirigidos, intUsuario, maquina, caido>> => TiposMaquina'
<1>1. TypeOK <=> TiposColas /\ TiposCuentas /\ TiposHilos /\ TiposMaquina
  BY DEF TypeOK, TiposColas, TiposCuentas, TiposHilos, TiposMaquina, EstadosCP, EstadosLibera,
         PasosLibera
<1>2. TypeOK' <=> TiposColas' /\ TiposCuentas' /\ TiposHilos' /\ TiposMaquina'
  BY DEF TypeOK, TiposColas, TiposCuentas, TiposHilos, TiposMaquina, EstadosCP, EstadosLibera,
         PasosLibera
<1>3. TiposColas /\ UNCHANGED colas => TiposColas'
  BY DEF TiposColas, colas
<1>4. TiposCuentas /\ UNCHANGED cuentas => TiposCuentas'
  BY DEF TiposCuentas, cuentas
<1>5. TiposMaquina /\ UNCHANGED <<io, redirigidos, intUsuario, maquina, caido>> => TiposMaquina'
  BY DEF TiposMaquina, maquina
<1>6. QED
  BY <1>1, <1>2, <1>3, <1>4, <1>5

Sube(t, s, x) ==
    t \in Seq(Procesos) /\ Len(t) = Len(s) + 1 /\ ToSet(t) = ToSet(s) \cup {x} /\ Distintos(t)
Baja(t, s, x) ==
    /\ x \in ToSet(s) /\ t \in Seq(Procesos) /\ Len(t) = Len(s) - 1
    /\ ToSet(t) = ToSet(s) \ {x} /\ Distintos(t)

(* squeue_pop of a queue of blocked processes: the first one goes to READY *)
(* with its unit.                                                          *)
LEMMA DespiertaMueve ==
    ASSUME Base, NEW r \in NombresRecurso, Despierta(r), espera[r] # <<>>,
           NEW x, x = Head(espera[r])
    PROVE  /\ x \in Procesos /\ Sube(ready', ready, x) /\ Baja(espera'[r], espera[r], x)
           /\ espera' \in [NombresRecurso -> Seq(Procesos)]
           /\ \A q \in NombresRecurso \ {r} : espera'[q] = espera[q]
           /\ tiene' = [tiene EXCEPT ![x] = [tiene[x] EXCEPT ![r] = tiene[x][r] + 1]]
           /\ caido' = caido
<1>1. /\ ready \in Seq(Procesos) /\ espera[r] \in Seq(Procesos)
      /\ espera \in [NombresRecurso -> Seq(Procesos)]
      /\ tiene \in [Procesos -> [NombresRecurso -> Nat]]
  BY Tipos DEF Base
<1>2. /\ Distintos(ready) /\ Distintos(espera[r])
      /\ \A p \in Procesos : p \in ToSet(ready) => p \notin ToSet(espera[r])
  BY DEF Base, Separados, EnEspera
<1>3. /\ ready' = Append(ready, x) /\ espera' = [espera EXCEPT ![r] = Tail(espera[r])]
      /\ tiene' = [tiene EXCEPT ![x][r] = @ + 1] /\ caido' = caido
  BY DEF Despierta
<1>4. x \in Procesos /\ x \in ToSet(espera[r]) /\ Baja(Tail(espera[r]), espera[r], x)
  BY <1>1, <1>2, SinElPrimero DEF Baja
<1>5. Sube(ready', ready, x)
  BY <1>1, <1>2, <1>3, <1>4, AlFinal DEF Sube
<1>6. espera'[r] = Tail(espera[r]) /\ \A q \in NombresRecurso \ {r} : espera'[q] = espera[q]
  BY <1>1, <1>3
<1>7. Tail(espera[r]) \in Seq(Procesos)
  BY <1>4 DEF Baja
<1>8. espera' \in [NombresRecurso -> Seq(Procesos)]
  BY <1>1, <1>3, <1>7
<1>9. tiene' = [tiene EXCEPT ![x] = [tiene[x] EXCEPT ![r] = tiene[x][r] + 1]]
  BY <1>3
<1>10. QED
  BY <1>3, <1>4, <1>5, <1>6, <1>8, <1>9

(* liberar_recursos begins: the thread has the pcb and all its process     *)
(* uses.                                                                   *)
LEMMA EmpiezaVista ==
    ASSUME TypeOK, NEW h \in Hilos, NEW p \in Procesos, EmpiezaALiberar(h, p)
    PROVE  /\ libera' \in [Hilos -> EstadosLibera]
           /\ \A k \in Hilos \ {h} : libera'[k] = libera[k]
           /\ libera'[h].pid = p /\ libera'[h].paso = "suma" /\ libera'[h].r = Nadie
           /\ libera'[h].faltan = usadas[p]
<1>1. libera \in [Hilos -> EstadosLibera] /\ usadas[p] \in [NombresRecurso -> Nat]
  BY Tipos
<1> DEFINE v == [pid |-> p, paso |-> "suma", r |-> Nadie, leido |-> 0, faltan |-> usadas[p]]
<1>2. libera' = [libera EXCEPT ![h] = v]
  <2> DEFINE q == [pid |-> Nadie, paso |-> "suma", r |-> Nadie, leido |-> 0,
                   faltan |-> [r \in NombresRecurso |-> 0]]
             u == [pid |-> p, paso |-> "suma", r |-> Nadie, leido |-> 0,
                   faltan |-> [r \in NombresRecurso |-> 0]]
  <2>1. [q EXCEPT !.pid = p] = u
    OBVIOUS
  <2>2. [u EXCEPT !.faltan = usadas[p]] = v
    OBVIOUS
  <2>3. [Quieto EXCEPT !.pid = p, !.faltan = usadas[p]]
          = [[q EXCEPT !.pid = p] EXCEPT !.faltan = usadas[p]]
    BY DEF Quieto
  <2> HIDE DEF q, u, v
  <2>4. [Quieto EXCEPT !.pid = p, !.faltan = usadas[p]] = v
    BY <2>1, <2>2, <2>3
  <2>5. QED
    BY <2>4 DEF EmpiezaALiberar
<1>3. v \in EstadosLibera
  BY <1>1 DEF EstadosLibera, PasosLibera
<1>4. /\ v.pid = p /\ v.paso = "suma" /\ v.r = Nadie /\ v.faltan = usadas[p]
  OBVIOUS
<1> HIDE DEF v
<1>5. libera'[h] = v
  BY <1>1, <1>2
<1>6. QED
  BY <1>1, <1>2, <1>3, <1>4, <1>5

(* What a step of liberar_recursos that goes on does to its own record.    *)
LEMMA LiberaVista ==
    ASSUME Base, NEW h \in Hilos, Libera(h), ~LiberarTermina(h)
    PROVE  /\ libera' \in [Hilos -> EstadosLibera]
           /\ \A k \in Hilos \ {h} : libera'[k] = libera[k]
           /\ libera'[h].pid = libera[h].pid /\ libera[h].pid \in Procesos
           /\ LiberarLee(h) =>
                /\ libera'[h].paso = "guarda" /\ libera'[h].faltan = libera[h].faltan
                /\ libera'[h].r \in NombresRecurso /\ libera[h].faltan[libera'[h].r] > 0
                /\ libera'[h].leido = instancias[libera'[h].r]
           /\ ~LiberarLee(h) => libera[h].r \in NombresRecurso /\ libera'[h].r = libera[h].r
           /\ LiberarGuarda(h) => libera'[h].paso = "mira"
           /\ LiberarMira(h) =>
                /\ libera'[h].faltan = libera[h].faltan
                /\ libera'[h].paso = IF espera[libera[h].r] = <<>> THEN "suma" ELSE "saca"
           /\ LiberarSaca(h) => libera'[h].paso = "suma" /\ libera'[h].faltan = libera[h].faltan
<1>1. /\ libera \in [Hilos -> EstadosLibera] /\ libera[h] \in EstadosLibera
      /\ libera[h].pid \in Procesos \cup {Nadie} /\ libera[h].paso \in PasosLibera
      /\ libera[h].faltan \in [NombresRecurso -> Nat] /\ libera[h].leido \in Int
      /\ libera[h].r \in NombresRecurso \cup {Nadie}
      /\ instancias \in [NombresRecurso -> Int]
  BY Tipos DEF Base
<1>2. libera[h].pid \in Procesos
  BY <1>1 DEF Libera, LiberarLee, LiberarGuarda, LiberarMira, LiberarSaca, LiberarTermina, Liberando
<1>3. libera[h].paso # "suma" => libera[h].r \in NombresRecurso
  BY <1>1 DEF Base, Hilero
<1>4. CASE LiberarLee(h)
  <2>1. PICK r \in NombresRecurso :
           /\ libera[h].faltan[r] > 0
           /\ libera' = [libera EXCEPT ![h] = [pid |-> libera[h].pid, paso |-> "guarda", r |-> r,
                                               leido |-> instancias[r],
                                               faltan |-> libera[h].faltan]]
    BY <1>4 DEF LiberarLee
  <2> DEFINE v == [pid |-> libera[h].pid, paso |-> "guarda", r |-> r,
                   leido |-> instancias[r], faltan |-> libera[h].faltan]
  <2>2. libera' = [libera EXCEPT ![h] = v]
    BY <2>1
  <2>3. v \in EstadosLibera
    BY <1>1 DEF EstadosLibera, PasosLibera
  <2>4. /\ v.pid = libera[h].pid /\ v.paso = "guarda" /\ v.r = r /\ v.leido = instancias[r]
        /\ v.faltan = libera[h].faltan
    OBVIOUS
  <2> HIDE DEF v
  <2>5. libera'[h] = v /\ libera' \in [Hilos -> EstadosLibera]
        /\ \A k \in Hilos \ {h} : libera'[k] = libera[k]
    BY <1>1, <2>2, <2>3
  <2>6. ~LiberarGuarda(h) /\ ~LiberarMira(h) /\ ~LiberarSaca(h)
    BY <1>4 DEF LiberarLee, LiberarGuarda, LiberarMira, LiberarSaca
  <2>7. QED
    BY <1>2, <1>4, <2>1, <2>4, <2>5, <2>6
<1>5. CASE LiberarGuarda(h)
  <2> DEFINE r == libera[h].r
             f == [libera[h].faltan EXCEPT ![r] = libera[h].faltan[r] - 1]
             v == [pid |-> libera[h].pid, paso |-> "mira", r |-> r,
                   leido |-> libera[h].leido, faltan |-> f]
  <2>1. r \in NombresRecurso
    BY <1>3, <1>5 DEF LiberarGuarda
  <2>2. libera' = [libera EXCEPT ![h] = v]
    <3>1. [libera EXCEPT ![h].paso = "mira", ![h].faltan[r] = @ - 1] = [libera EXCEPT ![h] = v]
      BY <1>1, <2>1, LiberaGuarda
    <3>2. libera' = [libera EXCEPT ![h].paso = "mira", ![h].faltan[r] = @ - 1]
      BY <1>5 DEF LiberarGuarda
    <3>3. QED
      BY <3>1, <3>2
  <2>3. libera[h].faltan[r] > 0
    BY <1>5 DEF Base, Hilero, LiberarGuarda
  <2>4. f \in [NombresRecurso -> Nat]
    BY <1>1, <2>1, <2>3
  <2>5. v.pid = libera[h].pid /\ v.paso = "mira" /\ v.r = r
    OBVIOUS
  <2> HIDE DEF f
  <2>6. v \in EstadosLibera
    BY <1>1, <2>1, <2>4 DEF EstadosLibera, PasosLibera
  <2> HIDE DEF v
  <2>7. libera'[h] = v /\ libera' \in [Hilos -> EstadosLibera]
        /\ \A k \in Hilos \ {h} : libera'[k] = libera[k]
    BY <1>1, <2>2, <2>6
  <2>8. ~LiberarLee(h) /\ ~LiberarMira(h) /\ ~LiberarSaca(h)
    BY <1>5 DEF LiberarLee, LiberarGuarda, LiberarMira, LiberarSaca
  <2>9. QED
    BY <1>2, <2>1, <2>5, <2>7, <2>8
<1>6. ASSUME NEW s \in PasosLibera, libera' = [libera EXCEPT ![h].paso = s]
      PROVE  /\ libera' \in [Hilos -> EstadosLibera]
             /\ \A k \in Hilos \ {h} : libera'[k] = libera[k]
             /\ libera'[h].pid = libera[h].pid /\ libera'[h].paso = s
             /\ libera'[h].r = libera[h].r /\ libera'[h].faltan = libera[h].faltan
  <2> DEFINE v == [pid |-> libera[h].pid, paso |-> s, r |-> libera[h].r,
                   leido |-> libera[h].leido, faltan |-> libera[h].faltan]
  <2>1. libera' = [libera EXCEPT ![h] = v]
    <3>1. libera \in [Hilos -> EstadosLibera]
      BY <1>1
    <3>2. [libera EXCEPT ![h].paso = s] = [libera EXCEPT ![h] = v]
      BY <3>1, LiberaSigue, ZenonT(40)
    <3>3. QED
      BY <3>2, <1>6
  <2>2. v \in EstadosLibera
    BY <1>1 DEF EstadosLibera
  <2>3. /\ v.pid = libera[h].pid /\ v.paso = s /\ v.r = libera[h].r
        /\ v.faltan = libera[h].faltan
    OBVIOUS
  <2> HIDE DEF v
  <2>4. libera'[h] = v /\ libera' \in [Hilos -> EstadosLibera]
        /\ \A k \in Hilos \ {h} : libera'[k] = libera[k]
    BY <1>1, <2>1, <2>2
  <2>5. QED
    BY <2>3, <2>4
<1>7. CASE LiberarMira(h)
  <2> DEFINE s == IF espera[libera[h].r] = <<>> THEN "suma" ELSE "saca"
  <2>1. s \in PasosLibera /\ libera' = [libera EXCEPT ![h].paso = s]
    BY <1>7 DEF LiberarMira, PasosLibera
  <2> HIDE DEF s
  <2>2. /\ libera' \in [Hilos -> EstadosLibera]
        /\ \A k \in Hilos \ {h} : libera'[k] = libera[k]
        /\ libera'[h].pid = libera[h].pid /\ libera'[h].paso = s
        /\ libera'[h].r = libera[h].r /\ libera'[h].faltan = libera[h].faltan
    BY <2>1, <1>6
  <2>3. /\ ~LiberarLee(h) /\ ~LiberarGuarda(h) /\ ~LiberarSaca(h)
        /\ libera[h].paso # "suma"
    BY <1>7 DEF LiberarLee, LiberarGuarda, LiberarMira, LiberarSaca
  <2>4. QED
    BY <1>2, <1>3, <2>2, <2>3 DEF s
<1>8. CASE LiberarSaca(h)
  <2>1. "suma" \in PasosLibera /\ libera' = [libera EXCEPT ![h].paso = "suma"]
    BY <1>8 DEF LiberarSaca, PasosLibera
  <2>2. /\ libera' \in [Hilos -> EstadosLibera]
        /\ \A k \in Hilos \ {h} : libera'[k] = libera[k]
        /\ libera'[h].pid = libera[h].pid /\ libera'[h].paso = "suma"
        /\ libera'[h].r = libera[h].r /\ libera'[h].faltan = libera[h].faltan
    BY <2>1, <1>6
  <2>3. /\ ~LiberarLee(h) /\ ~LiberarGuarda(h) /\ ~LiberarMira(h)
        /\ libera[h].paso # "suma"
    BY <1>8 DEF LiberarLee, LiberarGuarda, LiberarMira, LiberarSaca
  <2>4. QED
    BY <1>2, <1>3, <2>2, <2>3
<1>9. QED
  BY <1>4, <1>5, <1>7, <1>8 DEF Libera

(* The short-term scheduler moves to another step with the same pcb.       *)
LEMMA CPPasa ==
    ASSUME TypeOK, NEW s \in PasosCP, cp' = [cp EXCEPT !.paso = s]
    PROVE  /\ cp' \in EstadosCP /\ cp'.paso = s
           /\ cp'.pid = cp.pid /\ cp'.r = cp.r /\ cp'.leido = cp.leido
<1>1. cp \in EstadosCP
  BY Tipos
<1>2. cp' = [paso |-> s, pid |-> cp.pid, r |-> cp.r, leido |-> cp.leido]
  <2>1. [cp EXCEPT !.paso = s] = [paso |-> s, pid |-> cp.pid, r |-> cp.r, leido |-> cp.leido]
    BY <1>1, CPSigue
  <2>2. QED
    BY <2>1
<1>3. QED
  BY <1>2, Tipos DEF EstadosCP

(* The short-term scheduler with no pcb in its hands.                      *)
LEMMA EsperoVista ==
    ASSUME NEW s \in PasosCP
    PROVE  /\ [Espero EXCEPT !.paso = s] = [paso |-> s, pid |-> Nadie, r |-> Nadie, leido |-> 0]
           /\ [Espero EXCEPT !.paso = s] \in EstadosCP
           /\ Espero \in EstadosCP /\ Espero.paso = "despacha" /\ Espero.pid = Nadie
<1>1. [Espero EXCEPT !.paso = s] = [paso |-> s, pid |-> Nadie, r |-> Nadie, leido |-> 0]
  BY DEF Espero
<1>2. Espero \in EstadosCP /\ Espero.paso = "despacha" /\ Espero.pid = Nadie
  BY DEF Espero, EstadosCP, PasosCP
<1>3. [paso |-> s, pid |-> Nadie, r |-> Nadie, leido |-> 0] \in EstadosCP
  BY DEF EstadosCP
<1>4. QED
  BY <1>1, <1>2, <1>3

(* The pcb that recibir_contexto_actualizado takes out of EXEC.            *)
LEMMA RecibeVista ==
    ASSUME Base, NEW m, Recibe(m)
    PROVE  /\ contexto.pid \in Procesos /\ Head(exec) = contexto.pid
           /\ exec = <<contexto.pid>> /\ ToSet(exec) = {contexto.pid}
           /\ exec' = <<>> /\ ToSet(exec') = {} /\ Distintos(exec') /\ cp.paso = "recibe"
           /\ cp.pid = Nadie /\ libera["cp"].pid = Nadie /\ libera["mata"].pid = Nadie
           /\ despacho = Nadie /\ aviso = "nada"
<1>1. /\ contexto.pid \in Procesos /\ exec = <<contexto.pid>> /\ cp.paso = "recibe"
      /\ despacho = Nadie /\ aviso = "nada"
  BY Tipos DEF Base, Turno, Recibe
<1>2. Head(exec) = contexto.pid /\ exec' = <<>> /\ ToSet(exec) = {contexto.pid}
  <2>1. Tail(<<contexto.pid>>) = <<>> /\ Head(<<contexto.pid>>) = contexto.pid
    OBVIOUS
  <2>2. ToSet(<<contexto.pid>>) = {contexto.pid}
    BY DEF ToSet
  <2>3. QED
    BY <1>1, <2>1, <2>2 DEF Recibe
<1>3. ToSet(<<>>) = {} /\ Distintos(<<>>)
  BY DEF ToSet, Distintos
<1>4. cp.pid = Nadie /\ libera["cp"].pid = Nadie
  BY <1>1 DEF Base, Hilero, EnPedido, Liberando
<1>5. libera["mata"].pid = Nadie
  BY DEF Recibe, Planificando, Libre, Liberando
<1>6. QED
  BY <1>1, <1>2, <1>3, <1>4, <1>5

-----------------------------------------------------------------------------
(* Steps that move no pcb.                                                 *)
SinMover ==
    /\ UNCHANGED colas /\ cp'.pid = cp.pid
    /\ \A h \in Hilos : libera'[h].pid = libera[h].pid

(* A step that moves no pcb keeps every pcb in its one place.              *)
LEMMA SinMoverSeparados ==
    ASSUME SinMover, Separados
    PROVE  /\ Separados' /\ \A p : Ubicado(p)' <=> Ubicado(p)
<1>1. \A p : EnLibera(p)' <=> EnLibera(p)
  BY DEF SinMover, EnLibera
<1>2. /\ ready' = ready /\ exec' = exec /\ salida' = salida /\ enIO' = enIO
      /\ espera' = espera /\ cp'.pid = cp.pid
      /\ \A h \in Hilos : libera'[h].pid = libera[h].pid
  BY DEF SinMover, colas
<1>3. Separados'
  BY <1>1, <1>2 DEF Separados, EnEspera, EnPermiso, Distintos
<1>4. \A p : Ubicado(p)' <=> Ubicado(p)
  BY <1>1, <1>2 DEF Ubicado, EnEspera, EnPermiso
<1>5. QED
  BY <1>3, <1>4

(* What the CPU and the scheduler owe each other does not change if        *)
(* neither moves.                                                          *)
LEMMA TurnoQuieto ==
    ASSUME Turno, UNCHANGED <<exec, cp, despacho, contexto, aviso, cpu>>
    PROVE  Turno'
BY DEF Turno, EnPedido

(* The accounts of a process that a step does not concern.                 *)
Ajeno(p) ==
    /\ p \in ToSet(ready') \cup ToSet(exec') \cup ToSet(enIO') =>
         p \in ToSet(ready) \cup ToSet(exec) \cup ToSet(enIO)
    /\ \A r \in NombresRecurso : p \in ToSet(espera'[r]) <=> p \in ToSet(espera[r])
    /\ cp'.pid = p => cp.pid = p
    /\ cp.pid = p => cp'.pid = p /\ cp'.r = cp.r
                     /\ (cp'.paso \in PasosWait <=> cp.paso \in PasosWait)
                     /\ (cp'.paso = "signal_guarda" => cp.paso = "signal_guarda")
    /\ usadas'[p] = usadas[p] /\ tiene'[p] = tiene[p]
    /\ \A h \in Hilos :
         libera'[h].pid = p => libera[h].pid = p /\ libera'[h].faltan = libera[h].faltan
    /\ p \in salida' => p \in salida
    /\ contexto'.pid = p => contexto' = contexto

(* The units of a process that the step is not about.                      *)
LEMMA CuentasAjenas ==
    ASSUME NEW p, NEW r \in NombresRecurso, CuentasDe(p, r), Ajeno(p)
    PROVE  CuentasDe(p, r)'
<1>1. (EnEspera(p)' <=> EnEspera(p)) /\ (EnPermiso(p)' <=> EnPermiso(p))
  BY DEF Ajeno, EnEspera, EnPermiso
<1>2. Activo(p)' => Activo(p)
  BY <1>1 DEF Activo, Ajeno
<1>3. Esperada(p, r)' = Esperada(p, r)
  BY DEF Esperada, Ajeno
<1>4. QED
  BY <1>2, <1>3 DEF CuentasDe, Ajeno

(* The units of every process in a step that moves nothing and counts      *)
(* nothing.                                                                *)
LEMMA CuentasQuietas ==
    ASSUME Cuentas, SinMover, UNCHANGED <<usadas, tiene, contexto>>,
           \A h \in Hilos : libera'[h].faltan = libera[h].faltan,
           cp'.r = cp.r, cp'.paso = cp.paso \/ (cp'.paso \in PasosWait /\ cp.paso \in PasosWait)
    PROVE  Cuentas'
<1>1. \A p : Ajeno(p)
  BY DEF SinMover, colas, Ajeno, PasosWait
<1>2. QED
  BY <1>1, CuentasAjenas DEF Cuentas

(* A sequence of one element.                                              *)
LEMMA SoloUno == \A x : ToSet(<<x>>) = {x} /\ Distintos(<<x>>)
BY DEF ToSet, Distintos

(* The CPU and the socket of its interrupts.                               *)
LEMMA MaquinaBase ==
    ASSUME Base, CPU \/ InterruptLlega
    PROVE  Base' /\ SinMover
<1>1. UNCHANGED <<colas, cuentas, cp, libera, io, redirigidos, intUsuario, caido>>
  BY DEF CPU, InterruptLlega, CPURecibe, CPUInterrumpe, CPUAviso, CPUAvisoAjeno, CPUPide, CPUSale,
         Devuelve
<1>2. SinMover
  BY <1>1 DEF SinMover
<1>3. Hilero'
  BY <1>1 DEF Base, Hilero, EnPedido, Liberando
<1>4. /\ senial' \in Procesos \cup {Nadie} /\ interrupcion' \in Procesos \cup {Nadie}
      /\ despacho' \in Procesos \cup {Nadie} /\ aviso' \in {"nada", "MISMO_PID", "NUEVO_PID"}
  BY DEF Base, TypeOK, CPU, InterruptLlega, CPURecibe, CPUInterrumpe, CPUAviso, CPUAvisoAjeno,
         CPUPide, CPUSale, Devuelve
<1> DEFINE P == {"libre", "ejecuta", "pide", "perdida"}
<1>5. cpu \in [paso : P, pid : Procesos \cup {Nadie}] /\ cpu.pid \in Procesos \cup {Nadie}
  BY DEF Base, TypeOK
<1>6. \A s : [cpu EXCEPT !.paso = s] = [paso |-> s, pid |-> cpu.pid]
  BY <1>5, CPUSigue
<1>7. cpu' \in [paso : P, pid : Procesos \cup {Nadie}]
  <2>1. /\ [paso |-> "libre", pid |-> Nadie] \in [paso : P, pid : Procesos \cup {Nadie}]
        /\ \A s \in P, p \in Procesos \cup {Nadie} :
             [paso |-> s, pid |-> p] \in [paso : P, pid : Procesos \cup {Nadie}]
    OBVIOUS
  <2>2. CASE CPURecibe
    BY <2>1, <2>2 DEF Base, TypeOK, CPURecibe
  <2>3. CASE CPUInterrumpe
    BY <1>5, <2>1, <2>3 DEF CPUInterrumpe
  <2>4. CASE CPUAviso
    BY <1>5, <1>6, <2>1, <2>4 DEF CPUAviso
  <2>5. CASE CPUAvisoAjeno
    BY <1>5, <1>6, <2>1, <2>5 DEF CPUAvisoAjeno
  <2>6. CASE \E m \in MotivosConAviso, r \in NombresRecurso \cup {Nadie} : CPUPide(m, r)
    BY <1>5, <1>6, <2>1, <2>6 DEF CPUPide
  <2>7. CASE \E m \in {"EXIT", "IO", "QUANTUM"} : CPUSale(m)
    BY <2>1, <2>7 DEF CPUSale
  <2>8. CASE InterruptLlega
    BY <1>5, <2>8 DEF InterruptLlega
  <2>9. QED
    BY <2>2, <2>3, <2>4, <2>5, <2>6, <2>7, <2>8 DEF CPU
<1>8. contexto' \in [pid : Procesos \cup {Nadie}, motivo : Motivos, r : NombresRecurso \cup {Nadie}]
  BY <1>5 DEF Base, TypeOK, CPU, InterruptLlega, CPURecibe, CPUInterrumpe, CPUAviso,
         CPUAvisoAjeno, CPUPide, CPUSale, Devuelve, Motivos, MotivosConAviso
<1>9. TypeOK'
  BY <1>1, <1>4, <1>7, <1>8 DEF Base, TypeOK, colas, cuentas
<1>10. Turno'
  <2>1. /\ exec' = exec /\ cp' = cp
    BY <1>1 DEF colas
  <2>2. CASE CPURecibe
    BY <2>1, <2>2 DEF Base, TypeOK, Turno, EnPedido, CPURecibe
  <2>3. CASE CPUInterrumpe
    <3>1. CASE UNCHANGED <<despacho, contexto, aviso, cpu>>
      BY <2>1, <3>1, TurnoQuieto DEF Base
    <3>2. CASE /\ Devuelve("USER_INTERRUPT", Nadie)
               /\ cpu' = [paso |-> "libre", pid |-> Nadie]
      BY <2>1, <3>2 DEF Base, TypeOK, Turno, EnPedido, Devuelve, MotivosConAviso
    <3>3. QED
      BY <2>3, <3>1, <3>2 DEF CPUInterrumpe
  <2>4. CASE CPUAviso
    BY <1>6, <2>1, <2>4 DEF Base, TypeOK, Turno, EnPedido, CPUAviso
  <2>5. CASE CPUAvisoAjeno
    BY <1>6, <2>1, <2>5 DEF Base, TypeOK, Turno, EnPedido, CPUAvisoAjeno
  <2>6. CASE \E m \in MotivosConAviso, r \in NombresRecurso \cup {Nadie} : CPUPide(m, r)
    BY <1>6, <2>1, <2>6 DEF Base, TypeOK, Turno, EnPedido, CPUPide, Devuelve
  <2>7. CASE \E m \in {"EXIT", "IO", "QUANTUM"} : CPUSale(m)
    BY <2>1, <2>7 DEF Base, TypeOK, Turno, EnPedido, CPUSale, Devuelve, MotivosConAviso
  <2>8. CASE InterruptLlega
    BY <2>1, <2>8, TurnoQuieto DEF Base, InterruptLlega
  <2>9. QED
    BY <2>2, <2>3, <2>4, <2>5, <2>6, <2>7, <2>8 DEF CPU
<1>11. Cuentas'
  <2>1. \A p \in Procesos, r \in NombresRecurso :
           contexto'.pid = p /\ contexto'.r = r /\ contexto'.motivo = "SIGNAL" => tiene[p][r] > 0
    <3>1. CASE \E m \in MotivosConAviso, r \in NombresRecurso \cup {Nadie} : CPUPide(m, r)
      <4>1. PICK m \in MotivosConAviso, r \in NombresRecurso \cup {Nadie} : CPUPide(m, r)
        BY <3>1
      <4>2. /\ contexto' = [pid |-> cpu.pid, motivo |-> m, r |-> r]
            /\ r # Nadie => IF m = "WAIT" THEN usadas[cpu.pid][r] < MaxUnidades
                            ELSE tiene[cpu.pid][r] > 0
        BY <4>1 DEF CPUPide, Devuelve
      <4>3. Nadie \notin NombresRecurso
        BY RecursosAssumption
      <4>4. QED
        BY <4>2, <4>3
    <3>2. CASE UNCHANGED contexto
      BY <3>2 DEF Base, Cuentas, CuentasDe
    <3>3. CASE contexto'.motivo # "SIGNAL"
      BY <3>3
    <3>4. QED
      BY <3>1, <3>2, <3>3 DEF CPU, InterruptLlega, CPURecibe, CPUInterrumpe, CPUAviso,
         CPUAvisoAjeno, CPUSale, Devuelve
  <2>2. \A p, r : Esperada(p, r)' = Esperada(p, r)
    BY <1>1 DEF Esperada, colas
  <2>3. \A p : Activo(p)' <=> Activo(p)
    BY <1>1 DEF Activo, EnEspera, EnPermiso, colas
  <2>4. QED
    BY <1>1, <2>1, <2>2, <2>3 DEF Base, Cuentas, CuentasDe, colas, cuentas
<1>12. QED
  BY <1>2, <1>3, <1>9, <1>10, <1>11, SinMoverSeparados DEF Base

(* The interface that goes away, and the kills that only leave a mark.     *)
LEMMA MarcasBase ==
    ASSUME Base,
           \/ IODesconecta \/ IOSale
           \/ \E p \in Procesos : MataEnExec(p) \/ (MataEnIO(p) /\ Head(enIO) = p)
    PROVE  Base' /\ SinMover
<1>1. UNCHANGED <<colas, cuentas, cp, libera, despacho, aviso, cpu, contexto, interrupcion, caido>>
  BY DEF IODesconecta, IOSale, MataEnExec, MataEnIO, Mata, colas, cuentas, maquina
<1>2. SinMover
  BY <1>1 DEF SinMover
<1>3. /\ intUsuario' \in BOOLEAN /\ senial' \in Procesos \cup {Nadie}
      /\ redirigidos' \subseteq Procesos /\ io' \in {"atiende", "drena", "fuera"}
  BY RecursosAssumption DEF Base, TypeOK, IODesconecta, IOSale, MataEnExec, MataEnIO, Mata, maquina
<1>4. TypeOK'
  BY <1>1, <1>3, ZenonT(40) DEF Base, TypeOK, colas, cuentas
<1>5. Hilero' /\ Turno'
  BY <1>1, TurnoQuieto DEF Base, Hilero, EnPedido, Liberando, colas
<1>6. Cuentas'
  <2>1. /\ Cuentas /\ UNCHANGED <<usadas, tiene, contexto>>
        /\ \A h \in Hilos : libera'[h].faltan = libera[h].faltan
        /\ cp'.r = cp.r /\ cp'.paso = cp.paso
    BY <1>1 DEF Base, cuentas
  <2>2. QED
    BY <1>2, <2>1, CuentasQuietas
<1>7. QED
  BY <1>2, <1>4, <1>5, <1>6, SinMoverSeparados DEF Base

(* The steps of liberar_recursos before the pop.                           *)
LEMMA LiberarQuieto ==
    ASSUME Base, NEW h \in Hilos, LiberarLee(h) \/ LiberarGuarda(h) \/ LiberarMira(h)
    PROVE  /\ UNCHANGED <<colas, usadas, cp, io, redirigidos, intUsuario, maquina, caido>>
           /\ Libera(h) /\ ~LiberarTermina(h) /\ ~LiberarSaca(h)
           /\ TypeOK' /\ Separados' /\ Hilero' /\ Turno' /\ SinMover
<1>1. UNCHANGED <<colas, usadas, cp, io, redirigidos, intUsuario, maquina, caido>>
  BY DEF LiberarLee, LiberarGuarda, LiberarMira, cuentas
<1>2. Libera(h) /\ ~LiberarTermina(h) /\ ~LiberarSaca(h)
  <2>1. CASE LiberarLee(h)
    <3>1. PICK r \in NombresRecurso : libera[h].faltan[r] > 0
      BY <2>1 DEF LiberarLee
    <3>2. libera[h].faltan[r] # 0 /\ libera[h].paso = "suma"
      <4>1. libera[h].faltan[r] \in Nat
        BY Tipos DEF Base
      <4>2. QED
        BY <3>1, <4>1, <2>1 DEF LiberarLee
    <3>3. QED
      BY <3>2, <2>1 DEF Libera, LiberarTermina, LiberarSaca
  <2>2. CASE LiberarGuarda(h)
    BY <2>2 DEF Libera, LiberarGuarda, LiberarTermina, LiberarSaca
  <2>3. CASE LiberarMira(h)
    BY <2>3 DEF Libera, LiberarMira, LiberarTermina, LiberarSaca
  <2>4. QED
    BY <2>1, <2>2, <2>3
<1>3. /\ libera' \in [Hilos -> EstadosLibera] /\ \A k \in Hilos \ {h} : libera'[k] = libera[k]
      /\ libera'[h].pid = libera[h].pid /\ libera[h].pid \in Procesos
      /\ libera'[h].r \in NombresRecurso
      /\ libera'[h].paso = "guarda" => libera'[h].faltan[libera'[h].r] > 0
  <2>1. CASE LiberarLee(h)
    BY <1>2, <2>1, LiberaVista
  <2>2. CASE LiberarGuarda(h)
    <3>1. libera'[h].paso = "mira" /\ ~LiberarLee(h)
      BY <1>2, <2>2, LiberaVista DEF LiberarGuarda, LiberarLee
    <3>2. QED
      BY <1>2, <3>1, LiberaVista
  <2>3. CASE LiberarMira(h)
    <3>1. libera'[h].paso # "guarda" /\ ~LiberarLee(h)
      BY <1>2, <2>3, LiberaVista DEF LiberarMira, LiberarLee
    <3>2. QED
      BY <1>2, <3>1, LiberaVista
  <2>4. QED
    BY <2>1, <2>2, <2>3
<1>4. SinMover
  BY <1>1, <1>3 DEF SinMover
<1>5. Hilero'
  <2>1. \A k \in Hilos : libera'[k].pid = libera[k].pid
    BY <1>3
  <2>2. cp' = cp
    BY <1>1
  <2>3. Nadie \notin Procesos /\ Nadie \notin NombresRecurso
    BY RecursosAssumption
  <2>4. ASSUME NEW k \in Hilos
        PROVE /\ libera'[k].paso # "suma" => libera'[k].pid # Nadie /\ libera'[k].r # Nadie
              /\ libera'[k].paso = "guarda" => libera'[k].faltan[libera'[k].r] > 0
    <3>1. CASE k = h
      BY <1>3, <2>3, <3>1
    <3>2. CASE k # h
      BY <1>3, <3>2 DEF Base, Hilero, Liberando
    <3>3. QED
      BY <3>1, <3>2
  <2>5. QED
    BY <2>1, <2>2, <2>4 DEF Base, Hilero, EnPedido, Liberando, Hilos
<1>6. TypeOK'
  <2>1. instancias' \in [NombresRecurso -> Int] /\ tiene' \in [Procesos -> [NombresRecurso -> Nat]]
    <3>1. CASE ~LiberarGuarda(h)
      BY <3>1 DEF Base, TypeOK, LiberarLee, LiberarMira, cuentas
    <3>2. CASE LiberarGuarda(h)
      <4>1. libera[h].r \in NombresRecurso /\ libera[h].leido + 1 \in Int
        BY <3>2, Tipos, SMTT(30) DEF Base, Hilero, LiberarGuarda
      <4>2. instancias' \in [NombresRecurso -> Int]
        BY <3>2, <4>1, Tipos DEF Base, LiberarGuarda
      <4> DEFINE r == libera[h].r
                 p == libera[h].pid
                 f == [tiene[p] EXCEPT ![r] = IF tiene[p][r] > 0 THEN tiene[p][r] - 1 ELSE 0]
      <4>3. tiene' = [tiene EXCEPT ![p] = f]
        BY <3>2 DEF LiberarGuarda
      <4>4. f \in [NombresRecurso -> Nat]
        <5>1. tiene[p] \in [NombresRecurso -> Nat] /\ tiene[p][r] \in Nat
          BY <1>3, <4>1, Tipos DEF Base
        <5>2. (IF tiene[p][r] > 0 THEN tiene[p][r] - 1 ELSE 0) \in Nat
          BY <5>1
        <5>3. QED
          BY <4>1, <5>1, <5>2
      <4> HIDE DEF f
      <4>5. tiene' \in [Procesos -> [NombresRecurso -> Nat]]
        BY <1>3, <4>3, <4>4, Tipos DEF Base
      <4>6. QED
        BY <4>2, <4>5
    <3>3. QED
      BY <3>1, <3>2
  <2>2. QED
    <3>1. TiposHilos'
      BY <1>1, <1>3, TiposPartes DEF Base, TiposHilos
    <3>2. TiposCuentas'
      BY <1>1, <2>1, TiposPartes DEF Base, TiposCuentas
    <3>3. QED
      BY <1>1, <3>1, <3>2, TiposPartes DEF Base
<1>7. Turno'
  BY <1>1, TurnoQuieto DEF Base, colas, maquina
<1>8. Separados'
  BY <1>4, SinMoverSeparados DEF Base
<1>9. QED
  BY <1>1, <1>2, <1>4, <1>5, <1>6, <1>7, <1>8

(* The steps of liberar_recursos that move no pcb preserve Base.           *)
LEMMA LiberarQuietoBase ==
    ASSUME Base, NEW h \in Hilos, LiberarLee(h) \/ LiberarGuarda(h) \/ LiberarMira(h)
    PROVE  Base' /\ SinMover
<1>1. /\ UNCHANGED <<colas, usadas, cp, io, redirigidos, intUsuario, maquina, caido>>
      /\ Libera(h) /\ ~LiberarTermina(h) /\ ~LiberarSaca(h) /\ SinMover
      /\ TypeOK' /\ Separados' /\ Hilero' /\ Turno'
  BY LiberarQuieto
<1>0. libera[h].pid \in Procesos /\ \A k \in Hilos \ {h} : libera'[k] = libera[k]
  BY <1>1, LiberaVista
<1>2. PICK p \in Procesos : p = libera[h].pid
  BY <1>0
<1>3. Cuentas'
  <2>1. CASE ~LiberarGuarda(h)
    <3>1. libera'[h].faltan = libera[h].faltan
      BY <1>1, <2>1, LiberaVista DEF Libera
    <3>2. \A k \in Hilos : libera'[k].faltan = libera[k].faltan
      BY <1>0, <3>1
    <3>3. UNCHANGED <<usadas, tiene, contexto>> /\ cp'.r = cp.r /\ cp'.paso = cp.paso
      BY <1>1, <2>1 DEF LiberarLee, LiberarMira, cuentas, maquina
    <3>4. Cuentas
      BY DEF Base
    <3>5. QED
      BY <1>1, <3>2, <3>3, <3>4, CuentasQuietas
  <2>2. CASE LiberarGuarda(h)
    <3> DEFINE r == libera[h].r
    <3>1. /\ r \in NombresRecurso /\ libera[h].faltan[r] > 0
          /\ tiene' = [tiene EXCEPT ![libera[h].pid][r] = IF @ > 0 THEN @ - 1 ELSE 0]
          /\ libera' = [libera EXCEPT ![h].paso = "mira", ![h].faltan[r] = @ - 1]
      BY <2>2, Tipos DEF Base, Hilero, LiberarGuarda
    <3>2. libera'[h].faltan = [libera[h].faltan EXCEPT ![r] = libera[h].faltan[r] - 1]
      <4> DEFINE v == [pid |-> libera[h].pid, paso |-> "mira", r |-> libera[h].r,
                       leido |-> libera[h].leido,
                       faltan |-> [libera[h].faltan EXCEPT ![r] = libera[h].faltan[r] - 1]]
      <4>1. libera \in [Hilos -> EstadosLibera]
        BY Tipos DEF Base
      <4>2. [libera EXCEPT ![h].paso = "mira", ![h].faltan[r] = @ - 1] = [libera EXCEPT ![h] = v]
        BY <3>1, <4>1, LiberaGuarda
      <4>3. libera' = [libera EXCEPT ![h] = v]
        BY <3>1, <4>2
      <4>4. libera'[h] = v
        BY <4>1, <4>3
      <4>5. QED
        BY <4>4
    <3>3. /\ \A q \in NombresRecurso \ {r} : libera'[h].faltan[q] = libera[h].faltan[q]
          /\ libera'[h].faltan[r] = libera[h].faltan[r] - 1
      BY <3>1, <3>2, Tipos DEF Base
    <3>4. /\ \A x \in Procesos \ {p} : tiene'[x] = tiene[x]
          /\ \A q \in NombresRecurso \ {r} : tiene'[p][q] = tiene[p][q]
          /\ tiene'[p][r] = IF tiene[p][r] > 0 THEN tiene[p][r] - 1 ELSE 0
      <4>1. tiene \in [Procesos -> [NombresRecurso -> Nat]]
        BY Tipos DEF Base
      <4>2. QED
        BY <1>2, <3>1, <4>1
    <3>5. \A x \in Procesos, q \in NombresRecurso : tiene[x][q] \in Nat
      BY Tipos DEF Base
    <3>6. /\ p \notin ToSet(ready) \cup ToSet(exec) \cup ToSet(enIO) \cup salida
          /\ ~EnEspera(p) /\ ~EnPermiso(p) /\ \A k \in Hilos \ {h} : libera[k].pid # p
      BY <1>2 DEF Base, Separados, EnLibera
    <3>7. contexto.pid # p
      <4>1. CASE contexto.pid = p
        <5>1. exec = <<p>>
          BY <1>2, <4>1, RecursosAssumption DEF Base, Turno
        <5>2. p \in ToSet(exec)
          BY <5>1, SoloUno
        <5>3. QED
          BY <3>6, <5>2
      <4>2. QED
        BY <4>1
    <3>8. \A k \in Hilos : libera'[k].pid = libera[k].pid
      BY <1>1 DEF SinMover
    <3>9. ASSUME NEW q \in NombresRecurso
          PROVE  CuentasDe(p, q)'
      <4>1. libera[h].faltan[q] \in {tiene[p][q], tiene[p][q] + 1} /\ tiene[p][q] \in Nat
        BY <1>2, <3>5 DEF Base, Cuentas, CuentasDe
      <4>2. libera'[h].faltan[q] \in {tiene'[p][q], tiene'[p][q] + 1}
        <5>1. CASE q = r
          <6> DEFINE t == tiene[p][r]
                     f == libera[h].faltan[r]
          <6>1. t \in Nat /\ f \in {t, t + 1} /\ f > 0
            BY <3>1, <4>1, <5>1
          <6>2. f - 1 \in {IF t > 0 THEN t - 1 ELSE 0, (IF t > 0 THEN t - 1 ELSE 0) + 1}
            <7> HIDE DEF t, f
            <7> QED
              BY <6>1
          <6>3. QED
            BY <3>3, <3>4, <5>1, <6>2
        <5>2. CASE q # r
          BY <3>3, <3>4, <4>1, <5>2
        <5>3. QED
          BY <5>1, <5>2
      <4>3. \A k \in Hilos : libera'[k].pid = p => k = h
        BY <3>6, <3>8
      <4>4. /\ ~Activo(p)' /\ p \notin salida' /\ contexto'.pid # p /\ cp'.pid # p
        BY <1>1, <3>6, <3>7 DEF Activo, EnEspera, EnPermiso, colas, maquina
      <4>5. QED
        BY <4>2, <4>3, <4>4 DEF CuentasDe
    <3>10. ASSUME NEW x \in Procesos \ {p}
           PROVE  Ajeno(x)
      BY <1>0, <1>1, <1>2, <3>4, <3>8 DEF Ajeno, colas, maquina
    <3>11. QED
      BY <3>9, <3>10, CuentasAjenas DEF Base, Cuentas
  <2>3. QED
    BY <2>1, <2>2
<1>4. QED
  BY <1>1, <1>3 DEF Base

(* The steps of WAIT and SIGNAL that count or look.                        *)
PedidoQuieto ==
    \/ WaitGuarda \/ WaitNoAlcanza \/ (WaitRemira /\ instancias[cp.r] < 0)
    \/ SignalGuarda \/ SignalMira

(* The request in the hands of the scheduler, and the step that follows    *)
(* each of its steps.                                                      *)
LEMMA PedidoVisto ==
    ASSUME Base, PedidoQuieto \/ SignalSaca
    PROVE  /\ cp.pid \in Procesos /\ cp.r \in NombresRecurso /\ EnPedido
           /\ cp' \in EstadosCP /\ cp'.pid = cp.pid /\ cp'.r = cp.r /\ cp'.leido = cp.leido
           /\ WaitGuarda => cp'.paso = "wait_mira"
           /\ WaitNoAlcanza => cp'.paso \in {"wait_remira", "wait_encola"}
           /\ WaitRemira => cp'.paso = "wait_encola"
           /\ SignalGuarda => cp'.paso = "signal_mira"
           /\ SignalMira =>
                cp'.paso = IF espera[cp.r] = <<>> THEN "signal_sigue" ELSE "signal_saca"
           /\ SignalSaca => cp'.paso = "signal_sigue"
<1>1. EnPedido
  BY DEF PedidoQuieto, WaitGuarda, WaitNoAlcanza, WaitRemira, SignalGuarda, SignalMira, SignalSaca,
         EnPedido
<1>2. cp.pid \in Procesos /\ cp.r \in NombresRecurso
  BY <1>1, Tipos DEF Base, Hilero
<1>3. ASSUME NEW s \in PasosCP, cp' = [cp EXCEPT !.paso = s]
      PROVE  /\ cp' \in EstadosCP /\ cp'.pid = cp.pid /\ cp'.r = cp.r /\ cp'.leido = cp.leido
             /\ cp'.paso = s
  <2>1. TypeOK
    BY DEF Base
  <2>2. QED
    BY <1>3, <2>1, CPPasa
<1>4. CASE WaitGuarda
  <2>1. "wait_mira" \in PasosCP /\ cp' = [cp EXCEPT !.paso = "wait_mira"]
    BY <1>4 DEF WaitGuarda, PasosCP
  <2>2. ~WaitNoAlcanza /\ ~WaitRemira /\ ~SignalGuarda /\ ~SignalMira /\ ~SignalSaca
    BY <1>4 DEF WaitGuarda, WaitNoAlcanza, WaitRemira, SignalGuarda, SignalMira, SignalSaca
  <2>3. QED
    BY <1>1, <1>2, <1>3, <2>1, <2>2
<1>5. CASE WaitNoAlcanza
  <2>1. PICK s \in {"wait_remira", "wait_encola"} : cp' = [cp EXCEPT !.paso = s]
    BY <1>5 DEF WaitNoAlcanza
  <2>2. s \in PasosCP
    BY DEF PasosCP
  <2>3. ~WaitGuarda /\ ~WaitRemira /\ ~SignalGuarda /\ ~SignalMira /\ ~SignalSaca
    BY <1>5 DEF WaitGuarda, WaitNoAlcanza, WaitRemira, SignalGuarda, SignalMira, SignalSaca
  <2>4. /\ cp' \in EstadosCP /\ cp'.pid = cp.pid /\ cp'.r = cp.r /\ cp'.leido = cp.leido
        /\ cp'.paso = s
    BY <1>3, <2>1, <2>2
  <2>5. QED
    BY <1>1, <1>2, <2>3, <2>4
<1>6. CASE WaitRemira /\ instancias[cp.r] < 0
  <2>1. "wait_encola" \in PasosCP /\ cp' = [cp EXCEPT !.paso = "wait_encola"]
    BY <1>6 DEF WaitRemira, PasosCP
  <2>2. ~WaitGuarda /\ ~WaitNoAlcanza /\ ~SignalGuarda /\ ~SignalMira /\ ~SignalSaca
    BY <1>6 DEF WaitGuarda, WaitNoAlcanza, WaitRemira, SignalGuarda, SignalMira, SignalSaca
  <2>3. QED
    BY <1>1, <1>2, <1>3, <2>1, <2>2
<1>7. CASE SignalGuarda
  <2>1. "signal_mira" \in PasosCP /\ cp' = [cp EXCEPT !.paso = "signal_mira"]
    BY <1>7 DEF SignalGuarda, PasosCP
  <2>2. ~WaitGuarda /\ ~WaitNoAlcanza /\ ~WaitRemira /\ ~SignalMira /\ ~SignalSaca
    BY <1>7 DEF WaitGuarda, WaitNoAlcanza, WaitRemira, SignalGuarda, SignalMira, SignalSaca
  <2>3. QED
    BY <1>1, <1>2, <1>3, <2>1, <2>2
<1>8. CASE SignalMira
  <2> DEFINE s == IF espera[cp.r] = <<>> THEN "signal_sigue" ELSE "signal_saca"
  <2>1. s \in PasosCP /\ cp' = [cp EXCEPT !.paso = s]
    BY <1>8 DEF SignalMira, PasosCP
  <2>2. ~WaitGuarda /\ ~WaitNoAlcanza /\ ~WaitRemira /\ ~SignalGuarda /\ ~SignalSaca
    BY <1>8 DEF WaitGuarda, WaitNoAlcanza, WaitRemira, SignalGuarda, SignalMira, SignalSaca
  <2> HIDE DEF s
  <2>3. /\ cp' \in EstadosCP /\ cp'.pid = cp.pid /\ cp'.r = cp.r /\ cp'.leido = cp.leido
        /\ cp'.paso = s
    BY <1>3, <2>1
  <2>4. QED
    BY <1>1, <1>2, <2>2, <2>3 DEF s
<1>9. CASE SignalSaca
  <2>1. "signal_sigue" \in PasosCP /\ cp' = [cp EXCEPT !.paso = "signal_sigue"]
    BY <1>9 DEF SignalSaca, PasosCP
  <2>2. ~WaitGuarda /\ ~WaitNoAlcanza /\ ~WaitRemira /\ ~SignalGuarda /\ ~SignalMira
    BY <1>9 DEF WaitGuarda, WaitNoAlcanza, WaitRemira, SignalGuarda, SignalMira, SignalSaca
  <2>3. QED
    BY <1>1, <1>2, <1>3, <2>1, <2>2
<1>10. QED
  BY <1>4, <1>5, <1>6, <1>7, <1>8, <1>9 DEF PedidoQuieto

(* The steps of WAIT and SIGNAL that move no pcb preserve Base.            *)
LEMMA PedidoQuietoBase ==
    ASSUME Base, PedidoQuieto
    PROVE  Base' /\ SinMover
<1>1. UNCHANGED <<colas, libera, io, redirigidos, intUsuario, maquina, caido>>
  BY DEF PedidoQuieto, WaitGuarda, WaitNoAlcanza, WaitRemira, SignalGuarda, SignalMira
<1>2. PICK p \in Procesos, r \in NombresRecurso : p = cp.pid /\ r = cp.r
  BY PedidoVisto
<1>3. /\ EnPedido /\ cp' \in EstadosCP /\ cp'.pid = p /\ cp'.r = r
      /\ cp'.paso \in {"wait_mira", "wait_remira", "wait_encola", "signal_mira", "signal_saca",
                       "signal_sigue"}
  BY <1>2, PedidoVisto DEF PedidoQuieto
<1>4. EnPedido' /\ SinMover
  BY <1>1, <1>2, <1>3 DEF EnPedido, SinMover
<1>5. Hilero'
  BY <1>1, <1>2, <1>3, <1>4, RecursosAssumption DEF Base, Hilero, Liberando, EnPedido
<1>6. Turno'
  <2>1. /\ cp.paso # "recibe" /\ cp'.paso # "recibe"
        /\ UNCHANGED <<exec, despacho, contexto, aviso, cpu>>
    BY <1>1, <1>3 DEF EnPedido, colas, maquina
  <2>2. QED
    BY <2>1, <1>2, <1>3, <1>4 DEF Base, Turno
<1>7. TypeOK'
  <2>1. instancias' \in [NombresRecurso -> Int]
    <3>1. instancias \in [NombresRecurso -> Int] /\ cp.leido - 1 \in Int /\ cp.leido + 1 \in Int
      <4>1. instancias \in [NombresRecurso -> Int] /\ cp.leido \in Int
        BY Tipos DEF Base
      <4>2. QED
        BY <4>1
    <3>2. CASE WaitGuarda \/ SignalGuarda
      BY <1>2, <3>1, <3>2 DEF WaitGuarda, SignalGuarda
    <3>3. CASE UNCHANGED instancias
      BY <3>1, <3>3
    <3>4. QED
      BY <3>2, <3>3 DEF PedidoQuieto, WaitNoAlcanza, WaitRemira, SignalMira, cuentas
  <2>2. tiene[p][r] \in Nat /\ usadas[p][r] \in Nat
    BY Tipos DEF Base
  <2>3. CASE SignalGuarda
    <3>1. /\ tiene[p][r] > 0 /\ usadas[p][r] = tiene[p][r] + Esperada(p, r)
          /\ Esperada(p, r) \in {0, 1}
      BY <2>3, <1>2 DEF Base, Cuentas, CuentasDe, SignalGuarda, Activo, EnPermiso, Esperada
    <3>2. tiene[p][r] - 1 \in Nat /\ usadas[p][r] - 1 \in Nat
      BY <2>2, <3>1
    <3>3. /\ tiene' = [tiene EXCEPT ![p] = [tiene[p] EXCEPT ![r] = tiene[p][r] - 1]]
          /\ usadas' = [usadas EXCEPT ![p] = [usadas[p] EXCEPT ![r] = usadas[p][r] - 1]]
      BY <2>3, <1>2 DEF SignalGuarda
    <3>4. /\ [tiene[p] EXCEPT ![r] = tiene[p][r] - 1] \in [NombresRecurso -> Nat]
          /\ [usadas[p] EXCEPT ![r] = usadas[p][r] - 1] \in [NombresRecurso -> Nat]
      BY <3>2, Tipos DEF Base
    <3>5. TiposCuentas'
      BY <2>1, <3>3, <3>4, Tipos DEF Base, TiposCuentas
    <3>6. QED
      BY <1>1, <1>3, <3>5, TiposPartes DEF Base, TiposHilos
  <2>4. CASE WaitGuarda
    <3>1. /\ usadas' = [usadas EXCEPT ![p] = [usadas[p] EXCEPT ![r] = usadas[p][r] + 1]]
          /\ tiene' = tiene
      BY <2>4, <1>2 DEF WaitGuarda
    <3>2. [usadas[p] EXCEPT ![r] = usadas[p][r] + 1] \in [NombresRecurso -> Nat]
      <4>1. usadas[p] \in [NombresRecurso -> Nat]
        BY Tipos DEF Base
      <4>2. usadas[p][r] + 1 \in Nat
        BY <2>2
      <4>3. QED
        BY <4>1, <4>2
    <3>3. TiposCuentas'
      BY <2>1, <3>1, <3>2, Tipos DEF Base, TiposCuentas
    <3>4. QED
      BY <1>1, <1>3, <3>3, TiposPartes DEF Base, TiposHilos
  <2>5. CASE UNCHANGED cuentas
    BY <1>1, <1>3, <2>5, TiposPartes DEF Base, TiposHilos
  <2>6. QED
    BY <2>3, <2>4, <2>5 DEF PedidoQuieto, WaitNoAlcanza, WaitRemira, SignalMira
<1>8. Cuentas'
  <2>1. ASSUME NEW x \in Procesos \ {p}, UNCHANGED <<usadas[x], tiene[x]>>
        PROVE  Ajeno(x)
    BY <1>1, <1>2, <1>3, <2>1 DEF Ajeno, colas, maquina
  <2>2. /\ \A h \in Hilos : libera'[h].pid # p
        /\ p \notin salida' /\ ~(contexto'.pid = p) /\ p \notin ToSet(espera[r])
        /\ \A q \in NombresRecurso : p \notin ToSet(espera'[q])
    BY <1>1, <1>2, <1>3, RecursosAssumption DEF Base, Separados, Turno, EnPermiso, EnLibera,
       EnEspera,
       EnPedido, colas, maquina
  <2>3. /\ Activo(p)
        /\ cp.paso = "wait_guarda" => Esperada(p, r) = 0
        /\ cp.paso = "signal_guarda" => Esperada(p, r) = 0
        /\ \A q \in NombresRecurso \ {r} : Esperada(p, q) = 0 /\ Esperada(p, q)' = 0
    BY <1>2, <1>3, <2>2, <1>1 DEF Activo, EnPermiso, Esperada, PasosWait, colas
  <2>4. ASSUME NEW q \in NombresRecurso, usadas'[p][q] = tiene'[p][q] + Esperada(p, q)'
        PROVE  CuentasDe(p, q)'
    BY <1>3, <2>2, <2>4 DEF CuentasDe
  <2>5. /\ tiene \in [Procesos -> [NombresRecurso -> Nat]]
        /\ usadas \in [Procesos -> [NombresRecurso -> Nat]]
        /\ \A x \in Procesos : /\ usadas[x] \in [NombresRecurso -> Nat]
                               /\ tiene[x] \in [NombresRecurso -> Nat]
    BY Tipos DEF Base
  <2>6. \A q \in NombresRecurso : /\ usadas[p][q] = tiene[p][q] + Esperada(p, q)
                                  /\ usadas[p][q] \in Nat /\ tiene[p][q] \in Nat
    BY <2>3, Tipos DEF Base, Cuentas, CuentasDe
  <2>7. CASE WaitGuarda
    <3>1. /\ usadas' = [usadas EXCEPT ![p] = [usadas[p] EXCEPT ![r] = usadas[p][r] + 1]]
          /\ tiene' = tiene /\ cp'.paso = "wait_mira"
      BY <2>7, <1>2, PedidoVisto DEF WaitGuarda
    <3>2. /\ \A x \in Procesos \ {p} : UNCHANGED <<usadas[x], tiene[x]>>
          /\ \A q \in NombresRecurso \ {r} : usadas'[p][q] = usadas[p][q]
          /\ usadas'[p][r] = usadas[p][r] + 1
      BY <2>5, <3>1
    <3>3. Esperada(p, r)' = 1 /\ Esperada(p, r) = 0
      BY <1>2, <1>3, <2>3, <2>7, <3>1 DEF Esperada, PasosWait, WaitGuarda
    <3>4. \A q \in NombresRecurso : usadas'[p][q] = tiene'[p][q] + Esperada(p, q)'
      BY <2>3, <2>6, <3>1, <3>2, <3>3
    <3>5. QED
      BY <2>1, <2>4, <3>2, <3>4, CuentasAjenas DEF Base, Cuentas
  <2>8. CASE SignalGuarda
    <3>1. /\ usadas' = [usadas EXCEPT ![p] = [usadas[p] EXCEPT ![r] = usadas[p][r] - 1]]
          /\ tiene' = [tiene EXCEPT ![p] = [tiene[p] EXCEPT ![r] = tiene[p][r] - 1]]
          /\ cp'.paso = "signal_mira"
      BY <2>8, <1>2, PedidoVisto DEF SignalGuarda
    <3>2. /\ \A x \in Procesos \ {p} : UNCHANGED <<usadas[x], tiene[x]>>
          /\ \A q \in NombresRecurso \ {r} : /\ usadas'[p][q] = usadas[p][q]
                                             /\ tiene'[p][q] = tiene[p][q]
          /\ usadas'[p][r] = usadas[p][r] - 1 /\ tiene'[p][r] = tiene[p][r] - 1
      BY <2>5, <3>1
    <3>3. Esperada(p, r)' = 0 /\ Esperada(p, r) = 0
      BY <1>1, <1>2, <1>3, <2>2, <2>3, <2>8, <3>1 DEF Esperada, PasosWait, SignalGuarda, colas
    <3>4. \A q \in NombresRecurso : usadas'[p][q] = tiene'[p][q] + Esperada(p, q)'
      BY <2>3, <2>6, <3>1, <3>2, <3>3
    <3>5. QED
      BY <2>1, <2>4, <3>2, <3>4, CuentasAjenas DEF Base, Cuentas
  <2>9. CASE ~WaitGuarda /\ ~SignalGuarda
    <3>1. UNCHANGED cuentas /\ (cp'.paso \in PasosWait <=> cp.paso \in PasosWait)
      BY <2>9, PedidoVisto DEF PedidoQuieto, WaitNoAlcanza, WaitRemira, SignalMira, PasosWait
    <3>2. \A q \in NombresRecurso : Esperada(p, q)' = Esperada(p, q)
      BY <1>1, <1>2, <1>3, <3>1 DEF Esperada, colas
    <3>3. \A q \in NombresRecurso : usadas'[p][q] = tiene'[p][q] + Esperada(p, q)'
      BY <2>6, <3>1, <3>2 DEF cuentas
    <3>4. \A x \in Procesos \ {p} : UNCHANGED <<usadas[x], tiene[x]>>
      BY <3>1 DEF cuentas
    <3>5. QED
      BY <2>1, <2>4, <3>3, <3>4, CuentasAjenas DEF Base, Cuentas
  <2>10. QED
    BY <2>7, <2>8, <2>9
<1>9. QED
  BY <1>4, <1>5, <1>6, <1>7, <1>8, SinMoverSeparados DEF Base

-----------------------------------------------------------------------------
(* Steps that move a pcb.                                                  *)
Siguen == \A p \in Procesos : Ubicado(p) => Ubicado(p)'

(* The dispatch of the first of READY preserves Base.                      *)
LEMMA DespachaBase ==
    ASSUME Base, Despacha
    PROVE  Base' /\ Siguen
<1>1. PICK x \in Procesos : x = Head(ready)
  BY SinElPrimero, Tipos DEF Base, Despacha
<1>2. Baja(ready', ready, x) /\ exec' = Append(exec, x) /\ despacho' = x
  BY <1>1, SinElPrimero, Tipos DEF Base, Separados, Despacha, Baja
<1>3. /\ UNCHANGED <<salida, enIO, espera, cuentas, libera, io, redirigidos, intUsuario,
                   aviso, cpu, contexto, senial, interrupcion, caido>>
      /\ cp.paso = "despacha" /\ cp.pid = Nadie /\ libera["mata"].pid = Nadie
  BY DEF Despacha, Base, Hilero, EnPedido, Planificando, Libre, Liberando
<1>4. /\ cp' \in EstadosCP /\ cp'.paso = "recibe"
      /\ cp'.pid = cp.pid /\ cp'.r = cp.r /\ cp'.leido = cp.leido
  <2>1. TypeOK /\ "recibe" \in PasosCP /\ cp' = [cp EXCEPT !.paso = "recibe"]
    BY DEF Base, Despacha, PasosCP
  <2>2. QED
    BY <2>1, CPPasa
<1>5. exec = <<>> /\ exec' = <<x>> /\ ToSet(exec) = {} /\ ToSet(exec') = {x} /\ Distintos(exec')
  <2>1. Len(exec) = 0 /\ exec \in Seq(Procesos)
    BY <1>3, Tipos DEF Base, Turno
  <2>2. exec = <<>> /\ ToSet(exec) = {}
    BY <2>1, ElementosDe
  <2>3. QED
    BY <1>2, <2>2, SoloUno
<1>6. TypeOK'
  <2>1. TiposColas' /\ TiposHilos'
    BY <1>2, <1>3, <1>4, <1>5, TiposPartes DEF Base, TiposColas, TiposHilos, Baja
  <2>2. TiposMaquina'
    BY <1>2, <1>3, TiposPartes DEF Base, TiposMaquina
  <2>3. QED
    BY <1>3, <2>1, <2>2, TiposPartes DEF Base
<1>7. Separados'
  BY <1>2, <1>3, <1>4, <1>5 DEF Base, Separados, EnEspera, EnPermiso, EnLibera, Baja
<1>8. Siguen
  BY <1>2, <1>3, <1>4, <1>5 DEF Siguen, Ubicado, EnEspera, EnPermiso, EnLibera, Baja
<1>9. Hilero'
  BY <1>3, <1>4 DEF Base, Hilero, EnPedido, Liberando
<1>10. Turno'
  <2>1. Len(<<x>>) = 1
    OBVIOUS
  <2>2. QED
    BY <1>2, <1>3, <1>4, <1>5, <2>1 DEF Base, Turno, EnPedido
<1>11. Cuentas'
  <2>1. ASSUME NEW p \in Procesos PROVE Ajeno(p)
    BY <1>2, <1>3, <1>4, <1>5 DEF Ajeno, Baja, cuentas, Base, Hilero, EnPedido, PasosWait
  <2>2. QED
    BY <2>1, CuentasAjenas DEF Base, Cuentas
<1>12. QED
  BY <1>6, <1>7, <1>8, <1>9, <1>10, <1>11 DEF Base

(* The end of a quantum and the request of an interface preserve Base.     *)
LEMMA RecibeBase ==
    ASSUME Base, RecibeQuantum \/ RecibeIO
    PROVE  Base' /\ Siguen
<1>1. PICK x \in Procesos : x = contexto.pid
  BY RecibeVista DEF RecibeQuantum, RecibeIO
<1>2. /\ Head(exec) = x /\ ToSet(exec) = {x} /\ exec' = <<>> /\ ToSet(exec') = {}
      /\ Distintos(exec') /\ cp.paso = "recibe" /\ cp.pid = Nadie
      /\ libera["cp"].pid = Nadie /\ libera["mata"].pid = Nadie /\ despacho = Nadie
      /\ aviso = "nada"
  BY <1>1, RecibeVista DEF RecibeQuantum, RecibeIO
<1>3. /\ UNCHANGED <<salida, espera, cuentas, libera, io, redirigidos, despacho, aviso, cpu, senial,
                     interrupcion, caido>>
      /\ intUsuario' = FALSE /\ contexto' = SinContexto
      /\ cp' \in EstadosCP /\ cp'.paso = "despacha" /\ cp'.pid = Nadie
  BY EsperoVista DEF RecibeQuantum, RecibeIO, Recibe, Espero, PasosCP
<1>4. \/ Sube(ready', ready, x) /\ UNCHANGED enIO
      \/ Sube(enIO', enIO, x) /\ UNCHANGED ready
  <2>1. /\ ready \in Seq(Procesos) /\ enIO \in Seq(Procesos) /\ Distintos(ready) /\ Distintos(enIO)
        /\ x \notin ToSet(ready) /\ x \notin ToSet(enIO)
    BY <1>2, Tipos DEF Base, Separados
  <2>2. Sube(Append(ready, x), ready, x) /\ Sube(Append(enIO, x), enIO, x)
    BY <2>1, AlFinal DEF Sube
  <2>3. QED
    BY <1>2, <2>2 DEF RecibeQuantum, RecibeIO
<1>5. TypeOK'
  <2>1. TiposColas' /\ TiposHilos'
    BY <1>2, <1>3, <1>4, TiposPartes DEF Base, TiposColas, TiposHilos, Sube
  <2>2. TiposMaquina'
    <3>1. SinContexto \in [pid : Procesos \cup {Nadie}, motivo : Motivos,
                           r : NombresRecurso \cup {Nadie}]
      BY DEF SinContexto, Motivos, MotivosConAviso
    <3>2. QED
      BY <1>3, <3>1, TiposPartes DEF Base, TiposMaquina
  <2>3. QED
    BY <1>3, <2>1, <2>2, TiposPartes DEF Base
<1>6. Separados'
  <2>1. CASE Sube(ready', ready, x) /\ UNCHANGED enIO
    BY <1>2, <1>3, <2>1, RecursosAssumption
       DEF Base, Separados, EnEspera, EnPermiso, EnLibera, Sube
  <2>2. CASE Sube(enIO', enIO, x) /\ UNCHANGED ready
    BY <1>2, <1>3, <2>2, RecursosAssumption
       DEF Base, Separados, EnEspera, EnPermiso, EnLibera, Sube
  <2>3. QED
    BY <1>4, <2>1, <2>2
<1>7. Siguen
  BY <1>2, <1>3, <1>4 DEF Siguen, Ubicado, EnEspera, EnPermiso, EnLibera, Sube
<1>8. Hilero'
  BY <1>2, <1>3 DEF Base, Hilero, EnPedido, Liberando
<1>9. Turno'
  <2>1. contexto'.pid = Nadie /\ Len(<<>>) = 0
    BY <1>3 DEF SinContexto
  <2>2. contexto.pid # Nadie
    BY <1>1, RecursosAssumption
  <2>3. QED
    BY <1>2, <1>3, <2>1, <2>2 DEF Base, Turno, EnPedido
<1>10. Cuentas'
  <2>1. contexto'.pid = Nadie
    BY <1>3 DEF SinContexto
  <2>2. ASSUME NEW p \in Procesos PROVE Ajeno(p)
    BY <1>2, <1>3, <1>4, <2>1, RecursosAssumption DEF Ajeno, Sube, cuentas
  <2>3. QED
    BY <2>2, CuentasAjenas DEF Base, Cuentas
<1>11. QED
  BY <1>5, <1>6, <1>7, <1>8, <1>9, <1>10 DEF Base

(* The end of a process preserves Base: the scheduler begins its release.  *)
LEMMA RecibeFinBase ==
    ASSUME Base, RecibeFin
    PROVE  Base' /\ Siguen
<1>0. \E m : Recibe(m)
  BY DEF RecibeFin
<1>1. PICK x \in Procesos : x = contexto.pid
  BY <1>0, RecibeVista
<1>2. /\ Head(exec) = x /\ ToSet(exec) = {x} /\ exec' = <<>> /\ ToSet(exec') = {}
      /\ Distintos(exec') /\ cp.paso = "recibe" /\ cp.pid = Nadie
      /\ libera["cp"].pid = Nadie /\ libera["mata"].pid = Nadie /\ despacho = Nadie
      /\ aviso = "nada"
  BY <1>0, <1>1, RecibeVista
<1>3. /\ UNCHANGED <<ready, enIO, salida, espera, cuentas, io, redirigidos, despacho, aviso, cpu,
                     senial, interrupcion, caido>>
      /\ intUsuario' = FALSE /\ contexto' = SinContexto
  BY DEF RecibeFin, Recibe
<1>4. /\ cp' \in EstadosCP /\ cp'.paso \in {"fin", "fin_invalido"} /\ cp'.pid = Nadie
      /\ cp'.paso = "fin_invalido" => cpu.paso = "pide"
  <2>1. PICK s \in {"fin", "fin_invalido"} : cp' = [Espero EXCEPT !.paso = s]
    BY DEF RecibeFin
  <2>2. s \in PasosCP
    BY DEF PasosCP
  <2>3. cp' \in EstadosCP /\ cp' = [paso |-> s, pid |-> Nadie, r |-> Nadie, leido |-> 0]
    BY <2>1, <2>2, EsperoVista
  <2>4. cp'.paso = s /\ cp'.pid = Nadie
    BY <2>3
  <2>5. ASSUME cp'.paso = "fin_invalido" PROVE cpu.paso = "pide"
    <3>1. cp' # [Espero EXCEPT !.paso = "fin"]
      <4>1. "fin" \in PasosCP
        BY DEF PasosCP
      <4>2. [Espero EXCEPT !.paso = "fin"] = [paso |-> "fin", pid |-> Nadie, r |-> Nadie,
                                              leido |-> 0]
        BY <4>1, EsperoVista
      <4>3. QED
        BY <4>2, <2>5
    <3>2. PICK m \in MotivosConAviso : Recibe(m)
      BY <3>1 DEF RecibeFin
    <3>3. contexto.motivo = m
      BY <3>2 DEF Recibe, MotivosConAviso
    <3>4. QED
      BY <1>1, <3>3, RecursosAssumption DEF Base, Turno
  <2>6. QED
    BY <2>3, <2>4, <2>5
<1>5. /\ libera' \in [Hilos -> EstadosLibera]
      /\ \A k \in Hilos \ {"cp"} : libera'[k] = libera[k]
      /\ libera'["cp"].pid = x /\ libera'["cp"].paso = "suma" /\ libera'["cp"].r = Nadie
      /\ libera'["cp"].faltan = usadas[x]
  <2>1. "cp" \in Hilos /\ EmpiezaALiberar("cp", x) /\ TypeOK
    BY <1>2 DEF RecibeFin, Hilos, Base
  <2>2. QED
    BY <2>1, EmpiezaVista
<1>6. TypeOK'
  <2>1. TiposColas' /\ TiposHilos'
    BY <1>2, <1>3, <1>4, <1>5, TiposPartes DEF Base, TiposColas, TiposHilos
  <2>2. TiposMaquina'
    <3>1. SinContexto \in [pid : Procesos \cup {Nadie}, motivo : Motivos,
                           r : NombresRecurso \cup {Nadie}]
      BY DEF SinContexto, Motivos, MotivosConAviso
    <3>2. QED
      BY <1>3, <3>1, TiposPartes DEF Base, TiposMaquina
  <2>3. QED
    BY <1>3, <2>1, <2>2, TiposPartes DEF Base
<1>7. \A p \in Procesos : EnLibera(p)' <=> EnLibera(p) \/ p = x
  <2>1. "cp" \in Hilos
    BY DEF Hilos
  <2>2. QED
    BY <1>2, <1>5, <2>1, RecursosAssumption DEF EnLibera
<1>8. Separados'
  <2>1. x \notin ToSet(ready) \cup ToSet(enIO) \cup salida /\ ~EnEspera(x) /\ ~EnLibera(x)
    BY <1>2 DEF Base, Separados
  <2>2. \A p \in Procesos : \A h, k \in Hilos : libera'[h].pid = p /\ libera'[k].pid = p => h = k
    BY <1>5, <2>1 DEF Base, Separados, EnLibera
  <2>3. \A p \in Procesos : ~EnPermiso(p)' /\ (EnEspera(p)' <=> EnEspera(p))
    BY <1>3, <1>4, RecursosAssumption DEF EnPermiso, EnEspera
  <2>4. QED
    BY <1>2, <1>3, <1>7, <2>1, <2>2, <2>3 DEF Base, Separados
<1>9. Siguen
  BY <1>2, <1>3, <1>4, <1>7, RecursosAssumption DEF Siguen, Ubicado, EnEspera, EnPermiso
<1>10. Hilero'
  <2>1. libera'["mata"].pid = Nadie /\ libera'["cp"].pid # Nadie
    BY <1>2, <1>5, RecursosAssumption DEF Hilos
  <2>2. \A h \in Hilos :
          /\ libera'[h].paso # "suma" => libera'[h].pid # Nadie /\ libera'[h].r # Nadie
          /\ libera'[h].paso = "guarda" => libera'[h].faltan[libera'[h].r] > 0
    BY <1>5 DEF Base, Hilero, Liberando
  <2>3. QED
    BY <1>4, <2>1, <2>2 DEF Hilero, EnPedido, Liberando
<1>11. Turno'
  <2>1. contexto'.pid = Nadie /\ Len(<<>>) = 0
    BY <1>3 DEF SinContexto
  <2>2. contexto.pid # Nadie
    BY <1>1, RecursosAssumption
  <2>3. QED
    BY <1>2, <1>3, <1>4, <2>1, <2>2 DEF Base, Turno, EnPedido
<1>12. Cuentas'
  <2>1. contexto'.pid = Nadie
    BY <1>3 DEF SinContexto
  <2>2. ASSUME NEW p \in Procesos \ {x} PROVE Ajeno(p)
    BY <1>2, <1>3, <1>4, <1>5, <2>1, RecursosAssumption DEF Ajeno, cuentas
  <2>3. ASSUME NEW q \in NombresRecurso PROVE CuentasDe(x, q)'
    <3>1. x \notin ToSet(ready') \cup ToSet(enIO') \cup ToSet(exec') \cup salida' /\ ~EnEspera(x)'
          /\ ~EnEspera(x) /\ \A k \in Hilos \ {"cp"} : libera'[k].pid # x
      BY <1>2, <1>3, <1>5 DEF Base, Separados, EnLibera, EnEspera
    <3>2. Activo(x) /\ Esperada(x, q) = 0
      BY <1>2, <3>1, RecursosAssumption DEF Activo, Esperada, EnEspera
    <3>3. usadas[x][q] = tiene[x][q]
      BY <3>2, Tipos DEF Base, Cuentas, CuentasDe
    <3>4. libera'["cp"].faltan[q] = tiene'[x][q]
      BY <1>3, <1>5, <3>3 DEF cuentas
    <3>5. ~Activo(x)' /\ cp'.pid # x /\ contexto'.pid # x
      BY <1>4, <2>1, <3>1, RecursosAssumption DEF Activo, EnPermiso
    <3>6. QED
      BY <3>1, <3>4, <3>5 DEF CuentasDe
  <2>4. QED
    BY <2>2, <2>3, CuentasAjenas DEF Base, Cuentas
<1>13. QED
  BY <1>6, <1>8, <1>9, <1>10, <1>11, <1>12 DEF Base

(* The reception of WAIT or SIGNAL preserves Base: the scheduler has the   *)
(* pcb.                                                                    *)
LEMMA RecibePedidoBase ==
    ASSUME Base, RecibePedido
    PROVE  Base' /\ Siguen
<1>0. PICK m \in MotivosConAviso :
        /\ Recibe(m)
        /\ cp' = [paso |-> IF m = "WAIT" THEN "wait_guarda" ELSE "signal_guarda",
                  pid |-> Head(exec), r |-> contexto.r, leido |-> instancias[contexto.r]]
  BY DEF RecibePedido
<1>1. PICK x \in Procesos, r \in NombresRecurso : x = contexto.pid /\ r = contexto.r
  BY <1>0, RecibeVista, Tipos DEF RecibePedido, Base
<1>2. /\ Head(exec) = x /\ ToSet(exec) = {x} /\ exec' = <<>> /\ ToSet(exec') = {}
      /\ Distintos(exec') /\ cp.paso = "recibe" /\ cp.pid = Nadie
      /\ libera["cp"].pid = Nadie /\ libera["mata"].pid = Nadie /\ despacho = Nadie
      /\ aviso = "nada"
  BY <1>0, <1>1, RecibeVista
<1>3. /\ UNCHANGED <<ready, enIO, salida, espera, cuentas, libera, io, redirigidos, despacho, aviso,
                     cpu, senial, interrupcion, caido>>
      /\ intUsuario' = FALSE /\ contexto' = SinContexto
  BY <1>0 DEF RecibePedido, Recibe
<1>4. contexto.motivo = m /\ cpu.paso = "pide" /\ cpu.pid = x
  <2>1. contexto.motivo = m
    BY <1>0 DEF Recibe, MotivosConAviso
  <2>2. QED
    BY <1>1, <2>1, RecursosAssumption DEF Base, Turno
<1>5. PICK s \in {"wait_guarda", "signal_guarda"}, n \in Int :
        /\ cp' = [paso |-> s, pid |-> x, r |-> r, leido |-> n]
        /\ s = "signal_guarda" => m = "SIGNAL"
  <2>1. instancias[r] \in Int
    BY Tipos DEF Base
  <2>2. QED
    BY <1>0, <1>1, <1>2, <2>1 DEF MotivosConAviso
<1>6. cp' \in EstadosCP /\ cp'.pid = x /\ cp'.r = r /\ cp'.paso = s
  <2>1. s \in PasosCP
    BY DEF PasosCP
  <2>2. QED
    BY <1>5, <2>1 DEF EstadosCP
<1>7. TypeOK'
  <2>1. TiposColas' /\ TiposHilos'
    BY <1>2, <1>3, <1>6, TiposPartes DEF Base, TiposColas, TiposHilos
  <2>2. TiposMaquina'
    <3>1. SinContexto \in [pid : Procesos \cup {Nadie}, motivo : Motivos,
                           r : NombresRecurso \cup {Nadie}]
      BY DEF SinContexto, Motivos, MotivosConAviso
    <3>2. QED
      BY <1>3, <3>1, TiposPartes DEF Base, TiposMaquina
  <2>3. QED
    BY <1>3, <2>1, <2>2, TiposPartes DEF Base
<1>8. Separados'
  BY <1>2, <1>3, <1>6, RecursosAssumption DEF Base, Separados, EnEspera, EnPermiso, EnLibera
<1>9. Siguen
  BY <1>2, <1>3, <1>6, RecursosAssumption DEF Siguen, Ubicado, EnEspera, EnPermiso, EnLibera
<1>10. Hilero'
  BY <1>2, <1>3, <1>6, RecursosAssumption DEF Base, Hilero, EnPedido, Liberando
<1>11. Turno'
  <2>1. contexto'.pid = Nadie /\ Len(<<>>) = 0
    BY <1>3 DEF SinContexto
  <2>2. contexto.pid # Nadie
    BY <1>1, RecursosAssumption
  <2>3. QED
    BY <1>2, <1>3, <1>4, <1>6, <2>1, <2>2 DEF Base, Turno, EnPedido
<1>12. Cuentas'
  <2>1. contexto'.pid = Nadie
    BY <1>3 DEF SinContexto
  <2>2. ASSUME NEW p \in Procesos \ {x} PROVE Ajeno(p)
    BY <1>2, <1>3, <1>6, <2>1, RecursosAssumption DEF Ajeno, cuentas
  <2>3. ASSUME NEW q \in NombresRecurso PROVE CuentasDe(x, q)'
    <3>1. /\ x \notin salida' /\ \A h \in Hilos : libera'[h].pid # x
          /\ Activo(x) /\ Esperada(x, q) = 0 /\ Esperada(x, q)' = 0
      BY <1>2, <1>3, <1>6, RecursosAssumption
         DEF Base, Separados, EnLibera, EnEspera, Activo, Esperada, PasosWait
    <3>2. usadas'[x][q] = tiene'[x][q] + Esperada(x, q)'
      BY <1>3, <3>1 DEF Base, Cuentas, CuentasDe, cuentas
    <3>3. s = "signal_guarda" => tiene'[x][r] > 0
      BY <1>1, <1>3, <1>4, <1>5 DEF Base, Cuentas, CuentasDe, cuentas
    <3>4. QED
      BY <1>6, <2>1, <3>1, <3>2, <3>3, RecursosAssumption DEF CuentasDe
  <2>4. QED
    BY <2>2, <2>3, CuentasAjenas DEF Base, Cuentas
<1>13. QED
  BY <1>7, <1>8, <1>9, <1>10, <1>11, <1>12 DEF Base

(* Steps that put the pcb of the caller back.                              *)
LEMMA SigueBase ==
    ASSUME Base, WaitConcede \/ SignalSigue
    PROVE  Base' /\ Siguen
<1>1. PICK x \in Procesos, r \in NombresRecurso : x = cp.pid /\ r = cp.r
  BY Tipos DEF Base, Hilero, WaitConcede, SignalSigue, EnPedido
<1>2. /\ cp.paso \in {"wait_mira", "signal_sigue"} /\ EnPedido
      /\ (cp.paso = "wait_mira" => WaitConcede)
      /\ (cp.paso # "wait_mira" => SignalSigue)
  BY DEF WaitConcede, SignalSigue, EnPedido
<1>3. UNCHANGED <<ready, salida, enIO, espera, instancias, usadas, libera, io, redirigidos,
                  intUsuario, despacho, cpu, contexto, senial, interrupcion, caido>>
  BY DEF WaitConcede, SignalSigue, cuentas
<1>4. /\ cp' \in EstadosCP /\ cp'.paso = "recibe" /\ cp'.pid = Nadie
      /\ aviso' = "MISMO_PID"
  <2>1. "recibe" \in PasosCP /\ cp' = [Espero EXCEPT !.paso = "recibe"] /\ aviso' = "MISMO_PID"
    BY DEF WaitConcede, SignalSigue, Sigue, PasosCP
  <2>2. cp' \in EstadosCP /\ cp' = [paso |-> "recibe", pid |-> Nadie, r |-> Nadie, leido |-> 0]
    BY <2>1, EsperoVista
  <2>3. QED
    BY <2>1, <2>2
<1>5. exec' = <<x>> /\ ToSet(exec) = {} /\ ToSet(exec') = {x} /\ Distintos(exec')
  <2>1. Len(exec) = 0 /\ exec \in Seq(Procesos)
    BY <1>2, Tipos DEF Base, Turno
  <2>2. exec = <<>> /\ ToSet(exec) = {}
    BY <2>1, ElementosDe
  <2>3. exec' = Append(exec, x)
    BY <1>1 DEF WaitConcede, SignalSigue, Sigue
  <2>4. QED
    BY <2>2, <2>3, SoloUno
<1>6. /\ \A p \in Procesos \ {x} : tiene'[p] = tiene[p]
      /\ \A q \in NombresRecurso \ {r} : tiene'[x][q] = tiene[x][q]
      /\ tiene'[x][r] = IF cp.paso = "wait_mira" THEN tiene[x][r] + 1 ELSE tiene[x][r]
      /\ TiposCuentas'
  <2>1. tiene \in [Procesos -> [NombresRecurso -> Nat]] /\ tiene[x] \in [NombresRecurso -> Nat]
        /\ tiene[x][r] \in Nat
    BY Tipos DEF Base
  <2>2. CASE cp.paso = "wait_mira"
    <3> DEFINE f == [tiene[x] EXCEPT ![r] = tiene[x][r] + 1]
    <3>1. tiene' = [tiene EXCEPT ![x] = f]
      BY <1>1, <1>2, <2>2 DEF WaitConcede
    <3>2. f \in [NombresRecurso -> Nat] /\ f[r] = tiene[x][r] + 1
          /\ \A q \in NombresRecurso \ {r} : f[q] = tiene[x][q]
      BY <2>1
    <3> HIDE DEF f
    <3>3. TiposCuentas'
      BY <1>3, <2>1, <3>1, <3>2, TiposPartes DEF Base, TiposCuentas
    <3>4. QED
      BY <2>1, <2>2, <3>1, <3>2, <3>3
  <2>3. CASE cp.paso # "wait_mira"
    <3>1. UNCHANGED cuentas
      BY <1>2, <2>3 DEF SignalSigue
    <3>2. QED
      BY <2>3, <3>1, TiposPartes DEF Base, cuentas
  <2>4. QED
    BY <2>2, <2>3
<1>7. TypeOK'
  <2>1. TiposColas' /\ TiposHilos'
    BY <1>3, <1>4, <1>5, TiposPartes DEF Base, TiposColas, TiposHilos
  <2>2. TiposMaquina'
    BY <1>3, <1>4, TiposPartes DEF Base, TiposMaquina
  <2>3. QED
    BY <1>6, <2>1, <2>2, TiposPartes DEF Base
<1>8. Separados'
  BY <1>1, <1>3, <1>4, <1>5, RecursosAssumption DEF Base, Separados, EnEspera, EnPermiso, EnLibera
<1>9. Siguen
  BY <1>1, <1>3, <1>4, <1>5 DEF Siguen, Ubicado, EnEspera, EnPermiso, EnLibera
<1>10. Hilero'
  BY <1>2, <1>3, <1>4 DEF Base, Hilero, EnPedido, Liberando
<1>11. Turno'
  <2>1. Len(<<x>>) = 1
    OBVIOUS
  <2>2. QED
    BY <1>1, <1>2, <1>3, <1>4, <1>5, <2>1 DEF Base, Turno, EnPedido
<1>12. Cuentas'
  <2>1. ASSUME NEW p \in Procesos \ {x} PROVE Ajeno(p)
    BY <1>1, <1>3, <1>4, <1>5, <1>6, RecursosAssumption DEF Ajeno
  <2>2. /\ x \notin salida' /\ \A h \in Hilos : libera'[h].pid # x
        /\ ~EnEspera(x) /\ Activo(x) /\ contexto'.pid = Nadie
    BY <1>1, <1>2, <1>3, RecursosAssumption
       DEF Base, Separados, EnLibera, EnPermiso, Activo, Turno, EnPedido
  <2>3. ASSUME NEW q \in NombresRecurso PROVE CuentasDe(x, q)'
    <3>1. Esperada(x, q)' = 0
      BY <1>3, <1>4, <2>2, RecursosAssumption DEF Esperada, EnEspera
    <3>2. Esperada(x, q) = IF q = r /\ cp.paso = "wait_mira" THEN 1 ELSE 0
      BY <1>1, <1>2, <2>2 DEF Esperada, EnEspera, PasosWait
    <3>3. usadas[x][q] = tiene[x][q] + Esperada(x, q) /\ tiene[x][q] \in Nat
      BY <2>2, Tipos DEF Base, Cuentas, CuentasDe
    <3>4. tiene'[x][q] = IF q = r /\ cp.paso = "wait_mira" THEN tiene[x][q] + 1 ELSE tiene[x][q]
      BY <1>6
    <3>5. usadas'[x][q] = tiene'[x][q] + Esperada(x, q)'
      BY <1>3, <3>1, <3>2, <3>3, <3>4
    <3>6. QED
      BY <1>4, <2>2, <3>5, RecursosAssumption DEF CuentasDe
  <2>4. QED
    BY <2>1, <2>3, CuentasAjenas DEF Base, Cuentas
<1>13. QED
  BY <1>7, <1>8, <1>9, <1>10, <1>11, <1>12 DEF Base

(* The push to the queue of a resource preserves Base.                     *)
LEMMA EncolaBase ==
    ASSUME Base, WaitEncola
    PROVE  Base' /\ Siguen
<1>1. PICK x \in Procesos, r \in NombresRecurso : x = cp.pid /\ r = cp.r
  BY Tipos DEF Base, Hilero, WaitEncola, EnPedido
<1>2. /\ UNCHANGED <<ready, exec, salida, enIO, cuentas, libera, io, redirigidos, intUsuario,
                     despacho, cpu, contexto, senial, interrupcion, caido>>
      /\ aviso' = "NUEVO_PID" /\ cp.paso = "wait_encola" /\ EnPedido
  BY DEF WaitEncola, EnPedido
<1>3. cp' \in EstadosCP /\ cp'.paso = "despacha" /\ cp'.pid = Nadie
  BY EsperoVista DEF WaitEncola, PasosCP
<1>4. x \notin ToSet(ready) \cup ToSet(exec) \cup ToSet(enIO) \cup salida
      /\ ~EnEspera(x) /\ ~EnLibera(x) /\ \A q \in NombresRecurso : x \notin ToSet(espera[q])
  BY <1>1 DEF Base, Separados, EnPermiso, EnEspera
<1>5. /\ espera' \in [NombresRecurso -> Seq(Procesos)] /\ Sube(espera'[r], espera[r], x)
      /\ \A q \in NombresRecurso \ {r} : espera'[q] = espera[q]
  <2>1. espera[r] \in Seq(Procesos) /\ Distintos(espera[r])
        /\ espera \in [NombresRecurso -> Seq(Procesos)]
    BY Tipos DEF Base, Separados
  <2>2. Sube(Append(espera[r], x), espera[r], x)
    BY <1>4, <2>1, AlFinal DEF Sube
  <2>3. espera' = [espera EXCEPT ![r] = Append(espera[r], x)]
    BY <1>1 DEF WaitEncola
  <2>4. Append(espera[r], x) \in Seq(Procesos)
    BY <2>2 DEF Sube
  <2>5. QED
    BY <2>1, <2>2, <2>3, <2>4
<1>6. \A q \in NombresRecurso :
        ToSet(espera'[q]) = IF q = r THEN ToSet(espera[q]) \cup {x} ELSE ToSet(espera[q])
  BY <1>5 DEF Sube
<1>7. TypeOK'
  <2>1. TiposColas' /\ TiposHilos'
    BY <1>2, <1>3, <1>5, TiposPartes DEF Base, TiposColas, TiposHilos
  <2>2. TiposMaquina'
    BY <1>2, <1>3, TiposPartes DEF Base, TiposMaquina
  <2>3. QED
    BY <1>2, <2>1, <2>2, TiposPartes DEF Base
<1>8. \A p \in Procesos : (EnEspera(p)' <=> EnEspera(p) \/ p = x) /\ ~EnPermiso(p)'
  BY <1>3, <1>6, RecursosAssumption DEF EnEspera, EnPermiso
<1>9. Separados'
  <2>1. \A q \in NombresRecurso : Distintos(espera'[q])
    BY <1>5 DEF Base, Separados, Sube
  <2>2. \A p \in Procesos : \A q, t \in NombresRecurso :
          p \in ToSet(espera'[q]) \cap ToSet(espera'[t]) => q = t
    <3>1. \A p \in Procesos \ {x} : \A q \in NombresRecurso :
            p \in ToSet(espera'[q]) => p \in ToSet(espera[q])
      BY <1>6
    <3>2. \A q \in NombresRecurso : x \in ToSet(espera'[q]) => q = r
      BY <1>4, <1>6
    <3>3. \A p \in Procesos : \A q, t \in NombresRecurso :
            p \in ToSet(espera[q]) \cap ToSet(espera[t]) => q = t
      BY DEF Base, Separados
    <3>4. QED
      BY <3>1, <3>2, <3>3
  <2>3. \A p : EnLibera(p)' <=> EnLibera(p)
    BY <1>2 DEF EnLibera
  <2>4. QED
    BY <1>2, <1>4, <1>8, <2>1, <2>2, <2>3 DEF Base, Separados
<1>10. Siguen
  BY <1>1, <1>2, <1>8 DEF Siguen, Ubicado, EnPermiso, EnLibera
<1>11. Hilero'
  BY <1>2, <1>3 DEF Base, Hilero, EnPedido, Liberando
<1>12. Turno'
  BY <1>2, <1>3 DEF Base, Turno, EnPedido
<1>13. Cuentas'
  <2>1. ASSUME NEW p \in Procesos \ {x} PROVE Ajeno(p)
    BY <1>1, <1>2, <1>3, <1>6, RecursosAssumption DEF Ajeno, cuentas
  <2>2. /\ x \notin salida' /\ \A h \in Hilos : libera'[h].pid # x
        /\ Activo(x) /\ contexto'.pid = Nadie
    BY <1>1, <1>2, <1>4 DEF Base, EnLibera, EnPermiso, Activo, Turno, EnPedido
  <2>3. ASSUME NEW q \in NombresRecurso PROVE CuentasDe(x, q)'
    <3>1. Esperada(x, q)' = Esperada(x, q)
      BY <1>1, <1>2, <1>3, <1>4, <1>6, RecursosAssumption DEF Esperada, PasosWait
    <3>2. usadas'[x][q] = tiene'[x][q] + Esperada(x, q)'
      BY <1>2, <2>2, <3>1 DEF Base, Cuentas, CuentasDe, cuentas
    <3>3. QED
      BY <1>3, <2>2, <3>2, RecursosAssumption DEF CuentasDe
  <2>4. QED
    BY <2>1, <2>3, CuentasAjenas DEF Base, Cuentas
<1>14. QED
  BY <1>7, <1>9, <1>10, <1>11, <1>12, <1>13 DEF Base

(* The pcb that the second read of the counter drops.                      *)
LEMMA PierdeBase ==
    ASSUME Base, WaitRemira, ~(instancias[cp.r] < 0)
    PROVE  Base'
<1>1. /\ UNCHANGED <<colas, cuentas, libera, io, redirigidos, intUsuario, maquina, caido>>
      /\ cp' \in EstadosCP /\ cp'.paso = "despacha" /\ cp'.pid = Nadie
      /\ cp.paso = "wait_remira" /\ EnPedido
  BY EsperoVista DEF WaitRemira, PasosCP, EnPedido
<1>2. TypeOK'
  BY <1>1, TiposPartes DEF Base, TiposHilos
<1>3. \A p \in Procesos : /\ ~EnPermiso(p)' /\ (EnLibera(p)' <=> EnLibera(p))
                          /\ (EnEspera(p)' <=> EnEspera(p))
  BY <1>1, RecursosAssumption DEF EnPermiso, EnLibera, EnEspera, colas
<1>4. Separados'
  BY <1>1, <1>3 DEF Base, Separados, colas, Distintos
<1>5. Hilero'
  BY <1>1 DEF Base, Hilero, EnPedido, Liberando
<1>6. Turno'
  BY <1>1 DEF Base, Turno, EnPedido, colas, maquina
<1>7. Cuentas'
  <2>1. ASSUME NEW p \in Procesos, p # cp.pid PROVE Ajeno(p)
    BY <1>1, <2>1, RecursosAssumption DEF Ajeno, colas, cuentas, maquina
  <2>2. ASSUME NEW p \in Procesos, p = cp.pid, NEW q \in NombresRecurso PROVE CuentasDe(p, q)'
    <3>1. /\ p \notin ToSet(ready) \cup ToSet(exec) \cup ToSet(enIO) \cup salida
          /\ ~EnEspera(p) /\ ~EnLibera(p)
      BY <2>2 DEF Base, Separados, EnPermiso
    <3>2. contexto'.pid = Nadie
      BY <1>1 DEF Base, Turno, EnPedido, maquina
    <3>3. ~Activo(p)' /\ p \notin salida' /\ \A h \in Hilos : libera'[h].pid # p
      BY <1>1, <1>3, <3>1 DEF Activo, EnLibera, colas
    <3>4. QED
      BY <1>1, <3>2, <3>3, RecursosAssumption DEF CuentasDe
  <2>3. QED
    BY <2>1, <2>2, CuentasAjenas DEF Base, Cuentas
<1>8. QED
  BY <1>2, <1>4, <1>5, <1>6, <1>7 DEF Base

(* The pop of the queue of a resource, by SIGNAL or by a release.          *)
SacaDe(r) == \/ SignalSaca /\ r = cp.r
             \/ \E h \in Hilos : LiberarSaca(h) /\ r = libera[h].r

(* The pop of SIGNAL or of a release: who moves and what stays.            *)
LEMMA SacaVista ==
    ASSUME Base, NEW r \in NombresRecurso, SacaDe(r)
    PROVE  /\ Despierta(r)
           /\ UNCHANGED <<exec, salida, enIO, instancias, usadas, io, redirigidos, intUsuario,
                          maquina>>
           /\ cp' \in EstadosCP /\ cp'.pid = cp.pid /\ cp'.r = cp.r
           /\ (cp' = cp) \/ (cp.paso = "signal_saca" /\ cp'.paso = "signal_sigue")
           /\ libera' \in [Hilos -> EstadosLibera]
           /\ \A h \in Hilos : /\ libera'[h].pid = libera[h].pid
                               /\ libera'[h].faltan = libera[h].faltan
                               /\ libera'[h].paso # libera[h].paso => libera'[h].paso = "suma"
                               /\ libera'[h].paso # "suma" => libera'[h] = libera[h]
<1>1. CASE SignalSaca /\ r = cp.r
  <2>1. /\ cp' \in EstadosCP /\ cp'.pid = cp.pid /\ cp'.r = cp.r /\ cp'.paso = "signal_sigue"
        /\ cp.paso = "signal_saca"
    BY <1>1, PedidoVisto DEF SignalSaca
  <2>2. Despierta(r) /\ libera' = libera
    BY <1>1 DEF SignalSaca
  <2>3. QED
    BY <1>1, <2>1, <2>2, Tipos DEF SignalSaca, Base
<1>2. ASSUME NEW h \in Hilos, LiberarSaca(h), r = libera[h].r
      PROVE  /\ Despierta(r)
             /\ UNCHANGED <<exec, salida, enIO, instancias, usadas, io, redirigidos, intUsuario,
                            maquina>>
             /\ cp' = cp /\ cp \in EstadosCP
             /\ libera' \in [Hilos -> EstadosLibera]
             /\ \A k \in Hilos : /\ libera'[k].pid = libera[k].pid
                                 /\ libera'[k].faltan = libera[k].faltan
                                 /\ libera'[k].paso # libera[k].paso => libera'[k].paso = "suma"
                                 /\ libera'[k].paso # "suma" => libera'[k] = libera[k]
  <2>1. Libera(h) /\ ~LiberarTermina(h)
    BY <1>2 DEF Libera, LiberarSaca, LiberarTermina
  <2>2. /\ libera' \in [Hilos -> EstadosLibera] /\ \A k \in Hilos \ {h} : libera'[k] = libera[k]
        /\ libera'[h].pid = libera[h].pid /\ libera'[h].paso = "suma"
        /\ libera'[h].faltan = libera[h].faltan
    BY <1>2, <2>1, LiberaVista
  <2>3. QED
    BY <1>2, <2>2, Tipos DEF LiberarSaca, Base
<1>3. QED
  BY <1>1, <1>2 DEF SacaDe

(* The pop that follows a unit given back preserves Base.                  *)
LEMMA SacaBase ==
    ASSUME Base, NEW r \in NombresRecurso, SacaDe(r)
    PROVE  Base' /\ Siguen
<1>1. /\ Despierta(r)
      /\ UNCHANGED <<exec, salida, enIO, instancias, usadas, io, redirigidos, intUsuario, maquina>>
      /\ cp' \in EstadosCP /\ cp'.pid = cp.pid /\ cp'.r = cp.r
      /\ (cp' = cp) \/ (cp.paso = "signal_saca" /\ cp'.paso = "signal_sigue")
      /\ libera' \in [Hilos -> EstadosLibera]
      /\ \A h \in Hilos : /\ libera'[h].pid = libera[h].pid
                          /\ libera'[h].faltan = libera[h].faltan
                          /\ libera'[h].paso # libera[h].paso => libera'[h].paso = "suma"
                          /\ libera'[h].paso # "suma" => libera'[h] = libera[h]
  BY SacaVista
<1>2. Hilero'
  <2>1. ASSUME NEW h \in Hilos
        PROVE /\ libera'[h].paso # "suma" => libera'[h].pid # Nadie /\ libera'[h].r # Nadie
              /\ libera'[h].paso = "guarda" => libera'[h].faltan[libera'[h].r] > 0
    BY <1>1 DEF Base, Hilero, Liberando
  <2>2. /\ (cp'.paso \in {"fin", "fin_invalido"} <=> cp.paso \in {"fin", "fin_invalido"})
        /\ (cp'.paso \in {"despacha", "recibe"} <=> cp.paso \in {"despacha", "recibe"})
    BY <1>1
  <2>3. QED
    BY <1>1, <2>1, <2>2 DEF Base, Hilero, EnPedido, Liberando, Hilos
<1>3. Turno'
  <2>1. /\ (EnPedido' <=> EnPedido) /\ (cp'.paso = "recibe" <=> cp.paso = "recibe")
        /\ (cp'.paso = "fin_invalido" <=> cp.paso = "fin_invalido")
    BY <1>1 DEF EnPedido
  <2>2. UNCHANGED <<exec, despacho, contexto, aviso, cpu>>
    BY <1>1 DEF maquina
  <2>3. QED
    BY <1>1, <2>1, <2>2 DEF Base, Turno
<1>4. CASE espera[r] = <<>>
  <2>1. UNCHANGED <<ready, espera, tiene>> /\ caido' = TRUE
    BY <1>1, <1>4 DEF Despierta
  <2>2. SinMover /\ UNCHANGED cuentas
    BY <1>1, <2>1 DEF SinMover, colas, cuentas
  <2>3. TypeOK'
    <3>1. TiposColas' /\ TiposCuentas' /\ TiposHilos'
      BY <1>1, <2>2, TiposPartes DEF Base, TiposHilos, SinMover
    <3>2. TiposMaquina'
      BY <1>1, <2>1, TiposPartes DEF Base, TiposMaquina, maquina
    <3>3. QED
      BY <3>1, <3>2, TiposPartes
  <2>4. Cuentas'
    <3>1. ASSUME NEW p \in Procesos PROVE Ajeno(p)
      BY <1>1, <2>1 DEF Ajeno, PasosWait, maquina
    <3>2. QED
      BY <3>1, CuentasAjenas DEF Base, Cuentas
  <2>5. QED
    BY <1>2, <1>3, <2>2, <2>3, <2>4, SinMoverSeparados DEF Base, Siguen
<1>5. CASE espera[r] # <<>>
  <2>0. PICK x : x = Head(espera[r])
    OBVIOUS
  <2>1. /\ x \in Procesos /\ Sube(ready', ready, x) /\ Baja(espera'[r], espera[r], x)
        /\ espera' \in [NombresRecurso -> Seq(Procesos)]
        /\ \A q \in NombresRecurso \ {r} : espera'[q] = espera[q]
        /\ tiene' = [tiene EXCEPT ![x] = [tiene[x] EXCEPT ![r] = tiene[x][r] + 1]]
        /\ caido' = caido
    BY <1>1, <1>5, <2>0, DespiertaMueve
  <2>2. \A q \in NombresRecurso :
          ToSet(espera'[q]) = IF q = r THEN ToSet(espera[q]) \ {x} ELSE ToSet(espera[q])
    BY <2>1 DEF Baja
  <2>3. /\ \A q \in NombresRecurso : x \in ToSet(espera[q]) <=> q = r
        /\ EnEspera(x)
    BY <2>1 DEF Base, Separados, Baja, EnEspera
  <2>4. \A p \in Procesos : EnEspera(p)' <=> EnEspera(p) /\ p # x
    BY <2>2, <2>3 DEF EnEspera
  <2>5. /\ x \notin ToSet(ready) \cup ToSet(exec) \cup ToSet(enIO) \cup salida
        /\ ~EnPermiso(x) /\ ~EnLibera(x)
    BY <2>1, <2>3 DEF Base, Separados
  <2>6. \A p \in Procesos : (EnPermiso(p)' <=> EnPermiso(p)) /\ (EnLibera(p)' <=> EnLibera(p))
    BY <1>1 DEF EnPermiso, EnLibera
  <2>7. Separados'
    <3>1. \A q \in NombresRecurso : Distintos(espera'[q])
      BY <2>1 DEF Base, Separados, Baja
    <3>2. \A p \in Procesos : \A q, t \in NombresRecurso :
            p \in ToSet(espera'[q]) \cap ToSet(espera'[t]) => q = t
      BY <2>2 DEF Base, Separados
    <3>3. \A p \in Procesos : \A h, k \in Hilos : libera'[h].pid = p /\ libera'[k].pid = p => h = k
      BY <1>1 DEF Base, Separados
    <3>4. QED
      BY <1>1, <2>1, <2>4, <2>5, <2>6, <3>1, <3>2, <3>3 DEF Base, Separados, Sube, Distintos
  <2>8. Siguen
    BY <1>1, <2>1, <2>4, <2>6 DEF Siguen, Ubicado, Sube
  <2>9. /\ \A p \in Procesos \ {x} : tiene'[p] = tiene[p]
        /\ \A q \in NombresRecurso : tiene'[x][q] = IF q = r THEN tiene[x][q] + 1 ELSE tiene[x][q]
        /\ tiene' \in [Procesos -> [NombresRecurso -> Nat]]
    <3>1. tiene \in [Procesos -> [NombresRecurso -> Nat]] /\ tiene[x] \in [NombresRecurso -> Nat]
          /\ tiene[x][r] \in Nat
      BY <2>1, Tipos DEF Base
    <3> DEFINE f == [tiene[x] EXCEPT ![r] = tiene[x][r] + 1]
    <3>2. f \in [NombresRecurso -> Nat]
          /\ \A q \in NombresRecurso : f[q] = IF q = r THEN tiene[x][q] + 1 ELSE tiene[x][q]
      BY <3>1
    <3>3. tiene' = [tiene EXCEPT ![x] = f]
      BY <2>1
    <3> HIDE DEF f
    <3>4. QED
      BY <2>1, <3>1, <3>2, <3>3
  <2>10. TypeOK'
    <3>1. TiposColas' /\ TiposCuentas' /\ TiposHilos'
      BY <1>1, <2>1, <2>9, TiposPartes DEF Base, TiposColas, TiposCuentas, TiposHilos, Sube
    <3>2. TiposMaquina'
      BY <1>1, <2>1, TiposPartes DEF Base
    <3>3. QED
      BY <3>1, <3>2, TiposPartes
  <2>11. Cuentas'
    <3>1. ASSUME NEW p \in Procesos \ {x} PROVE Ajeno(p)
      BY <1>1, <2>1, <2>2, <2>9 DEF Ajeno, PasosWait, Sube, maquina
    <3>2. /\ x \notin salida' /\ \A h \in Hilos : libera'[h].pid # x
          /\ cp.pid # x /\ cp'.pid # x /\ Activo(x) /\ contexto'.pid # x
      <4>1. CASE contexto.pid = x
        <5>1. exec = <<x>>
          BY <2>1, <4>1, RecursosAssumption DEF Base, Turno
        <5>2. QED
          BY <2>5, <5>1, SoloUno
      <4>2. CASE contexto.pid # x
        BY <1>1, <2>3, <2>5, <4>2 DEF EnPermiso, EnLibera, Activo, maquina
      <4>3. QED
        BY <4>1, <4>2
    <3>3. ASSUME NEW q \in NombresRecurso PROVE CuentasDe(x, q)'
      <4>1. Esperada(x, q) = (IF q = r THEN 1 ELSE 0) /\ Esperada(x, q)' = 0
        BY <2>2, <2>3, <3>2 DEF Esperada
      <4>2. usadas[x][q] = tiene[x][q] + Esperada(x, q) /\ tiene[x][q] \in Nat
        BY <2>1, <3>2, Tipos DEF Base, Cuentas, CuentasDe
      <4>3. usadas'[x][q] = tiene'[x][q] + Esperada(x, q)'
        BY <1>1, <2>9, <4>1, <4>2
      <4>4. QED
        BY <3>2, <4>3 DEF CuentasDe
    <3>4. QED
      BY <3>1, <3>3, CuentasAjenas DEF Base, Cuentas
  <2>12. QED
    BY <1>2, <1>3, <2>7, <2>8, <2>10, <2>11 DEF Base
<1>6. QED
  BY <1>4, <1>5

(* Steps that hand a pcb to liberar_recursos: it leaves a queue.           *)
SaleDe(x) ==
    \/ Baja(ready', ready, x) /\ UNCHANGED <<enIO, espera>>
    \/ Baja(enIO', enIO, x) /\ UNCHANGED <<ready, espera>>
    \/ \E r \in NombresRecurso :
         /\ Baja(espera'[r], espera[r], x) /\ UNCHANGED <<ready, enIO>>
         /\ espera' \in [NombresRecurso -> Seq(Procesos)]
         /\ \A q \in NombresRecurso \ {r} : espera'[q] = espera[q]

SoloSale(x) ==
    /\ \A p \in Procesos \ {x} :
         /\ p \in ToSet(ready') <=> p \in ToSet(ready)
         /\ p \in ToSet(enIO') <=> p \in ToSet(enIO)
         /\ \A q \in NombresRecurso : p \in ToSet(espera'[q]) <=> p \in ToSet(espera[q])
    /\ x \notin ToSet(ready') \cup ToSet(enIO')
    /\ \A q \in NombresRecurso : x \notin ToSet(espera'[q])
    /\ Distintos(ready') /\ Distintos(enIO') /\ \A q \in NombresRecurso : Distintos(espera'[q])
    /\ ready' \in Seq(Procesos) /\ enIO' \in Seq(Procesos)
    /\ espera' \in [NombresRecurso -> Seq(Procesos)]

(* The pcb that a kill or an interface takes out of its queue was only     *)
(* there.                                                                  *)
LEMMA SaleVista ==
    ASSUME Base, NEW x \in Procesos, SaleDe(x)
    PROVE  /\ SoloSale(x)
           /\ x \notin ToSet(exec) \cup salida /\ ~EnPermiso(x) /\ ~EnLibera(x) /\ Activo(x)
<1>1. CASE Baja(ready', ready, x) /\ UNCHANGED <<enIO, espera>>
  BY <1>1, Tipos DEF Base, Separados, Baja, Distintos, SoloSale, EnEspera, Activo
<1>2. CASE Baja(enIO', enIO, x) /\ UNCHANGED <<ready, espera>>
  BY <1>2, Tipos DEF Base, Separados, Baja, Distintos, SoloSale, EnEspera, Activo
<1>3. ASSUME NEW r \in NombresRecurso,
             Baja(espera'[r], espera[r], x), UNCHANGED <<ready, enIO>>,
             espera' \in [NombresRecurso -> Seq(Procesos)],
             \A q \in NombresRecurso \ {r} : espera'[q] = espera[q]
      PROVE  /\ SoloSale(x)
             /\ x \notin ToSet(exec) \cup salida /\ ~EnPermiso(x) /\ ~EnLibera(x) /\ Activo(x)
  <2>1. EnEspera(x) /\ \A q \in NombresRecurso : x \in ToSet(espera[q]) <=> q = r
    BY <1>3 DEF Base, Separados, Baja, EnEspera
  <2>2. \A q \in NombresRecurso : /\ ToSet(espera'[q]) = ToSet(espera[q]) \ {x}
                                  /\ Distintos(espera'[q])
    BY <1>3, <2>1 DEF Base, Separados, Baja
  <2>3. SoloSale(x)
    <3>1. x \notin ToSet(ready) \cup ToSet(enIO) /\ Distintos(ready) /\ Distintos(enIO)
      BY <2>1 DEF Base, Separados
    <3>2. /\ Distintos(ready') /\ Distintos(enIO') /\ ready' \in Seq(Procesos)
          /\ enIO' \in Seq(Procesos)
      BY <1>3, <3>1, Tipos DEF Base
    <3>3. QED
      BY <1>3, <2>2, <3>1, <3>2 DEF SoloSale
  <2>4. QED
    BY <2>1, <2>3 DEF Base, Separados, Activo
<1>4. QED
  BY <1>1, <1>2, <1>3 DEF SaleDe

(* A pcb that leaves its queue for a release preserves Base.               *)
LEMMA EntregaBase ==
    ASSUME Base, NEW h \in {"io", "mata"}, Libre(h), NEW x \in Procesos, EmpiezaALiberar(h, x),
           h = "mata" => cp.paso \in {"despacha", "recibe"}, TiposMaquina', SaleDe(x),
           UNCHANGED <<exec, salida, cuentas, cp, despacho, aviso, cpu, contexto>>
    PROVE  Base' /\ Siguen
<1>1. /\ libera' \in [Hilos -> EstadosLibera]
      /\ \A k \in Hilos \ {h} : libera'[k] = libera[k]
      /\ libera'[h].pid = x /\ libera'[h].paso = "suma" /\ libera'[h].r = Nadie
      /\ libera'[h].faltan = usadas[x] /\ h \in Hilos
  <2>1. h \in Hilos /\ TypeOK
    BY DEF Hilos, Base
  <2>2. QED
    BY <2>1, EmpiezaVista
<1>2. /\ SoloSale(x)
      /\ x \notin ToSet(exec) \cup salida /\ ~EnPermiso(x) /\ ~EnLibera(x) /\ Activo(x)
  BY SaleVista
<1>3. TypeOK'
  <2>1. TiposColas' /\ TiposHilos'
    BY <1>1, <1>2, TiposPartes DEF Base, TiposColas, TiposHilos, SoloSale
  <2>2. QED
    BY <2>1, TiposPartes DEF Base
<1>4. /\ \A p \in Procesos : EnLibera(p)' <=> EnLibera(p) \/ p = x
      /\ \A p \in Procesos : /\ (EnEspera(p)' <=> (EnEspera(p) /\ p # x))
                            /\ (EnPermiso(p)' <=> EnPermiso(p))
  <2>1. \A p \in Procesos : EnLibera(p)' <=> EnLibera(p) \/ p = x
    BY <1>1, RecursosAssumption DEF EnLibera, Libre, Liberando
  <2>2. \A p \in Procesos : EnEspera(p)' <=> EnEspera(p) /\ p # x
    BY <1>2 DEF EnEspera, SoloSale
  <2>3. QED
    BY <2>1, <2>2 DEF EnPermiso
<1>5. Separados'
  <2>1. \A p \in Procesos : \A k, j \in Hilos : libera'[k].pid = p /\ libera'[j].pid = p => k = j
    <3>1. \A k \in Hilos \ {h} : libera'[k].pid = libera[k].pid /\ libera[k].pid # x
      BY <1>1, <1>2 DEF EnLibera
    <3>2. \A p \in Procesos : \A k, j \in Hilos : libera[k].pid = p /\ libera[j].pid = p => k = j
      BY DEF Base, Separados
    <3>3. QED
      BY <1>1, <3>1, <3>2
  <2>2. \A p \in Procesos : \A q, t \in NombresRecurso :
          p \in ToSet(espera'[q]) \cap ToSet(espera'[t]) => q = t
    BY <1>2 DEF Base, Separados, SoloSale
  <2>3. /\ Distintos(ready') /\ Distintos(exec') /\ Distintos(enIO')
        /\ \A q \in NombresRecurso : Distintos(espera'[q])
    BY <1>2 DEF Base, Separados, SoloSale, Distintos
  <2>4. ASSUME NEW p \in Procesos
        PROVE  /\ p \in ToSet(ready') => p \in ToSet(ready) /\ p # x
               /\ p \in ToSet(enIO') => p \in ToSet(enIO) /\ p # x
    BY <1>2 DEF SoloSale
  <2>5. QED
    BY <1>2, <1>4, <2>1, <2>2, <2>3, <2>4 DEF Base, Separados
<1>6. Siguen
  BY <1>2, <1>4 DEF Siguen, Ubicado, SoloSale
<1>7. Hilero'
  <2>1. libera'["cp"] = libera["cp"] /\ (h # "mata" => libera'["mata"] = libera["mata"])
    BY <1>1 DEF Hilos
  <2>2. \A k \in Hilos :
          /\ libera'[k].paso # "suma" => libera'[k].pid # Nadie /\ libera'[k].r # Nadie
          /\ libera'[k].paso = "guarda" => libera'[k].faltan[libera'[k].r] > 0
    BY <1>1 DEF Base, Hilero, Liberando
  <2>3. QED
    BY <2>1, <2>2 DEF Base, Hilero, EnPedido, Liberando
<1>8. Turno'
  BY TurnoQuieto DEF Base
<1>9. Cuentas'
  <2>1. ASSUME NEW p \in Procesos \ {x} PROVE Ajeno(p)
    BY <1>1, <1>2 DEF Ajeno, SoloSale, cuentas
  <2>2. contexto.pid # x
    <3>1. CASE contexto.pid = x
      <4>1. exec = <<x>>
        BY <3>1, RecursosAssumption DEF Base, Turno
      <4>2. QED
        BY <1>2, <4>1, SoloUno
    <3>2. QED
      BY <3>1
  <2>3. ASSUME NEW q \in NombresRecurso PROVE CuentasDe(x, q)'
    <3>1. usadas[x][q] \in {tiene[x][q], tiene[x][q] + 1}
      <4>1. usadas[x][q] = tiene[x][q] + Esperada(x, q) /\ Esperada(x, q) \in {0, 1}
        BY <1>2 DEF Base, Cuentas, CuentasDe, Esperada
      <4>2. tiene[x][q] \in Nat
        BY Tipos DEF Base
      <4>3. QED
        BY <4>1, <4>2
    <3>2. libera'[h].faltan[q] \in {tiene'[x][q], tiene'[x][q] + 1}
      BY <1>1, <3>1 DEF cuentas
    <3>3. ~Activo(x)' /\ cp'.pid # x /\ x \notin salida' /\ contexto'.pid # x
          /\ \A k \in Hilos : libera'[k].pid = x => k = h
      BY <1>1, <1>2, <2>2 DEF Activo, EnPermiso, EnEspera, EnLibera, SoloSale
    <3>4. QED
      BY <3>2, <3>3 DEF CuentasDe
  <2>4. QED
    BY <2>1, <2>3, CuentasAjenas DEF Base, Cuentas
<1>10. QED
  BY <1>3, <1>5, <1>6, <1>7, <1>8, <1>9 DEF Base

(* The sockets and flags keep their types.                                 *)
LEMMA MaquinaQuieta ==
    ASSUME TypeOK, UNCHANGED <<despacho, aviso, cpu, contexto, interrupcion, caido, io>>,
           redirigidos' = redirigidos, intUsuario' = intUsuario, senial' = senial
    PROVE  TiposMaquina'
BY TiposPartes DEF TiposMaquina

(* A kill, and an interface that completes a request of a killed process   *)
(* or drains its queue, preserve Base.                                     *)
LEMMA PoneALiberar ==
    ASSUME Base,
           \/ IODrena \/ (IOCompleta /\ Head(enIO) \in redirigidos)
           \/ \E p \in Procesos : \/ MataEnReady(p) \/ (MataEnIO(p) /\ Head(enIO) # p)
                                  \/ \E r \in NombresRecurso : MataEnEspera(p, r)
    PROVE  Base' /\ Siguen
<1>1. TypeOK
  BY DEF Base
<1>2. CASE IODrena \/ (IOCompleta /\ Head(enIO) \in redirigidos)
  <2>1. enIO \in Seq(Procesos) /\ enIO # <<>> /\ Distintos(enIO)
    BY <1>2, Tipos DEF Base, Separados, IODrena, IOCompleta
  <2>2. PICK x \in Procesos : x = Head(enIO)
    BY <2>1, SinElPrimero
  <2>3. /\ Baja(enIO', enIO, x) /\ UNCHANGED <<ready, espera>>
    <3>1. enIO' = Tail(enIO) /\ UNCHANGED <<ready, espera>>
      BY <1>2 DEF IODrena, IOCompleta
    <3>2. QED
      BY <2>1, <2>2, <3>1, SinElPrimero DEF Baja
  <2>4. EmpiezaALiberar("io", x) /\ Libre("io")
    BY <1>2, <2>2 DEF IODrena, IOCompleta
  <2>5. /\ UNCHANGED <<exec, salida, cuentas, cp, despacho, aviso, cpu, contexto, interrupcion,
                       caido, io>>
        /\ redirigidos' = redirigidos /\ intUsuario' = intUsuario /\ senial' = senial
    BY <1>2 DEF IODrena, IOCompleta, maquina
  <2>6. TiposMaquina' /\ SaleDe(x)
    BY <1>1, <2>3, <2>5, MaquinaQuieta DEF SaleDe
  <2>7. "io" \in {"io", "mata"} /\ ("io" = "mata" => cp.paso \in {"despacha", "recibe"})
    OBVIOUS
  <2>8. UNCHANGED <<exec, salida, cuentas, cp, despacho, aviso, cpu, contexto>>
    BY <2>5
  <2>9. QED
    BY <2>4, <2>6, <2>7, <2>8, EntregaBase
<1>3. ASSUME NEW p \in Procesos,
             \/ MataEnReady(p) \/ (MataEnIO(p) /\ Head(enIO) # p)
             \/ \E r \in NombresRecurso : MataEnEspera(p, r)
      PROVE  Base' /\ Siguen
  <2>1. /\ UNCHANGED <<exec, salida, cuentas, cp, despacho, aviso, cpu, contexto, interrupcion,
                       caido, io>>
        /\ redirigidos' = redirigidos /\ intUsuario' = intUsuario /\ senial' = senial
        /\ EmpiezaALiberar("mata", p) /\ Libre("mata") /\ cp.paso \in {"despacha", "recibe"}
    BY <1>3 DEF MataEnReady, MataEnIO, MataEnEspera, Mata, Planificando, EnSeccionExec
  <2>2. TiposMaquina'
    BY <1>1, <2>1, MaquinaQuieta
  <2>3. SaleDe(p)
    <3>1. CASE MataEnReady(p)
      <4>1. ready \in Seq(Procesos) /\ Contains(ready, p) /\ Distintos(ready)
            /\ ready' = Sin(ready, p) /\ UNCHANGED <<enIO, espera>>
        BY <3>1, Tipos DEF Base, Separados, MataEnReady
      <4>2. Baja(ready', ready, p)
        BY <4>1, SinUno DEF Baja
      <4>3. QED
        BY <4>1, <4>2 DEF SaleDe
    <3>2. CASE MataEnIO(p) /\ Head(enIO) # p
      <4>1. enIO \in Seq(Procesos) /\ Contains(enIO, p) /\ Distintos(enIO)
            /\ enIO' = Sin(enIO, p) /\ UNCHANGED <<ready, espera>>
        BY <3>2, Tipos DEF Base, Separados, MataEnIO
      <4>2. Baja(enIO', enIO, p)
        BY <4>1, SinUno DEF Baja
      <4>3. QED
        BY <4>1, <4>2 DEF SaleDe
    <3>3. ASSUME NEW r \in NombresRecurso, MataEnEspera(p, r)
          PROVE  SaleDe(p)
      <4>1. espera[r] \in Seq(Procesos) /\ Contains(espera[r], p) /\ Distintos(espera[r])
            /\ espera' = [espera EXCEPT ![r] = Sin(espera[r], p)] /\ UNCHANGED <<ready, enIO>>
            /\ espera \in [NombresRecurso -> Seq(Procesos)]
        BY <3>3, Tipos DEF Base, Separados, MataEnEspera
      <4>2. Baja(Sin(espera[r], p), espera[r], p)
        BY <4>1, SinUno DEF Baja
      <4>3. Sin(espera[r], p) \in Seq(Procesos)
        BY <4>2 DEF Baja
      <4>4. /\ Baja(espera'[r], espera[r], p) /\ espera' \in [NombresRecurso -> Seq(Procesos)]
            /\ \A q \in NombresRecurso \ {r} : espera'[q] = espera[q]
        BY <4>1, <4>2, <4>3
      <4>5. QED
        BY <4>1, <4>4 DEF SaleDe
    <3>4. QED
      BY <1>3, <3>1, <3>2, <3>3
  <2>4. "mata" \in {"io", "mata"} /\ ("mata" = "mata" => cp.paso \in {"despacha", "recibe"})
    BY <2>1
  <2>5. UNCHANGED <<exec, salida, cuentas, cp, despacho, aviso, cpu, contexto>>
    BY <2>1
  <2>6. QED
    BY <2>1, <2>2, <2>3, <2>4, <2>5, EntregaBase
<1>4. QED
  BY <1>2, <1>3

(* The interface completes a request that nobody killed.                   *)
LEMMA CompletaBase ==
    ASSUME Base, IOCompleta, Head(enIO) \notin redirigidos
    PROVE  Base' /\ Siguen
<1>1. /\ enIO \in Seq(Procesos) /\ enIO # <<>> /\ Distintos(enIO) /\ ready \in Seq(Procesos)
      /\ Distintos(ready)
  BY Tipos DEF Base, Separados, IOCompleta
<1>2. PICK x \in Procesos : x = Head(enIO) /\ x \in ToSet(enIO)
  BY <1>1, SinElPrimero
<1>3. Baja(enIO', enIO, x)
  <2>1. enIO' = Tail(enIO)
    BY DEF IOCompleta
  <2>2. QED
    BY <1>1, <1>2, <2>1, SinElPrimero DEF Baja
<1>4. Sube(ready', ready, x)
  <2>1. x \notin ToSet(ready) /\ ready' = Append(ready, x)
    BY <1>2 DEF Base, Separados, IOCompleta
  <2>2. QED
    BY <1>1, <2>1, AlFinal DEF Sube
<1>5. UNCHANGED <<exec, salida, espera, cuentas, libera, cp, io, redirigidos, intUsuario, maquina,
                  caido>>
  BY DEF IOCompleta
<1>6. TypeOK'
  BY <1>3, <1>4, <1>5, TiposPartes DEF Base, TiposColas, TiposHilos, Sube, Baja
<1>7. Separados'
  BY <1>2, <1>3, <1>4, <1>5 DEF Base, Separados, EnEspera, EnPermiso, EnLibera, Sube, Baja,
     Distintos
<1>8. Siguen
  BY <1>3, <1>4, <1>5 DEF Siguen, Ubicado, EnEspera, EnPermiso, EnLibera, Sube, Baja
<1>9. Hilero' /\ Turno'
  BY <1>5, TurnoQuieto DEF Base, Hilero, EnPedido, Liberando, maquina
<1>10. Cuentas'
  <2>1. ASSUME NEW p \in Procesos PROVE Ajeno(p)
    BY <1>3, <1>4, <1>5 DEF Ajeno, Sube, Baja, cuentas, maquina
  <2>2. QED
    BY <2>1, CuentasAjenas DEF Base, Cuentas
<1>11. QED
  BY <1>6, <1>7, <1>8, <1>9, <1>10 DEF Base

(* The end of a release preserves Base: the pcb joins EXIT.                *)
LEMMA TerminaBase ==
    ASSUME Base, NEW h \in Hilos, LiberarTermina(h)
    PROVE  Base' /\ Siguen
<1>1. PICK x \in Procesos : x = libera[h].pid
  BY Tipos DEF Base, LiberarTermina, Liberando
<1>2. /\ UNCHANGED <<ready, exec, enIO, espera, cuentas, io, redirigidos, intUsuario,
                     despacho, cpu, contexto, senial, interrupcion, caido>>
      /\ salida' = salida \cup {x}
  BY <1>1 DEF LiberarTermina
<1>3. /\ libera' \in [Hilos -> EstadosLibera] /\ libera'[h].pid = Nadie /\ libera'[h].paso = "suma"
      /\ \A k \in Hilos \ {h} : libera'[k] = libera[k]
  <2>1. Quieto \in EstadosLibera /\ Quieto.pid = Nadie /\ Quieto.paso = "suma"
    BY DEF Quieto, EstadosLibera, PasosLibera
  <2>2. libera' = [libera EXCEPT ![h] = Quieto] /\ libera \in [Hilos -> EstadosLibera]
    BY Tipos DEF Base, LiberarTermina
  <2>3. QED
    BY <2>1, <2>2
<1>4. /\ cp' \in EstadosCP /\ cp'.pid = cp.pid
      /\ h = "cp" => /\ cp'.paso = "despacha" /\ cp.paso \in {"fin", "fin_invalido"}
                     /\ aviso' = IF cp.paso = "fin_invalido" THEN "NUEVO_PID" ELSE aviso
      /\ h # "cp" => UNCHANGED <<cp, aviso>>
  <2>1. CASE h = "cp"
    <3>1. Liberando("cp") /\ cp.paso \in {"fin", "fin_invalido"}
      BY <2>1 DEF Base, Hilero, LiberarTermina
    <3>2. cp' = Espero /\ aviso' = IF cp.paso = "fin_invalido" THEN "NUEVO_PID" ELSE aviso
      BY <2>1 DEF LiberarTermina
    <3>3. cp.pid = Nadie
      BY <3>1 DEF Base, Hilero, EnPedido
    <3>4. QED
      BY <2>1, <3>1, <3>2, <3>3, EsperoVista DEF PasosCP
  <2>2. CASE h # "cp"
    BY <2>2, Tipos DEF LiberarTermina, Base
  <2>3. QED
    BY <2>1, <2>2
<1>5. TypeOK'
  <2>1. TiposColas' /\ TiposHilos'
    BY <1>2, <1>3, <1>4, TiposPartes DEF Base, TiposColas, TiposHilos
  <2>2. aviso' \in {"nada", "MISMO_PID", "NUEVO_PID"}
    BY <1>4, TiposPartes DEF Base, TiposMaquina
  <2>3. TiposMaquina'
    BY <1>2, <2>2, TiposPartes DEF Base, TiposMaquina
  <2>4. QED
    BY <1>2, <2>1, <2>3, TiposPartes DEF Base
<1>6. /\ \A p \in Procesos : EnLibera(p)' <=> EnLibera(p) /\ p # x
      /\ \A p : (EnPermiso(p)' <=> EnPermiso(p)) /\ (EnEspera(p)' <=> EnEspera(p))
  <2>1. \A k \in Hilos \ {h} : libera[k].pid # x
    BY <1>1 DEF Base, Separados
  <2>2. \A p \in Procesos : EnLibera(p)' <=> EnLibera(p) /\ p # x
    BY <1>1, <1>3, <2>1, RecursosAssumption DEF EnLibera
  <2>3. QED
    BY <1>2, <1>4, <2>2 DEF EnPermiso, EnEspera
<1>7. /\ x \notin ToSet(ready) \cup ToSet(exec) \cup ToSet(enIO) \cup salida
      /\ ~EnEspera(x) /\ ~EnPermiso(x) /\ EnLibera(x)
  <2>1. EnLibera(x)
    BY <1>1 DEF EnLibera
  <2>2. QED
    BY <2>1 DEF Base, Separados
<1>8. Separados'
  <2>1. \A p \in Procesos : \A k, j \in Hilos : libera'[k].pid = p /\ libera'[j].pid = p => k = j
    BY <1>3, RecursosAssumption DEF Base, Separados
  <2>2. QED
    BY <1>2, <1>6, <1>7, <2>1 DEF Base, Separados, Distintos
<1>9. Siguen
  BY <1>2, <1>6 DEF Siguen, Ubicado
<1>10. Hilero'
  <2>1. \A k \in Hilos :
          /\ libera'[k].paso # "suma" => libera'[k].pid # Nadie /\ libera'[k].r # Nadie
          /\ libera'[k].paso = "guarda" => libera'[k].faltan[libera'[k].r] > 0
          /\ libera'[k].pid # Nadie => libera[k].pid # Nadie /\ k # h
          /\ k # h => libera'[k] = libera[k]
    BY <1>3 DEF Base, Hilero, Liberando
  <2>2. CASE h = "cp"
    <3>1. libera'["cp"].pid = Nadie /\ libera'["mata"] = libera["mata"] /\ cp'.pid = Nadie
          /\ cp'.paso = "despacha"
      BY <1>3, <1>4, <2>2 DEF Hilos, Base, Hilero, EnPedido
    <3>2. QED
      BY <2>1, <3>1 DEF Hilero, EnPedido, Liberando
  <2>3. CASE h # "cp"
    <3>1. libera'["cp"] = libera["cp"] /\ cp' = cp
      BY <1>3, <1>4, <2>3 DEF Hilos
    <3>2. QED
      BY <2>1, <3>1 DEF Base, Hilero, EnPedido, Liberando, Hilos
  <2>4. QED
    BY <2>2, <2>3
<1>11. Turno'
  <2>1. CASE h = "cp"
    BY <1>2, <1>4, <2>1 DEF Base, Turno, EnPedido
  <2>2. CASE h # "cp"
    BY <1>2, <1>4, <2>2, TurnoQuieto DEF Base
  <2>3. QED
    BY <2>1, <2>2
<1>12. Cuentas'
  <2>1. ASSUME NEW p \in Procesos \ {x} PROVE Ajeno(p)
    <3>1. cp.pid = p => cp' = cp
      BY <1>4, RecursosAssumption DEF Base, Hilero, EnPedido
    <3>2. \A k \in Hilos : libera'[k].pid = p => libera[k] = libera'[k]
      BY <1>3, RecursosAssumption
    <3>3. QED
      BY <1>2, <1>4, <3>1, <3>2 DEF Ajeno, cuentas
  <2>2. ASSUME NEW q \in NombresRecurso PROVE CuentasDe(x, q)'
    <3>1. tiene[x][q] = 0
      <4>1. libera[h].faltan[q] \in {tiene[x][q], tiene[x][q] + 1} /\ tiene[x][q] \in Nat
        BY <1>1, Tipos DEF Base, Cuentas, CuentasDe
      <4>2. libera[h].faltan[q] = 0
        BY DEF LiberarTermina
      <4>3. QED
        BY <4>1, <4>2
    <3>2. contexto.pid # x
      <4>1. CASE contexto.pid = x
        <5>1. exec = <<x>>
          BY <4>1, RecursosAssumption DEF Base, Turno
        <5>2. QED
          BY <1>7, <5>1, SoloUno
      <4>2. QED
        BY <4>1
    <3>3. ~Activo(x)' /\ cp'.pid # x /\ \A k \in Hilos : libera'[k].pid # x
      BY <1>2, <1>4, <1>6, <1>7 DEF Activo, EnPermiso, EnLibera
    <3>4. QED
      BY <1>2, <3>1, <3>2, <3>3 DEF CuentasDe, cuentas
  <2>3. QED
    BY <2>1, <2>2, CuentasAjenas DEF Base, Cuentas
<1>13. QED
  BY <1>5, <1>8, <1>9, <1>10, <1>11, <1>12 DEF Base

-----------------------------------------------------------------------------
(* No step loses the pcb, but for the second read of WAIT.                 *)
LEMMA BasePaso ==
    ASSUME Base, Next
    PROVE  Base' /\ (Siguen \/ (WaitRemira /\ ~(instancias[cp.r] < 0)))
<1> DEFINE G == Base' /\ (Siguen \/ (WaitRemira /\ ~(instancias[cp.r] < 0)))
<1>0. ASSUME Base', SinMover PROVE Base' /\ Siguen
  BY <1>0, SinMoverSeparados DEF Base, Siguen
<1>1. CASE Despacha \/ RecibeQuantum \/ RecibeIO \/ RecibeFin \/ RecibePedido
  BY <1>1, DespachaBase, RecibeBase, RecibeFinBase, RecibePedidoBase
<1>2. CASE PedidoQuieto
  BY <1>0, <1>2, PedidoQuietoBase
<1>3. CASE WaitRemira /\ ~(instancias[cp.r] < 0)
  BY <1>3, PierdeBase
<1>4. CASE WaitConcede \/ SignalSigue \/ WaitEncola
  BY <1>4, SigueBase, EncolaBase
<1>5. CASE SignalSaca
  <2>1. PICK r \in NombresRecurso : SacaDe(r)
    BY <1>5, PedidoVisto DEF SacaDe
  <2>2. QED
    BY <2>1, SacaBase
<1>6. CASE CPU \/ InterruptLlega
  BY <1>0, <1>6, MaquinaBase
<1>7. CASE HiloIO
  <2>1. CASE IODesconecta \/ IOSale
    BY <1>0, <2>1, MarcasBase
  <2>2. CASE IOCompleta
    BY <2>2, CompletaBase, PoneALiberar
  <2>3. CASE IODrena
    BY <2>3, PoneALiberar
  <2>4. QED
    BY <1>7, <2>1, <2>2, <2>3 DEF HiloIO
<1>8. CASE Matar
  <2>1. PICK p \in Procesos : \/ MataEnReady(p) \/ MataEnExec(p) \/ MataEnIO(p)
                             \/ \E r \in NombresRecurso : MataEnEspera(p, r)
    BY <1>8 DEF Matar
  <2>2. CASE MataEnExec(p) \/ (MataEnIO(p) /\ Head(enIO) = p)
    BY <1>0, <2>2, MarcasBase
  <2>3. CASE \/ MataEnReady(p) \/ (MataEnIO(p) /\ Head(enIO) # p)
             \/ \E r \in NombresRecurso : MataEnEspera(p, r)
    BY <2>3, PoneALiberar
  <2>4. QED
    BY <2>1, <2>2, <2>3
<1>9. CASE \E h \in Hilos : Libera(h)
  <2>1. PICK h \in Hilos : Libera(h)
    BY <1>9
  <2>2. CASE LiberarLee(h) \/ LiberarGuarda(h) \/ LiberarMira(h)
    BY <1>0, <2>2, LiberarQuietoBase
  <2>3. CASE LiberarSaca(h)
    <3>1. PICK r \in NombresRecurso : r = libera[h].r
      BY <2>3, Tipos DEF LiberarSaca, Base, Hilero
    <3>2. SacaDe(r)
      BY <2>3, <3>1 DEF SacaDe
    <3>3. QED
      BY <3>2, SacaBase
  <2>4. CASE LiberarTermina(h)
    BY <2>4, TerminaBase
  <2>5. QED
    BY <2>1, <2>2, <2>3, <2>4 DEF Libera
<1>10. QED
  BY <1>1, <1>2, <1>3, <1>4, <1>5, <1>6, <1>7, <1>8, <1>9
     DEF Next, CortoPlazo, Pedido, PedidoQuieto

(* The initial state, queue by queue.                                      *)
LEMMA Iniciales ==
    ASSUME Init
    PROVE  /\ ready \in Seq(Procesos) /\ Distintos(ready) /\ ToSet(ready) = Procesos
           /\ ToSet(exec) = {} /\ ToSet(enIO) = {} /\ salida = {} /\ cp = Espero
           /\ \A r \in NombresRecurso : ToSet(espera[r]) = {}
           /\ \A h \in Hilos : libera[h] = Quieto
<1> DEFINE n == Cardinality(Procesos)
<1>1. n \in Nat /\ IsFiniteSet(Procesos)
  BY RecursosAssumption, FS_CardinalityType
<1>2. ready \in [1..n -> Procesos] /\ IsInjective(ready)
  BY DEF Init
<1>3. IsFiniteSet(1..n) /\ Cardinality(1..n) = n
  <2>1. 1 \in Int /\ n \in Int
    BY <1>1
  <2>2. IsFiniteSet(1..n) /\ Cardinality(1..n) = IF 1 > n THEN 0 ELSE n - 1 + 1
    BY <2>1, FS_Interval
  <2>3. QED
    BY <1>1, <2>2
<1>4. ready \in Seq(Procesos) /\ Len(ready) = n
  BY <1>1, <1>2, FuncionSecuencia
<1>5. Distintos(ready)
  BY <1>2, <1>4 DEF IsInjective, Distintos
<1>6. ToSet(ready) = Procesos
  <2>1. ready \in Injection(1..n, Procesos)
    BY <1>2 DEF Injection
  <2>2. ready \in Surjection(1..n, Procesos)
    BY <1>1, <1>3, <2>1, FS_Injection
  <2>3. \A p \in Procesos : \E i \in 1..n : ready[i] = p
    BY <2>2 DEF Surjection
  <2>4. QED
    BY <1>4, <2>3, ElementosDe
<1>7. ToSet(<<>>) = {}
  BY DEF ToSet
<1>8. QED
  BY <1>4, <1>5, <1>6, <1>7 DEF Init

(* Base holds at the start, and every pcb is in READY.                     *)
LEMMA BaseInicial ==
    ASSUME Init
    PROVE  Base /\ \A p \in Procesos : Ubicado(p)
<1>1. /\ ready \in Seq(Procesos) /\ Distintos(ready) /\ ToSet(ready) = Procesos
      /\ ToSet(exec) = {} /\ ToSet(enIO) = {} /\ salida = {} /\ cp = Espero
      /\ \A r \in NombresRecurso : ToSet(espera[r]) = {}
      /\ \A h \in Hilos : libera[h] = Quieto
  BY Iniciales
<1>2. /\ cp \in EstadosCP /\ cp.paso = "despacha" /\ cp.pid = Nadie
  BY <1>1, EsperoVista DEF PasosCP
<1>3. /\ Quieto \in EstadosLibera /\ Quieto.pid = Nadie /\ Quieto.paso = "suma"
      /\ libera \in [Hilos -> EstadosLibera]
  BY DEF Init, Quieto, EstadosLibera, PasosLibera
<1>4. TypeOK
  <2>1. TiposColas /\ TiposHilos
    <3>1. <<>> \in Seq(Procesos)
      OBVIOUS
    <3>2. QED
      BY <1>1, <1>2, <1>3, <3>1 DEF Init, TiposColas, TiposHilos
  <2>2. TiposCuentas
    BY RecursosAssumption DEF Init, TiposCuentas
  <2>3. TiposMaquina
    BY DEF Init, TiposMaquina, SinContexto, Motivos, MotivosConAviso
  <2>4. QED
    BY <2>1, <2>2, <2>3, TiposPartes
<1>5. \A p \in Procesos : ~EnPermiso(p) /\ ~EnLibera(p) /\ ~EnEspera(p)
  BY <1>1, <1>2, <1>3, RecursosAssumption DEF EnPermiso, EnLibera, EnEspera
<1>6. Separados
  <2>1. Distintos(<<>>)
    BY DEF Distintos
  <2>2. Distintos(ready) /\ Distintos(exec) /\ Distintos(enIO)
        /\ \A r \in NombresRecurso : Distintos(espera[r])
    BY <1>1, <2>1 DEF Init
  <2>3. \A h \in Hilos : libera[h].pid = Nadie
    BY <1>1, <1>3
  <2>4. QED
    BY <1>1, <1>5, <2>2, <2>3, RecursosAssumption DEF Separados
<1>7. Hilero
  BY <1>1, <1>2, <1>3 DEF Hilero, EnPedido, Liberando, Hilos
<1>8. Turno
  <2>1. contexto.pid = Nadie /\ cpu.paso = "libre" /\ Len(exec) = 0
    BY DEF Init, SinContexto
  <2>2. QED
    BY <1>2, <2>1 DEF Init, Turno, EnPedido
<1>9. Cuentas
  <2>1. ASSUME NEW p \in Procesos, NEW r \in NombresRecurso PROVE CuentasDe(p, r)
    <3>1. usadas[p][r] = 0 /\ tiene[p][r] = 0 /\ contexto.pid = Nadie
      BY DEF Init, SinContexto
    <3>2. Esperada(p, r) = 0
      BY <1>1, <1>2, RecursosAssumption DEF Esperada
    <3>3. QED
      BY <1>1, <1>2, <1>3, <3>1, <3>2, RecursosAssumption DEF CuentasDe
  <2>2. QED
    BY <2>1 DEF Cuentas
<1>10. QED
  BY <1>1, <1>4, <1>6, <1>7, <1>8, <1>9 DEF Base, Ubicado

(* A stuttering step preserves Base.                                       *)
LEMMA BaseQuieta ==
    ASSUME Base, UNCHANGED vars
    PROVE  Base' /\ SinMover
<1>1. UNCHANGED <<colas, cuentas, cp, libera, io, redirigidos, intUsuario, maquina, caido>>
  BY DEF vars, colas, cuentas, maquina
<1>2. SinMover
  BY <1>1 DEF SinMover
<1>3. TypeOK'
  BY <1>1, TiposPartes DEF Base, TiposHilos
<1>4. Hilero'
  BY <1>1 DEF Base, Hilero, EnPedido, Liberando
<1>5. Turno'
  BY <1>1, TurnoQuieto DEF Base, colas, maquina
<1>6. Cuentas'
  <2>1. \A p : Ajeno(p)
    BY <1>1 DEF Ajeno, colas, cuentas, maquina
  <2>2. QED
    BY <2>1, CuentasAjenas DEF Base, Cuentas
<1>7. QED
  BY <1>2, <1>3, <1>4, <1>5, <1>6, SinMoverSeparados DEF Base

(* Base is an invariant: in every state, even when the thread of an        *)
(* interface releases resources, a pcb is in one place at most and every   *)
(* thread holds what its step says.                                        *)
THEOREM BaseSiempre == Spec => []Base
<1>1. Init => Base
  BY BaseInicial
<1>2. Base /\ [Next]_vars => Base'
  BY BasePaso, BaseQuieta
<1>3. QED
  BY <1>1, <1>2, PTL DEF Spec

(* TypeOK holds in every state.                                            *)
THEOREM TipoCorrecto == Spec => []TypeOK
<1>1. Base => TypeOK
  BY DEF Base
<1>2. QED
  BY <1>1, BaseSiempre, PTL

(* The places of a pcb, kind by kind.                                      *)
LEMMA LugaresDe ==
    ASSUME NEW p, NEW x
    PROVE  x \in Lugares(p) <=>
             \/ \E k \in 1..Len(ready) : ready[k] = p /\ x = <<"READY", k>>
             \/ \E k \in 1..Len(exec) : exec[k] = p /\ x = <<"EXEC", k>>
             \/ \E k \in 1..Len(enIO) : enIO[k] = p /\ x = <<"IO", k>>
             \/ \E r \in NombresRecurso : \E k \in 1..Len(espera[r]) :
                  espera[r][k] = p /\ x = <<"espera", r, k>>
             \/ p \in salida /\ x = <<"EXIT", p>>
             \/ cp.pid = p /\ x = <<"cp", p>>
             \/ \E h \in Hilos : libera[h].pid = p /\ x = <<"libera", h>>
<1> DEFINE A1 == {"READY"} \X Posiciones(ready, p)
           A2 == {"EXEC"} \X Posiciones(exec, p)
           A3 == {"IO"} \X Posiciones(enIO, p)
           A4 == UNION {{"espera"} \X {r} \X Posiciones(espera[r], p) : r \in NombresRecurso}
           A5 == {"EXIT"} \X (salida \cap {p})
           A6 == {"cp"} \X ({cp.pid} \cap {p})
           A7 == {"libera"} \X {h \in Hilos : libera[h].pid = p}
<1>1. x \in A1 <=> \E k \in 1..Len(ready) : ready[k] = p /\ x = <<"READY", k>>
  BY DEF Posiciones
<1>2. x \in A2 <=> \E k \in 1..Len(exec) : exec[k] = p /\ x = <<"EXEC", k>>
  BY DEF Posiciones
<1>3. x \in A3 <=> \E k \in 1..Len(enIO) : enIO[k] = p /\ x = <<"IO", k>>
  BY DEF Posiciones
<1>4. x \in A4 <=> \E r \in NombresRecurso : \E k \in 1..Len(espera[r]) :
                     espera[r][k] = p /\ x = <<"espera", r, k>>
  <2>1. x \in A4 <=> \E r \in NombresRecurso : x \in {"espera"} \X {r} \X Posiciones(espera[r], p)
    OBVIOUS
  <2>2. ASSUME NEW r PROVE x \in {"espera"} \X {r} \X Posiciones(espera[r], p)
                             <=> \E k \in 1..Len(espera[r]) :
                                   espera[r][k] = p /\ x = <<"espera", r, k>>
    BY DEF Posiciones
  <2>3. QED
    BY <2>1, <2>2
<1>5. x \in A5 <=> p \in salida /\ x = <<"EXIT", p>>
  OBVIOUS
<1>6. x \in A6 <=> cp.pid = p /\ x = <<"cp", p>>
  <2>1. CASE cp.pid = p
    BY <2>1
  <2>2. CASE cp.pid # p
    <3>1. {cp.pid} \cap {p} = {}
      BY <2>2
    <3>2. A6 = {}
      BY <3>1
    <3>3. QED
      BY <2>2, <3>2
  <2>3. QED
    BY <2>1, <2>2
<1>7. x \in A7 <=> \E h \in Hilos : libera[h].pid = p /\ x = <<"libera", h>>
  OBVIOUS
<1>8. Lugares(p) = UNION {A1, A2, A3, A4, A5, A6, A7}
  BY DEF Lugares
<1> HIDE DEF A1, A2, A3, A4, A5, A6, A7
<1>9. x \in Lugares(p)
        <=> x \in A1 \/ x \in A2 \/ x \in A3 \/ x \in A4 \/ x \in A5 \/ x \in A6 \/ x \in A7
  BY <1>8
<1>10. QED
  BY <1>1, <1>2, <1>3, <1>4, <1>5, <1>6, <1>7, <1>9

(* No pcb is ever in two queues, twice in one, or in a queue and in the    *)
(* hands of a thread, whoever is killed and whenever the interface is      *)
(* lost.                                                                   *)
THEOREM SinDuplicadosSiempre == Spec => []SinDuplicados
<1>1. ASSUME Base PROVE SinDuplicados
  <2> SUFFICES ASSUME NEW p \in Procesos, NEW x \in Lugares(p), NEW y \in Lugares(p)
               PROVE  x = y
    BY DEF SinDuplicados
  <2>1. /\ ready \in Seq(Procesos) /\ exec \in Seq(Procesos) /\ enIO \in Seq(Procesos)
        /\ \A r \in NombresRecurso : espera[r] \in Seq(Procesos)
    BY <1>1, Tipos DEF Base
  <2>2. /\ \A k \in 1..Len(ready) : ready[k] = p => p \in ToSet(ready)
        /\ \A k \in 1..Len(exec) : exec[k] = p => p \in ToSet(exec)
        /\ \A k \in 1..Len(enIO) : enIO[k] = p => p \in ToSet(enIO)
        /\ \A r \in NombresRecurso : \A k \in 1..Len(espera[r]) :
             espera[r][k] = p => p \in ToSet(espera[r])
    BY <2>1, ElementosDe
  <2>3. ASSUME NEW z \in Lugares(p)
        PROVE  \/ /\ p \in ToSet(ready)
                  /\ \E k \in 1..Len(ready) : ready[k] = p /\ z = <<"READY", k>>
               \/ /\ p \in ToSet(exec)
                  /\ \E k \in 1..Len(exec) : exec[k] = p /\ z = <<"EXEC", k>>
               \/ /\ p \in ToSet(enIO)
                  /\ \E k \in 1..Len(enIO) : enIO[k] = p /\ z = <<"IO", k>>
               \/ /\ EnEspera(p)
                  /\ \E r \in NombresRecurso : \E k \in 1..Len(espera[r]) :
                       espera[r][k] = p /\ p \in ToSet(espera[r]) /\ z = <<"espera", r, k>>
               \/ p \in salida /\ z = <<"EXIT", p>>
               \/ EnPermiso(p) /\ z = <<"cp", p>>
               \/ EnLibera(p) /\ \E h \in Hilos : libera[h].pid = p /\ z = <<"libera", h>>
    BY <2>2, LugaresDe DEF EnEspera, EnPermiso, EnLibera
  <2>4. Separados
    BY <1>1 DEF Base
  <2>5. CASE p \in ToSet(ready)
    <3>1. p \notin ToSet(exec) /\ p \notin ToSet(enIO) /\ ~EnEspera(p) /\ p \notin salida
          /\ ~EnPermiso(p) /\ ~EnLibera(p)
      BY <2>4, <2>5 DEF Separados
    <3>2. \A z \in Lugares(p) : \E k \in 1..Len(ready) : ready[k] = p /\ z = <<"READY", k>>
      BY <2>3, <3>1
    <3>3. QED
      BY <2>4, <3>2 DEF Separados, Distintos
  <2>6. CASE p \in ToSet(exec)
    <3>1. p \notin ToSet(ready) /\ p \notin ToSet(enIO) /\ ~EnEspera(p) /\ p \notin salida
          /\ ~EnPermiso(p) /\ ~EnLibera(p)
      BY <2>4, <2>6 DEF Separados
    <3>2. \A z \in Lugares(p) : \E k \in 1..Len(exec) : exec[k] = p /\ z = <<"EXEC", k>>
      BY <2>3, <3>1
    <3>3. QED
      BY <2>4, <3>2 DEF Separados, Distintos
  <2>7. CASE p \in ToSet(enIO)
    <3>1. p \notin ToSet(ready) /\ p \notin ToSet(exec) /\ ~EnEspera(p) /\ p \notin salida
          /\ ~EnPermiso(p) /\ ~EnLibera(p)
      BY <2>4, <2>7 DEF Separados
    <3>2. \A z \in Lugares(p) : \E k \in 1..Len(enIO) : enIO[k] = p /\ z = <<"IO", k>>
      BY <2>3, <3>1
    <3>3. QED
      BY <2>4, <3>2 DEF Separados, Distintos
  <2>8. CASE EnEspera(p)
    <3>1. p \notin ToSet(ready) /\ p \notin ToSet(exec) /\ p \notin ToSet(enIO) /\ p \notin salida
          /\ ~EnPermiso(p) /\ ~EnLibera(p)
      BY <2>4, <2>8 DEF Separados
    <3>2. \A z \in Lugares(p) : \E r \in NombresRecurso : \E k \in 1..Len(espera[r]) :
            espera[r][k] = p /\ p \in ToSet(espera[r]) /\ z = <<"espera", r, k>>
      BY <2>3, <3>1
    <3>3. PICK r \in NombresRecurso : \E k \in 1..Len(espera[r]) :
            espera[r][k] = p /\ p \in ToSet(espera[r]) /\ x = <<"espera", r, k>>
      BY <3>2
    <3>4. PICK q \in NombresRecurso : \E k \in 1..Len(espera[q]) :
            espera[q][k] = p /\ p \in ToSet(espera[q]) /\ y = <<"espera", q, k>>
      BY <3>2
    <3>5. r = q /\ Distintos(espera[r])
      BY <2>4, <3>3, <3>4 DEF Separados
    <3>6. QED
      BY <3>3, <3>4, <3>5 DEF Distintos
  <2>9. CASE /\ p \notin ToSet(ready) /\ p \notin ToSet(exec) /\ p \notin ToSet(enIO)
             /\ ~EnEspera(p)
    <3>1. ASSUME NEW z \in Lugares(p)
          PROVE  \/ p \in salida /\ z = <<"EXIT", p>>
                 \/ EnPermiso(p) /\ z = <<"cp", p>>
                 \/ EnLibera(p) /\ \E h \in Hilos : libera[h].pid = p /\ z = <<"libera", h>>
      BY <2>3, <2>9
    <3>2. QED
      BY <2>4, <3>1 DEF Separados
  <2>10. QED
    BY <2>5, <2>6, <2>7, <2>8, <2>9
<1>2. QED
  BY <1>1, BaseSiempre, PTL

-----------------------------------------------------------------------------
(* One section at a time: until an interface releases, WAIT, SIGNAL and    *)
(* the releases of the scheduler and of a kill exclude each other.         *)
LEMMA SeccionUnica ==
    ASSUME Base, Exclusivos
    PROVE  /\ EnPedido => \A h \in Hilos : Libre(h) /\ libera[h].paso = "suma"
           /\ cp.paso \in {"despacha", "recibe"} /\ Planificando =>
                \A h \in Hilos : Libre(h) /\ libera[h].paso = "suma"
           /\ \A h \in Hilos : Liberando(h) =>
                /\ ~EnPedido /\ h # "io"
                /\ \A k \in Hilos \ {h} : Libre(k) /\ libera[k].paso = "suma"
<1>1. \A h \in Hilos : Libre(h) => libera[h].paso = "suma"
  BY DEF Base, Hilero, Libre
<1>2. QED
  BY <1>1 DEF Base, Hilero, Exclusivos, EnPedido, Libre, Liberando, Planificando, Hilos

(* Once the thread of an interface releases resources the race is never    *)
(* over.                                                                   *)
LEMMA CarreraSigue ==
    ASSUME Next, SinCarrera'
    PROVE  SinCarrera
<1>1. \/ UNCHANGED <<io, redirigidos>>
      \/ IODesconecta \/ IOSale \/ \E p \in Procesos : MataEnIO(p)
  BY DEF Next, CortoPlazo, Pedido, Despacha, RecibeQuantum, RecibeIO, RecibeFin, RecibePedido,
     Recibe,
     WaitGuarda, WaitConcede, WaitNoAlcanza, WaitRemira, WaitEncola, SignalGuarda, SignalMira,
     SignalSaca, SignalSigue, CPU, CPURecibe, CPUInterrumpe, CPUAviso, CPUAvisoAjeno, CPUPide,
     CPUSale, Devuelve, InterruptLlega, HiloIO, IOCompleta, IODrena, Matar, MataEnReady, MataEnExec,
     MataEnEspera, Mata, Libera, LiberarLee, LiberarGuarda, LiberarMira, LiberarSaca, LiberarTermina
<1>2. ~IODesconecta /\ ~IOSale
  BY DEF SinCarrera, IODesconecta, IOSale
<1>3. ASSUME NEW p \in Procesos, MataEnIO(p) PROVE SinCarrera
  BY <1>3 DEF SinCarrera, MataEnIO, Mata
<1>4. QED
  BY <1>1, <1>2, <1>3 DEF SinCarrera

(* What no section disturbs.                                               *)
FueraDeSeccion ==
    /\ UNCHANGED <<espera, instancias, usadas, tiene, salida, caido, libera>> /\ cp' \in EstadosCP
    /\ \/ cp' = cp
       \/ cp.paso \in {"despacha", "recibe"} /\ cp'.paso \in {"despacha", "recibe"}

(* The release of a process begins, after the end of its burst or a kill.  *)
EmpiezaSeccion(h, x) ==
    /\ UNCHANGED <<instancias, usadas, tiene, salida, caido>>
    /\ cp.paso \in {"despacha", "recibe"} /\ Planificando /\ cp' \in EstadosCP
    /\ IF h = "cp" THEN cp'.paso \in {"fin", "fin_invalido"} ELSE h = "mata" /\ cp' = cp
    /\ libera' \in [Hilos -> EstadosLibera] /\ Activo(x)
    /\ \A k \in Hilos \ {h} : libera'[k] = libera[k]
    /\ libera'[h].pid = x /\ libera'[h].paso = "suma" /\ libera'[h].faltan = usadas[x]
    /\ x \notin salida /\ ~EnPermiso(x) /\ ~EnLibera(x)
    /\ \/ UNCHANGED espera /\ ~EnEspera(x)
       \/ \E r \in NombresRecurso : /\ Baja(espera'[r], espera[r], x)
                                    /\ h = "mata" /\ ~SinMatarEspera
                                    /\ \A q \in NombresRecurso \ {r} :
                                         espera'[q] = espera[q] /\ x \notin ToSet(espera[q])

(* A kill takes its pcb out of the queue of a resource.                    *)
LEMMA MataEnEsperaVista ==
    ASSUME Base, NEW p \in Procesos, NEW r \in NombresRecurso, MataEnEspera(p, r)
    PROVE  /\ Baja(espera'[r], espera[r], p) /\ ~SinMatarEspera
           /\ \A q \in NombresRecurso \ {r} : espera'[q] = espera[q] /\ p \notin ToSet(espera[q])
           /\ EnEspera(p)
<1>1. espera[r] \in Seq(Procesos) /\ Contains(espera[r], p) /\ Distintos(espera[r])
      /\ espera' = [espera EXCEPT ![r] = Sin(espera[r], p)]
      /\ espera \in [NombresRecurso -> Seq(Procesos)]
  BY Tipos DEF Base, Separados, MataEnEspera
<1>2. Baja(Sin(espera[r], p), espera[r], p)
  BY <1>1, SinUno DEF Baja
<1>3. espera'[r] = Sin(espera[r], p) /\ \A q \in NombresRecurso \ {r} : espera'[q] = espera[q]
  BY <1>1
<1>4. ~SinMatarEspera
  BY DEF MataEnEspera, Mata, SinMatarEspera
<1>5. p \in ToSet(espera[r]) /\ EnEspera(p)
  BY <1>2 DEF Baja, EnEspera
<1>6. \A q \in NombresRecurso \ {r} : p \notin ToSet(espera[q])
  BY <1>5 DEF Base, Separados
<1>7. QED
  BY <1>2, <1>3, <1>4, <1>5, <1>6

(* A kill begins a section in which it releases.                           *)
LEMMA MataVista ==
    ASSUME Base, NEW p \in Procesos,
           \/ MataEnReady(p) \/ (MataEnIO(p) /\ Head(enIO) # p)
           \/ \E r \in NombresRecurso : MataEnEspera(p, r)
    PROVE  EmpiezaSeccion("mata", p)
<1>1. /\ UNCHANGED <<salida, cuentas, cp, caido>> /\ EmpiezaALiberar("mata", p)
      /\ Planificando /\ cp.paso \in {"despacha", "recibe"}
  BY DEF MataEnReady, MataEnIO, MataEnEspera, Mata, EnSeccionExec
<1>2. /\ libera' \in [Hilos -> EstadosLibera] /\ \A k \in Hilos \ {"mata"} : libera'[k] = libera[k]
      /\ libera'["mata"].pid = p /\ libera'["mata"].paso = "suma"
      /\ libera'["mata"].faltan = usadas[p]
  <2>1. "mata" \in Hilos /\ TypeOK
    BY DEF Hilos, Base
  <2>2. QED
    BY <1>1, <2>1, EmpiezaVista
<1>3. cp \in EstadosCP
  BY Tipos DEF Base
<1>4. CASE MataEnReady(p) \/ (MataEnIO(p) /\ Head(enIO) # p)
  <2>1. UNCHANGED espera /\ (Contains(ready, p) \/ Contains(enIO, p))
    BY <1>4 DEF MataEnReady, MataEnIO
  <2>2. p \in ToSet(ready) \cup ToSet(enIO)
    BY <2>1, ElementosDe, Tipos DEF Base
  <2>3. Activo(p) /\ p \notin salida /\ ~EnPermiso(p) /\ ~EnLibera(p) /\ ~EnEspera(p)
    BY <2>2 DEF Base, Separados, Activo
  <2>4. QED
    BY <1>1, <1>2, <1>3, <2>1, <2>3 DEF EmpiezaSeccion, cuentas
<1>5. ASSUME NEW r \in NombresRecurso, MataEnEspera(p, r) PROVE EmpiezaSeccion("mata", p)
  <2>1. /\ Baja(espera'[r], espera[r], p) /\ ~SinMatarEspera
        /\ \A q \in NombresRecurso \ {r} : espera'[q] = espera[q] /\ p \notin ToSet(espera[q])
        /\ EnEspera(p)
    BY <1>5, MataEnEsperaVista
  <2>2. Activo(p) /\ p \notin salida /\ ~EnPermiso(p) /\ ~EnLibera(p)
    BY <2>1 DEF Base, Separados, Activo
  <2>3. QED
    BY <1>1, <1>2, <1>3, <2>1, <2>2 DEF EmpiezaSeccion, cuentas
<1>6. QED
  BY <1>4, <1>5

(* The end of a process begins a section in which the scheduler releases.  *)
LEMMA FinVisto ==
    ASSUME Base, RecibeFin
    PROVE  \E x \in Procesos : EmpiezaSeccion("cp", x)
<1>0. \E m : Recibe(m)
  BY DEF RecibeFin
<1>1. PICK x \in Procesos : x = contexto.pid
  BY <1>0, RecibeVista
<1>2. Head(exec) = x /\ ToSet(exec) = {x} /\ cp.paso = "recibe"
  BY <1>0, <1>1, RecibeVista
<1>3. UNCHANGED <<salida, espera, cuentas, caido>> /\ Planificando /\ EmpiezaALiberar("cp", x)
  BY <1>2 DEF RecibeFin, Recibe
<1>4. /\ libera' \in [Hilos -> EstadosLibera] /\ \A k \in Hilos \ {"cp"} : libera'[k] = libera[k]
      /\ libera'["cp"].pid = x /\ libera'["cp"].paso = "suma" /\ libera'["cp"].faltan = usadas[x]
  <2>1. "cp" \in Hilos /\ TypeOK
    BY DEF Hilos, Base
  <2>2. QED
    BY <1>3, <2>1, EmpiezaVista
<1>5. cp' \in EstadosCP /\ cp'.paso \in {"fin", "fin_invalido"}
  <2>1. PICK s \in {"fin", "fin_invalido"} : cp' = [Espero EXCEPT !.paso = s]
    BY DEF RecibeFin
  <2>2. s \in PasosCP
    BY DEF PasosCP
  <2>3. cp' \in EstadosCP /\ cp' = [paso |-> s, pid |-> Nadie, r |-> Nadie, leido |-> 0]
    BY <2>1, <2>2, EsperoVista
  <2>4. cp'.paso = s
    BY <2>3
  <2>5. QED
    BY <2>3, <2>4
<1>6. Activo(x) /\ x \notin salida /\ ~EnPermiso(x) /\ ~EnLibera(x) /\ ~EnEspera(x)
  BY <1>2 DEF Base, Separados, Activo
<1>7. EmpiezaSeccion("cp", x)
  BY <1>2, <1>3, <1>4, <1>5, <1>6 DEF EmpiezaSeccion, cuentas
<1>8. QED
  BY <1>7

(* What a step can be while the sections exclude each other.               *)
LEMMA ClasesDePaso ==
    ASSUME Base, Exclusivos, SinCarrera, SinCarrera', Next
    PROVE  \/ FueraDeSeccion
           \/ \E h \in {"cp", "mata"}, x \in Procesos : EmpiezaSeccion(h, x)
           \/ RecibePedido \/ Pedido
           \/ \E h \in {"cp", "mata"} : Libera(h)
<1>1. CASE Despacha
  <2>1. TypeOK /\ "recibe" \in PasosCP /\ cp' = [cp EXCEPT !.paso = "recibe"]
    BY <1>1 DEF Base, Despacha, PasosCP
  <2>2. cp' \in EstadosCP /\ cp'.paso = "recibe"
    BY <2>1, CPPasa
  <2>3. FueraDeSeccion
    BY <1>1, <2>2 DEF Despacha, FueraDeSeccion, cuentas
  <2>4. QED
    BY <2>3
<1>2. CASE RecibeQuantum \/ RecibeIO
  BY <1>2, EsperoVista DEF RecibeQuantum, RecibeIO, Recibe, FueraDeSeccion, cuentas, PasosCP
<1>3. CASE RecibeFin
  BY <1>3, FinVisto
<1>4. CASE CPU \/ InterruptLlega
  BY <1>4, Tipos DEF Base, CPU, InterruptLlega, CPURecibe, CPUInterrumpe, CPUAviso, CPUAvisoAjeno,
     CPUPide, CPUSale,
     Devuelve, FueraDeSeccion, colas, cuentas
<1>5. CASE HiloIO
  <2>1. ~IODesconecta /\ ~IOSale /\ ~IODrena
    BY DEF SinCarrera, IODesconecta, IOSale, IODrena
  <2>2. CASE IOCompleta
    BY <2>2, Tipos DEF Base, SinCarrera, IOCompleta, FueraDeSeccion, cuentas
  <2>3. QED
    BY <1>5, <2>1, <2>2 DEF HiloIO
<1>6. CASE Matar
  <2>1. PICK p \in Procesos : \/ MataEnReady(p) \/ MataEnExec(p) \/ MataEnIO(p)
                             \/ \E r \in NombresRecurso : MataEnEspera(p, r)
    BY <1>6 DEF Matar
  <2>2. CASE MataEnExec(p) \/ (MataEnIO(p) /\ Head(enIO) = p)
    BY <2>2, Tipos DEF Base, MataEnExec, MataEnIO, Mata, FueraDeSeccion, cuentas
  <2>3. CASE \/ MataEnReady(p) \/ (MataEnIO(p) /\ Head(enIO) # p)
             \/ \E r \in NombresRecurso : MataEnEspera(p, r)
    BY <2>3, MataVista
  <2>4. QED
    BY <2>1, <2>2, <2>3
<1>7. ASSUME NEW h \in Hilos, Libera(h) PROVE h \in {"cp", "mata"}
  BY <1>7 DEF Exclusivos, Libre, Hilos, Libera, LiberarLee, LiberarGuarda, LiberarMira, LiberarSaca,
     LiberarTermina
<1>8. QED
  BY <1>1, <1>2, <1>3, <1>4, <1>5, <1>6, <1>7 DEF Next, CortoPlazo

(* A step outside the race keeps the sections exclusive: nobody changes    *)
(* what another thread has read, nor empties the queue it is about to pop. *)
LEMMA ExclusivosPaso ==
    ASSUME Base, Exclusivos, SinCarrera, SinCarrera', Next
    PROVE  Exclusivos'
<1>1. /\ ~caido /\ Libre("io") /\ cp \in EstadosCP /\ libera \in [Hilos -> EstadosLibera]
      /\ instancias \in [NombresRecurso -> Int]
  BY Tipos DEF Base, Exclusivos
<1>2. CASE FueraDeSeccion
  <2>1. UNCHANGED <<espera, instancias, caido, libera>>
    BY <1>2 DEF FueraDeSeccion
  <2>2. CASE cp' = cp
    BY <2>1, <2>2 DEF Exclusivos, Libre, Liberando
  <2>3. CASE cp'.paso \in {"despacha", "recibe"}
    BY <2>1, <2>3 DEF Exclusivos, Libre, Liberando
  <2>4. QED
    BY <1>2, <2>2, <2>3 DEF FueraDeSeccion
<1>3. ASSUME NEW h \in {"cp", "mata"}, NEW x \in Procesos, EmpiezaSeccion(h, x)
      PROVE  Exclusivos'
  <2>1. \A k \in Hilos : Libre(k) /\ libera[k].paso = "suma"
    BY <1>3, SeccionUnica DEF EmpiezaSeccion
  <2>2. \A k \in Hilos : libera'[k].paso = "suma"
    BY <1>3, <2>1 DEF EmpiezaSeccion
  <2>3. Libre("io")'
    BY <1>1, <1>3 DEF EmpiezaSeccion, Libre, Liberando, Hilos
  <2>4. cp'.paso \in {"fin", "fin_invalido", "despacha", "recibe"}
    BY <1>3 DEF EmpiezaSeccion
  <2>5. ~caido'
    BY <1>1, <1>3 DEF EmpiezaSeccion
  <2>6. QED
    BY <2>2, <2>3, <2>4, <2>5 DEF Exclusivos
<1>4. CASE EnPedido \/ RecibePedido
  <2>1. \A h \in Hilos : Libre(h) /\ libera[h].paso = "suma"
    BY <1>4, SeccionUnica DEF RecibePedido, Recibe
  <2>2. (UNCHANGED libera /\ (RecibePedido \/ Pedido))
          => (Libre("io")' /\ \A h \in Hilos : libera'[h].paso = "suma")
    BY <1>1, <2>1 DEF Libre, Liberando
  <2>3. CASE RecibePedido
    <3>1. PICK m \in MotivosConAviso :
            cp' = [paso |-> IF m = "WAIT" THEN "wait_guarda" ELSE "signal_guarda",
                   pid |-> Head(exec), r |-> contexto.r, leido |-> instancias[contexto.r]]
      BY <2>3 DEF RecibePedido
    <3>2. cp'.paso \in {"wait_guarda", "signal_guarda"} /\ cp'.r = contexto.r
          /\ cp'.leido = instancias[contexto.r]
      BY <3>1
    <3>3. UNCHANGED <<espera, instancias, caido, libera>>
      BY <2>3 DEF RecibePedido, Recibe, cuentas
    <3>4. QED
      BY <1>1, <2>2, <2>3, <3>2, <3>3 DEF Exclusivos
  <2>4. CASE PedidoQuieto
    <3>1. /\ cp.r \in NombresRecurso /\ cp'.r = cp.r
          /\ cp'.paso \in {"wait_mira", "wait_remira", "wait_encola", "signal_mira", "signal_saca",
                           "signal_sigue"}
          /\ cp'.paso \in {"wait_remira", "wait_encola"} => WaitNoAlcanza \/ WaitRemira
          /\ cp'.paso = "signal_saca" => SignalMira /\ espera[cp.r] # <<>>
      BY <2>4, PedidoVisto DEF PedidoQuieto
    <3>2. UNCHANGED <<espera, caido, libera>>
      BY <2>4 DEF PedidoQuieto, WaitGuarda, WaitNoAlcanza, WaitRemira, SignalGuarda, SignalMira,
         colas
    <3>3. WaitNoAlcanza \/ WaitRemira => instancias'[cp.r] < 0
      BY <2>4 DEF PedidoQuieto, WaitGuarda, WaitNoAlcanza, WaitRemira, SignalGuarda, SignalMira,
         cuentas
    <3>4. QED
      BY <1>1, <2>2, <2>4, <3>1, <3>2, <3>3 DEF Exclusivos, Pedido, PedidoQuieto
  <2>5. CASE WaitConcede \/ SignalSigue \/ WaitEncola
    <3>1. cp'.paso \in {"recibe", "despacha"}
      <4>1. "recibe" \in PasosCP
        BY DEF PasosCP
      <4>2. [Espero EXCEPT !.paso = "recibe"] = [paso |-> "recibe", pid |-> Nadie, r |-> Nadie,
                                                 leido |-> 0]
        BY <4>1, EsperoVista
      <4>3. Espero.paso = "despacha"
        BY DEF Espero
      <4>4. QED
        BY <2>5, <4>2, <4>3 DEF WaitConcede, SignalSigue, Sigue, WaitEncola
    <3>2. UNCHANGED <<caido, libera>>
      BY <2>5 DEF WaitConcede, SignalSigue, WaitEncola
    <3>3. QED
      BY <1>1, <2>2, <2>5, <3>1, <3>2 DEF Exclusivos, Pedido
  <2>6. CASE WaitRemira /\ ~(instancias[cp.r] < 0)
    BY <2>6 DEF Exclusivos, WaitRemira
  <2>7. CASE SignalSaca
    <3>1. cp'.paso = "signal_sigue" /\ espera[cp.r] # <<>> /\ libera' = libera
      BY <2>7, PedidoVisto DEF Exclusivos, SignalSaca
    <3>2. caido' = caido
      BY <2>7, <3>1 DEF SignalSaca, Despierta
    <3>3. QED
      BY <1>1, <2>2, <2>7, <3>1, <3>2 DEF Exclusivos, Pedido
  <2>8. CASE ~(RecibePedido \/ Pedido)
    <3>1. ~\E h \in {"cp", "mata"} : Libera(h)
      BY <2>1 DEF Hilos, Libre, Libera, LiberarLee, LiberarGuarda, LiberarMira, LiberarSaca,
         LiberarTermina
    <3>2. QED
      BY <1>2, <1>3, <2>8, <3>1, ClasesDePaso
  <2>9. QED
    BY <2>3, <2>4, <2>5, <2>6, <2>7, <2>8 DEF Pedido, PedidoQuieto
<1>5. ASSUME NEW h \in {"cp", "mata"}, Libera(h)
      PROVE  Exclusivos'
  <2>1. Liberando(h) /\ h \in Hilos
    BY <1>5 DEF Hilos, Libera, LiberarLee, LiberarGuarda, LiberarMira, LiberarSaca, LiberarTermina
  <2>2. /\ ~EnPedido /\ h # "io"
        /\ \A k \in Hilos \ {h} : Libre(k) /\ libera[k].paso = "suma"
    BY <2>1, SeccionUnica
  <2>3. CASE LiberarTermina(h)
    <3>1. /\ \A k \in Hilos \ {h} : libera'[k] = libera[k]
          /\ libera'[h].paso = "suma" /\ caido' = caido
          /\ cp' = cp \/ cp' = Espero
      <4>1. libera' = [libera EXCEPT ![h] = Quieto] /\ Quieto.paso = "suma"
        BY <2>3 DEF LiberarTermina, Quieto
      <4>2. QED
        BY <1>1, <2>1, <2>3, <4>1 DEF LiberarTermina
    <3>2. cp'.paso \notin {"signal_saca", "wait_guarda", "signal_guarda", "wait_remira",
                            "wait_encola"}
      BY <2>2, <3>1, EsperoVista DEF EnPedido, PasosCP
    <3>3. Libre("io")'
      BY <1>1, <2>2, <3>1 DEF Libre, Liberando, Hilos
    <3>4. \A k \in Hilos : libera'[k].paso = "suma"
      BY <2>2, <3>1
    <3>5. QED
      BY <1>1, <3>1, <3>2, <3>3, <3>4 DEF Exclusivos
  <2>4. CASE ~LiberarTermina(h)
    <3>1. /\ \A k \in Hilos \ {h} : libera'[k] = libera[k]
          /\ libera'[h].paso # "suma" => libera'[h].r \in NombresRecurso
          /\ libera'[h].paso = "guarda" => /\ libera'[h].leido = instancias[libera'[h].r]
                                           /\ LiberarLee(h)
          /\ libera'[h].paso = "saca" => LiberarMira(h) /\ espera[libera'[h].r] # <<>>
          /\ LiberarSaca(h) => espera[libera[h].r] # <<>>
      <4>1. CASE LiberarLee(h)
        BY <1>5, <2>1, <2>4, <4>1, LiberaVista DEF LiberarLee, LiberarSaca
      <4>2. CASE LiberarGuarda(h)
        <5>1. ~LiberarLee(h) /\ ~LiberarSaca(h)
          BY <4>2 DEF LiberarLee, LiberarGuarda, LiberarSaca
        <5>2. QED
          BY <1>5, <2>1, <2>4, <4>2, <5>1, LiberaVista
      <4>3. CASE LiberarMira(h)
        <5>1. ~LiberarLee(h) /\ ~LiberarSaca(h)
          BY <4>3 DEF LiberarLee, LiberarMira, LiberarSaca
        <5>2. QED
          BY <1>5, <2>1, <2>4, <4>3, <5>1, LiberaVista
      <4>4. CASE LiberarSaca(h)
        <5>1. ~LiberarLee(h) /\ espera[libera[h].r] # <<>>
          BY <2>1, <4>4 DEF LiberarLee, LiberarSaca, Exclusivos
        <5>2. QED
          BY <1>5, <2>1, <2>4, <4>4, <5>1, LiberaVista
      <4>5. QED
        BY <1>5, <2>4, <4>1, <4>2, <4>3, <4>4 DEF Libera
    <3>2. cp' = cp
      BY <1>5, <2>4 DEF Libera, LiberarLee, LiberarGuarda, LiberarMira, LiberarSaca
    <3>3. caido' = caido
      BY <1>5, <2>4, <3>1 DEF Libera, LiberarLee, LiberarGuarda, LiberarMira, LiberarSaca, Despierta
    <3>4. Libre("io")'
      BY <1>1, <2>2, <3>1 DEF Libre, Liberando, Hilos
    <3>5. LiberarLee(h) => UNCHANGED <<espera, instancias>>
      BY DEF LiberarLee, colas, cuentas
    <3>6. LiberarMira(h) => UNCHANGED <<espera, instancias>>
      BY DEF LiberarMira, colas, cuentas
    <3>7. QED
      BY <1>1, <2>2, <3>1, <3>2, <3>3, <3>4, <3>5, <3>6 DEF Exclusivos, EnPedido
  <2>5. QED
    BY <2>3, <2>4
<1>6. Pedido => EnPedido
  BY DEF Pedido, WaitGuarda, WaitConcede, WaitNoAlcanza, WaitRemira, WaitEncola, SignalGuarda,
     SignalMira, SignalSaca, SignalSigue, EnPedido
<1>7. QED
  BY <1>2, <1>3, <1>4, <1>5, <1>6, ClasesDePaso

(* The sections stay exclusive and no pcb is lost until an interface       *)
(* releases resources.                                                     *)
Serie == SinCarrera => Exclusivos /\ Justos

(* Serie is inductive, given Base.                                         *)
LEMMA SeriePaso ==
    ASSUME Base, Serie, [Next]_vars
    PROVE  Serie'
<1> SUFFICES ASSUME SinCarrera' PROVE Exclusivos' /\ Justos'
  BY DEF Serie
<1>1. CASE Next
  <2>1. SinCarrera /\ Exclusivos /\ Justos
    BY <1>1, CarreraSigue DEF Serie
  <2>2. Exclusivos'
    BY <1>1, <2>1, ExclusivosPaso
  <2>3. ~(WaitRemira /\ ~(instancias[cp.r] < 0))
    BY <2>1 DEF Exclusivos, WaitRemira
  <2>4. Siguen
    BY <1>1, <2>3, BasePaso
  <2>5. QED
    BY <2>1, <2>2, <2>4 DEF Siguen, Justos
<1>2. CASE UNCHANGED vars
  <2>1. SinCarrera /\ Exclusivos /\ Justos
    BY <1>2 DEF Serie, SinCarrera, vars
  <2>2. Exclusivos'
    BY <1>2, <2>1 DEF Exclusivos, Libre, Liberando, vars
  <2>3. Justos'
    BY <1>2, <2>1, BaseQuieta, SinMoverSeparados DEF Justos, Base
  <2>4. QED
    BY <2>2, <2>3
<1>3. QED
  BY <1>1, <1>2

(* Serie holds at the start.                                               *)
LEMMA SerieInicial ==
    ASSUME Init
    PROVE  Serie
<1>1. Justos
  BY BaseInicial DEF Justos
<1>2. \A h \in Hilos : libera[h].paso = "suma" /\ libera[h].pid = Nadie
  BY Iniciales DEF Quieto
<1>3. cp.paso = "despacha" /\ ~caido
  BY Iniciales DEF Init, Espero
<1>4. Libre("io")
  BY <1>2 DEF Libre, Liberando, Hilos
<1>5. QED
  BY <1>1, <1>2, <1>3, <1>4 DEF Serie, Exclusivos

(* Until the thread of an interface releases resources the sections are    *)
(* exclusive and no pcb is lost.                                           *)
THEOREM SerieSiempre == Spec => []Serie
<1>1. Init => Base /\ Serie
  BY BaseInicial, SerieInicial
<1>2. Base /\ Serie /\ [Next]_vars => Base' /\ Serie'
  BY BasePaso, BaseQuieta, SeriePaso
<1>3. QED
  BY <1>1, <1>2, PTL DEF Spec

(* NoCae holds in every state: until the thread of an interface releases,  *)
(* nobody pops from an empty queue and follows the NULL it gets.           *)
THEOREM NoCaeNunca == Spec => []NoCae
<1>1. Serie => NoCae
  BY DEF Serie, Exclusivos, NoCae
<1>2. QED
  BY <1>1, SerieSiempre, PTL

(* With SinDuplicados, a pcb that is somewhere is in one place.            *)
THEOREM UnLugarEnSerie == Spec => [](SinCarrera => UnLugar)
<1>1. ASSUME Base, SinDuplicados, Serie, SinCarrera PROVE UnLugar
  <2> SUFFICES ASSUME NEW p \in Procesos PROVE \E x \in Lugares(p) : Lugares(p) = {x}
    BY DEF UnLugar
  <2>1. Ubicado(p)
    BY <1>1 DEF Serie, Justos
  <2>2. /\ ready \in Seq(Procesos) /\ exec \in Seq(Procesos) /\ enIO \in Seq(Procesos)
        /\ \A r \in NombresRecurso : espera[r] \in Seq(Procesos)
    BY <1>1, Tipos DEF Base
  <2>3. \E x : x \in Lugares(p)
    <3>1. CASE p \in ToSet(ready)
      <4>1. PICK k \in 1..Len(ready) : ready[k] = p
        BY <2>2, <3>1, ElementosDe
      <4>2. <<"READY", k>> \in Lugares(p)
        BY <4>1, LugaresDe
      <4>3. QED
        BY <4>2
    <3>2. CASE p \in ToSet(exec)
      <4>1. PICK k \in 1..Len(exec) : exec[k] = p
        BY <2>2, <3>2, ElementosDe
      <4>2. <<"EXEC", k>> \in Lugares(p)
        BY <4>1, LugaresDe
      <4>3. QED
        BY <4>2
    <3>3. CASE p \in ToSet(enIO)
      <4>1. PICK k \in 1..Len(enIO) : enIO[k] = p
        BY <2>2, <3>3, ElementosDe
      <4>2. <<"IO", k>> \in Lugares(p)
        BY <4>1, LugaresDe
      <4>3. QED
        BY <4>2
    <3>4. CASE EnEspera(p)
      <4>1. PICK r \in NombresRecurso : p \in ToSet(espera[r])
        BY <3>4 DEF EnEspera
      <4>2. PICK k \in 1..Len(espera[r]) : espera[r][k] = p
        BY <2>2, <4>1, ElementosDe
      <4>3. <<"espera", r, k>> \in Lugares(p)
        BY <4>2, LugaresDe
      <4>4. QED
        BY <4>3
    <3>5. CASE p \in salida
      <4>1. <<"EXIT", p>> \in Lugares(p)
        BY <3>5, LugaresDe
      <4>2. QED
        BY <4>1
    <3>6. CASE EnPermiso(p)
      <4>1. <<"cp", p>> \in Lugares(p)
        BY <3>6, LugaresDe DEF EnPermiso
      <4>2. QED
        BY <4>1
    <3>7. CASE EnLibera(p)
      <4>1. PICK h \in Hilos : libera[h].pid = p
        BY <3>7 DEF EnLibera
      <4>2. <<"libera", h>> \in Lugares(p)
        BY <4>1, LugaresDe
      <4>3. QED
        BY <4>2
    <3>8. QED
      BY <2>1, <3>1, <3>2, <3>3, <3>4, <3>5, <3>6, <3>7 DEF Ubicado
  <2>4. \A x, y \in Lugares(p) : x = y
    BY <1>1 DEF SinDuplicados
  <2>5. QED
    BY <2>3, <2>4
<1>2. QED
  BY <1>1, BaseSiempre, SinDuplicadosSiempre, SerieSiempre, PTL

(* Without kills in the queue of an interface and without a lost one its   *)
(* thread never releases resources.                                        *)
LEMMA SinCarreraSiempre ==
    ASSUME Desconecta = FALSE, "IO" \notin MataEn
    PROVE  Spec => []SinCarrera
<1>1. Init => SinCarrera
  BY DEF Init, SinCarrera
<1>2. ASSUME SinCarrera, [Next]_vars PROVE SinCarrera'
  <2>1. ~IODesconecta /\ ~IOSale /\ \A p : ~MataEnIO(p)
    BY <1>2 DEF SinCarrera, IODesconecta, IOSale, MataEnIO, Mata
  <2>2. UNCHANGED <<io, redirigidos>>
    <3>1. CASE UNCHANGED vars
      BY <3>1 DEF vars
    <3>2. CASE Next
      BY <2>1, <3>2 DEF Next, CortoPlazo, Pedido, Despacha, RecibeQuantum, RecibeIO, RecibeFin,
         RecibePedido, Recibe, WaitGuarda, WaitConcede, WaitNoAlcanza, WaitRemira, WaitEncola,
         SignalGuarda, SignalMira, SignalSaca, SignalSigue, CPU, CPURecibe, CPUInterrumpe, CPUAviso,
         CPUAvisoAjeno, CPUPide, CPUSale, Devuelve, InterruptLlega, HiloIO, IOCompleta, IODrena,
         Matar, MataEnReady, MataEnExec, MataEnEspera, Mata, Libera, LiberarLee, LiberarGuarda,
         LiberarMira, LiberarSaca, LiberarTermina
    <3>3. QED
      BY <1>2, <3>1, <3>2
  <2>3. QED
    BY <1>2, <2>2 DEF SinCarrera
<1>3. QED
  BY <1>1, <1>2, PTL DEF Spec

(* When the thread of an interface never releases resources every pcb is   *)
(* in exactly one place in every state.                                    *)
THEOREM UnLugarSiempre ==
    ASSUME Desconecta = FALSE, "IO" \notin MataEn
    PROVE  Spec => []UnLugar
BY SinCarreraSiempre, UnLugarEnSerie, PTL

(* There are finitely many units.                                          *)
LEMMA FichasFinitas ==
    ASSUME NEW f \in [Procesos -> Nat]
    PROVE  IsFiniteSet(Fichas(f)) /\ Cardinality(Fichas(f)) \in Nat
<1> DEFINE U == {{p} \X (1..f[p]) : p \in Procesos}
           g == [p \in Procesos |-> {p} \X (1..f[p])]
<1>1. IsFiniteSet(Procesos)
  BY RecursosAssumption
<1>2. g \in Surjection(Procesos, U)
  <2>1. g \in [Procesos -> U] /\ \A t \in U : \E s \in Procesos : g[s] = t
    OBVIOUS
  <2>2. QED
    BY <2>1, Fun_IsSurj
<1>3. IsFiniteSet(U)
  BY <1>1, <1>2, FS_Surjection
<1>4. ASSUME NEW T \in U PROVE IsFiniteSet(T)
  <2>1. PICK p \in Procesos : T = {p} \X (1..f[p])
    OBVIOUS
  <2>2. IsFiniteSet({p}) /\ IsFiniteSet(1..f[p])
    <3>1. f[p] \in Int /\ 1 \in Int
      OBVIOUS
    <3>2. QED
      BY <3>1, FS_Interval, FS_Singleton
  <2>3. QED
    BY <2>1, <2>2, FS_Product
<1>5. IsFiniteSet(UNION U)
  BY <1>3, <1>4, FS_UNION
<1>6. QED
  BY <1>5, FS_CardinalityType DEF Fichas

(* One process has one unit more: there is one unit more.                  *)
LEMMA UnaFichaMas ==
    ASSUME NEW f \in [Procesos -> Nat], NEW g \in [Procesos -> Nat], NEW x \in Procesos,
           g[x] = f[x] + 1, \A p \in Procesos \ {x} : g[p] = f[p]
    PROVE  Cardinality(Fichas(g)) = Cardinality(Fichas(f)) + 1
<1> DEFINE y == <<x, f[x] + 1>>
<1>1. \A z : z \in Fichas(f) <=> \E p \in Procesos : z \in {p} \X (1..f[p])
  BY DEF Fichas
<1>2. \A z : z \in Fichas(g) <=> \E p \in Procesos : z \in {p} \X (1..g[p])
  BY DEF Fichas
<1>3. \A p \in Procesos : \A z : (z \in {p} \X (1..f[p])) <=> (\E i \in 1..f[p] : z = <<p, i>>)
  OBVIOUS
<1>4. \A p \in Procesos : \A z : (z \in {p} \X (1..g[p])) <=> (\E i \in 1..g[p] : z = <<p, i>>)
  OBVIOUS
<1>5. \A z : z \in Fichas(f) <=> \E p \in Procesos : \E i \in 1..f[p] : z = <<p, i>>
  BY <1>1, <1>3
<1>6. \A z : z \in Fichas(g) <=> \E p \in Procesos : \E i \in 1..g[p] : z = <<p, i>>
  BY <1>2, <1>4
<1>7. f[x] \in Nat /\ g[x] = f[x] + 1
  OBVIOUS
<1>8. y \notin Fichas(f)
  <2>1. ASSUME NEW p \in Procesos, NEW i \in 1..f[p], y = <<p, i>> PROVE FALSE
    <3>1. p = x /\ i = f[x] + 1
      BY <2>1
    <3>2. QED
      BY <2>1, <3>1, <1>7
  <2>2. QED
    BY <2>1, <1>5
<1>9. Fichas(g) = Fichas(f) \cup {y}
  <2>1. ASSUME NEW z \in Fichas(g) PROVE z \in Fichas(f) \cup {y}
    <3>0. PICK p \in Procesos : \E i \in 1..g[p] : z = <<p, i>>
      BY <1>6
    <3>1. PICK i \in 1..g[p] : z = <<p, i>>
      BY <3>0
    <3>2. CASE p = x /\ i = f[x] + 1
      BY <3>1, <3>2
    <3>3. CASE ~(p = x /\ i = f[x] + 1)
      <4>1. i \in 1..f[p]
        <5>1. CASE p = x
          BY <3>3, <5>1, <1>7
        <5>2. CASE p # x
          BY <5>2
        <5>3. QED
          BY <5>1, <5>2
      <4>2. QED
        BY <3>1, <4>1, <1>5
    <3>4. QED
      BY <3>2, <3>3
  <2>2. ASSUME NEW z \in Fichas(f) PROVE z \in Fichas(g)
    <3>0. PICK p \in Procesos : \E i \in 1..f[p] : z = <<p, i>>
      BY <1>5
    <3>1. PICK i \in 1..f[p] : z = <<p, i>>
      BY <3>0
    <3>2. i \in 1..g[p]
      <4>1. CASE p = x
        BY <4>1, <1>7
      <4>2. CASE p # x
        BY <4>2
      <4>3. QED
        BY <4>1, <4>2
    <3>3. QED
      BY <3>1, <3>2, <1>6
  <2>3. y \in Fichas(g)
    <3>1. f[x] + 1 \in 1..g[x]
      BY <1>7
    <3>2. QED
      BY <3>1, <1>6
  <2>4. QED
    BY <2>1, <2>2, <2>3
<1> HIDE DEF y
<1>10. IsFiniteSet(Fichas(f))
  BY FichasFinitas
<1>11. QED
  BY <1>8, <1>9, <1>10, FS_AddElement

(* The units the processes have, as a function.                            *)
LEMMA TomadasDe ==
    ASSUME TypeOK, NEW CONSTANT q \in NombresRecurso
    PROVE  \E f \in [Procesos -> Nat] :
             /\ \A p \in Procesos : f[p] = tiene[p][q]
             /\ Tomadas(q) = Fichas(f)
<1>1. tiene \in [Procesos -> [NombresRecurso -> Nat]]
  BY Tipos
<1>2. [p \in Procesos |-> tiene[p][q]] \in [Procesos -> Nat]
  BY <1>1
<1>3. QED
  BY <1>2 DEF Tomadas

(* TomadasDe in the next state.                                            *)
LEMMA TomadasDespues ==
    ASSUME NEW CONSTANT q \in NombresRecurso
    PROVE  (TypeOK => \E f \in [Procesos -> Nat] :
             /\ \A p \in Procesos : f[p] = tiene[p][q]
             /\ Tomadas(q) = Fichas(f))'
<1>1. TypeOK => \E f \in [Procesos -> Nat] :
             /\ \A p \in Procesos : f[p] = tiene[p][q]
             /\ Tomadas(q) = Fichas(f)
  BY TomadasDe
<1>2. QED
  BY <1>1, PTL

(* How the number of units taken changes with what one process has.        *)
LEMMA TomadasMueven ==
    ASSUME TypeOK, TypeOK', NEW CONSTANT q \in NombresRecurso
    PROVE  /\ Cardinality(Tomadas(q)) \in Nat /\ Cardinality(Tomadas(q)') \in Nat
           /\ (\A p \in Procesos : tiene'[p][q] = tiene[p][q]) => Tomadas(q)' = Tomadas(q)
           /\ \A x \in Procesos :
                (\A p \in Procesos \ {x} : tiene'[p][q] = tiene[p][q]) =>
                /\ tiene'[x][q] = tiene[x][q] + 1 =>
                     Cardinality(Tomadas(q)') = Cardinality(Tomadas(q)) + 1
                /\ tiene'[x][q] + 1 = tiene[x][q] =>
                     Cardinality(Tomadas(q)) = Cardinality(Tomadas(q)') + 1
<1>1. PICK f \in [Procesos -> Nat] : /\ \A p \in Procesos : f[p] = tiene[p][q]
                                    /\ Tomadas(q) = Fichas(f)
  BY TomadasDe
<1>2. \E g \in [Procesos -> Nat] : /\ \A p \in Procesos : g[p] = tiene'[p][q]
                                   /\ Tomadas(q)' = Fichas(g)
  BY TomadasDespues
<1>3. PICK g \in [Procesos -> Nat] : /\ \A p \in Procesos : g[p] = tiene'[p][q]
                                    /\ Tomadas(q)' = Fichas(g)
  BY <1>2
<1>4. Cardinality(Tomadas(q)) \in Nat /\ Cardinality(Tomadas(q)') \in Nat
  BY <1>1, <1>3, FichasFinitas
<1>5. ASSUME \A p \in Procesos : tiene'[p][q] = tiene[p][q]
      PROVE  Tomadas(q)' = Tomadas(q)
  <2>1. f = g
    BY <1>1, <1>3, <1>5
  <2>2. QED
    BY <2>1, <1>1, <1>3
<1>6. ASSUME NEW x \in Procesos, \A p \in Procesos \ {x} : tiene'[p][q] = tiene[p][q]
      PROVE  /\ tiene'[x][q] = tiene[x][q] + 1 =>
                  Cardinality(Tomadas(q)') = Cardinality(Tomadas(q)) + 1
             /\ tiene'[x][q] + 1 = tiene[x][q] =>
                  Cardinality(Tomadas(q)) = Cardinality(Tomadas(q)') + 1
  <2>1. \A p \in Procesos \ {x} : g[p] = f[p] /\ f[p] = g[p]
    BY <1>1, <1>3, <1>6
  <2>2. ASSUME tiene'[x][q] = tiene[x][q] + 1
        PROVE  Cardinality(Tomadas(q)') = Cardinality(Tomadas(q)) + 1
    <3>1. g[x] = f[x] + 1
      BY <1>1, <1>3, <2>2
    <3>2. Cardinality(Fichas(g)) = Cardinality(Fichas(f)) + 1
      BY <2>1, <3>1, UnaFichaMas
    <3>3. QED
      BY <1>1, <1>3, <3>2
  <2>3. ASSUME tiene'[x][q] + 1 = tiene[x][q]
        PROVE  Cardinality(Tomadas(q)) = Cardinality(Tomadas(q)') + 1
    <3>1. f[x] = g[x] + 1
      BY <1>1, <1>3, <2>3
    <3>2. Cardinality(Fichas(f)) = Cardinality(Fichas(g)) + 1
      BY <2>1, <3>1, UnaFichaMas
    <3>3. QED
      BY <1>1, <1>3, <3>2
  <2>4. QED
    BY <2>2, <2>3
<1>7. QED
  BY <1>4, <1>5, <1>6

(* What a process owes: nothing when it ended, what its release has left,  *)
(* or what it uses.                                                        *)
LEMMA DebeDe ==
    ASSUME Base, NEW CONSTANT p \in Procesos, NEW CONSTANT q \in NombresRecurso
    PROVE  /\ p \in salida => Debe(p, q) = 0
           /\ p \notin salida /\ ~EnLibera(p) => Debe(p, q) = usadas[p][q]
           /\ \A h \in Hilos : libera[h].pid = p => Debe(p, q) = libera[h].faltan[q]
           /\ Debe(p, q) \in Nat
<1>1. /\ \A h, k \in Hilos : libera[h].pid = p /\ libera[k].pid = p => h = k
      /\ p \in salida => ~EnLibera(p)
  BY DEF Base, Separados
<1>2. p \in salida => Debe(p, q) = 0
  BY DEF Debe
<1>3. p \notin salida /\ ~EnLibera(p) => Debe(p, q) = usadas[p][q]
  BY DEF Debe, EnLibera
<1>4. ASSUME NEW h \in Hilos, libera[h].pid = p PROVE Debe(p, q) = libera[h].faltan[q]
  <2>1. EnLibera(p) /\ p \notin salida
    BY <1>1, <1>4 DEF EnLibera
  <2>2. (CHOOSE k \in Hilos : libera[k].pid = p) = h
    BY <1>1, <1>4
  <2>3. QED
    BY <2>1, <2>2, <1>4 DEF Debe
<1>5. Debe(p, q) \in Nat
  <2>1. /\ libera \in [Hilos -> EstadosLibera] /\ usadas \in [Procesos -> [NombresRecurso -> Nat]]
    BY Tipos DEF Base
  <2>2. \A h \in Hilos : libera[h].faltan[q] \in Nat
    BY <2>1 DEF EstadosLibera
  <2>3. usadas[p][q] \in Nat
    BY <2>1
  <2>4. QED
    BY <1>2, <1>3, <1>4, <2>2, <2>3 DEF EnLibera
<1>6. QED
  BY <1>2, <1>3, <1>4, <1>5

(* DebeDe in the next state.                                               *)
LEMMA DebeDespues ==
    ASSUME NEW CONSTANT p \in Procesos, NEW CONSTANT q \in NombresRecurso
    PROVE  (Base => /\ p \in salida => Debe(p, q) = 0
                    /\ p \notin salida /\ ~EnLibera(p) => Debe(p, q) = usadas[p][q]
                    /\ \A h \in Hilos : libera[h].pid = p => Debe(p, q) = libera[h].faltan[q]
                    /\ Debe(p, q) \in Nat)'
<1>1. Base => /\ p \in salida => Debe(p, q) = 0
              /\ p \notin salida /\ ~EnLibera(p) => Debe(p, q) = usadas[p][q]
              /\ \A h \in Hilos : libera[h].pid = p => Debe(p, q) = libera[h].faltan[q]
              /\ Debe(p, q) \in Nat
  BY DebeDe
<1>2. QED
  BY <1>1, PTL

(* The units the processes owe, as a function.                             *)
LEMMA DeudasDe ==
    ASSUME Base, NEW CONSTANT q \in NombresRecurso
    PROVE  \E f \in [Procesos -> Nat] :
             /\ \A p \in Procesos : f[p] = Debe(p, q)
             /\ Deudas(q) = Fichas(f)
<1> DEFINE f == [p \in Procesos |-> Debe(p, q)]
<1>1. f \in [Procesos -> Nat]
  BY DebeDe
<1>2. \A p \in Procesos : f[p] = Debe(p, q)
  OBVIOUS
<1>3. Deudas(q) = Fichas(f)
  BY DEF Deudas
<1>4. QED
  BY <1>1, <1>2, <1>3

(* DeudasDe in the next state.                                             *)
LEMMA DeudasDespues ==
    ASSUME NEW CONSTANT q \in NombresRecurso
    PROVE  (Base => \E f \in [Procesos -> Nat] :
             /\ \A p \in Procesos : f[p] = Debe(p, q)
             /\ Deudas(q) = Fichas(f))'
<1>1. Base => \E f \in [Procesos -> Nat] :
             /\ \A p \in Procesos : f[p] = Debe(p, q)
             /\ Deudas(q) = Fichas(f)
  BY DeudasDe
<1>2. QED
  BY <1>1, PTL

(* How the number of units owed changes with what one process owes.        *)
LEMMA DeudasMueven ==
    ASSUME Base, Base', NEW CONSTANT q \in NombresRecurso
    PROVE  /\ Cardinality(Deudas(q)) \in Nat /\ Cardinality(Deudas(q)') \in Nat
           /\ (\A p \in Procesos : Debe(p, q)' = Debe(p, q)) => Deudas(q)' = Deudas(q)
           /\ \A x \in Procesos :
                (\A p \in Procesos \ {x} : Debe(p, q)' = Debe(p, q)) =>
                /\ Debe(x, q)' = Debe(x, q) + 1 =>
                     Cardinality(Deudas(q)') = Cardinality(Deudas(q)) + 1
                /\ Debe(x, q)' + 1 = Debe(x, q) =>
                     Cardinality(Deudas(q)) = Cardinality(Deudas(q)') + 1
<1>1. PICK f \in [Procesos -> Nat] : /\ \A p \in Procesos : f[p] = Debe(p, q)
                                    /\ Deudas(q) = Fichas(f)
  BY DeudasDe
<1>2. \E g \in [Procesos -> Nat] : /\ \A p \in Procesos : g[p] = Debe(p, q)'
                                   /\ Deudas(q)' = Fichas(g)
  BY DeudasDespues
<1>3. PICK g \in [Procesos -> Nat] : /\ \A p \in Procesos : g[p] = Debe(p, q)'
                                    /\ Deudas(q)' = Fichas(g)
  BY <1>2
<1>4. Cardinality(Deudas(q)) \in Nat /\ Cardinality(Deudas(q)') \in Nat
  BY <1>1, <1>3, FichasFinitas
<1>5. ASSUME \A p \in Procesos : Debe(p, q)' = Debe(p, q)
      PROVE  Deudas(q)' = Deudas(q)
  <2>1. f = g
    BY <1>1, <1>3, <1>5
  <2>2. QED
    BY <2>1, <1>1, <1>3
<1>6. ASSUME NEW x \in Procesos, \A p \in Procesos \ {x} : Debe(p, q)' = Debe(p, q)
      PROVE  /\ Debe(x, q)' = Debe(x, q) + 1 =>
                  Cardinality(Deudas(q)') = Cardinality(Deudas(q)) + 1
             /\ Debe(x, q)' + 1 = Debe(x, q) =>
                  Cardinality(Deudas(q)) = Cardinality(Deudas(q)') + 1
  <2>1. \A p \in Procesos \ {x} : g[p] = f[p] /\ f[p] = g[p]
    BY <1>1, <1>3, <1>6
  <2>2. ASSUME Debe(x, q)' = Debe(x, q) + 1
        PROVE  Cardinality(Deudas(q)') = Cardinality(Deudas(q)) + 1
    <3>1. g[x] = f[x] + 1
      BY <1>1, <1>3, <2>2
    <3>2. Cardinality(Fichas(g)) = Cardinality(Fichas(f)) + 1
      BY <2>1, <3>1, UnaFichaMas
    <3>3. QED
      BY <1>1, <1>3, <3>2
  <2>3. ASSUME Debe(x, q)' + 1 = Debe(x, q)
        PROVE  Cardinality(Deudas(q)) = Cardinality(Deudas(q)') + 1
    <3>1. f[x] = g[x] + 1
      BY <1>1, <1>3, <2>3
    <3>2. Cardinality(Fichas(f)) = Cardinality(Fichas(g)) + 1
      BY <2>1, <3>1, UnaFichaMas
    <3>3. QED
      BY <1>1, <1>3, <3>2
  <2>4. QED
    BY <2>2, <2>3
<1>7. QED
  BY <1>4, <1>5, <1>6

(* The ranges of what is counted.                                          *)
LEMMA MedidasDe ==
    ASSUME Base, NEW CONSTANT q \in NombresRecurso
    PROVE  /\ instancias[q] \in Int /\ Len(espera[q]) \in Nat
           /\ espera[q] = <<>> <=> Len(espera[q]) = 0
           /\ Pedida(q) \in {0, 1} /\ Devuelta(q) \in {0, 1}
           /\ \A h \in Hilos : DeMas(h, q) \in {0, 1}
<1>1. /\ instancias \in [NombresRecurso -> Int] /\ espera \in [NombresRecurso -> Seq(Procesos)]
      /\ tiene \in [Procesos -> [NombresRecurso -> Nat]]
      /\ libera \in [Hilos -> EstadosLibera]
  BY Tipos DEF Base
<1>2. espera[q] = <<>> <=> Len(espera[q]) = 0
  <2>1. espera[q] \in Seq(Procesos)
    BY <1>1
  <2>2. QED
    BY <2>1, ElementosDe
<1>3. Pedida(q) \in {0, 1} /\ Devuelta(q) \in {0, 1}
  BY DEF Pedida, Devuelta
<1>4. ASSUME NEW h \in Hilos PROVE DeMas(h, q) \in {0, 1}
  <2>1. CASE Liberando(h)
    <3>1. PICK p \in Procesos : p = libera[h].pid
      BY <1>1, <2>1 DEF Liberando, EstadosLibera
    <3>2. libera[h].faltan[q] \in {tiene[p][q], tiene[p][q] + 1}
      BY <3>1 DEF Base, Cuentas, CuentasDe
    <3>3. tiene[p][q] \in Nat
      BY <1>1
    <3>4. libera[h].faltan[q] - tiene[p][q] \in {0, 1}
      BY <3>2, <3>3
    <3>5. QED
      BY <2>1, <3>1, <3>4 DEF DeMas
  <2>2. QED
    BY <2>1 DEF DeMas
<1>5. QED
  BY <1>1, <1>2, <1>3, <1>4

(* MedidasDe in the next state.                                            *)
LEMMA MedidasDespues ==
    ASSUME NEW CONSTANT q \in NombresRecurso
    PROVE  (Base => /\ instancias[q] \in Int /\ Len(espera[q]) \in Nat
                    /\ espera[q] = <<>> <=> Len(espera[q]) = 0
                    /\ Pedida(q) \in {0, 1} /\ Devuelta(q) \in {0, 1}
                    /\ \A h \in Hilos : DeMas(h, q) \in {0, 1})'
<1>1. Base => /\ instancias[q] \in Int /\ Len(espera[q]) \in Nat
              /\ espera[q] = <<>> <=> Len(espera[q]) = 0
              /\ Pedida(q) \in {0, 1} /\ Devuelta(q) \in {0, 1}
              /\ \A h \in Hilos : DeMas(h, q) \in {0, 1}
  BY MedidasDe
<1>2. QED
  BY <1>1, PTL

(* The ranges of what is counted, before and after a step.                 *)
LEMMA Medidas ==
    ASSUME Base, Base', NEW CONSTANT q \in NombresRecurso
    PROVE  /\ instancias[q] \in Int /\ instancias'[q] \in Int /\ Instancias[q] \in Nat
           /\ Len(espera[q]) \in Nat /\ Len(espera'[q]) \in Nat
           /\ espera[q] = <<>> <=> Len(espera[q]) = 0
           /\ espera'[q] = <<>> <=> Len(espera'[q]) = 0
           /\ Pedida(q) \in {0, 1} /\ Pedida(q)' \in {0, 1}
           /\ Devuelta(q) \in {0, 1} /\ Devuelta(q)' \in {0, 1}
           /\ DeMas("mata", q) \in {0, 1} /\ DeMas("mata", q)' \in {0, 1}
           /\ DeMas("cp", q) \in {0, 1} /\ DeMas("cp", q)' \in {0, 1}
           /\ Cardinality(Tomadas(q)) \in Nat /\ Cardinality(Tomadas(q)') \in Nat
           /\ Cardinality(Deudas(q)) \in Nat /\ Cardinality(Deudas(q)') \in Nat
<1>1. "mata" \in Hilos /\ "cp" \in Hilos /\ Instancias[q] \in Nat
  BY RecursosAssumption DEF Hilos
<1>2. /\ instancias[q] \in Int /\ Len(espera[q]) \in Nat
      /\ espera[q] = <<>> <=> Len(espera[q]) = 0
      /\ Pedida(q) \in {0, 1} /\ Devuelta(q) \in {0, 1}
      /\ DeMas("mata", q) \in {0, 1} /\ DeMas("cp", q) \in {0, 1}
  BY <1>1, MedidasDe
<1>3. /\ instancias'[q] \in Int /\ Len(espera'[q]) \in Nat
      /\ espera'[q] = <<>> <=> Len(espera'[q]) = 0
      /\ Pedida(q)' \in {0, 1} /\ Devuelta(q)' \in {0, 1}
      /\ \A h \in Hilos : DeMas(h, q)' \in {0, 1}
  BY MedidasDespues
<1>4. DeMas("mata", q)' \in {0, 1} /\ DeMas("cp", q)' \in {0, 1}
  BY <1>1, <1>3
<1>5. /\ Cardinality(Tomadas(q)) \in Nat /\ Cardinality(Tomadas(q)') \in Nat
      /\ Cardinality(Deudas(q)) \in Nat /\ Cardinality(Deudas(q)') \in Nat
  <2>1. TypeOK /\ TypeOK'
    BY DEF Base
  <2>2. QED
    BY <2>1, TomadasMueven, DeudasMueven
<1>6. QED
  BY <1>1, <1>2, <1>3, <1>4, <1>5

(* A process owes the same when the step is not about it.                  *)
LEMMA DebeIgual ==
    ASSUME Base, Base', NEW CONSTANT p \in Procesos, NEW CONSTANT q \in NombresRecurso,
           p \in salida' <=> p \in salida, usadas'[p][q] = usadas[p][q],
           \A h \in Hilos : /\ libera'[h].pid = p <=> libera[h].pid = p
                            /\ libera[h].pid = p => libera'[h].faltan[q] = libera[h].faltan[q]
    PROVE  Debe(p, q)' = Debe(p, q)
<1>1. /\ p \in salida => Debe(p, q) = 0
      /\ p \notin salida /\ ~EnLibera(p) => Debe(p, q) = usadas[p][q]
      /\ \A h \in Hilos : libera[h].pid = p => Debe(p, q) = libera[h].faltan[q]
  BY DebeDe
<1>2. /\ p \in salida' => Debe(p, q)' = 0
      /\ p \notin salida' /\ ~EnLibera(p)' => Debe(p, q)' = usadas'[p][q]
      /\ \A h \in Hilos : libera'[h].pid = p => Debe(p, q)' = libera'[h].faltan[q]
  BY DebeDespues
<1>3. CASE p \in salida
  BY <1>1, <1>2, <1>3
<1>4. CASE p \notin salida /\ ~EnLibera(p)
  <2>1. p \notin salida' /\ ~EnLibera(p)'
    BY <1>4 DEF EnLibera
  <2>2. QED
    BY <1>1, <1>2, <1>4, <2>1
<1>5. CASE EnLibera(p)
  <2>1. PICK h \in Hilos : libera[h].pid = p
    BY <1>5 DEF EnLibera
  <2>2. QED
    BY <1>1, <1>2, <2>1
<1>6. QED
  BY <1>3, <1>4, <1>5

(* The accounts of a resource after a step that takes a unit for a process, *)
(* gives one back, or leaves them alone.                                   *)
LEMMA CuadradoSigue ==
    ASSUME Base, Base', NEW CONSTANT q \in NombresRecurso, Cuadrado(q),
           \/ /\ instancias'[q] = instancias[q] /\ \A p \in Procesos : Debe(p, q)' = Debe(p, q)
           \/ \E x \in Procesos :
                /\ \A p \in Procesos \ {x} : Debe(p, q)' = Debe(p, q)
                /\ \/ instancias'[q] = instancias[q] - 1 /\ Debe(x, q)' = Debe(x, q) + 1
                   \/ instancias'[q] = instancias[q] + 1 /\ Debe(x, q)' + 1 = Debe(x, q)
    PROVE  Cuadrado(q)'
<1>1. /\ instancias[q] \in Int /\ instancias'[q] \in Int /\ Instancias[q] \in Nat
      /\ Cardinality(Deudas(q)) \in Nat /\ Cardinality(Deudas(q)') \in Nat
  BY Medidas
<1>2. instancias[q] + Cardinality(Deudas(q)) = Instancias[q]
  BY DEF Cuadrado
<1>3. CASE /\ instancias'[q] = instancias[q] /\ \A p \in Procesos : Debe(p, q)' = Debe(p, q)
  <2>1. Deudas(q)' = Deudas(q)
    BY <1>3, DeudasMueven
  <2>2. QED
    BY <1>2, <1>3, <2>1 DEF Cuadrado
<1>4. ASSUME NEW x \in Procesos, \A p \in Procesos \ {x} : Debe(p, q)' = Debe(p, q),
             instancias'[q] = instancias[q] - 1, Debe(x, q)' = Debe(x, q) + 1
      PROVE  Cuadrado(q)'
  <2>1. Cardinality(Deudas(q)') = Cardinality(Deudas(q)) + 1
    BY <1>4, DeudasMueven
  <2>2. instancias'[q] + Cardinality(Deudas(q)') = Instancias[q]
    BY <1>1, <1>2, <1>4, <2>1
  <2>3. QED
    BY <2>2 DEF Cuadrado
<1>5. ASSUME NEW x \in Procesos, \A p \in Procesos \ {x} : Debe(p, q)' = Debe(p, q),
             instancias'[q] = instancias[q] + 1, Debe(x, q)' + 1 = Debe(x, q)
      PROVE  Cuadrado(q)'
  <2>1. Cardinality(Deudas(q)) = Cardinality(Deudas(q)') + 1
    BY <1>5, DeudasMueven
  <2>2. instancias'[q] + Cardinality(Deudas(q)') = Instancias[q]
    BY <1>1, <1>2, <1>5, <2>1
  <2>3. QED
    BY <2>2 DEF Cuadrado
<1>6. QED
  BY <1>3, <1>4, <1>5

Contadas == \A r \in NombresRecurso : Cuadrado(r) /\ Ordenado(r)

(* A release has the same surplus when the step is not about it.           *)
LEMMA DeMasIgual ==
    ASSUME NEW CONSTANT h \in Hilos, NEW CONSTANT q \in NombresRecurso,
           libera'[h].pid = libera[h].pid, libera'[h].faltan[q] = libera[h].faltan[q],
           Liberando(h) => tiene'[libera[h].pid][q] = tiene[libera[h].pid][q]
    PROVE  DeMas(h, q)' = DeMas(h, q)
BY DEF DeMas, Liberando

(* The count of a resource in a step that changes none of its terms, but   *)
(* the unit given back when nobody waits for it.                           *)
LEMMA OrdenadoIgual ==
    ASSUME Base, Base', NEW CONSTANT q \in NombresRecurso, Ordenado(q),
           instancias'[q] = instancias[q], espera'[q] = espera[q], Pedida(q)' = Pedida(q),
           Devuelta(q)' = Devuelta(q) \/ (Devuelta(q)' = 0 /\ espera[q] = <<>>),
           DeMas("mata", q)' = DeMas("mata", q), DeMas("cp", q)' = DeMas("cp", q),
           \A p \in Procesos : tiene'[p][q] = tiene[p][q]
    PROVE  Ordenado(q)'
<1>1. /\ instancias[q] \in Int /\ Len(espera[q]) \in Nat
      /\ Pedida(q) \in {0, 1} /\ Devuelta(q) \in {0, 1} /\ Devuelta(q)' \in {0, 1}
  BY Medidas
<1>2. Tomadas(q)' = Tomadas(q)
  <2>1. TypeOK /\ TypeOK'
    BY DEF Base
  <2>2. QED
    BY <2>1, TomadasMueven
<1>3. espera'[q] # <<>> => instancias'[q] + Len(espera'[q]) + Pedida(q)' <= Devuelta(q)'
  <2>1. espera[q] # <<>> => instancias[q] + Len(espera[q]) + Pedida(q) <= Devuelta(q)
    BY DEF Ordenado
  <2>2. QED
    BY <2>1, <1>1
<1>4. SinMatarEspera => Devuelta(q)' <= instancias'[q] + Len(espera'[q]) + Pedida(q)'
  <2>1. SinMatarEspera => Devuelta(q) <= instancias[q] + Len(espera[q]) + Pedida(q)
    BY DEF Ordenado
  <2>2. QED
    BY <2>1, <1>1
<1>5. QED
  BY <1>2, <1>3, <1>4 DEF Ordenado

(* The counts in a step that moves no unit.                                *)
LEMMA NadaCuenta ==
    ASSUME Base, Base', Contadas, UNCHANGED <<instancias, usadas, tiene, salida, espera>>,
           \A h \in Hilos : libera'[h].pid = libera[h].pid /\ libera'[h].faltan = libera[h].faltan,
           \A q \in NombresRecurso :
             /\ Pedida(q)' = Pedida(q)
             /\ Devuelta(q)' = Devuelta(q) \/ (Devuelta(q)' = 0 /\ espera[q] = <<>>)
    PROVE  Contadas'
<1> SUFFICES ASSUME NEW CONSTANT q \in NombresRecurso PROVE Cuadrado(q)' /\ Ordenado(q)'
  BY DEF Contadas
<1>1. Cuadrado(q) /\ Ordenado(q)
  BY DEF Contadas
<1>2. \A p \in Procesos : Debe(p, q)' = Debe(p, q)
  BY DebeIgual
<1>3. Cuadrado(q)'
  BY <1>1, <1>2, CuadradoSigue
<1>4. \A h \in Hilos : DeMas(h, q)' = DeMas(h, q)
  BY DeMasIgual
<1>5. DeMas("mata", q)' = DeMas("mata", q) /\ DeMas("cp", q)' = DeMas("cp", q)
  BY <1>4 DEF Hilos
<1>6. Ordenado(q)'
  BY <1>1, <1>5, OrdenadoIgual
<1>7. QED
  BY <1>3, <1>6

(* A release begins: what the thread has to give back is what the process   *)
(* owed, one unit more than it has if it was waiting for it.               *)
LEMMA EmpiezaCuenta ==
    ASSUME Base, Base', Exclusivos, Contadas,
           NEW CONSTANT h \in {"cp", "mata"}, NEW CONSTANT x \in Procesos, EmpiezaSeccion(h, x)
    PROVE  Contadas'
<1> SUFFICES ASSUME NEW CONSTANT q \in NombresRecurso PROVE Cuadrado(q)' /\ Ordenado(q)'
  BY DEF Contadas
<1>1. /\ UNCHANGED <<instancias, usadas, tiene, salida>> /\ h \in Hilos
      /\ cp.paso \in {"despacha", "recibe"}
      /\ cp'.paso \in {"fin", "fin_invalido", "despacha", "recibe"}
      /\ \A k \in Hilos \ {h} : libera'[k] = libera[k]
      /\ libera'[h].pid = x /\ libera'[h].paso = "suma" /\ libera'[h].faltan = usadas[x]
      /\ x \notin salida /\ ~EnLibera(x)
  BY DEF EmpiezaSeccion, Hilos
<1>2. \A k \in Hilos : Libre(k) /\ libera[k].paso = "suma"
  BY SeccionUnica DEF EmpiezaSeccion
<1>3. Cuadrado(q) /\ Ordenado(q)
  BY DEF Contadas
<1>4. \A p \in Procesos : Debe(p, q)' = Debe(p, q)
  <2>1. Debe(x, q) = usadas[x][q]
    BY <1>1, DebeDe
  <2>2. Debe(x, q)' = libera'[h].faltan[q]
    BY <1>1, DebeDespues
  <2>3. ASSUME NEW p \in Procesos \ {x} PROVE Debe(p, q)' = Debe(p, q)
    <3>1. \A k \in Hilos : libera'[k].pid # p /\ libera[k].pid # p
      BY <1>1, <1>2, RecursosAssumption DEF Libre, Liberando
    <3>2. QED
      BY <1>1, <3>1, DebeIgual
  <2>4. QED
    BY <1>1, <2>1, <2>2, <2>3
<1>5. Cuadrado(q)'
  BY <1>1, <1>3, <1>4, CuadradoSigue
<1>6. Pedida(q) = 0 /\ Pedida(q)' = 0 /\ Devuelta(q) = 0 /\ Devuelta(q)' = 0
  <2>1. \A k \in Hilos : libera'[k].paso = "suma"
    BY <1>1, <1>2
  <2>2. QED
    BY <1>1, <1>2, <2>1 DEF Pedida, Devuelta, PasosWait
<1>7. DeMas("mata", q) = 0 /\ DeMas("cp", q) = 0
  BY <1>2 DEF DeMas, Libre, Hilos
<1>8. Tomadas(q)' = Tomadas(q)
  <2>1. TypeOK /\ TypeOK'
    BY DEF Base
  <2>2. QED
    BY <1>1, <2>1, TomadasMueven
<1>9. /\ \A k \in Hilos \ {h} : DeMas(k, q)' = 0
      /\ DeMas(h, q)' = usadas[x][q] - tiene[x][q]
  BY <1>1, <1>2, RecursosAssumption DEF DeMas, Libre, Liberando
<1>10. /\ usadas[x][q] = tiene[x][q] + (IF x \in ToSet(espera[q]) THEN 1 ELSE 0)
       /\ usadas[x][q] \in Nat /\ tiene[x][q] \in Nat
  <2>1. usadas[x][q] = tiene[x][q] + Esperada(x, q)
    BY DEF EmpiezaSeccion, Base, Cuentas, CuentasDe
  <2>2. Esperada(x, q) = IF x \in ToSet(espera[q]) THEN 1 ELSE 0
    BY <1>1 DEF Esperada, PasosWait
  <2>3. usadas[x][q] \in Nat /\ tiene[x][q] \in Nat
    BY Tipos DEF Base
  <2>4. QED
    BY <2>1, <2>2, <2>3
<1>11. CASE x \notin ToSet(espera[q])
  <2>1. espera'[q] = espera[q]
    BY <1>11 DEF EmpiezaSeccion, Baja
  <2>2. DeMas(h, q)' = 0
    BY <1>9, <1>10, <1>11
  <2>3. DeMas("mata", q)' = 0 /\ DeMas("cp", q)' = 0
    BY <1>9, <2>2 DEF Hilos
  <2>4. Ordenado(q)'
    BY <1>1, <1>3, <1>6, <1>7, <2>1, <2>3, OrdenadoIgual
  <2>5. QED
    BY <1>5, <2>4
<1>12. CASE x \in ToSet(espera[q])
  <2>1. EnEspera(x)
    BY <1>12 DEF EnEspera
  <2>2. PICK r \in NombresRecurso :
          /\ Baja(espera'[r], espera[r], x) /\ h = "mata" /\ ~SinMatarEspera
          /\ \A s \in NombresRecurso \ {r} : espera'[s] = espera[s] /\ x \notin ToSet(espera[s])
    BY <2>1 DEF EmpiezaSeccion
  <2>3. Len(espera'[q]) = Len(espera[q]) - 1 /\ h = "mata"
    <3>1. q = r
      BY <1>12, <2>2
    <3>2. Len(espera'[q]) = Len(espera[q]) - 1
      BY <2>2, <3>1 DEF Baja
    <3>3. QED
      BY <2>2, <3>2
  <2>4. DeMas("mata", q)' = 1 /\ DeMas("cp", q)' = 0
    <3>1. DeMas(h, q)' = 1
      BY <1>9, <1>10, <1>12
    <3>2. QED
      BY <1>9, <2>3, <3>1 DEF Hilos
  <2>5. Ordenado(q)'
    <3>1. /\ instancias[q] \in Int /\ Len(espera[q]) \in Nat /\ Len(espera'[q]) \in Nat
          /\ Cardinality(Tomadas(q)) \in Nat /\ Instancias[q] \in Nat
          /\ espera[q] = <<>> <=> Len(espera[q]) = 0
      BY Medidas
    <3>2. /\ instancias[q] + Cardinality(Tomadas(q)) + Len(espera[q]) + 0 + 0 = Instancias[q]
          /\ Len(espera[q]) > 0 => instancias[q] + Len(espera[q]) + 0 <= 0
      BY <1>3, <1>6, <1>7, <3>1 DEF Ordenado
    <3>3. /\ instancias[q] + Cardinality(Tomadas(q)) + Len(espera'[q]) + 0 + 1 = Instancias[q]
          /\ instancias[q] + Len(espera'[q]) + 0 <= 0
      BY <2>3, <3>1, <3>2
    <3>4. instancias'[q] = instancias[q]
      BY <1>1
    <3>5. QED
      BY <1>6, <1>8, <2>2, <2>4, <3>3, <3>4 DEF Ordenado
  <2>6. QED
    BY <1>5, <2>5
<1>13. QED
  BY <1>11, <1>12

(* The processes that no release is about owe what they use.               *)
LEMMA EnPedidoVisto ==
    ASSUME Base, Exclusivos, EnPedido
    PROVE  /\ cp.pid \in Procesos /\ cp.r \in NombresRecurso
           /\ cp.pid \notin salida
           /\ \A h \in Hilos : Libre(h) /\ libera[h].paso = "suma"
           /\ \A p \in Procesos : ~EnLibera(p)
           /\ \A q \in NombresRecurso : DeMas("mata", q) = 0 /\ DeMas("cp", q) = 0
<1>1. cp.pid \in Procesos /\ cp.r \in NombresRecurso
  BY Tipos DEF Base, Hilero
<1>2. cp.pid \notin salida
  BY <1>1 DEF Base, Separados, EnPermiso
<1>3. \A h \in Hilos : Libre(h) /\ libera[h].paso = "suma"
  BY SeccionUnica
<1>4. \A p \in Procesos : ~EnLibera(p)
  BY <1>3, RecursosAssumption DEF EnLibera, Libre, Liberando
<1>5. \A q \in NombresRecurso : DeMas("mata", q) = 0 /\ DeMas("cp", q) = 0
  BY <1>3 DEF DeMas, Libre, Hilos
<1>6. QED
  BY <1>1, <1>2, <1>3, <1>4, <1>5

(* WAIT and SIGNAL write the units they read: as nobody wrote in between   *)
(* the counts follow.                                                      *)
LEMMA GuardaCuenta ==
    ASSUME Base, Base', Exclusivos, Contadas, WaitGuarda \/ SignalGuarda
    PROVE  Contadas'
<1> SUFFICES ASSUME NEW CONSTANT q \in NombresRecurso PROVE Cuadrado(q)' /\ Ordenado(q)'
  BY DEF Contadas
<1>1. EnPedido /\ PedidoQuieto
  BY DEF EnPedido, PedidoQuieto, WaitGuarda, SignalGuarda
<1>2. /\ cp.pid \notin salida
      /\ \A h \in Hilos : Libre(h) /\ libera[h].paso = "suma"
      /\ \A p \in Procesos : ~EnLibera(p)
      /\ DeMas("mata", q) = 0 /\ DeMas("cp", q) = 0
  BY <1>1, EnPedidoVisto
<1>3. PICK x \in Procesos, r \in NombresRecurso : x = cp.pid /\ r = cp.r
  BY <1>1, EnPedidoVisto
<1>4. /\ UNCHANGED <<espera, salida, libera>>
      /\ WaitGuarda => UNCHANGED tiene
  BY DEF WaitGuarda, SignalGuarda, colas
<1>5. /\ cp'.r = r /\ (WaitGuarda => cp'.paso = "wait_mira")
      /\ (SignalGuarda => cp'.paso = "signal_mira")
  BY <1>1, <1>3, PedidoVisto
<1>6. /\ instancias \in [NombresRecurso -> Int]
      /\ usadas \in [Procesos -> [NombresRecurso -> Nat]]
      /\ tiene \in [Procesos -> [NombresRecurso -> Nat]]
      /\ cp.leido = instancias[r]
  BY <1>3, Tipos DEF Base, Exclusivos, WaitGuarda, SignalGuarda
<1>7. \A s \in NombresRecurso \ {r} : instancias'[s] = instancias[s]
  BY <1>3, <1>6 DEF WaitGuarda, SignalGuarda
<1>8. \A p \in Procesos, s \in NombresRecurso : p # x \/ s # r =>
        usadas'[p][s] = usadas[p][s] /\ tiene'[p][s] = tiene[p][s]
  BY <1>3, <1>6 DEF WaitGuarda, SignalGuarda
<1>9. \A p \in Procesos : p # x \/ q # r => Debe(p, q)' = Debe(p, q)
  BY <1>4, <1>8, DebeIgual
<1>10. Debe(x, q) = usadas[x][q] /\ Debe(x, q)' = usadas'[x][q]
  <2>1. x \notin salida /\ ~EnLibera(x) /\ x \notin salida' /\ ~EnLibera(x)'
    BY <1>2, <1>3, <1>4 DEF EnLibera
  <2>2. QED
    BY <2>1, DebeDe, DebeDespues
<1>11. Cuadrado(q) /\ Ordenado(q)
  BY DEF Contadas
<1>12. /\ DeMas("mata", q)' = 0 /\ DeMas("cp", q)' = 0
       /\ \A h \in Hilos : libera'[h].paso = "suma"
  <2>1. "mata" \in Hilos /\ "cp" \in Hilos
    BY DEF Hilos
  <2>2. QED
    BY <1>2, <1>4, <2>1 DEF DeMas, Libre, Liberando
<1>13. /\ q # r => Pedida(q) = 0 /\ Pedida(q)' = 0 /\ Devuelta(q) = 0 /\ Devuelta(q)' = 0
       /\ Pedida(r) = 0 /\ Devuelta(r) = 0
       /\ WaitGuarda => Pedida(r)' = 1 /\ Devuelta(r)' = 0
       /\ SignalGuarda => Pedida(r)' = 0 /\ Devuelta(r)' = 1
  <2>1. cp.paso \in {"wait_guarda", "signal_guarda"}
    BY DEF WaitGuarda, SignalGuarda
  <2>2. CASE WaitGuarda
    <3>1. ~SignalGuarda
      BY <2>2 DEF WaitGuarda, SignalGuarda
    <3>2. QED
      BY <1>2, <1>3, <1>5, <1>12, <2>1, <2>2, <3>1 DEF Pedida, Devuelta, PasosWait
  <2>3. CASE SignalGuarda
    <3>1. ~WaitGuarda
      BY <2>3 DEF WaitGuarda, SignalGuarda
    <3>2. QED
      BY <1>2, <1>3, <1>5, <1>12, <2>1, <2>3, <3>1 DEF Pedida, Devuelta, PasosWait
  <2>4. QED
    BY <2>2, <2>3
<1>14. CASE q # r
  <2>1. Cuadrado(q)'
    BY <1>7, <1>9, <1>11, <1>14, CuadradoSigue
  <2>2. Ordenado(q)'
    BY <1>2, <1>4, <1>7, <1>8, <1>11, <1>12, <1>13, <1>14, OrdenadoIgual
  <2>3. QED
    BY <2>1, <2>2
<1>15. /\ instancias[r] \in Int /\ Len(espera[r]) \in Nat
       /\ Cardinality(Tomadas(r)) \in Nat /\ Instancias[r] \in Nat
       /\ Cardinality(Tomadas(r)') \in Nat
  BY Medidas
<1>16. CASE q = r /\ WaitGuarda
  <2>1. instancias'[r] = instancias[r] - 1 /\ usadas'[x][r] = usadas[x][r] + 1
    BY <1>3, <1>6, <1>16 DEF WaitGuarda
  <2>2. Cuadrado(q)'
    BY <1>9, <1>10, <1>11, <1>16, <2>1, CuadradoSigue
  <2>3. Tomadas(r)' = Tomadas(r)
    <3>1. TypeOK /\ TypeOK' /\ tiene' = tiene
      BY <1>4, <1>16 DEF Base
    <3>2. QED
      BY <3>1, TomadasMueven
  <2>4. /\ espera[r] # <<>> => instancias[r] + Len(espera[r]) + 0 <= 0
        /\ instancias[r] + Cardinality(Tomadas(r)) + Len(espera[r]) + 0 + 0 = Instancias[r]
        /\ SinMatarEspera => 0 <= instancias[r] + Len(espera[r]) + 0
    BY <1>2, <1>11, <1>13, <1>16 DEF Ordenado
  <2>5. /\ espera[r] # <<>> => (instancias[r] - 1) + Len(espera[r]) + 1 <= 0
        /\ (instancias[r] - 1) + Cardinality(Tomadas(r)) + Len(espera[r]) + 1 + 0 = Instancias[r]
        /\ SinMatarEspera => 0 <= (instancias[r] - 1) + Len(espera[r]) + 1
    BY <1>15, <2>4
  <2>6. Ordenado(q)'
    BY <1>4, <1>12, <1>13, <1>16, <2>1, <2>3, <2>5 DEF Ordenado
  <2>7. QED
    BY <2>2, <2>6
<1>17. CASE q = r /\ SignalGuarda
  <2>1. tiene[x][r] > 0 /\ usadas[x][r] > 0
    <3>1. tiene[x][r] > 0
      BY <1>3, <1>17 DEF Base, Cuentas, CuentasDe, SignalGuarda
    <3>2. usadas[x][r] = tiene[x][r] + Esperada(x, r) /\ Esperada(x, r) \in {0, 1}
      BY <1>3, <1>17 DEF Base, Cuentas, CuentasDe, SignalGuarda, Activo, EnPermiso, Esperada
    <3>3. tiene[x][r] \in Nat
      BY <1>6
    <3>4. QED
      BY <3>1, <3>2, <3>3
  <2>2. /\ instancias'[r] = instancias[r] + 1 /\ usadas'[x][r] = usadas[x][r] - 1
        /\ tiene'[x][r] = tiene[x][r] - 1
    BY <1>3, <1>6, <1>17 DEF SignalGuarda
  <2>3. usadas'[x][r] + 1 = usadas[x][r] /\ tiene'[x][r] + 1 = tiene[x][r]
    <3>1. usadas[x][r] \in Nat /\ tiene[x][r] \in Nat
      BY <1>6
    <3>2. QED
      BY <2>2, <3>1
  <2>4. Cuadrado(q)'
    BY <1>9, <1>10, <1>11, <1>17, <2>2, <2>3, CuadradoSigue
  <2>5. Cardinality(Tomadas(r)) = Cardinality(Tomadas(r)') + 1
    <3>1. TypeOK /\ TypeOK' /\ \A p \in Procesos \ {x} : tiene'[p][r] = tiene[p][r]
      BY <1>8 DEF Base
    <3>2. QED
      BY <2>3, <3>1, TomadasMueven
  <2>6. /\ espera[r] # <<>> => instancias[r] + Len(espera[r]) + 0 <= 0
        /\ instancias[r] + Cardinality(Tomadas(r)) + Len(espera[r]) + 0 + 0 = Instancias[r]
        /\ SinMatarEspera => 0 <= instancias[r] + Len(espera[r]) + 0
    BY <1>2, <1>11, <1>13, <1>17 DEF Ordenado
  <2>7. /\ espera[r] # <<>> => (instancias[r] + 1) + Len(espera[r]) + 0 <= 1
        /\ (instancias[r] + 1) + Cardinality(Tomadas(r)') + Len(espera[r]) + 0 + 0 = Instancias[r]
        /\ SinMatarEspera => 1 <= (instancias[r] + 1) + Len(espera[r]) + 0
    BY <1>15, <2>5, <2>6
  <2>8. Ordenado(q)'
    BY <1>4, <1>12, <1>13, <1>17, <2>2, <2>7 DEF Ordenado
  <2>9. QED
    BY <2>4, <2>8
<1>18. QED
  BY <1>14, <1>16, <1>17

(* WAIT grants the unit it took.                                           *)
LEMMA ConcedeCuenta ==
    ASSUME Base, Base', Exclusivos, Contadas, WaitConcede
    PROVE  Contadas'
<1> SUFFICES ASSUME NEW CONSTANT q \in NombresRecurso PROVE Cuadrado(q)' /\ Ordenado(q)'
  BY DEF Contadas
<1>1. EnPedido /\ cp.paso = "wait_mira"
  BY DEF EnPedido, WaitConcede
<1>2. /\ \A h \in Hilos : Libre(h) /\ libera[h].paso = "suma"
      /\ DeMas("mata", q) = 0 /\ DeMas("cp", q) = 0
  BY <1>1, EnPedidoVisto
<1>3. PICK x \in Procesos, r \in NombresRecurso : x = cp.pid /\ r = cp.r
  BY <1>1, EnPedidoVisto
<1>4. UNCHANGED <<espera, salida, libera, instancias, usadas>> /\ instancias[r] >= 0
  BY <1>3 DEF WaitConcede
<1>5. cp'.paso = "recibe"
  <2>1. "recibe" \in PasosCP /\ cp' = [Espero EXCEPT !.paso = "recibe"]
    BY DEF WaitConcede, Sigue, PasosCP
  <2>2. cp' = [paso |-> "recibe", pid |-> Nadie, r |-> Nadie, leido |-> 0]
    BY <2>1, EsperoVista
  <2>3. QED
    BY <2>2
<1>6. /\ \A p \in Procesos, s \in NombresRecurso : p # x \/ s # r => tiene'[p][s] = tiene[p][s]
      /\ tiene'[x][r] = tiene[x][r] + 1
  <2>1. tiene \in [Procesos -> [NombresRecurso -> Nat]]
    BY Tipos DEF Base
  <2>2. tiene' = [tiene EXCEPT ![x][r] = @ + 1]
    BY <1>3 DEF WaitConcede
  <2>3. QED
    BY <2>1, <2>2
<1>7. Cuadrado(q) /\ Ordenado(q) /\ Ordenado(r)
  BY DEF Contadas
<1>8. Cuadrado(q)'
  <2>1. \A p \in Procesos : Debe(p, q)' = Debe(p, q)
    BY <1>4, DebeIgual
  <2>2. QED
    BY <1>4, <1>7, <2>1, CuadradoSigue
<1>9. DeMas("mata", q)' = 0 /\ DeMas("cp", q)' = 0
  <2>1. "mata" \in Hilos /\ "cp" \in Hilos
    BY DEF Hilos
  <2>2. QED
    BY <1>2, <1>4, <2>1 DEF DeMas, Libre, Liberando
<1>10. /\ Devuelta(q) = 0 /\ Devuelta(q)' = 0 /\ Pedida(q)' = 0
       /\ Pedida(q) = IF q = r THEN 1 ELSE 0
  BY <1>1, <1>2, <1>3, <1>4, <1>5 DEF Pedida, Devuelta, PasosWait
<1>11. CASE q # r
  <2>1. Ordenado(q)'
    BY <1>2, <1>4, <1>6, <1>7, <1>9, <1>10, <1>11, OrdenadoIgual
  <2>2. QED
    BY <1>8, <2>1
<1>12. CASE q = r
  <2>1. Cardinality(Tomadas(q)') = Cardinality(Tomadas(q)) + 1
    <3>1. TypeOK /\ TypeOK' /\ \A p \in Procesos \ {x} : tiene'[p][q] = tiene[p][q]
      BY <1>6, <1>12 DEF Base
    <3>2. QED
      BY <1>6, <1>12, <3>1, TomadasMueven
  <2>2. /\ instancias[q] \in Int /\ Len(espera[q]) \in Nat
        /\ Cardinality(Tomadas(q)) \in Nat /\ Instancias[q] \in Nat
        /\ espera[q] = <<>> <=> Len(espera[q]) = 0
    BY Medidas
  <2>3. /\ espera[q] # <<>> => instancias[q] + Len(espera[q]) + 1 <= 0
        /\ instancias[q] + Cardinality(Tomadas(q)) + Len(espera[q]) + 1 + 0 = Instancias[q]
    BY <1>2, <1>7, <1>10, <1>12 DEF Ordenado
  <2>4. espera[q] = <<>>
    BY <1>4, <1>12, <2>2, <2>3
  <2>5. /\ instancias[q] + Cardinality(Tomadas(q)') + Len(espera[q]) + 0 + 0 = Instancias[q]
        /\ 0 <= instancias[q] + Len(espera[q]) + 0
    BY <1>4, <1>12, <2>1, <2>2, <2>3
  <2>6. Ordenado(q)'
    BY <1>4, <1>9, <1>10, <2>4, <2>5 DEF Ordenado
  <2>7. QED
    BY <1>8, <2>6
<1>13. QED
  BY <1>11, <1>12

(* WAIT blocks the process: the unit it took in advance is owed to a place *)
(* of the queue.                                                           *)
LEMMA EncolaCuenta ==
    ASSUME Base, Base', Exclusivos, Contadas, WaitEncola
    PROVE  Contadas'
<1> SUFFICES ASSUME NEW CONSTANT q \in NombresRecurso PROVE Cuadrado(q)' /\ Ordenado(q)'
  BY DEF Contadas
<1>1. EnPedido /\ cp.paso = "wait_encola"
  BY DEF EnPedido, WaitEncola
<1>2. /\ \A h \in Hilos : Libre(h) /\ libera[h].paso = "suma"
      /\ DeMas("mata", q) = 0 /\ DeMas("cp", q) = 0
  BY <1>1, EnPedidoVisto
<1>3. PICK x \in Procesos, r \in NombresRecurso : x = cp.pid /\ r = cp.r
  BY <1>1, EnPedidoVisto
<1>4. UNCHANGED <<salida, libera, instancias, usadas, tiene>> /\ cp' = Espero
  BY DEF WaitEncola, cuentas
<1>5. instancias[r] < 0
  BY <1>1, <1>3 DEF Exclusivos
<1>6. cp'.paso = "despacha"
  BY <1>4 DEF Espero
<1>7. /\ \A s \in NombresRecurso \ {r} : espera'[s] = espera[s]
      /\ espera'[r] = Append(espera[r], x)
      /\ espera[r] \in Seq(Procesos)
  <2>1. espera \in [NombresRecurso -> Seq(Procesos)]
    BY Tipos DEF Base
  <2>2. espera' = [espera EXCEPT ![r] = Append(@, x)]
    BY <1>3 DEF WaitEncola
  <2>3. QED
    BY <2>1, <2>2
<1>8. Cuadrado(q) /\ Ordenado(q)
  BY DEF Contadas
<1>9. Cuadrado(q)'
  <2>1. \A p \in Procesos : Debe(p, q)' = Debe(p, q)
    BY <1>4, DebeIgual
  <2>2. QED
    BY <1>4, <1>8, <2>1, CuadradoSigue
<1>10. DeMas("mata", q)' = 0 /\ DeMas("cp", q)' = 0
  <2>1. "mata" \in Hilos /\ "cp" \in Hilos
    BY DEF Hilos
  <2>2. QED
    BY <1>2, <1>4, <2>1 DEF DeMas, Libre, Liberando
<1>11. /\ Devuelta(q) = 0 /\ Devuelta(q)' = 0 /\ Pedida(q)' = 0
       /\ Pedida(q) = IF q = r THEN 1 ELSE 0
  BY <1>1, <1>2, <1>3, <1>4, <1>6 DEF Pedida, Devuelta, PasosWait
<1>12. CASE q # r
  <2>1. Ordenado(q)'
    BY <1>2, <1>4, <1>7, <1>8, <1>10, <1>11, <1>12, OrdenadoIgual
  <2>2. QED
    BY <1>9, <2>1
<1>13. CASE q = r
  <2>1. Tomadas(q)' = Tomadas(q)
    <3>1. TypeOK /\ TypeOK'
      BY DEF Base
    <3>2. QED
      BY <1>4, <3>1, TomadasMueven
  <2>2. /\ instancias[q] \in Int /\ Len(espera[q]) \in Nat
        /\ Cardinality(Tomadas(q)) \in Nat /\ Instancias[q] \in Nat
        /\ espera[q] = <<>> <=> Len(espera[q]) = 0
    BY Medidas
  <2>3. /\ espera[q] # <<>> => instancias[q] + Len(espera[q]) + 1 <= 0
        /\ instancias[q] + Cardinality(Tomadas(q)) + Len(espera[q]) + 1 + 0 = Instancias[q]
        /\ SinMatarEspera => 0 <= instancias[q] + Len(espera[q]) + 1
    BY <1>2, <1>8, <1>11, <1>13 DEF Ordenado
  <2>4. Len(espera'[q]) = Len(espera[q]) + 1
    BY <1>7, <1>13, AlFinal
  <2>5. /\ instancias[q] + Len(espera'[q]) + 0 <= 0
        /\ instancias[q] + Cardinality(Tomadas(q)) + Len(espera'[q]) + 0 + 0 = Instancias[q]
        /\ SinMatarEspera => 0 <= instancias[q] + Len(espera'[q]) + 0
    BY <1>5, <1>13, <2>2, <2>3, <2>4
  <2>6. Ordenado(q)'
    BY <1>4, <1>10, <1>11, <2>1, <2>5 DEF Ordenado
  <2>7. QED
    BY <1>9, <2>6
<1>14. QED
  BY <1>12, <1>13

(* The pop after a unit came back, by SIGNAL or by a release.              *)
LEMMA SacaCuenta ==
    ASSUME Base, Base', Exclusivos, Contadas, SinCarrera,
           NEW CONSTANT r \in NombresRecurso, SacaDe(r)
    PROVE  Contadas'
<1> SUFFICES ASSUME NEW CONSTANT q \in NombresRecurso PROVE Cuadrado(q)' /\ Ordenado(q)'
  BY DEF Contadas
<1>1. /\ Despierta(r) /\ UNCHANGED <<salida, instancias, usadas>>
      /\ cp'.pid = cp.pid /\ cp'.r = cp.r
      /\ (cp' = cp) \/ (cp.paso = "signal_saca" /\ cp'.paso = "signal_sigue")
      /\ \A h \in Hilos : /\ libera'[h].pid = libera[h].pid
                          /\ libera'[h].faltan = libera[h].faltan
                          /\ libera'[h].paso # libera[h].paso => libera'[h].paso = "suma"
                          /\ libera'[h].paso # "suma" => libera'[h] = libera[h]
  BY SacaVista
<1>2. espera[r] # <<>>
  BY DEF SacaDe, SignalSaca, LiberarSaca, Exclusivos
<1>3. PICK x \in Procesos : x = Head(espera[r])
  <2>1. espera[r] \in Seq(Procesos)
    BY Tipos DEF Base
  <2>2. QED
    BY <1>2, <2>1, SinElPrimero
<1>4. /\ Baja(espera'[r], espera[r], x)
      /\ \A s \in NombresRecurso \ {r} : espera'[s] = espera[s]
      /\ tiene' = [tiene EXCEPT ![x] = [tiene[x] EXCEPT ![r] = tiene[x][r] + 1]]
  BY <1>1, <1>2, <1>3, DespiertaMueve
<1>5. /\ \A p \in Procesos, s \in NombresRecurso : p # x \/ s # r => tiene'[p][s] = tiene[p][s]
      /\ tiene'[x][r] = tiene[x][r] + 1
  <2>1. tiene \in [Procesos -> [NombresRecurso -> Nat]]
    BY Tipos DEF Base
  <2>2. QED
    BY <1>4, <2>1
<1>6. ~EnLibera(x)
  <2>1. EnEspera(x)
    BY <1>4 DEF EnEspera, Baja
  <2>2. QED
    BY <2>1 DEF Base, Separados
<1>7. DeMas("mata", q)' = DeMas("mata", q) /\ DeMas("cp", q)' = DeMas("cp", q)
  <2>1. ASSUME NEW h \in Hilos PROVE DeMas(h, q)' = DeMas(h, q)
    <3>1. Liberando(h) => libera[h].pid \in Procesos \ {x}
      <4>1. libera[h].pid \in Procesos \cup {Nadie}
        BY Tipos DEF Base, EstadosLibera
      <4>2. QED
        BY <1>6, <4>1 DEF Liberando, EnLibera
    <3>2. Liberando(h) => tiene'[libera[h].pid][q] = tiene[libera[h].pid][q]
      BY <1>5, <3>1
    <3>3. QED
      BY <1>1, <3>2, DeMasIgual
  <2>2. QED
    BY <2>1 DEF Hilos
<1>8. Cuadrado(q) /\ Ordenado(q)
  BY DEF Contadas
<1>9. Cuadrado(q)'
  <2>1. \A p \in Procesos : Debe(p, q)' = Debe(p, q)
    BY <1>1, DebeIgual
  <2>2. QED
    BY <1>1, <1>8, <2>1, CuadradoSigue
<1>10. Pedida(q)' = Pedida(q)
  BY <1>1 DEF Pedida, PasosWait
<1>11. /\ Devuelta(r) = 1 /\ Devuelta(r)' = 0
       /\ q # r => Devuelta(q) = 0 /\ Devuelta(q)' = 0
  <2>1. CASE SignalSaca /\ r = cp.r
    <3>1. EnPedido /\ cp.paso = "signal_saca" /\ cp'.paso = "signal_sigue"
      <4>1. cp.paso = "signal_saca" /\ cp'.paso = "signal_sigue"
        BY <2>1, PedidoVisto DEF SignalSaca
      <4>2. QED
        BY <4>1 DEF EnPedido
    <3>2. \A h \in Hilos : libera[h].paso = "suma"
      BY <3>1, SeccionUnica
    <3>3. \A h \in Hilos : libera'[h].paso = "suma"
      BY <1>1, <3>2
    <3>4. QED
      BY <2>1, <3>1, <3>2, <3>3 DEF Devuelta
  <2>2. ASSUME NEW h \in Hilos, LiberarSaca(h), r = libera[h].r
        PROVE  /\ Devuelta(r) = 1 /\ Devuelta(r)' = 0
               /\ q # r => Devuelta(q) = 0 /\ Devuelta(q)' = 0
    <3>1. Liberando(h) /\ libera[h].paso = "saca" /\ cp' = cp
      BY <2>2 DEF LiberarSaca
    <3>2. ~EnPedido /\ \A k \in Hilos \ {h} : libera[k].paso = "suma"
      BY <3>1, SeccionUnica
    <3>3. libera'[h].paso = "suma"
      <4>1. Libera(h) /\ ~LiberarTermina(h)
        BY <2>2 DEF Libera, LiberarSaca, LiberarTermina
      <4>2. QED
        BY <2>2, <4>1, LiberaVista
    <3>4. \A k \in Hilos : libera'[k].paso = "suma"
      BY <1>1, <3>2, <3>3
    <3>5. QED
      BY <2>2, <3>1, <3>2, <3>4 DEF Devuelta, EnPedido
  <2>3. QED
    BY <2>1, <2>2 DEF SacaDe
<1>12. CASE q # r
  <2>1. Ordenado(q)'
    BY <1>1, <1>4, <1>5, <1>7, <1>8, <1>10, <1>11, <1>12, OrdenadoIgual
  <2>2. QED
    BY <1>9, <2>1
<1>13. CASE q = r
  <2>1. Cardinality(Tomadas(q)') = Cardinality(Tomadas(q)) + 1
    <3>1. TypeOK /\ TypeOK' /\ \A p \in Procesos \ {x} : tiene'[p][q] = tiene[p][q]
      BY <1>5 DEF Base
    <3>2. QED
      BY <1>5, <1>13, <3>1, TomadasMueven
  <2>2. /\ instancias[q] \in Int /\ Len(espera[q]) \in Nat
        /\ Cardinality(Tomadas(q)) \in Nat /\ Instancias[q] \in Nat
        /\ Pedida(q) \in {0, 1} /\ DeMas("mata", q) \in {0, 1}
    BY Medidas
  <2>3. /\ instancias[q] + Len(espera[q]) + Pedida(q) <= 1
        /\ instancias[q] + Cardinality(Tomadas(q)) + Len(espera[q]) + Pedida(q) + DeMas("mata", q)
             = Instancias[q]
        /\ SinMatarEspera => 1 <= instancias[q] + Len(espera[q]) + Pedida(q)
    BY <1>2, <1>8, <1>11, <1>13 DEF Ordenado
  <2>4. Len(espera'[q]) = Len(espera[q]) - 1
    BY <1>4, <1>13 DEF Baja
  <2>5. /\ instancias[q] + Len(espera'[q]) + Pedida(q) <= 0
        /\ instancias[q] + Cardinality(Tomadas(q)') + Len(espera'[q]) + Pedida(q) + DeMas("mata", q)
             = Instancias[q]
        /\ SinMatarEspera => 0 <= instancias[q] + Len(espera'[q]) + Pedida(q)
    <3>1. Pedida(q) \in Int /\ DeMas("mata", q) \in Int
      BY <2>2
    <3>2. instancias[q] + Len(espera'[q]) + Pedida(q) <= 0
      BY <2>2, <2>3, <2>4, <3>1, SMTT(30)
    <3>3. Cardinality(Tomadas(q)') + Len(espera'[q]) = Cardinality(Tomadas(q)) + Len(espera[q])
      BY <2>1, <2>2, <2>4
    <3>4. instancias[q] + Cardinality(Tomadas(q)') + Len(espera'[q]) + Pedida(q) + DeMas("mata", q)
             = Instancias[q]
      BY <2>1, <2>2, <2>3, <2>4, <3>1, <3>3
    <3>5. ASSUME SinMatarEspera PROVE 0 <= instancias[q] + Len(espera'[q]) + Pedida(q)
      <4>1. 1 <= instancias[q] + Len(espera[q]) + Pedida(q)
        BY <2>3, <3>5
      <4>2. QED
        BY <2>2, <2>4, <3>1, <4>1
    <3>6. QED
      BY <3>2, <3>4, <3>5
  <2>6. Ordenado(q)'
    BY <1>1, <1>7, <1>8, <1>10, <1>11, <1>13, <2>5 DEF Ordenado
  <2>7. QED
    BY <1>9, <2>6
<1>14. QED
  BY <1>12, <1>13

(* A unit comes back from a process that ends: one it had, or the one it   *)
(* was waiting for when it was killed.                                     *)
LEMMA LiberarGuardaCuenta ==
    ASSUME Base, Base', Exclusivos, Contadas, NEW CONSTANT h \in {"cp", "mata"}, LiberarGuarda(h)
    PROVE  Contadas'
<1> SUFFICES ASSUME NEW CONSTANT q \in NombresRecurso PROVE Cuadrado(q)' /\ Ordenado(q)'
  BY DEF Contadas
<1>1. h \in Hilos /\ Liberando(h) /\ libera[h].paso = "guarda"
  BY DEF LiberarGuarda, Hilos
<1>2. PICK x \in Procesos, r \in NombresRecurso : x = libera[h].pid /\ r = libera[h].r
  <2>1. libera[h].pid \in Procesos \cup {Nadie} /\ libera[h].r \in NombresRecurso \cup {Nadie}
    BY <1>1, Tipos DEF Base, EstadosLibera
  <2>2. libera[h].r # Nadie
    BY <1>1 DEF Base, Hilero
  <2>3. QED
    BY <1>1, <2>1, <2>2 DEF Liberando
<1>3. ~EnPedido /\ \A k \in Hilos \ {h} : Libre(k) /\ libera[k].paso = "suma"
  BY <1>1, SeccionUnica
<1>4. /\ UNCHANGED <<espera, salida, usadas, cp>>
      /\ instancias' = [instancias EXCEPT ![r] = instancias[r] + 1]
      /\ tiene' = [tiene EXCEPT ![x][r] = IF @ > 0 THEN @ - 1 ELSE 0]
  BY <1>1, <1>2 DEF LiberarGuarda, Exclusivos, colas
<1>5. /\ libera \in [Hilos -> EstadosLibera] /\ libera[h].faltan \in [NombresRecurso -> Nat]
      /\ instancias \in [NombresRecurso -> Int] /\ tiene \in [Procesos -> [NombresRecurso -> Nat]]
      /\ libera[h].faltan[r] > 0
  BY <1>1, <1>2, Tipos DEF Base, EstadosLibera, Hilero
<1>6. /\ \A k \in Hilos \ {h} : libera'[k] = libera[k]
      /\ libera'[h].pid = x /\ libera'[h].paso = "mira" /\ libera'[h].r = r
      /\ libera'[h].faltan[r] = libera[h].faltan[r] - 1
      /\ \A s \in NombresRecurso \ {r} : libera'[h].faltan[s] = libera[h].faltan[s]
  <2> DEFINE f == [libera[h].faltan EXCEPT ![r] = libera[h].faltan[r] - 1]
             v == [pid |-> libera[h].pid, paso |-> "mira", r |-> libera[h].r,
                   leido |-> libera[h].leido, faltan |-> f]
  <2>1. libera' = [libera EXCEPT ![h] = v]
    <3>1. [libera EXCEPT ![h].paso = "mira", ![h].faltan[r] = @ - 1] = [libera EXCEPT ![h] = v]
      <4>1. libera \in [Hilos -> EstadosLibera] /\ h \in Hilos
        BY <1>1, <1>5
      <4>2. QED
        BY <4>1, LiberaGuarda
    <3>2. libera' = [libera EXCEPT ![h].paso = "mira", ![h].faltan[r] = @ - 1]
      BY <1>2 DEF LiberarGuarda
    <3>3. QED
      BY <3>1, <3>2
  <2>2. f[r] = libera[h].faltan[r] - 1 /\ \A s \in NombresRecurso \ {r} : f[s] = libera[h].faltan[s]
    BY <1>5
  <2>3. v.pid = x /\ v.paso = "mira" /\ v.r = r /\ v.faltan = f
    BY <1>2
  <2> HIDE DEF f, v
  <2>4. libera'[h] = v /\ \A k \in Hilos \ {h} : libera'[k] = libera[k]
    BY <1>1, <1>5, <2>1
  <2>5. QED
    BY <2>2, <2>3, <2>4
<1>7. /\ \A p \in Procesos, s \in NombresRecurso : p # x \/ s # r => tiene'[p][s] = tiene[p][s]
      /\ tiene'[x][r] = IF tiene[x][r] > 0 THEN tiene[x][r] - 1 ELSE 0
      /\ \A s \in NombresRecurso \ {r} : instancias'[s] = instancias[s]
      /\ instancias'[r] = instancias[r] + 1
  BY <1>4, <1>5
<1>8. Cuadrado(q) /\ Ordenado(q) /\ Ordenado(r)
  BY DEF Contadas
<1>9. \A p \in Procesos : p # x \/ q # r => Debe(p, q)' = Debe(p, q)
  <2> SUFFICES ASSUME NEW CONSTANT p \in Procesos, p # x \/ q # r PROVE Debe(p, q)' = Debe(p, q)
    OBVIOUS
  <2>1. \A k \in Hilos : /\ libera'[k].pid = p <=> libera[k].pid = p
                         /\ libera[k].pid = p => libera'[k].faltan[q] = libera[k].faltan[q]
    BY <1>2, <1>6
  <2>2. QED
    BY <1>4, <2>1, DebeIgual
<1>10. Debe(x, q) = libera[h].faltan[q] /\ Debe(x, q)' = libera'[h].faltan[q]
  BY <1>1, <1>2, <1>6, DebeDe, DebeDespues
<1>11. Cuadrado(q)'
  <2>1. CASE q # r
    BY <1>7, <1>8, <1>9, <2>1, CuadradoSigue
  <2>2. CASE q = r
    <3>1. libera[h].faltan[r] \in Nat
      BY <1>5
    <3>2. Debe(x, q)' + 1 = Debe(x, q)
      BY <1>6, <1>10, <2>2, <3>1
    <3>3. instancias'[q] = instancias[q] + 1 /\ \A p \in Procesos \ {x} : Debe(p, q)' = Debe(p, q)
      BY <1>7, <1>9, <2>2
    <3>4. QED
      BY <1>8, <3>2, <3>3, CuadradoSigue
  <2>3. QED
    BY <2>1, <2>2
<1>12. /\ \A k \in Hilos \ {h} : DeMas(k, q) = 0 /\ DeMas(k, q)' = 0
       /\ DeMas(h, q) = libera[h].faltan[q] - tiene[x][q]
       /\ DeMas(h, q)' = libera'[h].faltan[q] - tiene'[x][q]
  <2>1. \A k \in Hilos \ {h} : DeMas(k, q) = 0
    BY <1>3 DEF DeMas, Libre
  <2>2. \A k \in Hilos \ {h} : DeMas(k, q)' = 0
    BY <1>3, <1>6 DEF DeMas, Libre, Liberando
  <2>3. DeMas(h, q) = libera[h].faltan[q] - tiene[x][q]
    BY <1>1, <1>2 DEF DeMas
  <2>4. DeMas(h, q)' = libera'[h].faltan[q] - tiene'[x][q]
    BY <1>6, RecursosAssumption DEF DeMas, Liberando
  <2>5. QED
    BY <2>1, <2>2, <2>3, <2>4
<1>13. /\ Pedida(q) = 0 /\ Pedida(q)' = 0
       /\ Devuelta(q) = 0 /\ Devuelta(q)' = IF q = r THEN 1 ELSE 0
  <2>1. \A k \in Hilos \ {h} : libera'[k].paso = "suma"
    BY <1>3, <1>6
  <2>2. QED
    BY <1>1, <1>2, <1>3, <1>4, <1>6, <2>1 DEF Pedida, Devuelta, PasosWait, EnPedido
<1>14. CASE q # r
  <2>1. DeMas(h, q)' = DeMas(h, q)
    BY <1>6, <1>7, <1>12, <1>14
  <2>2. DeMas("mata", q)' = DeMas("mata", q) /\ DeMas("cp", q)' = DeMas("cp", q)
    BY <1>12, <2>1 DEF Hilos
  <2>3. Ordenado(q)'
    BY <1>4, <1>7, <1>8, <1>13, <1>14, <2>2, OrdenadoIgual
  <2>4. QED
    BY <1>11, <2>3
<1>15. CASE q = r
  <2>1. /\ instancias[q] \in Int /\ Len(espera[q]) \in Nat
        /\ Cardinality(Tomadas(q)) \in Nat /\ Instancias[q] \in Nat
        /\ Cardinality(Tomadas(q)') \in Nat
        /\ DeMas("mata", q) \in {0, 1} /\ DeMas("mata", q)' \in {0, 1}
    BY Medidas
  <2>2. /\ espera[q] # <<>> => instancias[q] + Len(espera[q]) + 0 <= 0
        /\ instancias[q] + Cardinality(Tomadas(q)) + Len(espera[q]) + 0 + DeMas("mata", q)
             = Instancias[q]
        /\ DeMas("cp", q) = 0
        /\ SinMatarEspera => 0 <= instancias[q] + Len(espera[q]) + 0
    BY <1>8, <1>13 DEF Ordenado
  <2>3. /\ espera'[q] # <<>> => instancias'[q] + Len(espera'[q]) + 0 <= 1
        /\ SinMatarEspera => 1 <= instancias'[q] + Len(espera'[q]) + 0
    <3>1. /\ espera[q] # <<>> => (instancias[q] + 1) + Len(espera[q]) + 0 <= 1
          /\ SinMatarEspera => 1 <= (instancias[q] + 1) + Len(espera[q]) + 0
      BY <2>1, <2>2
    <3>2. QED
      BY <1>4, <1>7, <1>15, <3>1
  <2>4. TypeOK /\ TypeOK' /\ \A p \in Procesos \ {x} : tiene'[p][q] = tiene[p][q]
    BY <1>7 DEF Base
  <2>5. /\ tiene[x][q] \in Nat /\ libera[h].faltan[q] \in Nat /\ libera[h].faltan[q] > 0
        /\ libera'[h].faltan[q] = libera[h].faltan[q] - 1
    BY <1>5, <1>6, <1>15
  <2>6. CASE tiene[x][q] > 0
    <3>1. tiene'[x][q] = tiene[x][q] - 1 /\ tiene'[x][q] + 1 = tiene[x][q]
      BY <1>7, <1>15, <2>5, <2>6
    <3>2. Cardinality(Tomadas(q)) = Cardinality(Tomadas(q)') + 1
      BY <2>4, <3>1, TomadasMueven
    <3>3. DeMas(h, q)' = DeMas(h, q)
      BY <1>12, <2>5, <3>1
    <3>4. DeMas("mata", q)' = DeMas("mata", q) /\ DeMas("cp", q)' = DeMas("cp", q)
      BY <1>12, <3>3 DEF Hilos
    <3>5. (instancias[q] + 1) + Cardinality(Tomadas(q)') + Len(espera[q]) + 0 + DeMas("mata", q)
            = Instancias[q]
      <4>1. DeMas("mata", q) \in Int
        BY <2>1
      <4>2. QED
        BY <2>1, <2>2, <3>2, <4>1, SMTT(30)
    <3>6. Ordenado(q)'
      <4>1. SinMatarEspera => DeMas("mata", q) = 0
        BY <1>8 DEF Ordenado
      <4>2. QED
        BY <1>4, <1>7, <1>13, <1>15, <2>2, <2>3, <3>4, <3>5, <4>1 DEF Ordenado
    <3>7. QED
      BY <1>11, <3>6
  <2>7. CASE ~(tiene[x][q] > 0)
    <3>1. tiene[x][q] = 0 /\ tiene'[x][q] = 0
      BY <1>7, <1>15, <2>5, <2>7
    <3>2. Tomadas(q)' = Tomadas(q)
      BY <2>4, <3>1, TomadasMueven
    <3>3. libera[h].faltan[q] \in {tiene[x][q], tiene[x][q] + 1}
      BY <1>1, <1>2 DEF Base, Cuentas, CuentasDe
    <3>4. DeMas(h, q) = 1 /\ DeMas(h, q)' = 0
      BY <1>12, <2>5, <3>1, <3>3
    <3>5. h = "mata" /\ DeMas("mata", q)' = 0 /\ DeMas("cp", q)' = 0 /\ DeMas("mata", q) = 1
      BY <1>12, <2>2, <3>4 DEF Hilos
    <3>6. (instancias[q] + 1) + Cardinality(Tomadas(q)) + Len(espera[q]) + 0 + 0 = Instancias[q]
      BY <2>1, <2>2, <3>5, SMTT(30)
    <3>7. Ordenado(q)'
      BY <1>4, <1>7, <1>13, <1>15, <2>3, <3>2, <3>5, <3>6 DEF Ordenado
    <3>8. QED
      BY <1>11, <3>7
  <2>8. QED
    BY <2>6, <2>7
<1>16. QED
  BY <1>14, <1>15

(* The end of a release: the process owed nothing any more.                *)
LEMMA TerminaCuenta ==
    ASSUME Base, Base', Exclusivos, Contadas, NEW CONSTANT h \in {"cp", "mata"}, LiberarTermina(h)
    PROVE  Contadas'
<1> SUFFICES ASSUME NEW CONSTANT q \in NombresRecurso PROVE Cuadrado(q)' /\ Ordenado(q)'
  BY DEF Contadas
<1>1. h \in Hilos /\ Liberando(h) /\ libera[h].paso = "suma" /\ libera[h].faltan[q] = 0
  BY DEF LiberarTermina, Hilos
<1>2. PICK x \in Procesos : x = libera[h].pid
  BY <1>1, Tipos DEF Base, EstadosLibera, Liberando
<1>3. ~EnPedido /\ \A k \in Hilos \ {h} : Libre(k) /\ libera[k].paso = "suma"
  BY <1>1, SeccionUnica
<1>4. /\ UNCHANGED <<espera, instancias, usadas, tiene>> /\ salida' = salida \cup {x}
      /\ cp' = cp \/ cp' = Espero
  BY <1>2 DEF LiberarTermina, cuentas
<1>5. /\ \A k \in Hilos \ {h} : libera'[k] = libera[k]
      /\ libera'[h].pid = Nadie /\ libera'[h].paso = "suma"
  <2>1. Quieto.pid = Nadie /\ Quieto.paso = "suma"
    BY DEF Quieto
  <2>2. libera' = [libera EXCEPT ![h] = Quieto] /\ libera \in [Hilos -> EstadosLibera]
    BY Tipos DEF Base, LiberarTermina
  <2>3. QED
    BY <1>1, <2>1, <2>2
<1>6. Cuadrado(q) /\ Ordenado(q)
  BY DEF Contadas
<1>7. \A p \in Procesos : Debe(p, q)' = Debe(p, q)
  <2>1. Debe(x, q) = 0 /\ Debe(x, q)' = 0
    BY <1>1, <1>2, <1>4, DebeDe, DebeDespues
  <2>2. ASSUME NEW CONSTANT p \in Procesos, p # x PROVE Debe(p, q)' = Debe(p, q)
    <3>1. \A k \in Hilos : /\ libera'[k].pid = p <=> libera[k].pid = p
                           /\ libera[k].pid = p => libera'[k].faltan[q] = libera[k].faltan[q]
      BY <1>2, <1>5, <2>2, RecursosAssumption
    <3>2. QED
      BY <1>4, <2>2, <3>1, DebeIgual
  <2>3. QED
    BY <2>1, <2>2
<1>8. Cuadrado(q)'
  BY <1>4, <1>6, <1>7, CuadradoSigue
<1>9. DeMas(h, q) = 0 /\ DeMas(h, q)' = 0
  <2>1. libera[h].faltan[q] \in {tiene[x][q], tiene[x][q] + 1}
    BY <1>1, <1>2 DEF Base, Cuentas, CuentasDe
  <2>2. tiene[x][q] \in Nat
    BY Tipos DEF Base
  <2>3. tiene[x][q] = 0
    BY <1>1, <2>1, <2>2
  <2>4. QED
    BY <1>1, <1>2, <1>5, <2>3 DEF DeMas, Liberando
<1>10. \A k \in Hilos \ {h} : DeMas(k, q) = 0 /\ DeMas(k, q)' = 0
  <2>1. \A k \in Hilos \ {h} : DeMas(k, q) = 0
    BY <1>3 DEF DeMas, Libre
  <2>2. \A k \in Hilos \ {h} : DeMas(k, q)' = 0
    BY <1>3, <1>5 DEF DeMas, Libre, Liberando
  <2>3. QED
    BY <2>1, <2>2
<1>11. DeMas("mata", q)' = DeMas("mata", q) /\ DeMas("cp", q)' = DeMas("cp", q)
  BY <1>9, <1>10 DEF Hilos
<1>12. Pedida(q) = 0 /\ Pedida(q)' = 0 /\ Devuelta(q) = 0 /\ Devuelta(q)' = 0
  <2>1. \A k \in Hilos : libera'[k].paso = "suma" /\ libera[k].paso = "suma"
    BY <1>1, <1>3, <1>5
  <2>2. cp.paso \notin {"signal_mira", "signal_saca"} \cup PasosWait
    BY <1>3 DEF EnPedido, PasosWait
  <2>3. cp'.paso \notin {"signal_mira", "signal_saca"} \cup PasosWait
    BY <1>4, <2>2 DEF Espero, PasosWait
  <2>4. QED
    BY <2>1, <2>2, <2>3 DEF Pedida, Devuelta
<1>13. Ordenado(q)'
  BY <1>4, <1>6, <1>11, <1>12, OrdenadoIgual
<1>14. QED
  BY <1>8, <1>13

(* Every step outside the race keeps the counts.                           *)
LEMMA ContadasPaso ==
    ASSUME Base, Exclusivos, SinCarrera, SinCarrera', Next, Contadas
    PROVE  Contadas'
<1>0. Base'
  BY BasePaso
<1>1. CASE FueraDeSeccion
  <2>1. /\ UNCHANGED <<espera, instancias, usadas, tiene, salida, libera>>
        /\ \/ cp' = cp
           \/ cp.paso \in {"despacha", "recibe"} /\ cp'.paso \in {"despacha", "recibe"}
    BY <1>1 DEF FueraDeSeccion
  <2>2. \A q \in NombresRecurso : Pedida(q)' = Pedida(q) /\ Devuelta(q)' = Devuelta(q)
    BY <2>1 DEF Pedida, Devuelta, PasosWait
  <2>3. QED
    BY <1>0, <2>1, <2>2, NadaCuenta
<1>2. ASSUME NEW CONSTANT h \in {"cp", "mata"}, NEW CONSTANT x \in Procesos, EmpiezaSeccion(h, x)
      PROVE  Contadas'
  BY <1>0, <1>2, EmpiezaCuenta
<1>3. CASE RecibePedido
  <2>1. PICK m \in MotivosConAviso :
          /\ Recibe(m)
          /\ cp' = [paso |-> IF m = "WAIT" THEN "wait_guarda" ELSE "signal_guarda",
                    pid |-> Head(exec), r |-> contexto.r, leido |-> instancias[contexto.r]]
    BY <1>3 DEF RecibePedido
  <2>2. cp.paso = "recibe" /\ cp'.paso \in {"wait_guarda", "signal_guarda"}
    BY <2>1 DEF Recibe
  <2>3. UNCHANGED <<espera, instancias, usadas, tiene, salida, libera>>
    BY <1>3, <2>1 DEF RecibePedido, Recibe, cuentas
  <2>4. \A q \in NombresRecurso : Pedida(q)' = Pedida(q) /\ Devuelta(q)' = Devuelta(q)
    BY <2>2, <2>3 DEF Pedida, Devuelta, PasosWait
  <2>5. QED
    BY <1>0, <2>3, <2>4, NadaCuenta
<1>4. CASE WaitGuarda \/ SignalGuarda
  BY <1>0, <1>4, GuardaCuenta
<1>5. CASE WaitConcede
  BY <1>0, <1>5, ConcedeCuenta
<1>6. CASE WaitEncola
  BY <1>0, <1>6, EncolaCuenta
<1>7. CASE WaitNoAlcanza \/ WaitRemira \/ SignalMira
  <2>1. EnPedido /\ PedidoQuieto
    BY <1>7 DEF EnPedido, PedidoQuieto, WaitNoAlcanza, WaitRemira, SignalMira, Exclusivos
  <2>2. UNCHANGED <<espera, instancias, usadas, tiene, salida, libera>>
    BY <1>7 DEF WaitNoAlcanza, WaitRemira, SignalMira, colas, cuentas
  <2>3. cp'.r = cp.r /\ \A h \in Hilos : libera[h].paso = "suma"
    BY <2>1, PedidoVisto, SeccionUnica
  <2>4. \/ cp.paso \in PasosWait /\ cp'.paso \in PasosWait
        \/ cp.paso = "signal_mira" /\ cp'.paso = "signal_saca"
        \/ cp.paso = "signal_mira" /\ cp'.paso = "signal_sigue" /\ espera[cp.r] = <<>>
    <3>1. CASE WaitNoAlcanza
      BY <2>1, <3>1, PedidoVisto DEF WaitNoAlcanza, PasosWait
    <3>2. CASE WaitRemira
      BY <2>1, <3>2, PedidoVisto DEF WaitRemira, PasosWait
    <3>3. CASE SignalMira
      BY <2>1, <3>3, PedidoVisto DEF SignalMira
    <3>4. QED
      BY <1>7, <3>1, <3>2, <3>3
  <2>5. \A q \in NombresRecurso :
          /\ Pedida(q)' = Pedida(q)
          /\ Devuelta(q)' = Devuelta(q) \/ (Devuelta(q)' = 0 /\ espera[q] = <<>>)
    BY <2>2, <2>3, <2>4 DEF Pedida, Devuelta, PasosWait
  <2>6. QED
    BY <1>0, <2>2, <2>5, NadaCuenta
<1>8. CASE SignalSaca
  <2>1. PICK r \in NombresRecurso : r = cp.r
    BY <1>8, PedidoVisto
  <2>2. SacaDe(r)
    BY <1>8, <2>1 DEF SacaDe
  <2>3. QED
    BY <1>0, <2>2, SacaCuenta
<1>9. CASE SignalSigue
  <2>1. EnPedido /\ cp.paso = "signal_sigue"
    BY <1>9 DEF EnPedido, SignalSigue
  <2>2. UNCHANGED <<espera, instancias, usadas, tiene, salida, libera>>
    BY <1>9 DEF SignalSigue, cuentas
  <2>3. cp'.paso = "recibe"
    <3>1. "recibe" \in PasosCP /\ cp' = [Espero EXCEPT !.paso = "recibe"]
      BY <1>9 DEF SignalSigue, Sigue, PasosCP
    <3>2. cp' = [paso |-> "recibe", pid |-> Nadie, r |-> Nadie, leido |-> 0]
      BY <3>1, EsperoVista
    <3>3. QED
      BY <3>2
  <2>4. \A q \in NombresRecurso : Pedida(q)' = Pedida(q) /\ Devuelta(q)' = Devuelta(q)
    BY <2>1, <2>2, <2>3 DEF Pedida, Devuelta, PasosWait
  <2>5. QED
    BY <1>0, <2>2, <2>4, NadaCuenta
<1>10. ASSUME NEW CONSTANT h \in {"cp", "mata"}, Libera(h) PROVE Contadas'
  <2>1. h \in Hilos /\ Liberando(h)
    BY <1>10 DEF Hilos, Libera, LiberarLee, LiberarGuarda, LiberarMira, LiberarSaca, LiberarTermina
  <2>2. CASE LiberarLee(h) \/ LiberarMira(h)
    <3>1. ~LiberarTermina(h) /\ ~LiberarSaca(h) /\ ~LiberarGuarda(h)
          /\ (LiberarLee(h) => ~LiberarMira(h))
      <4>1. CASE LiberarLee(h)
        <5>1. PICK r \in NombresRecurso : libera[h].faltan[r] > 0
          BY <4>1 DEF LiberarLee
        <5>2. ~LiberarTermina(h)
          <6>1. libera[h].faltan[r] \in Nat
            BY <2>1, Tipos DEF Base, EstadosLibera
          <6>2. libera[h].faltan[r] # 0
            BY <5>1, <6>1
          <6>3. QED
            BY <6>2 DEF LiberarTermina
        <5>3. QED
          BY <4>1, <5>2 DEF LiberarLee, LiberarMira, LiberarSaca, LiberarGuarda
      <4>2. CASE LiberarMira(h)
        BY <4>2 DEF LiberarLee, LiberarMira, LiberarSaca, LiberarGuarda, LiberarTermina
      <4>3. QED
        BY <2>2, <4>1, <4>2
    <3>2. UNCHANGED <<espera, instancias, usadas, tiene, salida, cp>>
      BY <2>2 DEF LiberarLee, LiberarMira, colas, cuentas
    <3>3. /\ \A k \in Hilos \ {h} : libera'[k] = libera[k] /\ libera[k].paso = "suma"
          /\ libera'[h].pid = libera[h].pid /\ libera'[h].faltan = libera[h].faltan
          /\ LiberarLee(h) => libera'[h].paso = "guarda"
          /\ LiberarMira(h) => /\ libera'[h].r = libera[h].r
                               /\ libera'[h].paso = IF espera[libera[h].r] = <<>>
                                                    THEN "suma" ELSE "saca"
      <4>1. \A k \in Hilos \ {h} : libera[k].paso = "suma"
        BY <2>1, SeccionUnica
      <4>2. Libera(h) /\ ~LiberarTermina(h) /\ (LiberarMira(h) => ~LiberarLee(h))
        BY <1>10, <3>1
      <4>3. QED
        BY <2>1, <2>2, <4>1, <4>2, LiberaVista
    <3>4. \A k \in Hilos : libera'[k].pid = libera[k].pid /\ libera'[k].faltan = libera[k].faltan
      BY <3>3
    <3>5. ~EnPedido
      BY <2>1, SeccionUnica
    <3>6. \A q \in NombresRecurso :
            /\ Pedida(q)' = Pedida(q)
            /\ Devuelta(q)' = Devuelta(q) \/ (Devuelta(q)' = 0 /\ espera[q] = <<>>)
      <4> SUFFICES ASSUME NEW CONSTANT q \in NombresRecurso
                   PROVE  /\ Pedida(q)' = Pedida(q)
                          /\ Devuelta(q)' = Devuelta(q) \/ (Devuelta(q)' = 0 /\ espera[q] = <<>>)
        OBVIOUS
      <4>1. Pedida(q)' = Pedida(q)
        BY <3>2 DEF Pedida
      <4>2. CASE LiberarLee(h)
        <5>1. libera[h].paso = "suma" /\ libera'[h].paso = "guarda"
          BY <3>3, <4>2 DEF LiberarLee
        <5>2. Devuelta(q)' = Devuelta(q)
          BY <3>2, <3>3, <3>5, <5>1 DEF Devuelta, EnPedido
        <5>3. QED
          BY <4>1, <5>2
      <4>3. CASE LiberarMira(h) /\ espera[libera[h].r] # <<>>
        <5>1. /\ libera[h].paso = "mira" /\ libera'[h].paso = "saca"
              /\ libera'[h].r = libera[h].r
          BY <3>3, <4>3 DEF LiberarMira
        <5>2. Devuelta(q)' = Devuelta(q)
          BY <2>1, <3>2, <3>3, <3>5, <5>1 DEF Devuelta, EnPedido
        <5>3. QED
          BY <4>1, <5>2
      <4>4. CASE LiberarMira(h) /\ espera[libera[h].r] = <<>>
        <5>1. libera[h].paso = "mira" /\ libera'[h].paso = "suma"
          BY <3>3, <4>4 DEF LiberarMira
        <5>2. q # libera[h].r => Devuelta(q)' = Devuelta(q)
          BY <3>2, <3>3, <3>5, <5>1 DEF Devuelta, EnPedido
        <5>3. q = libera[h].r => Devuelta(q)' = 0
          BY <3>2, <3>3, <3>5, <5>1 DEF Devuelta, EnPedido
        <5>4. QED
          BY <4>1, <4>4, <5>2, <5>3
      <4>5. QED
        BY <2>2, <4>2, <4>3, <4>4
    <3>7. QED
      BY <1>0, <3>2, <3>4, <3>6, NadaCuenta
  <2>3. CASE LiberarGuarda(h)
    BY <1>0, <1>10, <2>3, LiberarGuardaCuenta
  <2>4. CASE LiberarSaca(h)
    <3>1. PICK r \in NombresRecurso : r = libera[h].r
      <4>1. libera[h].r \in NombresRecurso \cup {Nadie} /\ libera[h].r # Nadie
        BY <2>1, <2>4, Tipos DEF Base, EstadosLibera, Hilero, LiberarSaca
      <4>2. QED
        BY <4>1
    <3>2. SacaDe(r)
      BY <2>1, <2>4, <3>1 DEF SacaDe
    <3>3. QED
      BY <1>0, <3>2, SacaCuenta
  <2>5. CASE LiberarTermina(h)
    BY <1>0, <1>10, <2>5, TerminaCuenta
  <2>6. QED
    BY <1>10, <2>2, <2>3, <2>4, <2>5 DEF Libera
<1>11. QED
  BY <1>1, <1>2, <1>3, <1>4, <1>5, <1>6, <1>7, <1>8, <1>9, <1>10, ClasesDePaso DEF Pedido

(* The counts hold at the start: every unit is free.                       *)
LEMMA ContadasInicial ==
    ASSUME Init
    PROVE  Contadas
<1> SUFFICES ASSUME NEW CONSTANT q \in NombresRecurso PROVE Cuadrado(q) /\ Ordenado(q)
  BY DEF Contadas
<1>1. /\ espera[q] = <<>> /\ instancias[q] = Instancias[q] /\ Instancias[q] \in Nat
      /\ \A p \in Procesos : tiene[p][q] = 0 /\ usadas[p][q] = 0
      /\ salida = {} /\ cp.paso = "despacha"
      /\ \A h \in Hilos : libera[h].pid = Nadie /\ libera[h].paso = "suma"
  BY Iniciales, RecursosAssumption DEF Init, Espero, Quieto
<1>2. Pedida(q) = 0 /\ Devuelta(q) = 0 /\ DeMas("mata", q) = 0 /\ DeMas("cp", q) = 0
  BY <1>1 DEF Pedida, Devuelta, DeMas, Liberando, PasosWait, Hilos
<1>3. ASSUME NEW f \in [Procesos -> Nat], \A p \in Procesos : f[p] = 0
      PROVE  Fichas(f) = {} /\ Cardinality(Fichas(f)) = 0
  <2>1. \A p \in Procesos : 1..f[p] = {}
    BY <1>3
  <2>2. \A p \in Procesos : {p} \X (1..f[p]) = {}
    BY <2>1
  <2>3. Fichas(f) = {}
    BY <2>2 DEF Fichas
  <2>4. QED
    BY <2>3, FS_EmptySet
<1>4. Base
  BY BaseInicial
<1>5. Cardinality(Tomadas(q)) = 0
  <2>1. TypeOK
    BY <1>4 DEF Base
  <2>2. PICK f \in [Procesos -> Nat] : /\ \A p \in Procesos : f[p] = tiene[p][q]
                                      /\ Tomadas(q) = Fichas(f)
    BY <2>1, TomadasDe
  <2>3. \A p \in Procesos : f[p] = 0
    BY <1>1, <2>2
  <2>4. QED
    BY <1>3, <2>2, <2>3
<1>6. Cardinality(Deudas(q)) = 0
  <2>1. PICK f \in [Procesos -> Nat] : /\ \A p \in Procesos : f[p] = Debe(p, q)
                                      /\ Deudas(q) = Fichas(f)
    BY <1>4, DeudasDe
  <2>2. ASSUME NEW CONSTANT p \in Procesos PROVE Debe(p, q) = 0
    <3>1. ~EnLibera(p) /\ p \notin salida
      BY <1>1, RecursosAssumption DEF EnLibera
    <3>2. QED
      BY <1>1, <1>4, <3>1, DebeDe
  <2>3. \A p \in Procesos : f[p] = 0
    BY <2>1, <2>2
  <2>4. QED
    BY <1>3, <2>1, <2>3
<1>7. Len(espera[q]) = 0
  BY <1>1
<1>8. QED
  BY <1>1, <1>2, <1>5, <1>6, <1>7 DEF Cuadrado, Ordenado

(* The units are accounted in every state before an interface releases.    *)
Contada == SinCarrera => Contadas

(* The counts hold in every state before the thread of an interface        *)
(* releases.                                                               *)
THEOREM ContadaSiempre == Spec => []Contada
<1>1. Init => Contada
  BY ContadasInicial DEF Contada
<1>2. ASSUME Base, Serie, Contada, [Next]_vars PROVE Contada'
  <2> SUFFICES ASSUME SinCarrera' PROVE Contadas'
    BY DEF Contada
  <2>1. CASE Next
    <3>1. SinCarrera /\ Exclusivos /\ Contadas
      BY <1>2, <2>1, CarreraSigue DEF Serie, Contada
    <3>2. QED
      BY <1>2, <2>1, <3>1, ContadasPaso
  <2>2. CASE UNCHANGED vars
    <3>1. Contadas
      BY <1>2, <2>2 DEF Contada, SinCarrera, vars
    <3>2. Base' /\ UNCHANGED <<instancias, usadas, tiene, salida, espera, cp, libera>>
      BY <1>2, <2>2, BaseQuieta DEF vars
    <3>3. \A q \in NombresRecurso : Pedida(q)' = Pedida(q) /\ Devuelta(q)' = Devuelta(q)
      BY <3>2 DEF Pedida, Devuelta
    <3>4. QED
      BY <1>2, <3>1, <3>2, <3>3, NadaCuenta
  <2>3. QED
    BY <1>2, <2>1, <2>2
<1>3. QED
  BY <1>1, <1>2, BaseSiempre, SerieSiempre, PTL DEF Spec

(* Cuadra holds in every state: the units left and those that the          *)
(* processes owe are the ones configured.                                  *)
THEOREM CuadraSiempre == Spec => []Cuadra
<1>1. Contada => Cuadra
  BY DEF Contada, Contadas, Cuadrado, Cuadra
<1>2. QED
  BY <1>1, ContadaSiempre, PTL

(* NadieEsperaEnVano holds in every state: with the threads at rest a      *)
(* process that waits for a resource finds all its units taken.            *)
THEOREM NadieEsperaEnVanoSiempre == Spec => []NadieEsperaEnVano
<1>1. ASSUME Base, Contada PROVE NadieEsperaEnVano
  <2> SUFFICES ASSUME SinCarrera, EnReposo, NEW CONSTANT q \in NombresRecurso, espera[q] # <<>>
               PROVE  Cardinality(Tomadas(q)) >= Instancias[q]
    BY DEF NadieEsperaEnVano, EsperaJustificada
  <2>1. Ordenado(q)
    BY <1>1 DEF Contada, Contadas
  <2>2. \A h \in Hilos : Libre(h) /\ libera[h].paso = "suma"
    BY <1>1 DEF EnReposo, Base, Hilero, Libre
  <2>3. Pedida(q) = 0 /\ Devuelta(q) = 0 /\ DeMas("mata", q) = 0
    BY <2>2 DEF EnReposo, Pedida, Devuelta, DeMas, PasosWait, Libre, Hilos
  <2>4. /\ instancias[q] \in Int /\ Len(espera[q]) \in Nat /\ Instancias[q] \in Nat
    BY <1>1, MedidasDe, RecursosAssumption
  <2>5. Cardinality(Tomadas(q)) \in Nat
    <3>1. TypeOK
      BY <1>1 DEF Base
    <3>2. PICK f \in [Procesos -> Nat] : Tomadas(q) = Fichas(f)
      BY <3>1, TomadasDe
    <3>3. QED
      BY <3>2, FichasFinitas
  <2>6. /\ instancias[q] + Len(espera[q]) + 0 <= 0
        /\ instancias[q] + Cardinality(Tomadas(q)) + Len(espera[q]) + 0 + 0 = Instancias[q]
    BY <2>1, <2>3 DEF Ordenado
  <2>7. QED
    BY <2>4, <2>5, <2>6
<1>2. QED
  BY <1>1, BaseSiempre, ContadaSiempre, PTL

-----------------------------------------------------------------------------
(* The semaphore of module Semaforo.                                       *)
LEMMA VistaDelSemaforo ==
    ASSUME Base, NEW CONSTANT r \in NombresRecurso
    PROVE  /\ Abstracto!Libres(r) = Instancias[r] - Cardinality(Tomadas(r))
           /\ \A p \in Procesos : ~EnEspera(p) => p \notin Abstracto!Bloqueados
<1>1. UNION {{p} \X (1..tiene[p][r]) : p \in Procesos} = Tomadas(r)
  <2> DEFINE f == [p \in Procesos |-> tiene[p][r]]
  <2>1. \A p \in Procesos : f[p] = tiene[p][r]
    OBVIOUS
  <2>2. Tomadas(r) = Fichas(f)
    BY DEF Tomadas
  <2> HIDE DEF f
  <2>3. UNION {{p} \X (1..f[p]) : p \in Procesos} = UNION {{p} \X (1..tiene[p][r]) : p \in Procesos}
    BY <2>1
  <2>4. QED
    BY <2>2, <2>3 DEF Fichas
<1>2. Abstracto!Libres(r) = Instancias[r] - Cardinality(Tomadas(r))
  <2>1. Abstracto!Libres(r)
          = Instancias[r] - Cardinality(UNION {{p} \X (1..tiene[p][r]) : p \in Procesos})
    BY Zenon DEF Abstracto!Libres, Abstracto!Cardinality, Cardinality
  <2>2. QED
    BY <1>1, <2>1
<1>3. ASSUME NEW p \in Procesos, p \in Abstracto!Bloqueados PROVE EnEspera(p)
  <2>1. PICK q \in NombresRecurso : p \in {espera[q][i] : i \in 1..Len(espera[q])}
    BY <1>3 DEF Abstracto!Bloqueados
  <2>2. espera[q] \in Seq(Procesos)
    BY Tipos DEF Base
  <2>3. p \in ToSet(espera[q])
    BY <2>1, <2>2, ElementosDe
  <2>4. QED
    BY <2>3 DEF EnEspera
<1>4. QED
  BY <1>2, <1>3

(* The units that are free for the semaphore, in terms of the code.        *)
LEMMA LibresDe ==
    ASSUME Base, Contadas, NEW CONSTANT r \in NombresRecurso, SinMatarEspera
    PROVE  /\ Abstracto!Libres(r) = instancias[r] + Len(espera[r]) + Pedida(r)
           /\ Devuelta(r) <= Abstracto!Libres(r)
           /\ espera[r] # <<>> => Abstracto!Libres(r) = Devuelta(r)
<1>1. /\ instancias[r] \in Int /\ Len(espera[r]) \in Nat /\ Instancias[r] \in Nat
      /\ Pedida(r) \in {0, 1} /\ Devuelta(r) \in {0, 1}
  BY MedidasDe, RecursosAssumption
<1>2. Cardinality(Tomadas(r)) \in Nat
  <2>1. TypeOK
    BY DEF Base
  <2>2. PICK f \in [Procesos -> Nat] : Tomadas(r) = Fichas(f)
    BY <2>1, TomadasDe
  <2>3. QED
    BY <2>2, FichasFinitas
<1>3. /\ espera[r] # <<>> => instancias[r] + Len(espera[r]) + Pedida(r) <= Devuelta(r)
      /\ instancias[r] + Cardinality(Tomadas(r)) + Len(espera[r]) + Pedida(r) + 0 = Instancias[r]
      /\ Devuelta(r) <= instancias[r] + Len(espera[r]) + Pedida(r)
  BY DEF Contadas, Ordenado
<1>4. Abstracto!Libres(r) = Instancias[r] - Cardinality(Tomadas(r))
  BY VistaDelSemaforo
<1>5. Pedida(r) \in Int /\ Devuelta(r) \in Int
  BY <1>1
<1>6. Abstracto!Libres(r) = instancias[r] + Len(espera[r]) + Pedida(r)
  BY <1>1, <1>2, <1>3, <1>4, <1>5
<1>7. QED
  BY <1>1, <1>3, <1>5, <1>6

(* Every step outside the race is a step of the semaphore or changes       *)
(* nothing it sees.                                                        *)
LEMMA PasoDelSemaforo ==
    ASSUME Base, Exclusivos, SinCarrera, SinCarrera', Next, Contadas, SinMatarEspera
    PROVE  [Abstracto!Next]_<<tiene, espera>>
<1>0. Base'
  BY BasePaso
<1> DEFINE G == [Abstracto!Next]_<<tiene, espera>>
<1> HIDE DEF G
<1> SUFFICES G
  BY DEF G
<1>1. UNCHANGED <<tiene, espera>> => G
  BY DEF G
<1>2. ASSUME NEW r \in NombresRecurso,
             \/ Abstracto!Entrega(r)
             \/ \E p \in Procesos :
                  Abstracto!Toma(p, r) \/ Abstracto!Aguarda(p, r) \/ Abstracto!Suelta(p, r)
      PROVE  G
  BY <1>2 DEF G, Abstracto!Next
<1>3. CASE FueraDeSeccion \/ RecibePedido
  <2>1. UNCHANGED <<tiene, espera>>
    BY <1>3 DEF FueraDeSeccion, RecibePedido, Recibe, cuentas
  <2>2. QED
    BY <1>1, <2>1
<1>4. ASSUME NEW h \in {"cp", "mata"}, NEW x \in Procesos, EmpiezaSeccion(h, x) PROVE G
  <2>1. UNCHANGED <<tiene, espera>>
    BY <1>4 DEF EmpiezaSeccion
  <2>2. QED
    BY <1>1, <2>1
<1>5. CASE WaitGuarda \/ WaitNoAlcanza \/ WaitRemira \/ SignalMira \/ SignalSigue
  <2>1. UNCHANGED <<tiene, espera>>
    BY <1>5 DEF WaitGuarda, WaitNoAlcanza, WaitRemira, SignalMira, SignalSigue, colas, cuentas
  <2>2. QED
    BY <1>1, <2>1
<1>6. ASSUME EnPedido
      PROVE  \E x \in Procesos, r \in NombresRecurso :
               /\ x = cp.pid /\ r = cp.r /\ x \notin Abstracto!Bloqueados
               /\ DeMas("mata", r) = 0 /\ \A h \in Hilos : libera[h].paso = "suma"
  <2>1. PICK x \in Procesos, r \in NombresRecurso : x = cp.pid /\ r = cp.r
    BY <1>6, EnPedidoVisto
  <2>2. ~EnEspera(x)
    BY <2>1 DEF Base, Separados, EnPermiso
  <2>3. x \notin Abstracto!Bloqueados
    BY <2>2, VistaDelSemaforo
  <2>4. DeMas("mata", r) = 0 /\ \A h \in Hilos : libera[h].paso = "suma"
    BY <1>6, EnPedidoVisto
  <2>5. QED
    BY <2>1, <2>3, <2>4
<1>7. CASE WaitConcede
  <2>1. EnPedido /\ cp.paso = "wait_mira"
    BY <1>7 DEF WaitConcede, EnPedido
  <2>2. PICK x \in Procesos, r \in NombresRecurso :
          /\ x = cp.pid /\ r = cp.r /\ x \notin Abstracto!Bloqueados
          /\ DeMas("mata", r) = 0 /\ \A h \in Hilos : libera[h].paso = "suma"
    BY <1>6, <2>1
  <2>3. Pedida(r) = 1 /\ Devuelta(r) = 0
    BY <2>1, <2>2 DEF Pedida, Devuelta, PasosWait
  <2>4. /\ Abstracto!Libres(r) = instancias[r] + Len(espera[r]) + 1
        /\ espera[r] # <<>> => Abstracto!Libres(r) = 0
        /\ instancias[r] \in Int /\ Len(espera[r]) \in Nat
    BY <2>2, <2>3, LibresDe, MedidasDe
  <2>5. instancias[r] >= 0 /\ tiene' = [tiene EXCEPT ![x][r] = @ + 1] /\ UNCHANGED espera
    BY <1>7, <2>2 DEF WaitConcede
  <2>6. Abstracto!Libres(r) > 0 /\ espera[r] = <<>>
    BY <2>4, <2>5
  <2>7. Abstracto!Toma(x, r)
    BY <2>2, <2>5, <2>6 DEF Abstracto!Toma
  <2>8. QED
    BY <1>2, <2>7
<1>8. CASE WaitEncola
  <2>1. EnPedido /\ cp.paso = "wait_encola"
    BY <1>8 DEF WaitEncola, EnPedido
  <2>2. PICK x \in Procesos, r \in NombresRecurso :
          /\ x = cp.pid /\ r = cp.r /\ x \notin Abstracto!Bloqueados
          /\ DeMas("mata", r) = 0 /\ \A h \in Hilos : libera[h].paso = "suma"
    BY <1>6, <2>1
  <2>3. Pedida(r) = 1 /\ Devuelta(r) = 0
    BY <2>1, <2>2 DEF Pedida, Devuelta, PasosWait
  <2>4. /\ Abstracto!Libres(r) = instancias[r] + Len(espera[r]) + 1
        /\ 0 <= Abstracto!Libres(r)
        /\ espera[r] # <<>> => Abstracto!Libres(r) = 0
        /\ instancias[r] \in Int /\ Len(espera[r]) \in Nat
        /\ espera[r] = <<>> <=> Len(espera[r]) = 0
    BY <2>2, <2>3, LibresDe, MedidasDe
  <2>5. /\ espera' = [espera EXCEPT ![r] = Append(@, x)] /\ UNCHANGED tiene
        /\ instancias[r] < 0
    BY <1>8, <2>1, <2>2 DEF WaitEncola, cuentas, Exclusivos
  <2>6. Abstracto!Libres(r) = 0
    BY <2>4, <2>5
  <2>7. Abstracto!Aguarda(x, r)
    BY <2>2, <2>5, <2>6 DEF Abstracto!Aguarda
  <2>8. QED
    BY <1>2, <2>7
<1>9. CASE SignalGuarda
  <2>1. EnPedido /\ cp.paso = "signal_guarda"
    BY <1>9 DEF SignalGuarda, EnPedido
  <2>2. PICK x \in Procesos, r \in NombresRecurso :
          x = cp.pid /\ r = cp.r /\ x \notin Abstracto!Bloqueados
    BY <1>6, <2>1
  <2>3. tiene[x][r] > 0
    BY <2>1, <2>2 DEF Base, Cuentas, CuentasDe
  <2>4. tiene' = [tiene EXCEPT ![x][r] = @ - 1] /\ UNCHANGED espera
    BY <1>9, <2>2 DEF SignalGuarda, colas
  <2>5. Abstracto!Suelta(x, r)
    BY <2>2, <2>3, <2>4 DEF Abstracto!Suelta
  <2>6. QED
    BY <1>2, <2>5
<1>10. ASSUME NEW CONSTANT r \in NombresRecurso, SacaDe(r) PROVE G
  <2>1. Despierta(r)
    BY <1>10, SacaVista
  <2>2. espera[r] # <<>>
    BY <1>10 DEF SacaDe, SignalSaca, LiberarSaca, Exclusivos
  <2>3. Devuelta(r) = 1
    BY <1>10 DEF SacaDe, SignalSaca, LiberarSaca, Devuelta
  <2>4. Abstracto!Libres(r) > 0
    BY <2>2, <2>3, LibresDe
  <2>5. Abstracto!Entrega(r)
    BY <2>1, <2>2, <2>4 DEF Despierta, Abstracto!Entrega
  <2>6. QED
    BY <1>2, <2>5
<1>11. CASE SignalSaca
  <2>1. PICK r \in NombresRecurso : r = cp.r
    BY <1>11, PedidoVisto
  <2>2. SacaDe(r)
    BY <1>11, <2>1 DEF SacaDe
  <2>3. QED
    BY <1>10, <2>2
<1>12. ASSUME NEW CONSTANT h \in {"cp", "mata"}, Libera(h) PROVE G
  <2>1. h \in Hilos /\ Liberando(h)
    BY <1>12 DEF Hilos, Libera, LiberarLee, LiberarGuarda, LiberarMira, LiberarSaca, LiberarTermina
  <2>2. CASE LiberarLee(h) \/ LiberarMira(h) \/ LiberarTermina(h)
    <3>1. UNCHANGED <<tiene, espera>>
      BY <2>2 DEF LiberarLee, LiberarMira, LiberarTermina, colas, cuentas
    <3>2. QED
      BY <1>1, <3>1
  <2>3. CASE LiberarSaca(h) \/ LiberarGuarda(h)
    <3>1. PICK x \in Procesos, r \in NombresRecurso : x = libera[h].pid /\ r = libera[h].r
      <4>1. /\ libera[h].pid \in Procesos \cup {Nadie}
            /\ libera[h].r \in NombresRecurso \cup {Nadie}
            /\ libera[h].r # Nadie
        BY <2>1, <2>3, Tipos DEF Base, EstadosLibera, Hilero, LiberarSaca, LiberarGuarda
      <4>2. QED
        BY <2>1, <4>1 DEF Liberando
    <3>2. CASE LiberarSaca(h)
      <4>1. SacaDe(r)
        BY <2>1, <3>1, <3>2 DEF SacaDe
      <4>2. QED
        BY <1>10, <4>1
    <3>3. CASE LiberarGuarda(h)
      <4>1. tiene' = [tiene EXCEPT ![x][r] = IF @ > 0 THEN @ - 1 ELSE 0] /\ UNCHANGED espera
        BY <3>1, <3>3 DEF LiberarGuarda, colas
      <4>2. x \notin Abstracto!Bloqueados
        <5>1. EnLibera(x)
          BY <2>1, <3>1 DEF EnLibera
        <5>2. ~EnEspera(x)
          BY <5>1 DEF Base, Separados
        <5>3. QED
          BY <5>2, VistaDelSemaforo
      <4>3. tiene \in [Procesos -> [NombresRecurso -> Nat]]
        BY Tipos DEF Base
      <4>4. CASE tiene[x][r] > 0
        <5>1. tiene' = [tiene EXCEPT ![x][r] = @ - 1]
          BY <4>1, <4>3, <4>4
        <5>2. Abstracto!Suelta(x, r)
          BY <4>1, <4>2, <4>4, <5>1 DEF Abstracto!Suelta
        <5>3. QED
          BY <1>2, <5>2
      <4>5. CASE ~(tiene[x][r] > 0)
        <5>1. tiene[x][r] = 0
          BY <4>3, <4>5
        <5>2. tiene' = tiene
          BY <4>1, <4>3, <5>1
        <5>3. QED
          BY <1>1, <4>1, <5>2
      <4>6. QED
        BY <4>4, <4>5
    <3>4. QED
      BY <2>3, <3>2, <3>3
  <2>4. QED
    BY <1>12, <2>2, <2>3 DEF Libera
<1>13. QED
  BY <1>3, <1>4, <1>5, <1>7, <1>8, <1>9, <1>11, <1>12, ClasesDePaso DEF Pedido

(* When nobody is killed while it waits and the thread of an interface     *)
(* never releases, WAIT, SIGNAL and liberar_recursos implement the         *)
(* semaphore of module Semaforo: a unit has one holder and the queue is    *)
(* served in order.                                                        *)
THEOREM ImplementaSemaforoSiempre ==
    ASSUME Desconecta = FALSE, "IO" \notin MataEn, SinMatarEspera
    PROVE  Spec => ImplementaSemaforo
<1>1. Init => Abstracto!Init
  <2>1. ASSUME Init PROVE Abstracto!Init
    <3>1. usadas = [p \in Procesos |-> [r \in NombresRecurso |-> 0]] /\ tiene = usadas
      BY <2>1 DEF Init
    <3>2. espera = [r \in NombresRecurso |-> <<>>]
      BY <2>1 DEF Init
    <3>3. QED
      BY <3>1, <3>2 DEF Abstracto!Init
  <2>2. QED
    BY <2>1
<1>2. ASSUME Base, Serie, SinCarrera, SinCarrera', Contada, [Next]_vars
      PROVE  [Abstracto!Next]_<<tiene, espera>>
  <2>1. CASE Next
    BY <1>2, <2>1, PasoDelSemaforo DEF Serie, Contada
  <2>2. CASE UNCHANGED vars
    BY <2>2 DEF vars
  <2>3. QED
    BY <1>2, <2>1, <2>2
<1>3. Spec => []SinCarrera
  BY SinCarreraSiempre
<1>4. QED
  BY <1>1, <1>2, <1>3, BaseSiempre, SerieSiempre, ContadaSiempre, PTL
     DEF Spec, ImplementaSemaforo, Abstracto!Spec

(* When nobody is killed while it waits for a resource the programs never  *)
(* have more units than there are, until the thread of an interface        *)
(* releases. A kill there is what breaks it: see Exclusion in MCRecursos.  *)
THEOREM UnidadesAlcanzan ==
    ASSUME SinMatarEspera
    PROVE  Spec => [](SinCarrera => \A r \in NombresRecurso :
                                        Cardinality(Tomadas(r)) <= Instancias[r])
<1>1. ASSUME Base, Contada, SinCarrera, NEW CONSTANT r \in NombresRecurso
      PROVE  Cardinality(Tomadas(r)) <= Instancias[r]
  <2>1. Contadas
    BY <1>1 DEF Contada
  <2>2. /\ Abstracto!Libres(r) = Instancias[r] - Cardinality(Tomadas(r))
        /\ Abstracto!Libres(r) = instancias[r] + Len(espera[r]) + Pedida(r)
        /\ Devuelta(r) <= Abstracto!Libres(r)
    BY <1>1, <2>1, VistaDelSemaforo, LibresDe
  <2>3. Cardinality(Tomadas(r)) \in Nat
    <3>1. TypeOK
      BY <1>1 DEF Base
    <3>2. PICK f \in [Procesos -> Nat] : Tomadas(r) = Fichas(f)
      BY <3>1, TomadasDe
    <3>3. QED
      BY <3>2, FichasFinitas
  <2>4. Instancias[r] \in Nat /\ Devuelta(r) >= 0
    BY RecursosAssumption DEF Devuelta
  <2>5. Devuelta(r) \in Int
    BY DEF Devuelta
  <2>6. QED
    BY <2>2, <2>3, <2>4, <2>5
<1>2. ASSUME Base, Contada
      PROVE  SinCarrera => \A r \in NombresRecurso : Cardinality(Tomadas(r)) <= Instancias[r]
  BY <1>1, <1>2
<1>3. QED
  BY <1>2, BaseSiempre, ContadaSiempre, PTL
=============================================================================
