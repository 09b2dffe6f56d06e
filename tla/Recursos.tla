------------------------------ MODULE Recursos ------------------------------
(***************************************************************************)
(* WAIT, SIGNAL and liberar_recursos (planificadorCP.c, manejo_recursos.c) *)
(* at the grain of their reads and writes, with the answer the CPU waits   *)
(* for, and the threads that release resources at the same time: the       *)
(* short-term scheduler, the thread of an interface that completes or is   *)
(* lost, and the killer.  Semaphores of READY and the degree are left to   *)
(* module Planificador: here a process in READY may always be dispatched.  *)
(***************************************************************************)
EXTENDS Integers, Sequences, FiniteSets, SequencesExt

CONSTANTS Procesos,
          NombresRecurso, \* RECURSOS of kernel.config
          Instancias,     \* INSTANCIAS_RECURSOS, per resource
          Nadie,          \* no process, the NULL of the code
          MaxUnidades,    \* bound: units of a resource a program holds at once
          ConReloj,       \* RR or VRR: bursts may be preempted
          MataEn,         \* bound: the queues where a kill may find its pid
          Desconecta      \* bound: whether the interface may be lost

ASSUME RecursosAssumption ==
    /\ IsFiniteSet(Procesos) /\ Nadie \notin Procesos \cup NombresRecurso
    /\ Instancias \in [NombresRecurso -> Nat]
    /\ MaxUnidades \in Nat \ {0}
    /\ ConReloj \in BOOLEAN /\ Desconecta \in BOOLEAN
    /\ MataEn \subseteq {"READY", "EXEC", "IO", "ESPERA"}

Hilos == {"cp", "io", "mata"}    \* the threads that call liberar_recursos

VARIABLES
    ready, exec, salida,   \* lista_procesos_ready, _exec, _exit
    enIO,         \* the requests of the interface
    espera,       \* recurso->cola_blocked
    instancias,   \* recurso->instancias_recurso
    usadas,       \* cantInstanciasUtil in instancias_utilizadas
    tiene,        \* history: the units the program was told it has
    cp,           \* where recibir_contexto_actualizado is
    libera,       \* where each call to liberar_recursos is
    io,           \* the interface: attends, is being drained, is gone
    redirigidos,  \* requests whose cola_destino is COLA_EXIT_USUARIO
    intUsuario,   \* interrupcion_usuario
    senial,       \* pid of the USER_INTERRUPT in the interrupt socket
    interrupcion, \* PID_INTERRUMPIR of the CPU
    despacho,     \* the pcb in the dispatch socket, kernel to CPU
    aviso,        \* MISMO_PID or NUEVO_PID in the dispatch socket
    cpu,          \* what the CPU does, and for whom
    contexto,     \* the context in the dispatch socket, CPU to kernel
    caido         \* the kernel followed a NULL pcb

colas == <<ready, exec, salida, enIO, espera>>
cuentas == <<instancias, usadas, tiene>>
maquina == <<despacho, aviso, cpu, contexto, senial, interrupcion>>
vars == <<ready, exec, salida, enIO, espera, instancias, usadas, tiene, cp, libera, io,
          redirigidos, intUsuario, senial, interrupcion, despacho, aviso, cpu, contexto, caido>>

SinContexto == [pid |-> Nadie, motivo |-> "EXIT", r |-> Nadie]
Quieto == [pid |-> Nadie, paso |-> "suma", r |-> Nadie, leido |-> 0,
           faltan |-> [r \in NombresRecurso |-> 0]]
Espero == [paso |-> "despacha", pid |-> Nadie, r |-> Nadie, leido |-> 0]
MotivosConAviso == {"WAIT", "SIGNAL"}
Motivos == MotivosConAviso \cup {"EXIT", "IO", "QUANTUM", "USER_INTERRUPT"}
PasosCP == {"despacha", "recibe", "wait_guarda", "wait_mira", "wait_remira",
            "wait_encola", "signal_guarda", "signal_mira", "signal_saca",
            "signal_sigue", "fin", "fin_invalido"}

TypeOK ==
    /\ ready \in Seq(Procesos) /\ exec \in Seq(Procesos) /\ salida \subseteq Procesos
    /\ enIO \in Seq(Procesos) /\ espera \in [NombresRecurso -> Seq(Procesos)]
    /\ instancias \in [NombresRecurso -> Int]
    /\ usadas \in [Procesos -> [NombresRecurso -> Nat]]
    /\ tiene \in [Procesos -> [NombresRecurso -> Nat]]
    /\ cp \in [paso : PasosCP, pid : Procesos \cup {Nadie},
               r : NombresRecurso \cup {Nadie}, leido : Int]
    /\ libera \in [Hilos -> [pid : Procesos \cup {Nadie}, paso : {"suma", "guarda", "mira", "saca"},
                             r : NombresRecurso \cup {Nadie}, leido : Int,
                             faltan : [NombresRecurso -> Nat]]]
    /\ io \in {"atiende", "drena", "fuera"} /\ redirigidos \subseteq Procesos
    /\ intUsuario \in BOOLEAN /\ caido \in BOOLEAN
    /\ senial \in Procesos \cup {Nadie} /\ interrupcion \in Procesos \cup {Nadie}
    /\ despacho \in Procesos \cup {Nadie}
    /\ aviso \in {"nada", "MISMO_PID", "NUEVO_PID"}
    /\ cpu \in [paso : {"libre", "ejecuta", "pide", "perdida"}, pid : Procesos \cup {Nadie}]
    /\ contexto \in [pid : Procesos \cup {Nadie}, motivo : Motivos,
                     r : NombresRecurso \cup {Nadie}]

Init ==
    /\ ready \in {s \in [1..Cardinality(Procesos) -> Procesos] : IsInjective(s)}
    /\ exec = <<>> /\ salida = {} /\ enIO = <<>>
    /\ espera = [r \in NombresRecurso |-> <<>>]
    /\ instancias = Instancias
    /\ usadas = [p \in Procesos |-> [r \in NombresRecurso |-> 0]]
    /\ tiene = usadas
    /\ cp = Espero /\ libera = [h \in Hilos |-> Quieto]
    /\ io = "atiende" /\ redirigidos = {} /\ intUsuario = FALSE
    /\ senial = Nadie /\ interrupcion = Nadie /\ despacho = Nadie /\ aviso = "nada"
    /\ cpu = [paso |-> "libre", pid |-> Nadie] /\ contexto = SinContexto
    /\ caido = FALSE

-----------------------------------------------------------------------------
(* liberar_recursos: for each unit the process has asked for and not given *)
(* back, instancias_recurso++ (a read and a write: no mutex covers it),    *)
(* then the head of cola_blocked goes to READY if the queue is not empty.  *)
(* The pop is separate from the test, and its result is used unchecked.    *)
Liberando(h) == libera[h].pid # Nadie
Libre(h) == ~Liberando(h)

(* Mutant: only the units the process was told it has are given back. *)
EmpiezaALiberarConcedidas(h, p) ==
    libera' = [libera EXCEPT ![h] = [Quieto EXCEPT !.pid = p, !.faltan = tiene[p]]]

EmpiezaALiberar(h, p) ==
    libera' = [libera EXCEPT ![h] = [Quieto EXCEPT !.pid = p, !.faltan = usadas[p]]]

LiberarLee(h) ==
    /\ Liberando(h) /\ libera[h].paso = "suma"
    /\ \E r \in NombresRecurso :
         /\ libera[h].faltan[r] > 0
         /\ libera' = [libera EXCEPT ![h] = [pid |-> @.pid, paso |-> "guarda", r |-> r,
                                             leido |-> instancias[r], faltan |-> @.faltan]]
    /\ UNCHANGED <<colas, cuentas, cp, io, redirigidos, intUsuario, maquina, caido>>

LiberarGuarda(h) ==
    /\ Liberando(h) /\ libera[h].paso = "guarda"
    /\ LET r == libera[h].r  p == libera[h].pid IN
         /\ instancias' = [instancias EXCEPT ![r] = libera[h].leido + 1]
         /\ libera' = [libera EXCEPT ![h].paso = "mira", ![h].faltan[r] = @ - 1]
         /\ tiene' = [tiene EXCEPT ![p][r] = IF @ > 0 THEN @ - 1 ELSE 0]
    /\ UNCHANGED <<colas, usadas, cp, io, redirigidos, intUsuario, maquina, caido>>

(* Mutant: the unit comes back and nobody is woken. *)
LiberarMiraNada(h) ==
    /\ Liberando(h) /\ libera[h].paso = "mira"
    /\ libera' = [libera EXCEPT ![h].paso = "suma"]
    /\ UNCHANGED <<colas, cuentas, cp, io, redirigidos, intUsuario, maquina, caido>>

LiberarMira(h) ==
    /\ Liberando(h) /\ libera[h].paso = "mira"
    /\ libera' = [libera EXCEPT ![h].paso = IF espera[libera[h].r] = <<>> THEN "suma" ELSE "saca"]
    /\ UNCHANGED <<colas, cuentas, cp, io, redirigidos, intUsuario, maquina, caido>>

(* Mutant: the pcb leaves the queue of the resource and is not pushed to READY. *)
DespiertaPierde(r) ==
    IF espera[r] = <<>>
    THEN caido' = TRUE /\ UNCHANGED <<ready, espera, tiene>>
    ELSE /\ espera' = [espera EXCEPT ![r] = Tail(@)]
         /\ tiene' = [tiene EXCEPT ![Head(espera[r])][r] = @ + 1]
         /\ UNCHANGED <<ready, caido>>

(* squeue_pop of cola_blocked, READY, and the unit the process now has.    *)
Despierta(r) ==
    IF espera[r] = <<>>
    THEN caido' = TRUE /\ UNCHANGED <<ready, espera, tiene>>
    ELSE /\ ready' = Append(ready, Head(espera[r]))
         /\ espera' = [espera EXCEPT ![r] = Tail(@)]
         /\ tiene' = [tiene EXCEPT ![Head(espera[r])][r] = @ + 1]
         /\ UNCHANGED caido

LiberarSaca(h) ==
    /\ Liberando(h) /\ libera[h].paso = "saca"
    /\ Despierta(libera[h].r)
    /\ libera' = [libera EXCEPT ![h].paso = "suma"]
    /\ UNCHANGED <<exec, salida, enIO, instancias, usadas, cp, io, redirigidos, intUsuario, maquina>>

(* The rest of manejar_fin_con_motivo: the pcb joins EXIT.                 *)
LiberarTermina(h) ==
    /\ Liberando(h) /\ libera[h].paso = "suma"
    /\ \A r \in NombresRecurso : libera[h].faltan[r] = 0
    /\ salida' = salida \cup {libera[h].pid}
    /\ libera' = [libera EXCEPT ![h] = Quieto]
    /\ IF h = "cp"
       THEN /\ aviso' = IF cp.paso = "fin_invalido" THEN "NUEVO_PID" ELSE aviso
            /\ cp' = Espero
       ELSE UNCHANGED <<aviso, cp>>
    /\ UNCHANGED <<ready, exec, enIO, espera, cuentas, io, redirigidos, intUsuario,
                   despacho, cpu, contexto, senial, interrupcion, caido>>

-----------------------------------------------------------------------------
(* The permits: a kill owns the four of them from its search to the end of *)
(* its liberar_recursos; the thread of the interface owns the one of       *)
(* blocked while it completes a request, and none while it drains.         *)
Planificando == Libre("mata")
EnSeccionExec == cp.paso \notin {"despacha", "recibe"}
EnSeccionBlocked == Liberando("io") /\ io = "atiende"

Despacha ==
    /\ Planificando /\ cp.paso = "despacha" /\ ready # <<>>
    /\ ready' = Tail(ready)
    /\ exec' = Append(exec, Head(ready))
    /\ despacho' = Head(ready)
    /\ cp' = [cp EXCEPT !.paso = "recibe"]
    /\ UNCHANGED <<salida, enIO, espera, cuentas, libera, io, redirigidos, intUsuario,
                   aviso, cpu, contexto, senial, interrupcion, caido>>

(* recibir_contexto_actualizado up to the switch.                          *)
Recibe(m) ==
    /\ Planificando /\ cp.paso = "recibe" /\ contexto.pid # Nadie
    /\ m = IF intUsuario THEN "USER_INTERRUPT" ELSE contexto.motivo
    /\ intUsuario' = FALSE
    /\ contexto' = SinContexto
    /\ exec' = Tail(exec)
    /\ UNCHANGED <<salida, espera, cuentas, io, redirigidos, despacho, aviso, cpu, senial, interrupcion, caido>>

RecibeQuantum ==
    /\ Recibe("QUANTUM")
    /\ ready' = Append(ready, Head(exec))
    /\ cp' = Espero
    /\ UNCHANGED <<enIO, libera>>

RecibeIO ==
    /\ Recibe("IO") /\ io # "fuera"
    /\ enIO' = Append(enIO, Head(exec))
    /\ cp' = Espero
    /\ UNCHANGED <<ready, libera>>

(* EXIT, the user, an interface that is not there, and WAIT or SIGNAL of a *)
(* resource that is not in the list; only the last one answers the CPU.    *)
RecibeFin ==
    /\ \/ /\ Recibe("EXIT") \/ Recibe("USER_INTERRUPT") \/ (Recibe("IO") /\ io = "fuera")
          /\ cp' = [Espero EXCEPT !.paso = "fin"]
       \/ /\ \E m \in MotivosConAviso : Recibe(m)
          /\ contexto.r = Nadie
          /\ cp' = [Espero EXCEPT !.paso = "fin_invalido"]
    /\ EmpiezaALiberar("cp", Head(exec))
    /\ UNCHANGED <<ready, enIO>>

(* WAIT: instancias_recurso -= 1, the unit is noted as used, and the       *)
(* result is read again to decide.  The second read of the else-if exists  *)
(* in a debug build and is folded in an optimised one.                     *)
RecibePedido ==
    /\ contexto.r # Nadie
    /\ \E m \in MotivosConAviso :
         /\ Recibe(m)
         /\ cp' = [paso |-> IF m = "WAIT" THEN "wait_guarda" ELSE "signal_guarda",
                   pid |-> Head(exec), r |-> contexto.r, leido |-> instancias[contexto.r]]
    /\ UNCHANGED <<ready, enIO, libera>>

WaitGuarda ==
    /\ cp.paso = "wait_guarda"
    /\ instancias' = [instancias EXCEPT ![cp.r] = cp.leido - 1]
    /\ usadas' = [usadas EXCEPT ![cp.pid][cp.r] = @ + 1]
    /\ cp' = [cp EXCEPT !.paso = "wait_mira"]
    /\ UNCHANGED <<colas, tiene, libera, io, redirigidos, intUsuario, maquina, caido>>

Sigue ==
    /\ exec' = Append(exec, cp.pid)
    /\ aviso' = "MISMO_PID"
    /\ cp' = [Espero EXCEPT !.paso = "recibe"]

WaitConcede ==
    /\ cp.paso = "wait_mira" /\ instancias[cp.r] >= 0
    /\ Sigue
    /\ tiene' = [tiene EXCEPT ![cp.pid][cp.r] = @ + 1]
    /\ UNCHANGED <<ready, salida, enIO, espera, instancias, usadas, libera, io, redirigidos,
                   intUsuario, despacho, cpu, contexto, senial, interrupcion, caido>>

WaitNoAlcanza ==
    /\ cp.paso = "wait_mira" /\ instancias[cp.r] < 0
    /\ \E s \in {"wait_remira", "wait_encola"} : cp' = [cp EXCEPT !.paso = s]
    /\ UNCHANGED <<colas, cuentas, libera, io, redirigidos, intUsuario, maquina, caido>>

(* Neither branch is taken when the unit came back between the two reads:  *)
(* the pcb is in no queue and the CPU gets no answer.                      *)
WaitRemira ==
    /\ cp.paso = "wait_remira"
    /\ cp' = IF instancias[cp.r] < 0 THEN [cp EXCEPT !.paso = "wait_encola"] ELSE Espero
    /\ UNCHANGED <<colas, cuentas, libera, io, redirigidos, intUsuario, maquina, caido>>

WaitEncola ==
    /\ cp.paso = "wait_encola"
    /\ espera' = [espera EXCEPT ![cp.r] = Append(@, cp.pid)]
    /\ aviso' = "NUEVO_PID"
    /\ cp' = Espero
    /\ UNCHANGED <<ready, exec, salida, enIO, cuentas, libera, io, redirigidos, intUsuario,
                   despacho, cpu, contexto, senial, interrupcion, caido>>

(* SIGNAL: instancias_recurso += 1, the first process that waits goes to   *)
(* READY, and the caller goes on.  usadas is written here, not after the   *)
(* wake-up: nobody reads that entry while the scheduler holds the pcb.     *)
SignalGuarda ==
    /\ cp.paso = "signal_guarda"
    /\ instancias' = [instancias EXCEPT ![cp.r] = cp.leido + 1]
    /\ usadas' = [usadas EXCEPT ![cp.pid][cp.r] = @ - 1]
    /\ tiene' = [tiene EXCEPT ![cp.pid][cp.r] = @ - 1]
    /\ cp' = [cp EXCEPT !.paso = "signal_mira"]
    /\ UNCHANGED <<colas, libera, io, redirigidos, intUsuario, maquina, caido>>

(* Mutant: the queue of the resource is not looked at. *)
SignalMiraNada ==
    /\ cp.paso = "signal_mira"
    /\ cp' = [cp EXCEPT !.paso = "signal_sigue"]
    /\ UNCHANGED <<colas, cuentas, libera, io, redirigidos, intUsuario, maquina, caido>>

(* Mutant: the pop without the test of squeue_is_empty. *)
SignalMiraSinPreguntar ==
    /\ cp.paso = "signal_mira"
    /\ cp' = [cp EXCEPT !.paso = "signal_saca"]
    /\ UNCHANGED <<colas, cuentas, libera, io, redirigidos, intUsuario, maquina, caido>>

SignalMira ==
    /\ cp.paso = "signal_mira"
    /\ cp' = [cp EXCEPT !.paso = IF espera[cp.r] = <<>> THEN "signal_sigue" ELSE "signal_saca"]
    /\ UNCHANGED <<colas, cuentas, libera, io, redirigidos, intUsuario, maquina, caido>>

SignalSaca ==
    /\ cp.paso = "signal_saca"
    /\ Despierta(cp.r)
    /\ cp' = [cp EXCEPT !.paso = "signal_sigue"]
    /\ UNCHANGED <<exec, salida, enIO, instancias, usadas, libera, io, redirigidos, intUsuario,
                   maquina>>

SignalSigue ==
    /\ cp.paso = "signal_sigue"
    /\ Sigue
    /\ UNCHANGED <<ready, salida, enIO, espera, cuentas, libera, io, redirigidos, intUsuario,
                   despacho, cpu, contexto, senial, interrupcion, caido>>

-----------------------------------------------------------------------------
(* The CPU.  A context whose motive is WAIT or SIGNAL keeps it waiting for *)
(* one integer of the dispatch socket; programs give back only units they  *)
(* hold.  Nadie as a resource stands for a name that is not configured.    *)
CPURecibe ==
    /\ cpu.paso = "libre" /\ despacho # Nadie
    /\ cpu' = [paso |-> "ejecuta", pid |-> despacho]
    /\ despacho' = Nadie
    /\ interrupcion' = Nadie
    /\ UNCHANGED <<colas, cuentas, cp, libera, io, redirigidos, intUsuario, aviso, contexto, senial, caido>>

Devuelve(m, r) ==
    /\ cpu.paso = "ejecuta"
    /\ contexto' = [pid |-> cpu.pid, motivo |-> m, r |-> r]
    /\ UNCHANGED <<colas, cuentas, cp, libera, io, redirigidos, intUsuario, despacho, aviso, senial, caido>>

CPUPide(m, r) ==
    /\ Devuelve(m, r)
    /\ r # Nadie => IF m = "WAIT" THEN usadas[cpu.pid][r] < MaxUnidades ELSE tiene[cpu.pid][r] > 0
    /\ cpu' = [cpu EXCEPT !.paso = "pide"]
    /\ UNCHANGED interrupcion

CPUSale(m) ==
    /\ Devuelve(m, Nadie)
    /\ m = "QUANTUM" => ConReloj
    /\ cpu' = [paso |-> "libre", pid |-> Nadie]
    /\ UNCHANGED interrupcion

CPUInterrumpe ==
    /\ interrupcion # Nadie
    /\ interrupcion' = Nadie
    /\ \/ /\ interrupcion = cpu.pid
          /\ Devuelve("USER_INTERRUPT", Nadie)
          /\ cpu' = [paso |-> "libre", pid |-> Nadie]
       \/ /\ interrupcion # cpu.pid /\ cpu.paso = "ejecuta"
          /\ UNCHANGED <<colas, cuentas, cp, libera, io, redirigidos, intUsuario, despacho,
                         aviso, cpu, contexto, senial, caido>>

(* manejarConexionInterrupt: the socket has its own thread, and one slot.  *)
InterruptLlega ==
    /\ senial # Nadie
    /\ interrupcion' = senial /\ senial' = Nadie
    /\ UNCHANGED <<colas, cuentas, cp, libera, io, redirigidos, intUsuario, despacho, aviso,
                   cpu, contexto, caido>>

CPUAviso ==
    /\ cpu.paso = "pide" /\ aviso # "nada"
    /\ cpu' = IF aviso = "NUEVO_PID" THEN [paso |-> "libre", pid |-> Nadie]
              ELSE [cpu EXCEPT !.paso = "ejecuta"]
    /\ aviso' = "nada"
    /\ UNCHANGED <<colas, cuentas, cp, libera, io, redirigidos, intUsuario, senial, interrupcion,
                   despacho, contexto, caido>>

(* The integer is the operation code of the next pcb, which is not         *)
(* NUEVO_PID: the CPU goes on with the process it had.  The rest of that   *)
(* pcb stays in the socket and the model follows the CPU no further.       *)
CPUAvisoAjeno ==
    /\ cpu.paso = "pide" /\ aviso = "nada" /\ despacho # Nadie
    /\ cpu' = [cpu EXCEPT !.paso = "perdida"]
    /\ despacho' = Nadie
    /\ UNCHANGED <<colas, cuentas, cp, libera, io, redirigidos, intUsuario, senial, interrupcion,
                   aviso, contexto, caido>>

-----------------------------------------------------------------------------
(* The thread of the interface.                                            *)
IOCompleta ==
    /\ Planificando /\ io = "atiende" /\ Libre("io") /\ enIO # <<>>
    /\ enIO' = Tail(enIO)
    /\ IF Head(enIO) \in redirigidos
       THEN EmpiezaALiberar("io", Head(enIO)) /\ UNCHANGED ready
       ELSE ready' = Append(ready, Head(enIO)) /\ UNCHANGED libera
    /\ UNCHANGED <<exec, salida, espera, cuentas, cp, io, redirigidos, intUsuario, maquina, caido>>

IODesconecta ==
    /\ Desconecta /\ io = "atiende" /\ Libre("io") /\ enIO # <<>>
    /\ io' = "drena"
    /\ UNCHANGED <<colas, cuentas, cp, libera, redirigidos, intUsuario, maquina, caido>>

(* Mutant: peek_elemento_cola_io where the drain pops. *)
IODrenaSinSacar ==
    /\ io = "drena" /\ Libre("io") /\ enIO # <<>>
    /\ EmpiezaALiberar("io", Head(enIO))
    /\ UNCHANGED <<colas, cuentas, cp, io, redirigidos, intUsuario, maquina, caido>>

IODrena ==
    /\ io = "drena" /\ Libre("io") /\ enIO # <<>>
    /\ enIO' = Tail(enIO)
    /\ EmpiezaALiberar("io", Head(enIO))
    /\ UNCHANGED <<ready, exec, salida, espera, cuentas, cp, io, redirigidos, intUsuario,
                   maquina, caido>>

IOSale ==
    /\ io = "drena" /\ Libre("io") /\ enIO = <<>>
    /\ io' = "fuera"
    /\ UNCHANGED <<colas, cuentas, cp, libera, redirigidos, intUsuario, maquina, caido>>

-----------------------------------------------------------------------------
(* buscar_proceso_finalizar with the scheduler stopped.                    *)
Mata(q) ==
    /\ q \in MataEn
    /\ Planificando /\ ~EnSeccionExec /\ ~EnSeccionBlocked
    /\ UNCHANGED <<salida, cuentas, cp, io, despacho, aviso, cpu, contexto, interrupcion, caido>>

Sin(s, p) == RemoveAt(s, CHOOSE k \in 1..Len(s) : s[k] = p)

MataEnReady(p) ==
    /\ Mata("READY") /\ Contains(ready, p)
    /\ ready' = Sin(ready, p)
    /\ EmpiezaALiberar("mata", p)
    /\ UNCHANGED <<exec, enIO, espera, redirigidos, intUsuario, senial>>

MataEnExec(p) ==
    /\ Mata("EXEC") /\ Contains(exec, p)
    /\ intUsuario' = (ConReloj \/ intUsuario)
    /\ senial = Nadie            \* bound: one signal in the socket
    /\ senial' = p
    /\ UNCHANGED <<ready, exec, enIO, espera, libera, redirigidos>>

MataEnIO(p) ==
    /\ Mata("IO") /\ Contains(enIO, p)
    /\ IF Head(enIO) = p
       THEN redirigidos' = redirigidos \cup {p} /\ UNCHANGED <<enIO, libera>>
       ELSE enIO' = Sin(enIO, p) /\ EmpiezaALiberar("mata", p) /\ UNCHANGED redirigidos
    /\ UNCHANGED <<ready, exec, espera, intUsuario, senial>>

MataEnEspera(p, r) ==
    /\ Mata("ESPERA") /\ Contains(espera[r], p)
    /\ espera' = [espera EXCEPT ![r] = Sin(@, p)]
    /\ EmpiezaALiberar("mata", p)
    /\ UNCHANGED <<ready, exec, enIO, redirigidos, intUsuario, senial>>

-----------------------------------------------------------------------------
Libera(h) == LiberarLee(h) \/ LiberarGuarda(h) \/ LiberarMira(h) \/ LiberarSaca(h)
             \/ LiberarTermina(h)
Pedido == WaitGuarda \/ WaitConcede \/ WaitNoAlcanza \/ WaitRemira \/ WaitEncola
          \/ SignalGuarda \/ SignalMira \/ SignalSaca \/ SignalSigue
CortoPlazo == Despacha \/ RecibeQuantum \/ RecibeIO \/ RecibeFin \/ RecibePedido \/ Pedido
CPU == \/ CPURecibe \/ CPUInterrumpe \/ CPUAviso \/ CPUAvisoAjeno
       \/ \E m \in MotivosConAviso, r \in NombresRecurso \cup {Nadie} : CPUPide(m, r)
       \/ \E m \in {"EXIT", "IO", "QUANTUM"} : CPUSale(m)
HiloIO == IOCompleta \/ IODesconecta \/ IODrena \/ IOSale
Matar == \E p \in Procesos :
            \/ MataEnReady(p) \/ MataEnExec(p) \/ MataEnIO(p)
            \/ \E r \in NombresRecurso : MataEnEspera(p, r)

Next == /\ ~caido
        /\ CortoPlazo \/ CPU \/ InterruptLlega \/ HiloIO \/ Matar \/ (\E h \in Hilos : Libera(h))

Spec == Init /\ [][Next]_vars

(* Threads that can run do.  Programs end, however often they are          *)
(* preempted, and the interface answers.                                   *)
SpecJusta ==
    /\ Spec
    /\ WF_vars(CortoPlazo) /\ WF_vars(CPU) /\ SF_vars(IOCompleta)
    /\ \A h \in Hilos : WF_vars(Libera(h))
    /\ \A p \in Procesos : SF_vars(cpu.pid = p /\ CPUSale("EXIT"))

-----------------------------------------------------------------------------
(* No pcb is in two places: two queues, twice in one, or a queue and the   *)
(* hands of a thread.                                                      *)
Posiciones(s, p) == {k \in 1..Len(s) : s[k] = p}
Lugares(p) ==
    UNION {{"READY"} \X Posiciones(ready, p), {"EXEC"} \X Posiciones(exec, p),
           {"IO"} \X Posiciones(enIO, p),
           UNION {{"espera"} \X {r} \X Posiciones(espera[r], p) : r \in NombresRecurso},
           {"EXIT"} \X (salida \cap {p}), {"cp"} \X ({cp.pid} \cap {p}),
           {"libera"} \X {h \in Hilos : libera[h].pid = p}}
SinDuplicados == \A p \in Procesos : \A x, y \in Lugares(p) : x = y

(* No pcb is lost either: WAIT and SIGNAL leave it in EXEC, in the queue   *)
(* of the resource or on its way to EXIT.                                  *)
UnLugar == \A p \in Procesos : \E x \in Lugares(p) : Lugares(p) = {x}

(* The thread of an interface releases resources while the scheduler       *)
(* handles WAIT and SIGNAL, when the interface is lost or the process it   *)
(* serves was killed: no lock covers both.  The next three properties are  *)
(* about the system before that.                                           *)
SinCarrera == io = "atiende" /\ redirigidos = {}

(* The units add up: what a resource has left plus what the processes that *)
(* have not ended asked for and did not give back is what the              *)
(* configuration says, through every wait, wake-up, end and kill.          *)
Debe(p, r) ==
    IF p \in salida THEN 0
    ELSE IF \E h \in Hilos : libera[h].pid = p
    THEN libera[CHOOSE h \in Hilos : libera[h].pid = p].faltan[r]
    ELSE usadas[p][r]
Fichas(f) == UNION {{p} \X (1..f[p]) : p \in Procesos}    \* the units f gives, one by one
Deudas(r) == Fichas([p \in Procesos |-> Debe(p, r)])
Cuadra ==
    SinCarrera => \A r \in NombresRecurso :
        instancias[r] + Cardinality(Deudas(r)) = Instancias[r]

(* Nobody is blocked by a resource that has a unit left, once the threads  *)
(* that handle WAIT, SIGNAL and the release are done: no wake-up is lost.  *)
EnReposo == cp.paso \in {"despacha", "recibe"} /\ \A h \in Hilos : Libre(h)
Tomadas(r) == Fichas([p \in Procesos |-> tiene[p][r]])
EsperaJustificada ==
    EnReposo => \A r \in NombresRecurso :
        espera[r] # <<>> => Cardinality(Tomadas(r)) >= Instancias[r]
NadieEsperaEnVano == SinCarrera => EsperaJustificada

(* Whoever finds a queue of blocked processes not empty pops a process, so *)
(* the kernel never follows the NULL of an empty one: between the test and *)
(* the pop of SIGNAL and of liberar_recursos nobody else pops.             *)
NoCae == SinCarrera => ~caido

(* The units are those of a counting semaphore whose queue is fair.        *)
Abstracto == INSTANCE Semaforo WITH Recursos <- NombresRecurso
ImplementaSemaforo == Abstracto!Spec

(* Whoever waits for a resource gets a unit of it, or is killed.           *)
EsperaTermina ==
    \A p \in Procesos, r \in NombresRecurso :
        Contains(espera[r], p) ~> ~Contains(espera[r], p)
=============================================================================
