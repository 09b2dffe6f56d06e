------------------------------ MODULE CicloCPU ------------------------------
(* The instruction cycle of the CPU (cicloInstruccion.c, instrucciones.c), *)
(* its two connections with the kernel (dispatch.c, interrupt.c), and what *)
(* the kernel does with the contexts that go back and forth                *)
(* (planificadorCP.c, rr.c, vrr.c, protocolo.c).                           *)
(*                                                                         *)
(* The CPU's thread takes a pcb, loads the registers from it, and repeats  *)
(* fetch, execute, save and check until the process leaves; the interrupt  *)
(* thread writes one slot meanwhile.  A fetch, the instruction and the     *)
(* save are one step: nobody else reads the registers or the pcb.  Of the  *)
(* kernel only the exchange is here: which process is dispatched, how long *)
(* one is blocked and what a resource answers are left free (modules       *)
(* Planificador and Recursos), and the requests to the interfaces differ   *)
(* only in what they carry (module Memoria).                               *)
EXTENDS Instrucciones, FiniteSets

CONSTANTS Pids, Nadie,
          Programas,    \* the pseudocode files each process may be started with
          Celdas,       \* bytes of the space of a process
          Algoritmo,    \* ALGORITMO_PLANIFICACION of kernel.config
          Quantum,      \* QUANTUM
          Retardo,      \* RETARDO_RESPUESTA, what an instruction costs
          Matables,     \* bound: pids given to FINALIZAR_PROCESO
          MaxEnVuelo,   \* bound: interrupts sent and not yet received
          MaxGasto      \* bound: instructions run before the timer is heard

Sincronas == {"WAIT", "SIGNAL"}
Operaciones == {"SET", "SUM", "SUB", "JNZ", "MOV_IN", "MOV_OUT", "COPY_STRING", "RESIZE", "IO",
                "WAIT", "SIGNAL", "EXIT", "INVALIDA"}
Relojes == {"INTERRUPCION_QUANTUM", "USER_INTERRUPT"}
Motivos == Relojes \cup Sincronas \cup {"IO", "EXIT", "OUT_OF_MEMORY"}

(* SUM, SUB and JNZ with PC, and PC as the operand of a MOV, dereference a *)
(* null pointer (string_to_register8): no program of the project does it.  *)
ASSUME CicloAssumption ==
    /\ Nadie \notin Pids
    /\ \A p \in Pids : \A prog \in Programas[p] : \A k \in DOMAIN prog :
         /\ prog[k].op \in Operaciones /\ prog[k].n \in Int
         /\ prog[k].op = "SET" => prog[k].d \in Registros
         /\ prog[k].op \in {"SUM", "SUB", "MOV_IN", "MOV_OUT"} =>
              prog[k].d \in Generales /\ prog[k].o \in Generales
         /\ prog[k].op = "JNZ" => prog[k].d \in Generales
    /\ Algoritmo \in {"FIFO", "RR", "VRR"}
    /\ Quantum \in Nat \ {0} /\ Retardo \in Nat /\ Celdas \in Nat
    /\ Matables \subseteq Pids /\ MaxEnVuelo \in Nat /\ MaxGasto \in Nat

VARIABLES
    programa,     \* instrucciones of each process, in the memory
    mem,          \* the bytes of each process
    guardado,     \* the pcb the kernel keeps of each process
    corre,        \* the pid in lista_procesos_exec, or Nadie
    intUsuario,   \* interrupcion_usuario
    reloj,        \* pid hilo_quantum sleeps for, or Nadie
    enVuelo,      \* interrupts sent and not yet received
    alCPU,        \* the dispatch socket, kernel to CPU
    contexto,     \* the dispatch socket, CPU to kernel
    fase,         \* where manejarConexionDispatch is
    registro,     \* the registers of the CPU
    pcb,          \* pcb_recibido
    interrupcion, \* PID_INTERRUMPIR and MOTIVO_INTERRUPCION
    gasto,        \* history: instructions run since the quantum was renewed
    hechas,       \* history: instructions run in this dispatch, up to one
    pedidos,      \* history: requests made by each process
    llegaron,     \* history: interrupts received since the pcb was taken
    ignorada,     \* history: an interrupt for the process that runs was lost
    cortado       \* history: a kill took the place of a WAIT or a SIGNAL

kernel == <<guardado, corre, intUsuario>>
cpu == <<fase, registro, pcb>>
espacio == <<programa, mem>>
historia == <<gasto, hechas, pedidos, llegaron, ignorada, cortado>>
vars == <<programa, mem, guardado, corre, intUsuario, reloj, enVuelo, alCPU, contexto, fase,
          registro, pcb, interrupcion, gasto, hechas, pedidos, llegaron, ignorada, cortado>>

ConReloj == Algoritmo \in {"RR", "VRR"}
SinInterrupcion == [pid |-> Nadie, motivo |-> "USER_INTERRUPT"]
PcbNuevo(p) ==
    [pid |-> p, pc |-> 0, quantum |-> Quantum, estado |-> "READY", registros |-> Vacios]

EsPcb(x) ==
    /\ x.pid \in Pids /\ x.pc \in 0..(M32 - 1)
    /\ x.quantum \in Int /\ x.quantum <= Quantum
    /\ x.estado \in {"READY", "EXEC", "BLOCKED", "EXIT"}
    /\ EnAncho(x.registros, Generales)

(* enviar_pcb and armar_paquete_pcb lay the fields out in different orders, *)
(* each read back by the other side.                                       *)
enviar_pcb(x) == <<x.pid, x.pc, x.quantum, x.estado, x.registros>>
recibir_pcb(l) ==
    [pid |-> l[1], pc |-> l[2], quantum |-> l[3], estado |-> l[4], registros |-> l[5]]
armar_paquete_pcb(x) == <<x.pid, x.pc, x.estado, x.quantum, x.registros>>
actualizar_pcb_ejecutado(l) ==
    [pid |-> l[1], pc |-> l[2], estado |-> l[3], quantum |-> l[4], registros |-> l[5]]

MISMO_PID == <<"MISMO_PID">>
NUEVO_PID == <<"NUEVO_PID">>
Avisos == {MISMO_PID, NUEVO_PID}

Contexto(x, motivo) == Append(armar_paquete_pcb(x), motivo)
Motivo(l) == l[6]

Init ==
    /\ programa \in {f \in [Pids -> UNION {Programas[p] : p \in Pids}] :
                      \A p \in Pids : f[p] \in Programas[p]}
    /\ mem = [p \in Pids |-> [i \in 1..Celdas |-> 0]]
    /\ guardado = [p \in Pids |-> PcbNuevo(p)]
    /\ corre = Nadie /\ intUsuario = FALSE /\ reloj = Nadie /\ enVuelo = {}
    /\ alCPU = <<>> /\ contexto = <<>>
    /\ fase = "libre" /\ registro = [r \in Registros |-> 0] /\ pcb = <<>>
    /\ interrupcion = SinInterrupcion
    /\ gasto = [p \in Pids |-> 0] /\ hechas = 0 /\ llegaron = {}
    /\ pedidos = [p \in Pids |-> 0]
    /\ ignorada = FALSE /\ cortado = FALSE

-----------------------------------------------------------------------------
(* The kernel.  A ready process goes to EXEC, its pcb to the CPU, and the  *)
(* timer starts.                                                           *)
Despacha(p) ==
    /\ corre = Nadie /\ guardado[p].estado = "READY"
    /\ corre' = p
    /\ guardado' = [guardado EXCEPT ![p].estado = "EXEC"]
    /\ alCPU' = Append(alCPU, enviar_pcb(guardado'[p]))
    /\ reloj' = IF ConReloj THEN p ELSE Nadie
    /\ hechas' = 0 /\ llegaron' = {} /\ ignorada' = FALSE
    /\ UNCHANGED <<espacio, intUsuario, enVuelo, contexto, cpu, interrupcion, gasto,
                   pedidos, cortado>>

(* hilo_quantum: past the cancellation point, the interrupt leaves however *)
(* late.                                                                   *)
VenceQuantum ==
    /\ reloj # Nadie /\ Cardinality(enVuelo) < MaxEnVuelo
    /\ reloj' = Nadie
    /\ enVuelo' = enVuelo \cup {[pid |-> reloj, motivo |-> "INTERRUPCION_QUANTUM"]}
    /\ UNCHANGED <<espacio, kernel, alCPU, contexto, cpu, interrupcion, historia>>

(* FINALIZAR_PROCESO of the process in EXEC; FIFO raises no flag.          *)
Mata ==
    /\ corre \in Matables /\ Cardinality(enVuelo) < MaxEnVuelo
    /\ intUsuario' = ConReloj
    /\ enVuelo' = enVuelo \cup {[pid |-> corre, motivo |-> "USER_INTERRUPT"]}
    /\ UNCHANGED <<espacio, guardado, corre, reloj, alCPU, contexto, cpu, interrupcion,
                   historia>>

(* recibir_contexto_actualizado: the pcb is updated, the user's kill takes *)
(* the place of the motive, and the timer is cancelled unless the CPU goes *)
(* on with the same process.                                               *)
Recibido == actualizar_pcb_ejecutado(contexto)
MotivoVisto == IF intUsuario THEN "USER_INTERRUPT" ELSE Motivo(contexto)

Recibe(motivos) ==
    /\ contexto # <<>> /\ MotivoVisto \in motivos
    /\ contexto' = <<>> /\ intUsuario' = FALSE
    /\ cortado' = (cortado \/ (intUsuario /\ Motivo(contexto) \in Sincronas))
    /\ UNCHANGED <<espacio, enVuelo, cpu, interrupcion, hechas, pedidos, llegaron, ignorada>>

Deja(estado) ==
    /\ guardado' = [guardado EXCEPT ![corre] = [Recibido EXCEPT !.estado = estado]]
    /\ corre' = Nadie /\ reloj' = Nadie
    /\ gasto' = gasto

DejaRenovado(estado) ==
    /\ guardado' = [guardado EXCEPT ![corre] = [Recibido EXCEPT !.estado = estado,
                                                                !.quantum = Quantum]]
    /\ corre' = Nadie /\ reloj' = Nadie
    /\ gasto' = [gasto EXCEPT ![corre] = 0]

Termina == Recibe({"EXIT", "OUT_OF_MEMORY", "USER_INTERRUPT"}) /\ Deja("EXIT") /\ alCPU' = alCPU

FinDeQuantum ==
    Recibe({"INTERRUPCION_QUANTUM"}) /\ DejaRenovado("READY") /\ alCPU' = alCPU

(* The interface may be unknown; only VRR renews a quantum that ran out.   *)
BloqueaPorIO ==
    /\ Recibe({"IO"}) /\ alCPU' = alCPU
    /\ IF Algoritmo = "VRR" /\ Recibido.quantum <= 0 THEN DejaRenovado("BLOCKED")
                                                      ELSE Deja("BLOCKED")

InterfazInvalida == Recibe({"IO"}) /\ Deja("EXIT") /\ alCPU' = alCPU

(* WAIT and SIGNAL answer the CPU on the socket that carries the pcbs.     *)
Concede ==
    /\ Recibe(Sincronas)
    /\ guardado' = [guardado EXCEPT ![corre] = Recibido]
    /\ alCPU' = Append(alCPU, MISMO_PID)
    /\ UNCHANGED <<corre, reloj, gasto>>

BloqueaPorRecurso ==
    /\ Recibe({"WAIT"}) /\ DejaRenovado("BLOCKED")
    /\ alCPU' = Append(alCPU, NUEVO_PID)

(* Mutant: the CPU is not told that the process ended. *)
RecursoInvalidoSinAviso == Recibe(Sincronas) /\ Deja("EXIT") /\ UNCHANGED alCPU

RecursoInvalido ==
    /\ Recibe(Sincronas) /\ Deja("EXIT")
    /\ alCPU' = Append(alCPU, NUEVO_PID)

Despierta(p) ==
    /\ guardado[p].estado = "BLOCKED"
    /\ guardado' = [guardado EXCEPT ![p].estado = "READY"]
    /\ UNCHANGED <<espacio, corre, intUsuario, reloj, enVuelo, alCPU, contexto, cpu,
                   interrupcion, historia>>

-----------------------------------------------------------------------------
(* manejarConexionInterrupt: the slot is overwritten whatever it held.     *)
LlegaInterrupcion ==
    /\ \E m \in enVuelo :
         /\ interrupcion' = m
         /\ enVuelo' = enVuelo \ {m}
         /\ llegaron' = llegaron \cup {m}
         /\ ignorada' = (ignorada \/ (interrupcion.pid = corre /\ m.pid # corre))
    /\ UNCHANGED <<espacio, kernel, reloj, alCPU, contexto, cpu, gasto, hechas, pedidos,
                   cortado>>

(* manejarConexionDispatch and the head of realizarCicloInstruccion:       *)
(* resetear_interrupcion, establecer_contexto.                             *)
establecer_contexto(x) ==
    [r \in Registros |-> IF r = "PC" THEN x.pc ELSE x.registros[r]]

TomaPcb ==
    /\ fase = "libre" /\ alCPU # <<>> /\ Head(alCPU) \notin Avisos
    /\ pcb' = recibir_pcb(Head(alCPU))
    /\ registro' = establecer_contexto(pcb')
    /\ alCPU' = Tail(alCPU)

(* Mutant: the slot is not reset. *)
RecibePcbSinResetear ==
    /\ TomaPcb /\ fase' = "ejecuta" /\ llegaron' = {}
    /\ UNCHANGED <<espacio, kernel, reloj, enVuelo, contexto, interrupcion, gasto, hechas,
                   pedidos, ignorada, cortado>>

RecibePcb ==
    /\ TomaPcb /\ fase' = "ejecuta"
    /\ interrupcion' = SinInterrupcion
    /\ llegaron' = {} /\ ignorada' = (ignorada \/ interrupcion.pid = pcb'.pid)
    /\ UNCHANGED <<espacio, kernel, reloj, enVuelo, contexto, gasto, hechas, pedidos, cortado>>

(* The instruction at PC, fetched from the memory.                         *)
Actual == programa[pcb.pid][registro["PC"] + 1]

actualizar_pcb(R) ==
    [pcb EXCEPT !.pc = R["PC"], !.quantum = @ - Retardo,
                !.registros = [r \in Generales |-> R[r]]]

(* Bound: by MaxGasto instructions of Retardo ms the interrupt of a timer  *)
(* of Quantum ms has been received.                                        *)
Empieza(ops) ==
    /\ fase = "ejecuta" /\ Actual.op \in ops
    /\ gasto[pcb.pid] < MaxGasto \/ interrupcion.pid = pcb.pid
    /\ gasto' = [gasto EXCEPT ![pcb.pid] = @ + 1]
    /\ hechas' = 1
    /\ pedidos' = [pedidos EXCEPT ![pcb.pid] =
                     IF Actual.op \in Sincronas \cup {"IO"} THEN @ + 1 ELSE @]
    /\ UNCHANGED <<programa, kernel, reloj, enVuelo, alCPU, interrupcion, llegaron, ignorada,
                   cortado>>

(* An instruction that leaves the process in the CPU; one that cannot be   *)
(* decoded does not move PC.                                               *)
Registra(R) == registro' = R /\ pcb' = actualizar_pcb(R)

Nuevo(i) ==
    CASE i.op = "SET" -> InstruccionSET(registro, i.d, i.n)
      [] i.op = "SUM" -> Avanza(sum(registro, i.d, i.o))
      [] i.op = "SUB" -> Avanza(sub(registro, i.d, i.o))
      [] i.op = "JNZ" -> jnz(registro, i.d, i.n)
      [] i.op = "MOV_IN" -> Avanza(MovIn(registro, mem[pcb.pid], i.d, i.o))
      [] i.op \in {"MOV_OUT", "COPY_STRING", "RESIZE"} -> Avanza(registro)
      [] OTHER -> registro

Calcula ==
    /\ Empieza({"SET", "SUM", "SUB", "JNZ", "MOV_IN", "RESIZE", "INVALIDA"})
    /\ Registra(Nuevo(Actual)) /\ fase' = "chequea"
    /\ UNCHANGED <<mem, contexto>>

EscribeMemoria ==
    /\ Empieza({"MOV_OUT", "COPY_STRING"})
    /\ Registra(Nuevo(Actual)) /\ fase' = "chequea"
    /\ mem' = [mem EXCEPT ![pcb.pid] =
                 IF Actual.op = "MOV_OUT" THEN MovOut(registro, @, Actual.d, Actual.o)
                                          ELSE CopyString(registro, @, Actual.n)]
    /\ UNCHANGED contexto

(* The requests to the interfaces and a RESIZE with no memory: the pcb is  *)
(* charged and points to the next instruction, the registers of the CPU do *)
(* not.                                                                    *)
(* Mutant: the pc that was executing is sent. *)
DesalojaSinAvanzar(motivo) ==
    /\ contexto' = Contexto([pcb EXCEPT !.quantum = @ - Retardo], motivo)
    /\ fase' = "libre"
    /\ UNCHANGED <<mem, registro, pcb>>

Desaloja(motivo) ==
    /\ contexto' = Contexto([pcb EXCEPT !.pc = (registro["PC"] + 1) % M32,
                                        !.quantum = @ - Retardo], motivo)
    /\ fase' = "libre"
    /\ UNCHANGED <<mem, registro, pcb>>

PideIO == Empieza({"IO"}) /\ Desaloja("IO")
SinMemoria == Empieza({"RESIZE"}) /\ Desaloja("OUT_OF_MEMORY")

Exit ==
    /\ Empieza({"EXIT"})
    /\ contexto' = Contexto(pcb, "EXIT") /\ fase' = "libre"
    /\ UNCHANGED <<mem, registro, pcb>>

(* WAIT and SIGNAL: the context goes to the kernel and the CPU blocks in   *)
(* recibir_aviso; what it executed is charged when the answer comes.       *)
(* Mutant: the pcb that is sent is charged too. *)
PideRecursoCobrando ==
    /\ Empieza(Sincronas)
    /\ registro' = Avanza(registro)
    /\ pcb' = [pcb EXCEPT !.pc = registro'["PC"], !.quantum = @ - Retardo]
    /\ contexto' = Contexto(pcb', Actual.op) /\ fase' = "aviso"
    /\ UNCHANGED mem

PideRecurso ==
    /\ Empieza(Sincronas)
    /\ registro' = Avanza(registro)
    /\ pcb' = [pcb EXCEPT !.pc = registro'["PC"]]
    /\ contexto' = Contexto(pcb', Actual.op) /\ fase' = "aviso"
    /\ UNCHANGED mem

(* Four bytes are read whatever they are: the head of a pcb is taken for   *)
(* an answer, and nothing on that socket makes sense any more.             *)
RecibeAviso ==
    /\ fase = "aviso" /\ alCPU # <<>>
    /\ pcb' = actualizar_pcb(registro)
    /\ fase' = CASE Head(alCPU) = NUEVO_PID -> "libre"
                 [] Head(alCPU) = MISMO_PID -> "chequea"
                 [] OTHER -> "desfasada"
    /\ alCPU' = Tail(alCPU)
    /\ UNCHANGED <<espacio, kernel, reloj, enVuelo, contexto, registro, interrupcion, historia>>

(* check_interrupt: the slot is emptied whoever it was for.                *)
(* Mutant: the slot is emptied before the pids are compared. *)
ChequeaVaciando ==
    /\ fase = "chequea"
    /\ interrupcion' = SinInterrupcion
    /\ IF interrupcion'.pid = pcb.pid
       THEN contexto' = Contexto(pcb, interrupcion'.motivo) /\ fase' = "libre"
       ELSE fase' = "ejecuta" /\ UNCHANGED contexto
    /\ UNCHANGED <<espacio, kernel, reloj, enVuelo, alCPU, registro, pcb, historia>>

Chequea ==
    /\ fase = "chequea"
    /\ interrupcion' = SinInterrupcion
    /\ IF interrupcion.pid = pcb.pid
       THEN contexto' = Contexto(pcb, interrupcion.motivo) /\ fase' = "libre"
       ELSE fase' = "ejecuta" /\ UNCHANGED contexto
    /\ UNCHANGED <<espacio, kernel, reloj, enVuelo, alCPU, registro, pcb, historia>>

-----------------------------------------------------------------------------
Kernel == Termina \/ FinDeQuantum \/ BloqueaPorIO \/ InterfazInvalida \/ Concede
          \/ BloqueaPorRecurso \/ RecursoInvalido
CPU == RecibePcb \/ Calcula \/ EscribeMemoria \/ PideIO \/ SinMemoria \/ Exit \/ PideRecurso
       \/ RecibeAviso \/ Chequea

Next == Kernel \/ CPU \/ VenceQuantum \/ LlegaInterrupcion \/ Mata
        \/ \E p \in Pids : Despacha(p) \/ Despierta(p)

Spec == Init /\ [][Next]_vars

(* The threads of both modules run, a sleep ends and what is sent arrives. *)
SpecJusta == /\ Spec
             /\ WF_vars(Kernel) /\ WF_vars(CPU)
             /\ WF_vars(VenceQuantum) /\ WF_vars(LlegaInterrupcion)

-----------------------------------------------------------------------------
EnCPU == fase \in {"ejecuta", "chequea", "aviso"}

TypeOK ==
    /\ \A p \in Pids : programa[p] \in Programas[p]
    /\ \A p \in Pids : \A i \in 1..Celdas : mem[p][i] \in 0..(Byte - 1)
    /\ \A p \in Pids : EsPcb(guardado[p]) /\ guardado[p].pid = p
    /\ corre \in Pids \cup {Nadie} /\ intUsuario \in BOOLEAN
    /\ reloj \in Pids \cup {Nadie}
    /\ enVuelo \cup {interrupcion} \cup llegaron \subseteq
         [pid : Pids \cup {Nadie}, motivo : Relojes]
    /\ \A i \in DOMAIN alCPU :
         alCPU[i] \in Avisos \/ EsPcb(recibir_pcb(alCPU[i]))
    /\ contexto # <<>> => EsPcb(Recibido) /\ Motivo(contexto) \in Motivos
    /\ fase \in {"libre", "ejecuta", "aviso", "chequea", "desfasada"}
    /\ EnAncho(registro, Registros)
    /\ EnCPU => EsPcb(pcb)
    /\ gasto \in [Pids -> Nat] /\ pedidos \in [Pids -> Nat] /\ hechas \in {0, 1}
    /\ ignorada \in BOOLEAN /\ cortado \in BOOLEAN

(* Every instruction a process runs is charged once, and no other: what    *)
(* the pcb has left is the quantum minus the instructions run since it was *)
(* renewed, in the kernel while the process does not run and in the CPU    *)
(* between two instructions.  The places that charge are eleven, and WAIT  *)
(* and SIGNAL are charged after the pcb was already sent.                  *)
Resto(p) == Quantum - Retardo * gasto[p]

QuantumCobrado ==
    /\ \A p \in Pids : guardado[p].estado \in {"READY", "BLOCKED"} =>
                         guardado[p].quantum = Resto(p)
    /\ fase \in {"ejecuta", "chequea"} => pcb.quantum = Resto(pcb.pid)

(* The process in EXEC is the one the CPU has, or is about to take, or has *)
(* just given back, with one context and at most one answer between them:  *)
(* the CPU reads an answer where it expects one and a pcb where it expects *)
(* a pcb, unless a kill took the place of a WAIT or a SIGNAL.              *)
Dialogo ==
    \/ cortado
    \/ /\ fase # "desfasada"
       /\ contexto # <<>> => Recibido.pid = corre
       /\ fase \in {"ejecuta", "chequea"} => pcb.pid = corre /\ contexto = <<>> /\ alCPU = <<>>
       /\ fase = "aviso" => contexto # <<>> \/ (alCPU # <<>> /\ Head(alCPU) \in Avisos)
       /\ fase = "libre" => \A i \in DOMAIN alCPU : alCPU[i] = enviar_pcb(guardado[corre])
       /\ corre # Nadie => fase # "libre" \/ alCPU # <<>> \/ contexto # <<>>

(* A process is only taken out of the CPU by an interrupt that carried its *)
(* pid and came while it was there, and after it ran an instruction: what  *)
(* was left in the slot from an earlier process or an earlier dispatch     *)
(* does not count, and a process that is preempted makes progress.         *)
DesalojoJustificado ==
    contexto # <<>> /\ Motivo(contexto) \in Relojes =>
        /\ [pid |-> contexto[1], motivo |-> Motivo(contexto)] \in llegaron
        /\ hechas = 1

(* No process keeps the CPU: it gives it back by itself, the timer takes   *)
(* it away, or the one interrupt sent for it was lost, because it came     *)
(* before the CPU took the pcb or another was written over it.             *)
SueltaLaCPU ==
    \A p \in Pids : corre = p ~> corre # p \/ ignorada \/ cortado

(* Each process runs its program as if it were alone, whatever the number  *)
(* of times its registers travelled between the kernel and the CPU.        *)
DondeEsta(p) ==
    IF contexto # <<>> /\ contexto[1] = p THEN establecer_contexto(Recibido)
    ELSE IF EnCPU /\ pcb.pid = p THEN registro
    ELSE establecer_contexto(guardado[p])

M == INSTANCE Maquina
       WITH Tam8 <- M8, Tam32 <- M32, Chicos <- Reg8, Grandes <- Reg32,
            proc <- [p \in Pids |-> [reg |-> DondeEsta(p), mem |-> mem[p],
                                    pedidos |-> pedidos[p]]]

ImplementaMaquina == M!Spec
=============================================================================
