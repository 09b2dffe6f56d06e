---------------------------- MODULE Planificador ----------------------------
(***************************************************************************)
(* The life of a process inside the kernel: the console's creator thread,  *)
(* the long-term scheduler (planificadorLP.c), the short-term schedulers   *)
(* FIFO, RR and VRR (fifo.c, rr.c, vrr.c), the handling of the context the *)
(* CPU returns (planificadorCP.c), the quantum timer, the I/O interfaces   *)
(* seen from the kernel's queues, and the threads the console starts to    *)
(* kill a process or to stop the scheduler (consola.c).                    *)
(*                                                                         *)
(* Every critical section guarded by one of the planificacion_*_iniciada   *)
(* semaphores is one action: whoever searches all the queues owns the four *)
(* permits.  The programs of this module do not use WAIT and SIGNAL        *)
(* (module Recursos), so liberar_recursos has nothing to release.  The     *)
(* console issues a stop, a start or a kill only when the previous one is  *)
(* complete; module ControlPlanificacion drops that restriction.           *)
(***************************************************************************)
EXTENDS Colas

CONSTANTS Algoritmo,      \* ALGORITMO_PLANIFICACION of kernel.config
          InterfacesFS,   \* the interfaces of type DIALFS
          Desconectables, \* bound: the interfaces whose process may die
          Quantum,        \* QUANTUM, in units of what one burst consumes
          Multiprog,      \* GRADO_MULTIPROGRAMACION
          Grados,         \* bound: arguments given to MULTIPROGRAMACION
          MaxBajadores,   \* bound: threads blocked at once in bajar_grado
          Matables,       \* bound: pids given to FINALIZAR_PROCESO
          UsaPausas       \* bound: whether the user types DETENER_PLANIFICACION

Motivos == {"EXIT", "OUT_OF_MEMORY", "INTERRUPCION_QUANTUM", "USER_INTERRUPT"}

ASSUME PlanificadorAssumption ==
    /\ Algoritmo \in {"FIFO", "RR", "VRR"}
    /\ InterfacesFS \subseteq Interfaces
    /\ Desconectables \subseteq Interfaces
    /\ Quantum \in Nat \ {0}
    /\ Multiprog \in Nat
    /\ Grados \subseteq Nat
    /\ MaxBajadores \in Nat
    /\ Matables \subseteq Pids
    /\ UsaPausas \in BOOLEAN
    /\ Interfaces \cap Motivos = {}

Fases == {"new", "ready", "exec", "blocked"}
ConCupo == {"READY", "READYPLUS", "EXEC"} \cup Interfaces
ConReloj == Algoritmo \in {"RR", "VRR"}

SinContexto == [pid |-> Nadie, motivo |-> "EXIT", quantum |-> 0]
SinInterrupcion == [pid |-> Nadie, motivo |-> "USER_INTERRUPT"]
SinPedido == [fase |-> "libre", pid |-> Nadie, reanuda |-> FALSE]

VARIABLES
    cola,         \* the process queues
    quantum,      \* pcb->quantum of each process
    destino,      \* cola_destino of the pending I/O request of each process
    pidContador,  \* pid_contador
    creando,      \* pid of the pcb the creator thread holds, or Nadie
    semNew,       \* proceso_en_cola_new
    semReady,     \* proceso_en_cola_ready
    grado,        \* grado_de_multiprogramacion
    multiprog,    \* the variable multiprog
    bajadores,    \* threads blocked in bajar_grado
    ficha,        \* planificacion_{new,ready,exec,blocked}_iniciada
    iniciada,     \* planificacion_iniciada
    detenedores,  \* phases whose detener_cola_* thread still waits
    pedido,       \* the FINALIZAR_PROCESO thread
    intUsuario,   \* interrupcion_usuario
    lp,           \* where atender_estados_new is
    cp,           \* where planificacion_{fifo,rr,vrr} is
    despacho,     \* the pcb in the dispatch socket, kernel to CPU
    cpu,          \* pid the CPU executes
    contexto,     \* the context in the dispatch socket, CPU to kernel
    interrupcion, \* PID_INTERRUMPIR and MOTIVO_INTERRUPCION of the CPU
    reloj,        \* pid hilo_quantum is going to interrupt
    io,           \* where the thread of each interface is
    fugados,      \* history: processes ended by the loss of their interface
    condenados    \* history: processes a kill found in EXEC or in an I/O queue

procesos == <<cola, quantum, destino>>
creacion == <<pidContador, creando>>
cupos == <<grado, multiprog, bajadores>>
control == <<ficha, iniciada, detenedores, pedido>>
ejecucion == <<despacho, cpu, contexto, interrupcion, reloj>>
historia == <<fugados, condenados>>
vars == <<cola, quantum, destino, pidContador, creando, semNew, semReady,
          grado, multiprog, bajadores, ficha, iniciada, detenedores, pedido,
          intUsuario, lp, cp, despacho, cpu, contexto, interrupcion, reloj,
          io, fugados, condenados>>

TypeOK ==
    /\ cola \in [NombresCola -> Seq(Pids)]
    /\ quantum \in [Pids -> 0..Quantum]
    /\ destino \in [Pids -> {"READY", "READYPLUS", "COLA_EXIT_USUARIO"}]
    /\ pidContador \in 0..MaxProcesos
    /\ creando \in Pids \cup {Nadie}
    /\ semNew \in Nat /\ semReady \in Nat
    /\ grado \in Nat /\ multiprog \in Nat /\ bajadores \in Nat
    /\ ficha \in [Fases -> {0, 1}]
    /\ iniciada \in BOOLEAN /\ intUsuario \in BOOLEAN
    /\ detenedores \subseteq Fases
    /\ pedido \in [fase : {"libre", "detiene", "busca", "reanuda"},
                   pid : Pids \cup {Nadie}, reanuda : BOOLEAN]
    /\ lp \in {"espera_new", "espera_grado", "espera_plani"}
    /\ cp \in {"espera_ready", "espera_plani", "recibe", "cancela"}
    /\ despacho \in Pids \cup {Nadie}
    /\ cpu \in Pids \cup {Nadie}
    /\ contexto \in [pid : Pids \cup {Nadie}, motivo : Motivos \cup Interfaces,
                     quantum : 0..Quantum]
    /\ interrupcion \in [pid : Pids \cup {Nadie},
                         motivo : {"INTERRUPCION_QUANTUM", "USER_INTERRUPT"}]
    /\ reloj \in Pids \cup {Nadie}
    /\ io \in [Interfaces -> {"fuera", "atiende", "drena"}]
    /\ fugados \subseteq Pids /\ condenados \subseteq Pids

(* iniciar_cosas_necesarias_planificador: every permit starts at 0, the    *)
(* user has to type INICIAR_PLANIFICACION.                                 *)
Init ==
    /\ cola = ColasVacias
    /\ quantum = [p \in Pids |-> Quantum]
    /\ destino = [p \in Pids |-> "READY"]
    /\ pidContador = 0 /\ creando = Nadie
    /\ semNew = 0 /\ semReady = 0
    /\ grado = Multiprog /\ multiprog = Multiprog /\ bajadores = 0
    /\ ficha = [f \in Fases |-> 0] /\ iniciada = FALSE
    /\ detenedores = {} /\ pedido = SinPedido /\ intUsuario = FALSE
    /\ lp = "espera_new" /\ cp = "espera_ready"
    /\ despacho = Nadie /\ cpu = Nadie /\ contexto = SinContexto
    /\ interrupcion = SinInterrupcion /\ reloj = Nadie
    /\ io = [i \in Interfaces |-> "fuera"]
    /\ fugados = {} /\ condenados = {}

-----------------------------------------------------------------------------
(* Creator thread: crear_pcb takes a pid, memory answers whether the path  *)
(* exists; on ARCHIVO_INVALIDO the pid is given back.                      *)
AsignarPid ==
    /\ creando = Nadie /\ pidContador < MaxProcesos
    /\ creando' = pidContador
    /\ pidContador' = pidContador + 1
    /\ UNCHANGED <<procesos, semNew, semReady, cupos, control, intUsuario, lp,
                   cp, ejecucion, io, historia>>

CrearProceso ==
    /\ creando # Nadie
    /\ cola' = Push(cola, "NEW", creando)
    /\ quantum' = [quantum EXCEPT ![creando] = Quantum]
    /\ semNew' = semNew + 1
    /\ creando' = Nadie
    /\ UNCHANGED <<destino, pidContador, semReady, cupos, control, intUsuario,
                   lp, cp, ejecucion, io, historia>>

(* Mutant: pid_contador-- is forgotten. *)
ArchivoInvalidoSinDevolver ==
    /\ creando # Nadie
    /\ UNCHANGED pidContador
    /\ creando' = Nadie
    /\ UNCHANGED <<procesos, semNew, semReady, cupos, control, intUsuario, lp,
                   cp, ejecucion, io, historia>>

ArchivoInvalido ==
    /\ creando # Nadie
    /\ pidContador' = pidContador - 1
    /\ creando' = Nadie
    /\ UNCHANGED <<procesos, semNew, semReady, cupos, control, intUsuario, lp,
                   cp, ejecucion, io, historia>>

-----------------------------------------------------------------------------
(* Long-term scheduler: the three sem_wait of atender_estados_new in their *)
(* order, then NEW -> READY, or the degree given back when the process was *)
(* killed in the meantime.                                                 *)
(* Mutant: the wait on proceso_en_cola_new is dropped. *)
LPEsperaNewSinEspera ==
    /\ lp = "espera_new"
    /\ semNew' = semNew - 1
    /\ lp' = "espera_grado"
    /\ UNCHANGED <<procesos, creacion, semReady, cupos, control, intUsuario,
                   cp, ejecucion, io, historia>>

LPEsperaNew ==
    /\ lp = "espera_new" /\ semNew > 0
    /\ semNew' = semNew - 1
    /\ lp' = "espera_grado"
    /\ UNCHANGED <<procesos, creacion, semReady, cupos, control, intUsuario,
                   cp, ejecucion, io, historia>>

LPEsperaGrado ==
    /\ lp = "espera_grado" /\ grado > 0
    /\ grado' = grado - 1
    /\ lp' = "espera_plani"
    /\ UNCHANGED <<procesos, creacion, semNew, semReady, multiprog, bajadores,
                   control, intUsuario, cp, ejecucion, io, historia>>

(* Mutant: an empty NEW does not give the degree back. *)
LPMueveSinDevolver ==
    /\ lp = "espera_plani" /\ ficha["new"] > 0
    /\ lp' = "espera_new"
    /\ \/ /\ ~Vacia(cola, "NEW")
          /\ cola' = PasaCabeza(cola, "NEW", "READY")
          /\ semReady' = semReady + 1
          /\ UNCHANGED grado
       \/ /\ Vacia(cola, "NEW")
          /\ UNCHANGED <<cola, semReady, grado>>
    /\ UNCHANGED <<quantum, destino, creacion, semNew, multiprog, bajadores,
                   control, intUsuario, cp, ejecucion, io, historia>>

(* Mutant: the sem_post of proceso_en_cola_ready is forgotten. *)
LPMueveSinPost ==
    /\ lp = "espera_plani" /\ ficha["new"] > 0
    /\ lp' = "espera_new"
    /\ \/ /\ ~Vacia(cola, "NEW")
          /\ cola' = PasaCabeza(cola, "NEW", "READY")
          /\ UNCHANGED <<semReady, grado>>
       \/ /\ Vacia(cola, "NEW")
          /\ grado' = grado + 1
          /\ UNCHANGED <<cola, semReady>>
    /\ UNCHANGED <<quantum, destino, creacion, semNew, multiprog, bajadores,
                   control, intUsuario, cp, ejecucion, io, historia>>

LPMueve ==
    /\ lp = "espera_plani" /\ ficha["new"] > 0
    /\ lp' = "espera_new"
    /\ \/ /\ ~Vacia(cola, "NEW")
          /\ cola' = PasaCabeza(cola, "NEW", "READY")
          /\ semReady' = semReady + 1
          /\ UNCHANGED grado
       \/ /\ Vacia(cola, "NEW")
          /\ grado' = grado + 1
          /\ UNCHANGED <<cola, semReady>>
    /\ UNCHANGED <<quantum, destino, creacion, semNew, multiprog, bajadores,
                   control, intUsuario, cp, ejecucion, io, historia>>

-----------------------------------------------------------------------------
(* Short-term scheduler: FIFO and RR look at READY only, VRR at READY+     *)
(* first.  RR and VRR start hilo_quantum with the pid they send.           *)
CPEsperaReady ==
    /\ cp = "espera_ready" /\ semReady > 0
    /\ semReady' = semReady - 1
    /\ cp' = "espera_plani"
    /\ UNCHANGED <<procesos, creacion, semNew, cupos, control, intUsuario, lp,
                   ejecucion, io, historia>>

ColasDePlanificacion == IF Algoritmo = "VRR" THEN {"READYPLUS", "READY"} ELSE {"READY"}

Elegible(q) ==
    /\ q \in ColasDePlanificacion /\ ~Vacia(cola, q)
    /\ q = "READY" /\ Algoritmo = "VRR" => Vacia(cola, "READYPLUS")

(* Mutant: the last process that joined the queue is taken instead of the first. *)
CPDespachaDeAtras(q) ==
    /\ cp = "espera_plani" /\ ficha["ready"] > 0
    /\ Elegible(q)
    /\ cola' = Pasa(cola, Last(cola[q]), q, "EXEC")
    /\ despacho' = Last(cola[q])
    /\ reloj' = IF ConReloj THEN Last(cola[q]) ELSE reloj
    /\ cp' = "recibe"
    /\ UNCHANGED <<quantum, destino, creacion, semNew, semReady, cupos, control,
                   intUsuario, lp, cpu, contexto, interrupcion, io, historia>>

CPDespacha(q) ==
    /\ cp = "espera_plani" /\ ficha["ready"] > 0
    /\ Elegible(q)
    /\ cola' = PasaCabeza(cola, q, "EXEC")
    /\ despacho' = Head(cola[q])
    /\ reloj' = IF ConReloj THEN Head(cola[q]) ELSE reloj
    /\ cp' = "recibe"
    /\ UNCHANGED <<quantum, destino, creacion, semNew, semReady, cupos, control,
                   intUsuario, lp, cpu, contexto, interrupcion, io, historia>>

CPColaVacia ==
    /\ cp = "espera_plani" /\ ficha["ready"] > 0
    /\ \A q \in ColasDePlanificacion : ~Elegible(q)
    /\ cp' = "espera_ready"
    /\ UNCHANGED <<procesos, creacion, semNew, semReady, cupos, control,
                   intUsuario, lp, ejecucion, io, historia>>

-----------------------------------------------------------------------------
(* recibir_contexto_actualizado followed by manejar_motivo_interrupcion,   *)
(* under planificacion_exec_iniciada.  The flag interrupcion_usuario       *)
(* replaces the motive the CPU sent.                                       *)
Corriendo == Head(cola["EXEC"])
MotivoEfectivo == IF intUsuario THEN "USER_INTERRUPT" ELSE contexto.motivo

Recibe ==
    /\ cp = "recibe" /\ contexto.pid # Nadie /\ ficha["exec"] > 0
    /\ intUsuario' = FALSE
    /\ contexto' = SinContexto
    /\ cp' = IF ConReloj THEN "cancela" ELSE "espera_ready"
    /\ UNCHANGED <<creacion, semNew, multiprog, bajadores, control, lp,
                   despacho, cpu, interrupcion, reloj, io, historia>>

(* manejar_fin_con_motivo and the sem_post of the degree, whether it is in *)
(* the case of the switch or in manejar_fin_con_motivo itself.             *)
FinDeEjecucion ==
    /\ Recibe
    /\ \/ MotivoEfectivo \in {"EXIT", "OUT_OF_MEMORY", "USER_INTERRUPT"}
       \/ /\ MotivoEfectivo \in Interfaces          \* slist_comprobate_io fails
          /\ io[MotivoEfectivo] = "fuera"
    /\ cola' = PasaCabeza(cola, "EXEC", "EXIT")
    /\ quantum' = [quantum EXCEPT ![Corriendo] = contexto.quantum]
    /\ grado' = grado + 1
    /\ UNCHANGED <<destino, semReady>>

(* Mutant: the sem_post of proceso_en_cola_ready is forgotten. *)
FinDeQuantumSinPost ==
    /\ Recibe
    /\ MotivoEfectivo = "INTERRUPCION_QUANTUM"
    /\ cola' = PasaCabeza(cola, "EXEC", "READY")
    /\ quantum' = [quantum EXCEPT ![Corriendo] = Quantum]
    /\ UNCHANGED <<destino, grado, semReady>>

FinDeQuantum ==
    /\ Recibe
    /\ MotivoEfectivo = "INTERRUPCION_QUANTUM"
    /\ cola' = PasaCabeza(cola, "EXEC", "READY")
    /\ quantum' = [quantum EXCEPT ![Corriendo] = Quantum]
    /\ semReady' = semReady + 1
    /\ UNCHANGED <<destino, grado>>

(* The cases IO_*: the request joins the queue of its interface.  Under    *)
(* VRR a process with quantum left comes back to READY+.  In the five FS   *)
(* cases the second test is not an else, so it sees the quantum the first  *)
(* one has just restored.                                                  *)
QuantumTrasIO(q) == IF Algoritmo = "VRR" /\ q = 0 THEN Quantum ELSE q
(* Mutant: every I/O case loses its else. *)
DestinoTrasIOSinElse(i, q) ==
    IF Algoritmo = "VRR" /\ QuantumTrasIO(q) > 0
    THEN "READYPLUS" ELSE "READY"

DestinoTrasIO(i, q) ==
    IF Algoritmo = "VRR" /\ (IF i \in InterfacesFS THEN QuantumTrasIO(q) ELSE q) > 0
    THEN "READYPLUS" ELSE "READY"

BloqueoPorIO(i) ==
    /\ Recibe
    /\ MotivoEfectivo = i /\ io[i] # "fuera"
    /\ cola' = PasaCabeza(cola, "EXEC", i)
    /\ quantum' = [quantum EXCEPT ![Corriendo] = QuantumTrasIO(contexto.quantum)]
    /\ destino' = [destino EXCEPT ![Corriendo] = DestinoTrasIO(i, contexto.quantum)]
    /\ UNCHANGED <<semReady, grado>>

(* pthread_cancel(hilo_q), after the context was handled.                  *)
CPCancela ==
    /\ cp = "cancela"
    /\ reloj' = Nadie
    /\ cp' = "espera_ready"
    /\ UNCHANGED <<procesos, creacion, semNew, semReady, cupos, control, intUsuario,
                   lp, despacho, cpu, contexto, interrupcion, io, historia>>

-----------------------------------------------------------------------------
(* hilo_quantum sends the interrupt; the CPU has one slot for it.          *)
VenceQuantum ==
    /\ reloj # Nadie
    /\ interrupcion' = [pid |-> reloj, motivo |-> "INTERRUPCION_QUANTUM"]
    /\ reloj' = Nadie
    /\ UNCHANGED <<procesos, creacion, semNew, semReady, cupos, control, intUsuario,
                   lp, cp, despacho, cpu, contexto, io, historia>>

(* realizarCicloInstruccion: resetear_interrupcion, then the burst.        *)
(* Mutant: the pcb is left in the dispatch socket. *)
CPURecibeSinConsumir ==
    /\ cpu = Nadie /\ despacho # Nadie
    /\ cpu' = despacho
    /\ UNCHANGED despacho
    /\ interrupcion' = SinInterrupcion
    /\ UNCHANGED <<procesos, creacion, semNew, semReady, cupos, control, intUsuario,
                   lp, cp, contexto, reloj, io, historia>>

CPURecibe ==
    /\ cpu = Nadie /\ despacho # Nadie
    /\ cpu' = despacho
    /\ despacho' = Nadie
    /\ interrupcion' = SinInterrupcion
    /\ UNCHANGED <<procesos, creacion, semNew, semReady, cupos, control, intUsuario,
                   lp, cp, contexto, reloj, io, historia>>

(* The quantum a burst leaves: VRR is the only one that reads it, and a    *)
(* burst executes at least one instruction.                                *)
Restos(p) ==
    IF Algoritmo # "VRR" THEN {quantum[p]}
    ELSE 0..(IF quantum[p] = 0 THEN 0 ELSE quantum[p] - 1)

CPUDevuelve(m) ==
    /\ cpu # Nadie
    /\ m \in {"EXIT", "OUT_OF_MEMORY"} \cup Interfaces
    /\ \E q \in Restos(cpu) : contexto' = [pid |-> cpu, motivo |-> m, quantum |-> q]
    /\ cpu' = Nadie
    /\ UNCHANGED <<procesos, creacion, semNew, semReady, cupos, control, intUsuario,
                   lp, cp, despacho, interrupcion, reloj, io, historia>>

(* check_interrupt: the slot is cleared whether or not the pid matches.    *)
CPUInterrumpe ==
    /\ cpu # Nadie /\ interrupcion.pid # Nadie
    /\ interrupcion' = SinInterrupcion
    /\ \/ /\ interrupcion.pid = cpu
          /\ \E q \in Restos(cpu) :
                contexto' = [pid |-> cpu, motivo |-> interrupcion.motivo, quantum |-> q]
          /\ cpu' = Nadie
       \/ /\ interrupcion.pid # cpu
          /\ UNCHANGED <<contexto, cpu>>
    /\ UNCHANGED <<procesos, creacion, semNew, semReady, cupos, control, intUsuario,
                   lp, cp, despacho, reloj, io, historia>>

-----------------------------------------------------------------------------
(* An interface connects, completes the request at the head of its queue   *)
(* under planificacion_blocked_iniciada (mandar_pcb_cola_correspondiente), *)
(* or is found dead while it serves one: every request it has is finished  *)
(* with INVALID_INTERFACE, without that permit, and it leaves the list.    *)
IOConecta(i) ==
    /\ io[i] = "fuera"
    /\ io' = [io EXCEPT ![i] = "atiende"]
    /\ UNCHANGED <<procesos, creacion, semNew, semReady, cupos, control, intUsuario,
                   lp, cp, ejecucion, historia>>

IOCompleta(i) ==
    /\ io[i] = "atiende" /\ ~Vacia(cola, i) /\ ficha["blocked"] > 0
    /\ LET d == destino[Head(cola[i])] IN
         IF d = "COLA_EXIT_USUARIO"
         THEN /\ cola' = PasaCabeza(cola, i, "EXIT")
              /\ grado' = grado + 1
              /\ UNCHANGED semReady
         ELSE /\ cola' = PasaCabeza(cola, i, d)
              /\ semReady' = semReady + 1
              /\ UNCHANGED grado
    /\ UNCHANGED <<quantum, destino, creacion, semNew, multiprog, bajadores,
                   control, intUsuario, lp, cp, ejecucion, io, historia>>

IODesconecta(i) ==
    /\ i \in Desconectables /\ io[i] = "atiende" /\ ~Vacia(cola, i)
    /\ io' = [io EXCEPT ![i] = "drena"]
    /\ UNCHANGED <<procesos, creacion, semNew, semReady, cupos, control, intUsuario,
                   lp, cp, ejecucion, historia>>

IODrena(i) ==
    /\ io[i] = "drena" /\ ~Vacia(cola, i)
    /\ cola' = PasaCabeza(cola, i, "EXIT")
    /\ fugados' = fugados \cup {Head(cola[i])}
    /\ UNCHANGED <<quantum, destino, creacion, semNew, semReady, cupos, control,
                   intUsuario, lp, cp, ejecucion, io, condenados>>

IOSale(i) ==
    /\ io[i] = "drena" /\ Vacia(cola, i)
    /\ io' = [io EXCEPT ![i] = "fuera"]
    /\ UNCHANGED <<procesos, creacion, semNew, semReady, cupos, control, intUsuario,
                   lp, cp, ejecucion, historia>>

-----------------------------------------------------------------------------
(* Console.  DETENER_PLANIFICACION and FINALIZAR_PROCESO start one thread  *)
(* per permit; INICIAR_PLANIFICACION posts the four of them.               *)
ConsolaQuieta == pedido.fase = "libre" /\ detenedores = {}

Pausa == iniciada' = FALSE /\ detenedores' = Fases

IniciarPlanificacion ==
    /\ iniciada' = TRUE
    /\ ficha' = [f \in Fases |-> ficha[f] + 1]

Iniciar ==
    /\ ConsolaQuieta /\ ~iniciada
    /\ IniciarPlanificacion
    /\ UNCHANGED <<procesos, creacion, semNew, semReady, cupos, detenedores, pedido,
                   intUsuario, lp, cp, ejecucion, io, historia>>

Detener ==
    /\ UsaPausas /\ ConsolaQuieta /\ iniciada
    /\ Pausa
    /\ UNCHANGED <<procesos, creacion, semNew, semReady, cupos, ficha, pedido,
                   intUsuario, lp, cp, ejecucion, io, historia>>

DetenerCola(f) ==
    /\ f \in detenedores /\ ficha[f] > 0
    /\ ficha' = [ficha EXCEPT ![f] = @ - 1]
    /\ detenedores' = detenedores \ {f}
    /\ UNCHANGED <<procesos, creacion, semNew, semReady, cupos, iniciada, pedido,
                   intUsuario, lp, cp, ejecucion, io, historia>>

FinalizarProceso(p) ==
    /\ p \in Matables /\ ConsolaQuieta
    /\ IF iniciada
       THEN /\ Pausa
            /\ pedido' = [fase |-> "detiene", pid |-> p, reanuda |-> TRUE]
       ELSE /\ pedido' = [fase |-> "busca", pid |-> p, reanuda |-> FALSE]
            /\ UNCHANGED <<iniciada, detenedores>>
    /\ UNCHANGED <<procesos, creacion, semNew, semReady, cupos, ficha, intUsuario,
                   lp, cp, ejecucion, io, historia>>

(* The four confirmations of planificacion_detenida arrived.               *)
(* Mutant: one confirmation of planificacion_detenida is not awaited. *)
PlanificacionDetenidaApurada ==
    /\ pedido.fase = "detiene" /\ Cardinality(detenedores) <= 1
    /\ pedido' = [pedido EXCEPT !.fase = "busca"]
    /\ UNCHANGED <<procesos, creacion, semNew, semReady, cupos, ficha, iniciada,
                   detenedores, intUsuario, lp, cp, ejecucion, io, historia>>

PlanificacionDetenida ==
    /\ pedido.fase = "detiene" /\ detenedores = {}
    /\ pedido' = [pedido EXCEPT !.fase = "busca"]
    /\ UNCHANGED <<procesos, creacion, semNew, semReady, cupos, ficha, iniciada,
                   detenedores, intUsuario, lp, cp, ejecucion, io, historia>>

(* buscar_proceso_finalizar, one action per queue it may find the pid in.  *)
Busca ==
    /\ pedido.fase = "busca"
    /\ pedido' = IF pedido.reanuda THEN [pedido EXCEPT !.fase = "reanuda"] ELSE SinPedido
    /\ UNCHANGED <<quantum, creacion, semNew, semReady, multiprog, bajadores, ficha,
                   iniciada, detenedores, lp, cp, despacho, cpu, contexto, reloj,
                   io, fugados>>

MataEnNew ==
    /\ Busca
    /\ Esta(cola, "NEW", pedido.pid)
    /\ cola' = Pasa(cola, pedido.pid, "NEW", "EXIT")
    /\ UNCHANGED <<destino, grado, intUsuario, interrupcion, condenados>>

MataEnReady(q) ==
    /\ Busca
    /\ q \in {"READY", "READYPLUS"} /\ Esta(cola, q, pedido.pid)
    /\ cola' = Pasa(cola, pedido.pid, q, "EXIT")
    /\ grado' = grado + 1
    /\ UNCHANGED <<destino, intUsuario, interrupcion, condenados>>

(* Mutant: interrupcion_usuario is not raised. *)
MataEnExecSinAviso ==
    /\ Busca
    /\ Esta(cola, "EXEC", pedido.pid)
    /\ UNCHANGED intUsuario
    /\ interrupcion' = [pid |-> Corriendo, motivo |-> "USER_INTERRUPT"]
    /\ condenados' = condenados \cup {pedido.pid}
    /\ UNCHANGED <<cola, destino, grado>>

MataEnExec ==
    /\ Busca
    /\ Esta(cola, "EXEC", pedido.pid)
    /\ intUsuario' = (ConReloj \/ intUsuario)
    /\ interrupcion' = [pid |-> Corriendo, motivo |-> "USER_INTERRUPT"]
    /\ condenados' = condenados \cup {pedido.pid}
    /\ UNCHANGED <<cola, destino, grado>>

(* slist_find_pcb_iterating_each_queue: the request being served (index 0) *)
(* is only redirected, one that waits behind it is removed.                *)
MataEnIO(i) ==
    /\ Busca
    /\ Esta(cola, i, pedido.pid)
    /\ IF Head(cola[i]) = pedido.pid
       THEN /\ destino' = [destino EXCEPT ![pedido.pid] = "COLA_EXIT_USUARIO"]
            /\ UNCHANGED <<cola, grado>>
       ELSE /\ cola' = Pasa(cola, pedido.pid, i, "EXIT")
            /\ grado' = grado + 1
            /\ UNCHANGED destino
    /\ condenados' = condenados \cup {pedido.pid}
    /\ UNCHANGED <<intUsuario, interrupcion>>

NadaQueMatar ==
    /\ Busca
    /\ \A q \in NombresCola \ {"EXIT"} : ~Esta(cola, q, pedido.pid)
    /\ UNCHANGED <<cola, destino, grado, intUsuario, interrupcion, condenados>>

(* Mutant: the killer does not restart the scheduler. *)
ReanudaSinIniciar ==
    /\ pedido.fase = "reanuda"
    /\ pedido' = SinPedido
    /\ UNCHANGED <<iniciada, ficha>>
    /\ UNCHANGED <<procesos, creacion, semNew, semReady, cupos, detenedores,
                   intUsuario, lp, cp, ejecucion, io, historia>>

Reanuda ==
    /\ pedido.fase = "reanuda"
    /\ pedido' = SinPedido
    /\ IF iniciada THEN UNCHANGED <<iniciada, ficha>> ELSE IniciarPlanificacion
    /\ UNCHANGED <<procesos, creacion, semNew, semReady, cupos, detenedores,
                   intUsuario, lp, cp, ejecucion, io, historia>>

-----------------------------------------------------------------------------
(* MULTIPROGRAMACION n: posts the difference, or starts one bajar_grado    *)
(* thread per slot to take back.                                           *)
CambiarGrado(n) ==
    /\ n \in Grados
    /\ bajadores + (multiprog - n) <= MaxBajadores
    /\ multiprog' = n
    /\ IF n > multiprog
       THEN grado' = grado + (n - multiprog) /\ UNCHANGED bajadores
       ELSE bajadores' = bajadores + (multiprog - n) /\ UNCHANGED grado
    /\ UNCHANGED <<procesos, creacion, semNew, semReady, control, intUsuario, lp,
                   cp, ejecucion, io, historia>>

BajarGrado ==
    /\ bajadores > 0 /\ grado > 0
    /\ bajadores' = bajadores - 1
    /\ grado' = grado - 1
    /\ UNCHANGED <<procesos, creacion, semNew, semReady, multiprog, control,
                   intUsuario, lp, cp, ejecucion, io, historia>>

-----------------------------------------------------------------------------
Creador == AsignarPid \/ CrearProceso \/ ArchivoInvalido
LargoPlazo == LPEsperaNew \/ LPEsperaGrado \/ LPMueve
Planifica == CPEsperaReady \/ (\E q \in ColasDePlanificacion : CPDespacha(q)) \/ CPColaVacia
Atiende == FinDeEjecucion \/ FinDeQuantum \/ (\E i \in Interfaces : BloqueoPorIO(i))
CortoPlazo == Planifica \/ Atiende \/ CPCancela
CPU == CPURecibe \/ CPUInterrumpe
       \/ (\E m \in {"EXIT", "OUT_OF_MEMORY"} \cup Interfaces : CPUDevuelve(m))
HiloIO(i) == IOConecta(i) \/ IOCompleta(i) \/ IODesconecta(i) \/ IODrena(i) \/ IOSale(i)
Mata == MataEnNew \/ (\E q \in {"READY", "READYPLUS"} : MataEnReady(q)) \/ MataEnExec
        \/ (\E i \in Interfaces : MataEnIO(i)) \/ NadaQueMatar
Finalizador == PlanificacionDetenida \/ Mata \/ Reanuda
               \/ (\E f \in Fases : DetenerCola(f))
Consola == Iniciar \/ Detener \/ (\E p \in Pids : FinalizarProceso(p))
           \/ (\E n \in Grados : CambiarGrado(n))

Next == \/ Creador \/ LargoPlazo \/ CortoPlazo \/ CPU \/ VenceQuantum
        \/ (\E i \in Interfaces : HiloIO(i))
        \/ Finalizador \/ Consola \/ BajarGrado

Spec == Init /\ [][Next]_vars

(* Every kernel thread that can run does, and one that waits for a permit   *)
(* that keeps being posted gets it in the end, however often kills take    *)
(* the permits away (strong fairness of sem_wait).  Bursts end, because    *)
(* the pseudocode programs do; a connected interface answers; the user     *)
(* starts the scheduler, and owes nothing else.                            *)
Justicia ==
    /\ WF_vars(CrearProceso) /\ WF_vars(Iniciar)
    /\ WF_vars(LPEsperaNew) /\ WF_vars(LPEsperaGrado) /\ SF_vars(LPMueve)
    /\ SF_vars(Planifica) /\ SF_vars(Atiende) /\ WF_vars(CPCancela)
    /\ WF_vars(CPU)
    /\ \A i \in Interfaces :
          SF_vars(IOCompleta(i)) /\ WF_vars(IODrena(i)) /\ WF_vars(IOSale(i))
    /\ WF_vars(PlanificacionDetenida) /\ WF_vars(Mata) /\ WF_vars(Reanuda)
    /\ \A f \in Fases : WF_vars(DetenerCola(f))

SpecJusta == Spec /\ Justicia

-----------------------------------------------------------------------------
(* A pcb is in one queue at most, and every pid handed out is in a queue   *)
(* or in the hands of the creator thread: no transition loses or           *)
(* duplicates a process, and no pid is given to two of them although       *)
(* ARCHIVO_INVALIDO takes pid_contador back.                               *)
UnSoloLugar ==
    /\ SinRepetidos(cola)
    /\ Ubicados(cola, NombresCola) = {p \in Pids : p < pidContador} \ {creando}

(* The degree of multiprogramming is conserved: the permits left, the one  *)
(* the long-term scheduler holds and the processes that occupy one add up  *)
(* to the configured degree plus what bajar_grado has not yet taken; only  *)
(* the processes ended by the loss of an interface never give it back.     *)
GradoCuadra ==
    grado + (IF lp = "espera_plani" THEN 1 ELSE 0)
          + Cardinality(Ubicados(cola, ConCupo)) + Cardinality(fugados)
      = multiprog + bajadores

(* proceso_en_cola_ready covers what is in READY and READY+, in spite of   *)
(* the stale counts kills leave behind.                                    *)
ReadyCubierta ==
    Len(cola["READY"]) + Len(cola["READYPLUS"])
      <= semReady + (IF cp = "espera_plani" THEN 1 ELSE 0)

(* proceso_en_cola_new covers what is in NEW but the process the long-term *)
(* scheduler has already counted.                                          *)
NewCubierta ==
    Len(cola["NEW"]) <= semNew + (IF lp = "espera_new" THEN 0 ELSE 1)

(* No process is stranded in NEW, READY or READY+ behind a semaphore at 0. *)
ColasCubiertas == ReadyCubierta /\ NewCubierta

(* The kernel and the CPU agree on who runs: while planificacion_* waits   *)
(* for a context there is one process in EXEC and its pcb is in exactly    *)
(* one place of the dispatch protocol; otherwise EXEC is empty and the CPU *)
(* has nothing of the kernel's.                                            *)
CPUCoherente ==
    LET enDispatch == <<despacho, cpu, contexto.pid>>
    IN IF cp = "recibe"
       THEN \E p \in Pids :
              /\ cola["EXEC"] = <<p>>
              /\ enDispatch \in {<<p, Nadie, Nadie>>, <<Nadie, p, Nadie>>, <<Nadie, Nadie, p>>}
       ELSE Vacia(cola, "EXEC") /\ enDispatch = <<Nadie, Nadie, Nadie>>

(* The scheduler is really stopped while a kill searches the queues: the   *)
(* four permits are taken, so nobody moves a pcb under its feet.           *)
BuscaConTodoDetenido ==
    pedido.fase \in {"busca", "reanuda"} => \A f \in Fases : ficha[f] = 0

(* A kill is never forgotten.  A process found in EXEC leaves it only for  *)
(* EXIT (RR and VRR raise interrupcion_usuario for that), and one found    *)
(* while an interface serves it goes nowhere but EXIT when it is done.     *)
CondenadoNoSigue ==
    \A p \in condenados :
        \/ Esta(cola, "EXEC", p) \/ Esta(cola, "EXIT", p)
        \/ /\ destino[p] = "COLA_EXIT_USUARIO"
           /\ \E i \in Interfaces : ~Vacia(cola, i) /\ Head(cola[i]) = p

(* VRR: READY+ is only for processes that left part of their quantum       *)
(* unused before the I/O, never for one whose quantum was renewed.         *)
PrioridadConResto ==
    \A p \in Pids : Esta(cola, "READYPLUS", p) => quantum[p] \in 1..(Quantum - 1)

(* Every admitted process gets the CPU (or is killed first).               *)
ReadyEjecuta ==
    \A p \in Pids : Esta(cola, "READY", p) ~> (Esta(cola, "EXEC", p) \/ Esta(cola, "EXIT", p))

(* A kill that stopped the scheduler completes and starts it again.        *)
PedidoTermina == (pedido.fase = "detiene") ~> (pedido.fase = "libre" /\ iniciada)

(* A process killed while it ran reaches EXIT.                             *)
CondenadoTermina == \A p \in Pids : (p \in condenados) ~> Esta(cola, "EXIT", p)
=============================================================================
