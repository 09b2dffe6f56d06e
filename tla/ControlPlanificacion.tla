------------------------ MODULE ControlPlanificacion ------------------------
(***************************************************************************)
(* The switch of the scheduler at the grain of its semaphores: the flag    *)
(* planificacion_iniciada, which is read in one critical section and       *)
(* written in another, the four permits planificacion_*_iniciada, the      *)
(* stopper threads that take them, the confirmations posted to             *)
(* planificacion_detenida, the console and any number of                   *)
(* hilo_elimina_proceso.  What the scheduler threads do inside their       *)
(* critical sections is module Planificador.                               *)
(***************************************************************************)
EXTENDS Integers, Sequences, FiniteSets

CONSTANTS Finalizadores,  \* bound: the FINALIZAR_PROCESO the user types
          HilosIO,        \* the threads of the interfaces
          MaxPendientes,  \* bound: stopper threads waiting for one permit
          EnSerie,        \* bound: nothing is typed while a kill is not done, nor a
                          \* kill while a stopper waits; stops and starts may pile up
          UsaPausas       \* bound: whether the user types DETENER_PLANIFICACION

ASSUME ControlAssumption ==
    /\ MaxPendientes \in Nat
    /\ EnSerie \in BOOLEAN /\ UsaPausas \in BOOLEAN
    /\ IsFiniteSet(HilosIO) /\ HilosIO \cap {"lp", "cp_ready", "cp_exec"} = {}

Orden == <<"new", "ready", "exec", "blocked">>    \* in which they are posted
Fases == {Orden[n] : n \in 1..4}
Hilos == {"lp", "cp_ready", "cp_exec"} \cup HilosIO
FaseDe(h) == CASE h = "lp" -> "new" [] h = "cp_ready" -> "ready"
               [] h = "cp_exec" -> "exec" [] OTHER -> "blocked"

VARIABLES
    iniciada,    \* planificacion_iniciada
    ficha,       \* planificacion_{new,ready,exec,blocked}_iniciada
    detenida,    \* planificacion_detenida
    dentro,      \* the threads inside their critical section
    turno,       \* which section planificacion_{fifo,rr,vrr} enters next
    mudos,       \* detener_cola_* threads that still wait, per permit
    avisan,      \* detener_cola_*_confirmacion threads that still wait
    consola,     \* what the console thread is doing
    fin          \* where each hilo_elimina_proceso is

vars == <<iniciada, ficha, detenida, dentro, turno, mudos, avisan, consola, fin>>
planificador == <<dentro, turno>>
detencion == <<detenida, mudos, avisan>>

Pasos == {"fuera", "lee", "baja", "espera", "busca_ya", "busca", "relee",
          "sube", "postea", "termino"}

TypeOK ==
    /\ iniciada \in BOOLEAN
    /\ ficha \in [Fases -> Nat] /\ detenida \in Nat
    /\ dentro \subseteq Hilos /\ turno \in {"cp_ready", "cp_exec"}
    /\ mudos \in [Fases -> Nat] /\ avisan \in [Fases -> Nat]
    /\ consola \in [paso : {"lee", "baja", "sube", "postea"}, n : 0..3]
    /\ fin \in [Finalizadores -> [paso : Pasos, n : 0..3]]

Init ==
    /\ iniciada = FALSE
    /\ ficha = [f \in Fases |-> 0] /\ detenida = 0
    /\ dentro = {} /\ turno = "cp_ready"
    /\ mudos = [f \in Fases |-> 0] /\ avisan = [f \in Fases |-> 0]
    /\ consola = [paso |-> "lee", n |-> 0]
    /\ fin = [k \in Finalizadores |-> [paso |-> "fuera", n |-> 0]]

-----------------------------------------------------------------------------
(* The scheduler threads: sem_wait and sem_post of their permit.  The      *)
(* short-term scheduler alternates the sections ready and exec, or goes    *)
(* back to ready when its queue was empty.                                 *)
Entra(h) ==
    /\ h \notin dentro /\ ficha[FaseDe(h)] > 0
    /\ h \in {"cp_ready", "cp_exec"} => h = turno /\ dentro \cap {"cp_ready", "cp_exec"} = {}
    /\ ficha' = [ficha EXCEPT ![FaseDe(h)] = @ - 1]
    /\ dentro' = dentro \cup {h}
    /\ UNCHANGED <<iniciada, detencion, turno, consola, fin>>

(* Mutant: the permit is not posted back. *)
SaleSinPost(h) ==
    /\ h \in dentro
    /\ dentro' = dentro \ {h}
    /\ UNCHANGED ficha
    /\ turno' \in (IF h = "cp_ready" THEN {"cp_ready", "cp_exec"}
                   ELSE IF h = "cp_exec" THEN {"cp_ready"} ELSE {turno})
    /\ UNCHANGED <<iniciada, detencion, consola, fin>>

Sale(h) ==
    /\ h \in dentro
    /\ dentro' = dentro \ {h}
    /\ ficha' = [ficha EXCEPT ![FaseDe(h)] = @ + 1]
    /\ turno' \in (IF h = "cp_ready" THEN {"cp_ready", "cp_exec"}
                   ELSE IF h = "cp_exec" THEN {"cp_ready"} ELSE {turno})
    /\ UNCHANGED <<iniciada, detencion, consola, fin>>

-----------------------------------------------------------------------------
(* The stopper threads.                                                    *)
DetenerCola(f) ==
    /\ mudos[f] > 0 /\ ficha[f] > 0
    /\ ficha' = [ficha EXCEPT ![f] = @ - 1]
    /\ mudos' = [mudos EXCEPT ![f] = @ - 1]
    /\ UNCHANGED <<iniciada, detenida, avisan, planificador, consola, fin>>

(* Mutant: the confirmation is posted without the permit. *)
DetenerColaConfirmacionSinEsperar(f) ==
    /\ avisan[f] > 0
    /\ UNCHANGED ficha
    /\ avisan' = [avisan EXCEPT ![f] = @ - 1]
    /\ detenida' = detenida + 1
    /\ UNCHANGED <<iniciada, mudos, planificador, consola, fin>>

DetenerColaConfirmacion(f) ==
    /\ avisan[f] > 0 /\ ficha[f] > 0
    /\ ficha' = [ficha EXCEPT ![f] = @ - 1]
    /\ avisan' = [avisan EXCEPT ![f] = @ - 1]
    /\ detenida' = detenida + 1
    /\ UNCHANGED <<iniciada, mudos, planificador, consola, fin>>

-----------------------------------------------------------------------------
(* The console thread, one command at a time.  A command reads the flag in *)
(* one critical section and writes it in another.                          *)
Pendientes(f) == mudos[f] + avisan[f]
SinKills == \A k \in Finalizadores : fin[k].paso \in {"fuera", "termino"}
Quieto == \A f \in Fases : Pendientes(f) = 0
PuedeTipear == consola.paso = "lee" /\ (EnSerie => SinKills)

DetenerLee ==
    /\ UsaPausas /\ PuedeTipear
    /\ \A f \in Fases : mudos[f] < MaxPendientes
    /\ iniciada
    /\ consola' = [paso |-> "baja", n |-> 0]
    /\ UNCHANGED <<iniciada, ficha, detencion, planificador, fin>>

DetenerBaja ==
    /\ consola.paso = "baja"
    /\ iniciada' = FALSE
    /\ mudos' = [f \in Fases |-> mudos[f] + 1]
    /\ consola' = [paso |-> "lee", n |-> 0]
    /\ UNCHANGED <<ficha, detenida, avisan, planificador, fin>>

IniciarLee ==
    /\ PuedeTipear
    /\ ~iniciada
    /\ consola' = [paso |-> "sube", n |-> 0]
    /\ UNCHANGED <<iniciada, ficha, detencion, planificador, fin>>

IniciarSube ==
    /\ consola.paso = "sube"
    /\ iniciada' = TRUE
    /\ consola' = [paso |-> "postea", n |-> 0]
    /\ UNCHANGED <<ficha, detencion, planificador, fin>>

IniciarPostea ==
    /\ consola.paso = "postea"
    /\ ficha' = [ficha EXCEPT ![Orden[consola.n + 1]] = @ + 1]
    /\ consola' = IF consola.n = 3 THEN [paso |-> "lee", n |-> 0]
                  ELSE [paso |-> "postea", n |-> consola.n + 1]
    /\ UNCHANGED <<iniciada, detencion, planificador, fin>>

Avanza(k, de, a) ==
    /\ fin[k].paso = de
    /\ fin' = [fin EXCEPT ![k] = [paso |-> a, n |-> 0]]

(* finalizar_proceso only creates the thread.                              *)
FinalizarProceso(k) ==
    /\ PuedeTipear /\ (EnSerie => Quieto)
    /\ Avanza(k, "fuera", "lee")
    /\ UNCHANGED <<iniciada, ficha, detencion, planificador, consola>>

-----------------------------------------------------------------------------
(* hilo_elimina_proceso.                                                   *)
FinLee(k) ==
    /\ Avanza(k, "lee", IF iniciada THEN "baja" ELSE "busca_ya")
    /\ UNCHANGED <<iniciada, ficha, detencion, planificador, consola>>

FinBaja(k) ==
    /\ Avanza(k, "baja", "espera")
    /\ iniciada' = FALSE
    /\ avisan' = [f \in Fases |-> avisan[f] + 1]
    /\ UNCHANGED <<ficha, detenida, mudos, planificador, consola>>

FinConfirmado(k) ==
    /\ fin[k].paso = "espera" /\ detenida > 0
    /\ detenida' = detenida - 1
    /\ fin' = [fin EXCEPT ![k] = IF @.n = 3 THEN [paso |-> "busca", n |-> 0]
                                 ELSE [paso |-> "espera", n |-> @.n + 1]]
    /\ UNCHANGED <<iniciada, ficha, mudos, avisan, planificador, consola>>

(* buscar_proceso_finalizar takes a while: the end of the search.          *)
FinBuscado(k) ==
    /\ \/ Avanza(k, "busca_ya", "termino")
       \/ Avanza(k, "busca", "relee")
    /\ UNCHANGED <<iniciada, ficha, detencion, planificador, consola>>

FinRelee(k) ==
    /\ Avanza(k, "relee", IF iniciada THEN "termino" ELSE "sube")
    /\ UNCHANGED <<iniciada, ficha, detencion, planificador, consola>>

(* Mutant: the flag is left down. *)
FinSubeSinBandera(k) ==
    /\ Avanza(k, "sube", "postea")
    /\ UNCHANGED iniciada
    /\ UNCHANGED <<ficha, detencion, planificador, consola>>

FinSube(k) ==
    /\ Avanza(k, "sube", "postea")
    /\ iniciada' = TRUE
    /\ UNCHANGED <<ficha, detencion, planificador, consola>>

FinPostea(k) ==
    /\ fin[k].paso = "postea"
    /\ ficha' = [ficha EXCEPT ![Orden[fin[k].n + 1]] = @ + 1]
    /\ fin' = [fin EXCEPT ![k] = IF @.n = 3 THEN [paso |-> "termino", n |-> 0]
                                 ELSE [paso |-> "postea", n |-> @.n + 1]]
    /\ UNCHANGED <<iniciada, detencion, planificador, consola>>

-----------------------------------------------------------------------------
Detenedores == \E f \in Fases : DetenerCola(f) \/ DetenerColaConfirmacion(f)
Teclado == DetenerLee \/ IniciarLee \/ (\E k \in Finalizadores : FinalizarProceso(k))
Consola == DetenerBaja \/ IniciarSube \/ IniciarPostea
Finaliza(k) == FinLee(k) \/ FinBaja(k) \/ FinConfirmado(k) \/ FinBuscado(k)
               \/ FinRelee(k) \/ FinSube(k) \/ FinPostea(k)

Next == \/ (\E h \in Hilos : Entra(h) \/ Sale(h))
        \/ Detenedores \/ Teclado \/ Consola
        \/ (\E k \in Finalizadores : Finaliza(k))

Spec == Init /\ [][Next]_vars

(* Critical sections end, threads that can run do, and a stopper that      *)
(* waits for a permit posted again and again gets it.  Nothing is asked of *)
(* the keyboard.                                                           *)
SpecJusta ==
    /\ Spec
    /\ \A h \in Hilos : WF_vars(Sale(h))
    /\ \A f \in Fases : SF_vars(DetenerCola(f)) /\ SF_vars(DetenerColaConfirmacion(f))
    /\ WF_vars(Consola)
    /\ \A k \in Finalizadores : WF_vars(Finaliza(k))

-----------------------------------------------------------------------------
Ocupantes(f) == Cardinality({h \in dentro : FaseDe(h) = f})

(* The permits of a phase that somebody still has to post.                 *)
PorPostear(f) ==
    \/ consola.paso = "postea" /\ \E n \in (consola.n + 1)..4 : Orden[n] = f
    \/ \E k \in Finalizadores :
          fin[k].paso = "postea" /\ \E n \in (fin[k].n + 1)..4 : Orden[n] = f

(* The flag tells the truth: once the stoppers that wait have been served  *)
(* and the posts in progress are done, a phase has exactly one permit,     *)
(* free or in use, if the flag is up, and none if it is down, however fast *)
(* the user stops and starts the scheduler.                                *)
BanderaDiceLaVerdad ==
    \A f \in Fases :
        ficha[f] + Ocupantes(f) - Pendientes(f)
          = IF iniciada /\ ~PorPostear(f) THEN 1 ELSE 0

(* Whoever kills a process has the scheduler for itself while it searches. *)
Buscando == {k \in Finalizadores : fin[k].paso \in {"busca_ya", "busca"}}
Exclusiva == INSTANCE BusquedaExclusiva WITH buscando <- Buscando
BusquedaEsExclusiva == Exclusiva!Spec

(* A kill that found the scheduler running ends, and leaves it running.    *)
MataYReanuda ==
    \A k \in Finalizadores :
        (fin[k].paso = "baja") ~> (fin[k].paso = "termino" /\ iniciada
                                   /\ \A f \in Fases : ficha[f] + Ocupantes(f) = 1)
=============================================================================
