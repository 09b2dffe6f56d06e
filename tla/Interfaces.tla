----------------------------- MODULE Interfaces -----------------------------
(* The interfaces seen from the kernel: the thread of each connection      *)
(* (conexiones.c), the list of interfaces and their queues                 *)
(* (manejo_interfaces.c), the short-term scheduler that blocks a process   *)
(* in one (planificadorCP.c:115-170 and the cases after it) and the kill   *)
(* that searches them.  The three atender_interfaz_* functions are the     *)
(* same loop over requests that carry different data.                      *)
(*                                                                         *)
(* Planificador takes each of these as one step.  Here a request is        *)
(* checked, looked up, pushed and announced in four steps, while threads   *)
(* come, serve, are lost, empty their queue and free it.  The scheduler    *)
(* holds the permit of EXEC meanwhile and the kill holds that one and the  *)
(* permit of BLOCKED, so these two exclude each other and the kill         *)
(* excludes the step that sends a process back; nothing excludes the       *)
(* thread of a lost interface.                                             *)
EXTENDS Integers, Sequences, SequencesExt

CONSTANTS Pids, Nadie,
          Conexiones,     \* bound: the connections of interfaces ever made
          Nombre,         \* the name each one announces
          Desconectables, \* bound: the connections whose process may die
          Matables        \* bound: pids given to FINALIZAR_PROCESO, once each

ASSUME InterfacesAssumption ==
    /\ Nadie \notin Pids /\ Nadie \notin Conexiones
    /\ DOMAIN Nombre = Conexiones
    /\ Desconectables \subseteq Conexiones /\ Matables \subseteq Pids

VARIABLES
    lista,      \* lista_procesos_blocked
    cola,       \* cola_procesos_blocked of each interface, as pids
    sem,        \* hay_proceso_cola
    hilo,       \* where the thread of each connection is
    solicitud,  \* solicitud_io: the request it sent, Nadie once freed
    par,        \* the process at the other end of the connection
    mensaje,    \* the request in its socket, or its answer
    estado,     \* where each process is
    destino,    \* cola_destino of its request
    kernel,     \* where the short-term scheduler is
    mata,       \* where the kill that searches the queues is
    caido,      \* how memory was misused, "no" if it was not
    ordenadas,  \* kills already asked for
    tarde,      \* history: processes pushed to an interface already drained
    quitada,    \* history: connections with a waiting request removed by a kill
    cruzados    \* history: two connections of one name passed the check at once

objetos == <<lista, cola, sem>>
historia == <<ordenadas, tarde>>
otros == <<par, mensaje, historia>>
procesos == <<estado, destino>>
vars == <<lista, cola, sem, hilo, solicitud, par, mensaje, estado, destino, kernel, mata, caido,
          ordenadas, tarde, quitada, cruzados>>

Nombres == {Nombre[c] : c \in Conexiones}
Rango(s) == {s[i] : i \in DOMAIN s}
Reposo == [paso |-> "nada", pid |-> Nadie, nombre |-> "", con |-> Nadie]
Quieta == [pid |-> Nadie, i |-> 1, j |-> 1]

Retirandose == {"drena", "quita", "libera", "fin"}

TypeOK ==
    /\ lista \in Seq(Conexiones)
    /\ cola \in [Conexiones -> Seq(Pids)] /\ sem \in [Conexiones -> Nat]
    /\ hilo \in [Conexiones -> {"fuera", "agrega", "espera", "recibe", "turno", "rechazada"}
                               \cup Retirandose]
    /\ solicitud \in [Conexiones -> Pids \cup {Nadie}]
    /\ par \in [Conexiones -> {"nadie", "viva", "muerta", "reset"}]
    /\ mensaje \in [Conexiones -> {"nada", "enviado", "leido", "respondido"}]
    /\ estado \in [Pids -> {"libre", "pide", "cola", "fin"}]
    /\ destino \in [Pids -> {"READY", "COLA_EXIT_USUARIO"}]
    /\ kernel \in [paso : {"nada", "busca", "empuja", "avisa"}, pid : Pids \cup {Nadie},
                   nombre : Nombres \cup {""}, con : Conexiones \cup {Nadie}]
    /\ mata \in [pid : Pids \cup {Nadie}, i : Nat, j : Nat]
    /\ caido \in {"no", "nulo", "interfaz_liberada", "solicitud_liberada", "iterador"}
    /\ ordenadas \subseteq Matables /\ tarde \subseteq Pids
    /\ quitada \subseteq Conexiones /\ cruzados \in BOOLEAN

Init ==
    /\ lista = <<>>
    /\ cola = [c \in Conexiones |-> <<>>] /\ sem = [c \in Conexiones |-> 0]
    /\ hilo = [c \in Conexiones |-> "fuera"]
    /\ solicitud = [c \in Conexiones |-> Nadie]
    /\ par = [c \in Conexiones |-> "nadie"]
    /\ mensaje = [c \in Conexiones |-> "nada"]
    /\ estado = [p \in Pids |-> "libre"] /\ destino = [p \in Pids |-> "READY"]
    /\ kernel = Reposo /\ mata = Quieta
    /\ caido = "no" /\ ordenadas = {} /\ tarde = {} /\ quitada = {} /\ cruzados = FALSE

Mueve(c, paso) == hilo' = [hilo EXCEPT ![c] = paso]
Cae(como) == caido' = como /\ UNCHANGED <<objetos, procesos, hilo, solicitud, quitada>>

-----------------------------------------------------------------------------
(* existe_interfaz and buscar_interfaz: the first of that name.            *)
existe_interfaz(n) == \E i \in DOMAIN lista : Nombre[lista[i]] = n
buscar_interfaz(n) ==
    lista[CHOOSE i \in DOMAIN lista : /\ Nombre[lista[i]] = n
                                      /\ \A k \in 1..(i - 1) : Nombre[lista[k]] # n]

(* procesarConexionesIO: the name is looked for, and added later.          *)
(* Mutant: nobody asks whether the name is taken. *)
PreguntaNada(c) ==
    /\ hilo[c] = "fuera"
    /\ par' = [par EXCEPT ![c] = "viva"]
    /\ Mueve(c, "agrega")
    /\ UNCHANGED <<objetos, solicitud, mensaje, procesos, kernel, mata, caido, historia,
                   quitada, cruzados>>

Pregunta(c) ==
    /\ hilo[c] = "fuera"
    /\ par' = [par EXCEPT ![c] = "viva"]
    /\ Mueve(c, IF existe_interfaz(Nombre[c]) THEN "rechazada" ELSE "agrega")
    /\ cruzados' = (cruzados \/ \E d \in Conexiones : hilo[d] = "agrega" /\ Nombre[d] = Nombre[c])
    /\ UNCHANGED <<objetos, solicitud, mensaje, procesos, kernel, mata, caido, historia, quitada>>

agregar_interfaz_lista(c) ==
    /\ hilo[c] = "agrega"
    /\ lista' = Append(lista, c)
    /\ Mueve(c, "espera")
    /\ UNCHANGED <<cola, sem, solicitud, otros, procesos, kernel, mata, caido, quitada, cruzados>>

(* The head of the loop of atender_interfaz_*: a count of hay_proceso_cola *)
(* is taken and the first request, if there is one, is sent.  A send to a  *)
(* process that died fails, or is followed by the end of the stream.       *)
Toma(c) ==
    /\ hilo[c] = "espera" /\ sem[c] > 0
    /\ sem' = [sem EXCEPT ![c] = @ - 1]
    /\ IF cola[c] = <<>>
       THEN Mueve(c, "turno") /\ UNCHANGED <<solicitud, mensaje>>
       ELSE /\ solicitud' = [solicitud EXCEPT ![c] = Head(cola[c])]
            /\ IF par[c] = "viva"
               THEN Mueve(c, "recibe") /\ mensaje' = [mensaje EXCEPT ![c] = "enviado"]
               ELSE Mueve(c, "drena") /\ UNCHANGED mensaje
    /\ UNCHANGED <<lista, cola, par, procesos, kernel, mata, caido, historia, quitada, cruzados>>

(* recv: only the end of the stream counts as a loss.  A connection that   *)
(* is reset, because its process died with the request unread, counts as   *)
(* an answer.                                                              *)
(* Mutant: the end of the stream counts as an answer too. *)
RecibeCualquierCosa(c) ==
    /\ hilo[c] = "recibe"
    /\ mensaje[c] = "respondido" \/ par[c] # "viva"
    /\ Mueve(c, "turno")
    /\ UNCHANGED <<objetos, solicitud, otros, procesos, kernel, mata, caido, quitada, cruzados>>

RecibeRespuesta(c) ==
    /\ hilo[c] = "recibe"
    /\ \/ mensaje[c] = "respondido" /\ Mueve(c, "turno")
       \/ par[c] = "reset" /\ Mueve(c, "turno")
       \/ par[c] = "muerta" /\ mensaje[c] # "respondido" /\ Mueve(c, "drena")
    /\ UNCHANGED <<objetos, solicitud, otros, procesos, kernel, mata, caido, quitada, cruzados>>

(* Under the permit of BLOCKED: the queue is looked at again, its first    *)
(* request is taken out, and the process of solicitud_io is sent on        *)
(* (mandar_pcb_cola_correspondiente).                                      *)
Devuelto(p) == IF destino[p] = "READY" THEN "libre" ELSE "fin"

Devuelve(c) ==
    /\ hilo[c] = "turno" /\ mata = Quieta
    /\ IF cola[c] = <<>>
       THEN Mueve(c, "espera") /\ UNCHANGED <<objetos, procesos, solicitud, caido, quitada>>
       ELSE IF solicitud[c] = Nadie THEN Cae("solicitud_liberada")
       ELSE /\ cola' = [cola EXCEPT ![c] = Tail(@)]
            /\ estado' = [estado EXCEPT ![solicitud[c]] = Devuelto(solicitud[c])]
            /\ solicitud' = [solicitud EXCEPT ![c] = Nadie]
            /\ Mueve(c, "espera") /\ UNCHANGED <<lista, sem, destino, caido, quitada>>
    /\ UNCHANGED <<otros, kernel, mata, cruzados>>

(* After the loss: every request ends its process, then the interface      *)
(* leaves the list and is freed.  None of it under a permit: a search that *)
(* walks the same list meanwhile follows freed nodes.                      *)
Recorrida(c) == mata # Quieta /\ mata.i \in DOMAIN lista /\ lista[mata.i] = c

(* Mutant: only the first request is taken out. *)
DrenaUna(c) ==
    /\ hilo[c] = "drena"
    /\ IF Recorrida(c) /\ cola[c] # <<>> THEN Cae("iterador")
       ELSE /\ cola' = [cola EXCEPT ![c] = IF @ = <<>> THEN @ ELSE Tail(@)]
            /\ estado' = IF cola[c] = <<>> THEN estado
                         ELSE [estado EXCEPT ![Head(cola[c])] = "fin"]
            /\ Mueve(c, "quita")
            /\ UNCHANGED <<lista, sem, destino, solicitud, caido, quitada>>
    /\ UNCHANGED <<otros, kernel, mata, cruzados>>

Drena(c) ==
    /\ hilo[c] = "drena"
    /\ IF cola[c] = <<>>
       THEN Mueve(c, "quita") /\ UNCHANGED <<objetos, procesos, solicitud, caido, quitada>>
       ELSE IF Recorrida(c) THEN Cae("iterador")
       ELSE /\ cola' = [cola EXCEPT ![c] = Tail(@)]
            /\ estado' = [estado EXCEPT ![Head(cola[c])] = "fin"]
            /\ UNCHANGED <<lista, sem, destino, hilo, solicitud, caido, quitada>>
    /\ UNCHANGED <<otros, kernel, mata, cruzados>>

quitar_interfaz_lista(c) ==
    /\ hilo[c] = "quita"
    /\ IF mata # Quieta THEN Cae("iterador")
       ELSE /\ \E i \in DOMAIN lista : lista[i] = c /\ lista' = RemoveAt(lista, i)
            /\ Mueve(c, "libera")
            /\ UNCHANGED <<cola, sem, procesos, solicitud, caido, quitada>>
    /\ UNCHANGED <<otros, kernel, mata, cruzados>>

liberar_recursos_interfaz(c) ==
    /\ hilo[c] = "libera"
    /\ Mueve(c, "fin")
    /\ UNCHANGED <<objetos, solicitud, otros, procesos, kernel, mata, caido, quitada, cruzados>>

-----------------------------------------------------------------------------
(* The process at the other end reads the request, answers, and may die:   *)
(* with the request unread the connection is reset.                        *)
Lee(c) ==
    /\ par[c] = "viva" /\ mensaje[c] = "enviado"
    /\ mensaje' = [mensaje EXCEPT ![c] = "leido"]
    /\ UNCHANGED <<objetos, hilo, solicitud, par, procesos, kernel, mata, caido, historia,
                   quitada, cruzados>>

Responde(c) ==
    /\ par[c] = "viva" /\ mensaje[c] = "leido"
    /\ mensaje' = [mensaje EXCEPT ![c] = "respondido"]
    /\ UNCHANGED <<objetos, hilo, solicitud, par, procesos, kernel, mata, caido, historia,
                   quitada, cruzados>>

Muere(c) ==
    /\ par[c] = "viva" /\ c \in Desconectables
    /\ par' = [par EXCEPT ![c] = IF mensaje[c] = "enviado" THEN "reset" ELSE "muerta"]
    /\ UNCHANGED <<objetos, hilo, solicitud, mensaje, procesos, kernel, mata, caido, historia,
                   quitada, cruzados>>

-----------------------------------------------------------------------------
(* The short-term scheduler, for a process that asks for interface n:      *)
(* slist_comprobate_io, slist_buscar_interfaz, push_elemento_cola_io and   *)
(* sem_post are four critical sections.  A request of another type than    *)
(* the interface is refused.                                               *)
Rechaza(p) ==
    /\ estado' = [estado EXCEPT ![p] = "fin"]
    /\ UNCHANGED <<destino, kernel>>

Comprueba(p, n) ==
    /\ kernel = Reposo /\ mata = Quieta /\ estado[p] = "libre"
    /\ \/ Rechaza(p)
       \/ /\ existe_interfaz(n)
          /\ estado' = [estado EXCEPT ![p] = "pide"]
          /\ destino' = [destino EXCEPT ![p] = "READY"]
          /\ kernel' = [Reposo EXCEPT !.paso = "busca", !.pid = p, !.nombre = n]
    /\ UNCHANGED <<objetos, hilo, solicitud, otros, mata, caido, quitada, cruzados>>

Busca ==
    /\ kernel.paso = "busca"
    /\ IF existe_interfaz(kernel.nombre)
       THEN /\ kernel' = [kernel EXCEPT !.paso = "empuja", !.con = buscar_interfaz(kernel.nombre)]
            /\ UNCHANGED caido
       ELSE caido' = "nulo" /\ UNCHANGED kernel
    /\ UNCHANGED <<objetos, hilo, solicitud, otros, procesos, mata, quitada, cruzados>>

Empuja ==
    /\ kernel.paso = "empuja"
    /\ IF hilo[kernel.con] = "fin" THEN Cae("interfaz_liberada") /\ UNCHANGED <<kernel, tarde>>
       ELSE /\ cola' = [cola EXCEPT ![kernel.con] = Append(@, kernel.pid)]
            /\ tarde' = IF hilo[kernel.con] \in {"quita", "libera"}
                        THEN tarde \cup {kernel.pid} ELSE tarde
            /\ estado' = [estado EXCEPT ![kernel.pid] = "cola"]
            /\ kernel' = [kernel EXCEPT !.paso = "avisa"]
            /\ UNCHANGED <<lista, sem, destino, hilo, solicitud, caido, quitada>>
    /\ UNCHANGED <<par, mensaje, ordenadas, mata, cruzados>>

(* Mutant: the thread is not told. *)
AvisaNada ==
    /\ kernel.paso = "avisa"
    /\ kernel' = Reposo
    /\ UNCHANGED <<objetos, hilo, solicitud, otros, procesos, mata, caido, quitada, cruzados>>

(* Mutant: the thread is told twice. *)
AvisaDosVeces ==
    /\ kernel.paso = "avisa" /\ hilo[kernel.con] # "fin"
    /\ sem' = [sem EXCEPT ![kernel.con] = @ + 2]
    /\ kernel' = Reposo
    /\ UNCHANGED <<lista, cola, hilo, solicitud, otros, procesos, mata, caido, quitada, cruzados>>

Avisa ==
    /\ kernel.paso = "avisa"
    /\ IF hilo[kernel.con] = "fin" THEN Cae("interfaz_liberada") /\ UNCHANGED kernel
       ELSE /\ sem' = [sem EXCEPT ![kernel.con] = @ + 1]
            /\ kernel' = Reposo
            /\ UNCHANGED <<lista, cola, procesos, hilo, solicitud, caido, quitada>>
    /\ UNCHANGED <<otros, mata, cruzados>>

-----------------------------------------------------------------------------
(* slist_find_pcb_iterating_each_queue: every request of every interface,  *)
(* even after the one that was looked for.                                 *)
Mata(p) ==
    /\ kernel = Reposo /\ mata = Quieta
    /\ p \in Matables \ ordenadas /\ estado[p] = "cola"
    /\ ordenadas' = ordenadas \cup {p}
    /\ mata' = [Quieta EXCEPT !.pid = p]
    /\ UNCHANGED <<objetos, hilo, solicitud, par, mensaje, procesos, kernel, caido, tarde,
                   quitada, cruzados>>

(* verificar_pid_de_solicitud: the first request is being served, so its   *)
(* process is marked; a later one leaves the queue and its process ends.   *)
(* Mutant: the first request is removed like any other. *)
VerificaSinIndice(c, j) ==
    /\ mata' = [mata EXCEPT !.j = IF cola[c][j] # mata.pid THEN j + 1 ELSE j]
    /\ IF cola[c][j] # mata.pid THEN UNCHANGED <<cola, procesos, quitada>>
       ELSE /\ cola' = [cola EXCEPT ![c] = RemoveAt(@, j)]
            /\ estado' = [estado EXCEPT ![mata.pid] = "fin"]
            /\ quitada' = quitada \cup {c}
            /\ UNCHANGED destino

Verifica(c, j) ==
    /\ mata' = [mata EXCEPT !.j = IF cola[c][j] # mata.pid \/ j = 1 THEN j + 1 ELSE j]
    /\ IF cola[c][j] # mata.pid THEN UNCHANGED <<cola, procesos, quitada>>
       ELSE IF j = 1
       THEN /\ destino' = [destino EXCEPT ![mata.pid] = "COLA_EXIT_USUARIO"]
            /\ UNCHANGED <<cola, estado, quitada>>
       ELSE /\ cola' = [cola EXCEPT ![c] = RemoveAt(@, j)]
            /\ estado' = [estado EXCEPT ![mata.pid] = "fin"]
            /\ quitada' = quitada \cup {c}
            /\ UNCHANGED destino

Recorre ==
    /\ mata # Quieta
    /\ IF mata.i > Len(lista) THEN mata' = Quieta /\ UNCHANGED <<cola, procesos, quitada>>
       ELSE IF mata.j > Len(cola[lista[mata.i]])
       THEN mata' = [mata EXCEPT !.i = @ + 1, !.j = 1] /\ UNCHANGED <<cola, procesos, quitada>>
       ELSE Verifica(lista[mata.i], mata.j)
    /\ UNCHANGED <<lista, sem, hilo, solicitud, otros, kernel, caido, cruzados>>

-----------------------------------------------------------------------------
Hilo(c) ==
    agregar_interfaz_lista(c) \/ Toma(c) \/ RecibeRespuesta(c) \/ Devuelve(c) \/ Drena(c)
    \/ quitar_interfaz_lista(c) \/ liberar_recursos_interfaz(c)
Sirve(c) == Lee(c) \/ Responde(c)
Scheduler == Busca \/ Empuja \/ Avisa

Paso ==
    \/ \E c \in Conexiones : Pregunta(c) \/ Hilo(c) \/ Sirve(c) \/ Muere(c)
    \/ Scheduler \/ Recorre
    \/ \E p \in Pids : Mata(p) \/ \E n \in Nombres : Comprueba(p, n)

(* Once memory was misused nothing is said of what follows.                *)
Next == caido = "no" /\ Paso

Spec == Init /\ [][Next]_vars

(* Threads run, and an interface that is alive reads and answers.          *)
SpecJusta ==
    /\ Spec
    /\ WF_vars(caido = "no" /\ Scheduler) /\ WF_vars(caido = "no" /\ Recorre)
    /\ \A c \in Conexiones : /\ WF_vars(caido = "no" /\ Hilo(c))
                             /\ WF_vars(caido = "no" /\ Sirve(c))

-----------------------------------------------------------------------------
(* The request a thread holds is the first of its queue from the send to   *)
(* the pop, so the process it sends on is the one it takes out, whatever   *)
(* kills come meanwhile: no request is in two queues, no process waits     *)
(* twice, and every process in a queue is blocked.                         *)
SolicitudPrimera ==
    /\ \A c \in Conexiones : hilo[c] \in {"recibe", "turno"} /\ solicitud[c] # Nadie =>
                               cola[c] # <<>> /\ Head(cola[c]) = solicitud[c]
    /\ \A c, d \in Conexiones : \A i \in DOMAIN cola[c], j \in DOMAIN cola[d] :
         /\ cola[c][i] = cola[d][j] => c = d /\ i = j
         /\ estado[cola[c][i]] = "cola"

(* No thread sleeps over a request: its semaphore counts at least the      *)
(* requests that wait, or the scheduler is about to post it.               *)
NadieDuerme ==
    \A c \in Conexiones :
      hilo[c] \in {"espera", "recibe", "turno"} =>
        Len(cola[c]) <= sem[c]
                        + (IF hilo[c] # "espera" /\ solicitud[c] # Nadie THEN 1 ELSE 0)
                        + (IF kernel.paso = "avisa" /\ kernel.con = c THEN 1 ELSE 0)

(* What can go wrong has one of two causes.  Only after an interface was   *)
(* lost may the scheduler find no interface, or a freed one, or a search   *)
(* step on what a thread takes apart; and only after a kill removed a      *)
(* request that waited, which leaves hay_proceso_cola one too high, may a  *)
(* thread use a request it already freed.                                  *)
CaidaConCausa ==
    /\ caido \in {"nulo", "interfaz_liberada", "iterador"} =>
         \E c \in Desconectables : hilo[c] \in Retirandose
    /\ caido = "solicitud_liberada" => quitada # {}

(* Two interfaces of one name are in the list only if both passed the      *)
(* check before either was added.                                          *)
NombreUnico ==
    cruzados \/ \A i, j \in DOMAIN lista : Nombre[lista[i]] = Nombre[lista[j]] => i = j

(* A process goes on only after its own request was answered, or after the *)
(* interface died before it read it; and never after a kill found it.      *)
ServidaAntesDeSeguir ==
    [][\A p \in Pids : estado[p] = "cola" /\ estado'[p] = "libre" =>
         /\ destino[p] = "READY"
         /\ \E c \in Conexiones : /\ solicitud[c] = p
                                  /\ mensaje[c] = "respondido" \/ par[c] = "reset"]_vars

(* A process blocked by an interface leaves its queue, served, killed or   *)
(* ended with the interface, unless it was pushed after the interface had  *)
(* found its queue empty for the last time.                                *)
SolicitudTermina ==
    \A p \in Pids : estado[p] = "cola" ~> estado[p] # "cola" \/ p \in tarde \/ caido # "no"
=============================================================================
