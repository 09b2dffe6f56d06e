------------------------- MODULE InterfacesPruebas -------------------------
(* Proofs about Interfaces, for any number of processes, connections,      *)
(* losses and kills.                                                       *)
EXTENDS Interfaces, SecuenciasTeoremas

Ausente == {"fuera", "agrega", "rechazada"}
Atiende == {"espera", "recibe", "turno"}

(* The list has each connection once, and only those added and not yet     *)
(* taken out.                                                              *)
Enlistadas ==
    /\ \A i \in DOMAIN lista : hilo[lista[i]] \in Atiende \cup {"drena", "quita"}
    /\ \A i, j \in DOMAIN lista : lista[i] = lista[j] => i = j

(* A connection that was not added has nothing.                            *)
Vacias == \A c \in Conexiones : hilo[c] \in Ausente => cola[c] = <<>> /\ sem[c] = 0

(* A thread that waits holds no request.                                   *)
Sueltas == \A c \in Conexiones : hilo[c] \in Ausente \cup {"espera"} => solicitud[c] = Nadie

(* Only what may be lost is lost.                                          *)
Pares ==
    \A c \in Conexiones :
      /\ par[c] \in {"muerta", "reset"} => c \in Desconectables
      /\ hilo[c] # "fuera" => par[c] # "nadie"
      /\ hilo[c] \in Retirandose => c \in Desconectables

AlguienSeRetira == \E c \in Desconectables : hilo[c] \in Retirandose

(* What the scheduler carries from one critical section to the next: the   *)
(* process is in no queue yet, the interface was added, and the name was   *)
(* there unless an interface is leaving.                                   *)
PeticionPid ==
    kernel.paso \in {"busca", "empuja"} => kernel.pid \in Pids /\ estado[kernel.pid] = "pide"
PeticionCon ==
    kernel.paso \in {"empuja", "avisa"} =>
      kernel.con \in Conexiones /\ hilo[kernel.con] \notin Ausente
PeticionNombre == kernel.paso = "busca" => existe_interfaz(kernel.nombre) \/ AlguienSeRetira

KernelReposa == kernel.paso = "nada" => kernel = Reposo
Peticion == KernelReposa /\ PeticionPid /\ PeticionCon /\ PeticionNombre

(* A search runs with the scheduler stopped.                               *)
Busqueda ==
    mata # Quieta => mata.pid \in Pids /\ mata.i >= 1 /\ mata.j >= 1 /\ kernel = Reposo

(* The first request of the queue is the one the thread holds.             *)
Primera ==
    \A c \in Conexiones : hilo[c] \in {"recibe", "turno"} /\ solicitud[c] # Nadie =>
                            cola[c] # <<>> /\ Head(cola[c]) = solicitud[c]

(* No request is in two places, and its process is blocked.                *)
Distintos(q) ==
    \A c, d \in Conexiones : \A i \in DOMAIN q[c], j \in DOMAIN q[d] :
      q[c][i] = q[d][j] => c = d /\ i = j
Bloqueados == \A c \in Conexiones : \A i \in DOMAIN cola[c] : estado[cola[c][i]] = "cola"

AvisoPara(c) == IF kernel.paso = "avisa" /\ kernel.con = c THEN 1 ELSE 0
Tomada(c) == IF solicitud[c] # Nadie THEN 1 ELSE 0

(* hay_proceso_cola covers the queue, and is exact until a kill removes a  *)
(* request that waits.                                                     *)
Cubierta ==
    \A c \in Conexiones : hilo[c] \in Atiende => Len(cola[c]) <= sem[c] + Tomada(c) + AvisoPara(c)
Exacta ==
    \A c \in Conexiones \ quitada :
      /\ hilo[c] \in Atiende => Len(cola[c]) = sem[c] + Tomada(c) + AvisoPara(c)
      /\ hilo[c] \in {"recibe", "turno"} => solicitud[c] # Nadie

(* What waits to be taken out was answered, or its interface reset.        *)
Respondida(c) == mensaje[c] = "respondido" \/ par[c] = "reset"
Respuestas == \A c \in Conexiones : hilo[c] = "turno" /\ solicitud[c] # Nadie => Respondida(c)

(* Whoever is about to be added has a name of its own.                     *)
NombresLibres ==
    cruzados \/ \A c \in Conexiones : hilo[c] = "agrega" =>
      /\ ~existe_interfaz(Nombre[c])
      /\ \A d \in Conexiones : hilo[d] = "agrega" /\ Nombre[d] = Nombre[c] => d = c

IInv ==
    /\ TypeOK /\ Enlistadas /\ Vacias /\ Sueltas /\ Pares /\ Peticion /\ Busqueda
    /\ Primera /\ Distintos(cola) /\ Bloqueados /\ Cubierta /\ Exacta /\ Respuestas
    /\ NombresLibres /\ NombreUnico /\ CaidaConCausa

-----------------------------------------------------------------------------
(* The first interface of a name is one of the list.                       *)
LEMMA BuscarEncuentra ==
    ASSUME NEW n, lista \in Seq(Conexiones), existe_interfaz(n)
    PROVE  \E i \in DOMAIN lista : buscar_interfaz(n) = lista[i] /\ Nombre[lista[i]] = n
<1> DEFINE S == {i \in DOMAIN lista : Nombre[lista[i]] = n}
<1>1. S \in SUBSET Nat /\ S # {} /\ DOMAIN lista = 1..Len(lista) /\ Len(lista) \in Nat
  BY DEF existe_interfaz
<1>2. PICK i \in S : \A k \in S : i <= k
  BY <1>1, MinimoExiste
<1>3. \A k \in 1..(i - 1) : Nombre[lista[k]] # n
  BY <1>1, <1>2
<1>4. \E m \in DOMAIN lista : /\ Nombre[lista[m]] = n
                              /\ \A k \in 1..(m - 1) : Nombre[lista[k]] # n
  BY <1>2, <1>3
<1>5. QED
  BY <1>4 DEF buscar_interfaz

(* Taking out one place of a sequence: what Tail and RemoveAt do.          *)
SinLugar(w, s, k) ==
    /\ Len(w) = Len(s) - 1
    /\ \A i \in 1..(Len(s) - 1) : w[i] = IF i < k THEN s[i] ELSE s[i + 1]

(* Tail takes out the first place.                                         *)
LEMMA TailSinLugar ==
    ASSUME NEW S, NEW s \in Seq(S), s # <<>>
    PROVE  Tail(s) \in Seq(S) /\ SinLugar(Tail(s), s, 1) /\ Head(s) = s[1] /\ 1 \in 1..Len(s)
BY DEF SinLugar

(* RemoveAt takes out the place it is given.                               *)
LEMMA RemoveAtSinLugar ==
    ASSUME NEW S, NEW s \in Seq(S), NEW k \in 1..Len(s)
    PROVE  RemoveAt(s, k) \in Seq(S) /\ SinLugar(RemoveAt(s, k), s, k)
BY RemoveAtPropiedades DEF SinLugar

(* Every place of what is left is a place of the whole, other than k, and  *)
(* different places are different.                                         *)
LEMMA SinLugarPropiedades ==
    ASSUME NEW S, NEW s \in Seq(S), NEW w \in Seq(S), NEW k \in 1..Len(s), SinLugar(w, s, k)
    PROVE  \E f \in [DOMAIN w -> DOMAIN s] :
             /\ \A i \in DOMAIN w : w[i] = s[f[i]] /\ f[i] # k
             /\ \A i, j \in DOMAIN w : f[i] = f[j] => i = j
<1> DEFINE f == [i \in DOMAIN w |-> IF i < k THEN i ELSE i + 1]
<1>1. DOMAIN w = 1..(Len(s) - 1) /\ DOMAIN s = 1..Len(s) /\ Len(s) \in Nat
  BY DEF SinLugar
<1>2. f \in [DOMAIN w -> DOMAIN s]
  BY <1>1
<1>3. ASSUME NEW i \in DOMAIN w
      PROVE  f[i] = (IF i < k THEN i ELSE i + 1) /\ i \in Int /\ k \in Int /\ f[i] \in Int
  BY <1>1
<1> HIDE DEF f
<1>4. ASSUME NEW i \in DOMAIN w PROVE w[i] = s[f[i]] /\ f[i] # k
  BY <1>1, <1>3 DEF SinLugar
<1>5. ASSUME NEW i \in DOMAIN w, NEW j \in DOMAIN w, f[i] = f[j] PROVE i = j
  BY <1>3, <1>5
<1>6. QED
  BY <1>2, <1>4, <1>5

-----------------------------------------------------------------------------
(* The parts of TypeOK.                                                    *)
TipoObjetos ==
    /\ lista \in Seq(Conexiones)
    /\ cola \in [Conexiones -> Seq(Pids)] /\ sem \in [Conexiones -> Nat]
TipoHilos ==
    /\ hilo \in [Conexiones -> {"fuera", "agrega", "espera", "recibe", "turno", "rechazada"}
                               \cup Retirandose]
    /\ solicitud \in [Conexiones -> Pids \cup {Nadie}]
    /\ par \in [Conexiones -> {"nadie", "viva", "muerta", "reset"}]
    /\ mensaje \in [Conexiones -> {"nada", "enviado", "leido", "respondido"}]
TipoProcesos ==
    /\ estado \in [Pids -> {"libre", "pide", "cola", "fin"}]
    /\ destino \in [Pids -> {"READY", "COLA_EXIT_USUARIO"}]
TipoKernel ==
    /\ kernel \in [paso : {"nada", "busca", "empuja", "avisa"}, pid : Pids \cup {Nadie},
                   nombre : Nombres \cup {""}, con : Conexiones \cup {Nadie}]
    /\ mata \in [pid : Pids \cup {Nadie}, i : Nat, j : Nat]
TipoHistoria ==
    /\ caido \in {"no", "nulo", "interfaz_liberada", "solicitud_liberada", "iterador"}
    /\ ordenadas \subseteq Matables /\ tarde \subseteq Pids
    /\ quitada \subseteq Conexiones /\ cruzados \in BOOLEAN

(* Together they are TypeOK.                                               *)
LEMMA TipoPartes ==
    TypeOK <=> TipoObjetos /\ TipoHilos /\ TipoProcesos /\ TipoKernel /\ TipoHistoria
BY DEF TypeOK, TipoObjetos, TipoHilos, TipoProcesos, TipoKernel, TipoHistoria

-----------------------------------------------------------------------------
(* What a step does to the queues: a place of one is taken out, or a       *)
(* process is appended to one.                                             *)
SacaDe(c, k) ==
    /\ cola' \in [Conexiones -> Seq(Pids)] /\ k \in 1..Len(cola[c])
    /\ SinLugar(cola'[c], cola[c], k)
    /\ \A d \in Conexiones : d # c => cola'[d] = cola[d]

MeteEn(c, p) ==
    /\ cola' \in [Conexiones -> Seq(Pids)] /\ Len(cola'[c]) = Len(cola[c]) + 1
    /\ \A i \in DOMAIN cola'[c] : cola'[c][i] = IF i = Len(cola[c]) + 1 THEN p ELSE cola[c][i]
    /\ \A d \in Conexiones : d # c => cola'[d] = cola[d]

(* Popping a queue takes out its first place.                              *)
LEMMA SacaPrimera ==
    ASSUME TipoObjetos, NEW c \in Conexiones, cola[c] # <<>>, cola' = [cola EXCEPT ![c] = Tail(@)]
    PROVE  SacaDe(c, 1) /\ Head(cola[c]) = cola[c][1] /\ Head(cola[c]) \in Pids
<1>1. cola[c] \in Seq(Pids) /\ cola \in [Conexiones -> Seq(Pids)]
  BY DEF TipoObjetos
<1>2. /\ Tail(cola[c]) \in Seq(Pids) /\ SinLugar(Tail(cola[c]), cola[c], 1)
      /\ Head(cola[c]) = cola[c][1] /\ 1 \in 1..Len(cola[c])
  BY <1>1, TailSinLugar
<1>3. QED
  BY <1>1, <1>2 DEF SacaDe

(* The queue after the thread sends a process back.                        *)
LEMMA DevuelveCola ==
    ASSUME TipoObjetos, NEW c \in Conexiones, Devuelve(c)
    PROVE  \/ UNCHANGED cola
           \/ /\ SacaDe(c, 1) /\ cola[c] # <<>>
              /\ Head(cola[c]) = cola[c][1] /\ Head(cola[c]) \in Pids
BY SacaPrimera DEF Devuelve, Cae, objetos

(* The queue after the thread of a lost interface ends a process.          *)
LEMMA DrenaCola ==
    ASSUME TipoObjetos, NEW c \in Conexiones, Drena(c)
    PROVE  \/ UNCHANGED cola
           \/ /\ SacaDe(c, 1) /\ cola[c] # <<>>
              /\ Head(cola[c]) = cola[c][1] /\ Head(cola[c]) \in Pids
BY SacaPrimera DEF Drena, Cae, objetos

(* The queue after the scheduler pushes a request.                         *)
LEMMA EmpujaCola ==
    ASSUME TipoObjetos, PeticionPid, PeticionCon, Empuja
    PROVE  UNCHANGED cola \/ MeteEn(kernel.con, kernel.pid)
<1> DEFINE c == kernel.con  p == kernel.pid
<1>1. c \in Conexiones /\ p \in Pids
  BY DEF Empuja, PeticionPid, PeticionCon
<1>2. cola[c] \in Seq(Pids) /\ cola \in [Conexiones -> Seq(Pids)]
  BY <1>1 DEF TipoObjetos
<1>3. UNCHANGED cola \/ cola' = [cola EXCEPT ![c] = Append(@, p)]
  BY DEF Empuja, Cae, objetos
<1> HIDE DEF c, p
<1>4. /\ Append(cola[c], p) \in Seq(Pids) /\ Len(Append(cola[c], p)) = Len(cola[c]) + 1
      /\ \A i \in DOMAIN Append(cola[c], p) :
           Append(cola[c], p)[i] = IF i = Len(cola[c]) + 1 THEN p ELSE cola[c][i]
  BY <1>1, <1>2, AppendProperties
<1>5. UNCHANGED cola \/ MeteEn(c, p)
  BY <1>1, <1>2, <1>3, <1>4 DEF MeteEn
<1>6. QED
  BY <1>5 DEF c, p

(* The search only takes out requests that are not the first.              *)
LEMMA RecorreCola ==
    ASSUME TipoObjetos, TipoKernel, Busqueda, Recorre
    PROVE  \/ UNCHANGED <<cola, estado, quitada>>
           \/ \E c \in Conexiones, k \in Nat :
                /\ k > 1 /\ SacaDe(c, k) /\ cola[c][k] = mata.pid
                /\ estado' = [estado EXCEPT ![mata.pid] = "fin"]
                /\ quitada' = quitada \cup {c}
<1> DEFINE c == lista[mata.i]  k == mata.j
<1>1. mata.i \in Nat /\ k \in Nat /\ mata.i >= 1 /\ k >= 1
  BY DEF TipoKernel, Busqueda, Recorre
<1>2. CASE mata.i > Len(lista) \/ k > Len(cola[c])
  BY <1>2 DEF Recorre, procesos
<1>3. CASE ~(mata.i > Len(lista)) /\ ~(k > Len(cola[c]))
  <2>1. c \in Conexiones
    BY <1>1, <1>3 DEF TipoObjetos
  <2>2. Verifica(c, k)
    BY <1>3 DEF Recorre
  <2> HIDE DEF c, k
  <2>3. cola[c] \in Seq(Pids) /\ k \in 1..Len(cola[c]) /\ cola \in [Conexiones -> Seq(Pids)]
    BY <1>1, <1>3, <2>1 DEF TipoObjetos
  <2>4. RemoveAt(cola[c], k) \in Seq(Pids) /\ SinLugar(RemoveAt(cola[c], k), cola[c], k)
    BY <2>3, RemoveAtSinLugar
  <2>5. CASE cola[c][k] # mata.pid \/ k = 1
    BY <2>2, <2>5 DEF Verifica, procesos
  <2>6. CASE cola[c][k] = mata.pid /\ k # 1
    <3>1. /\ cola' = [cola EXCEPT ![c] = RemoveAt(@, k)] /\ quitada' = quitada \cup {c}
          /\ estado' = [estado EXCEPT ![mata.pid] = "fin"]
      BY <2>2, <2>6 DEF Verifica
    <3>2. SacaDe(c, k)
      BY <2>1, <2>3, <2>4, <3>1 DEF SacaDe
    <3>3. QED
      BY <1>1, <2>1, <2>6, <3>1, <3>2
  <2>7. QED
    BY <2>5, <2>6
<1>4. QED
  BY <1>2, <1>3

(* The queues keep their type.                                             *)
LEMMA PasoTipoCola ==
    ASSUME TipoObjetos, TipoKernel, PeticionPid, PeticionCon, Busqueda, Next
    PROVE  cola' \in [Conexiones -> Seq(Pids)]
<1>1. ASSUME NEW c \in Conexiones, Devuelve(c) PROVE cola' \in [Conexiones -> Seq(Pids)]
  BY <1>1, DevuelveCola, DrenaCola, EmpujaCola, RecorreCola DEF Devuelve, Devuelto,
         objetos, procesos, otros, historia, Mueve, Cae, TipoObjetos, SacaDe, MeteEn
<1>2. ASSUME NEW c \in Conexiones, Drena(c) PROVE cola' \in [Conexiones -> Seq(Pids)]
  BY <1>2, DevuelveCola, DrenaCola, EmpujaCola, RecorreCola DEF Drena, objetos,
         procesos, otros, historia, Mueve, Cae, TipoObjetos, SacaDe, MeteEn
<1>3. ASSUME Empuja PROVE cola' \in [Conexiones -> Seq(Pids)]
  BY <1>3, DevuelveCola, DrenaCola, EmpujaCola, RecorreCola DEF Empuja, objetos,
         procesos, otros, historia, Mueve, Cae, TipoObjetos, SacaDe, MeteEn
<1>4. ASSUME Recorre PROVE cola' \in [Conexiones -> Seq(Pids)]
  BY <1>4, DevuelveCola, DrenaCola, EmpujaCola, RecorreCola DEF Recorre, Verifica,
         objetos, procesos, otros, historia, Mueve, Cae, TipoObjetos, SacaDe, MeteEn
<1>5. ASSUME UNCHANGED cola PROVE cola' \in [Conexiones -> Seq(Pids)]
  BY <1>5 DEF TipoObjetos, SacaDe, MeteEn
<1>6. QED
  BY <1>1, <1>2, <1>3, <1>4, <1>5 DEF Next, Paso, Hilo, Sirve, Scheduler, Pregunta,
         agregar_interfaz_lista, Toma, RecibeRespuesta, quitar_interfaz_lista,
         liberar_recursos_interfaz, Lee, Responde, Muere, Busca, Avisa, Mata,
         Comprueba, Rechaza, objetos, procesos, otros, historia, Mueve, Cae

(* The list and the semaphores keep their type.                            *)
LEMMA PasoTipoLista ==
    ASSUME TipoObjetos, PeticionCon, Next
    PROVE  lista' \in Seq(Conexiones) /\ sem' \in [Conexiones -> Nat]
<1>1. ASSUME NEW c \in Conexiones, agregar_interfaz_lista(c)
      PROVE  lista' \in Seq(Conexiones) /\ sem' \in [Conexiones -> Nat]
  BY <1>1, RemoveAtSinLugar DEF agregar_interfaz_lista, objetos, procesos, otros,
         historia, Mueve, Cae, TipoObjetos, PeticionCon
<1>2. ASSUME NEW c \in Conexiones, Toma(c)
      PROVE  lista' \in Seq(Conexiones) /\ sem' \in [Conexiones -> Nat]
  BY <1>2, RemoveAtSinLugar DEF Toma, objetos, procesos, otros, historia, Mueve,
         Cae, TipoObjetos, PeticionCon
<1>3. ASSUME NEW c \in Conexiones, quitar_interfaz_lista(c)
      PROVE  lista' \in Seq(Conexiones) /\ sem' \in [Conexiones -> Nat]
  BY <1>3, RemoveAtSinLugar DEF quitar_interfaz_lista, objetos, procesos, otros,
         historia, Mueve, Cae, TipoObjetos, PeticionCon
<1>4. ASSUME Avisa
      PROVE  lista' \in Seq(Conexiones) /\ sem' \in [Conexiones -> Nat]
  BY <1>4, RemoveAtSinLugar DEF Avisa, objetos, procesos, otros, historia, Mueve,
         Cae, TipoObjetos, PeticionCon
<1>5. ASSUME UNCHANGED <<lista, sem>>
      PROVE  lista' \in Seq(Conexiones) /\ sem' \in [Conexiones -> Nat]
  BY <1>5 DEF TipoObjetos, PeticionCon
<1>6. QED
  BY <1>1, <1>2, <1>3, <1>4, <1>5 DEF Next, Paso, Hilo, Sirve, Scheduler, Pregunta,
         RecibeRespuesta, Devuelve, Drena, liberar_recursos_interfaz, Lee, Responde,
         Muere, Busca, Empuja, Recorre, Mata, Comprueba, Rechaza, Verifica, objetos,
         procesos, otros, historia, Mueve, Cae

(* The threads and the processes at the other end keep their states.       *)
LEMMA PasoTipoHilos ==
    ASSUME TipoObjetos, TipoHilos, Next
    PROVE  TipoHilos'
<1>1. ASSUME NEW c \in Conexiones, Pregunta(c) PROVE TipoHilos'
  BY <1>1 DEF Pregunta, objetos, procesos, otros, historia, Mueve, Cae, TipoObjetos,
         TipoHilos, Retirandose
<1>2. ASSUME NEW c \in Conexiones, agregar_interfaz_lista(c) PROVE TipoHilos'
  BY <1>2 DEF agregar_interfaz_lista, objetos, procesos, otros, historia, Mueve,
         Cae, TipoObjetos, TipoHilos, Retirandose
<1>3. ASSUME NEW c \in Conexiones, Toma(c) PROVE TipoHilos'
  <2>1. cola[c] # <<>> => Head(cola[c]) \in Pids
    BY TailSinLugar DEF TipoObjetos
  <2>2. QED
    BY <1>3, <2>1 DEF Toma, Mueve, TipoHilos, Retirandose
<1>4. ASSUME NEW c \in Conexiones, RecibeRespuesta(c) PROVE TipoHilos'
  BY <1>4 DEF RecibeRespuesta, objetos, procesos, otros, historia, Mueve, Cae,
         TipoObjetos, TipoHilos, Retirandose
<1>5. ASSUME NEW c \in Conexiones, Devuelve(c) PROVE TipoHilos'
  BY <1>5 DEF Devuelve, Devuelto, objetos, procesos, otros, historia, Mueve, Cae,
         TipoObjetos, TipoHilos, Retirandose
<1>6. ASSUME NEW c \in Conexiones, Drena(c) PROVE TipoHilos'
  BY <1>6 DEF Drena, objetos, procesos, otros, historia, Mueve, Cae, TipoObjetos,
         TipoHilos, Retirandose
<1>7. ASSUME NEW c \in Conexiones, quitar_interfaz_lista(c) PROVE TipoHilos'
  BY <1>7 DEF quitar_interfaz_lista, objetos, procesos, otros, historia, Mueve, Cae,
         TipoObjetos, TipoHilos, Retirandose
<1>8. ASSUME NEW c \in Conexiones, liberar_recursos_interfaz(c) PROVE TipoHilos'
  BY <1>8 DEF liberar_recursos_interfaz, objetos, procesos, otros, historia, Mueve,
         Cae, TipoObjetos, TipoHilos, Retirandose
<1>9. ASSUME NEW c \in Conexiones, Lee(c) PROVE TipoHilos'
  BY <1>9 DEF Lee, objetos, procesos, otros, historia, Mueve, Cae, TipoObjetos,
         TipoHilos, Retirandose
<1>10. ASSUME NEW c \in Conexiones, Responde(c) PROVE TipoHilos'
  BY <1>10 DEF Responde, objetos, procesos, otros, historia, Mueve, Cae,
         TipoObjetos, TipoHilos, Retirandose
<1>11. ASSUME NEW c \in Conexiones, Muere(c) PROVE TipoHilos'
  BY <1>11 DEF Muere, objetos, procesos, otros, historia, Mueve, Cae, TipoObjetos,
         TipoHilos, Retirandose
<1>12. ASSUME UNCHANGED <<hilo, solicitud, par, mensaje>> PROVE TipoHilos'
  BY <1>12 DEF TipoObjetos, TipoHilos, Retirandose
<1>13. QED
  BY <1>1, <1>2, <1>3, <1>4, <1>5, <1>6, <1>7, <1>8, <1>9, <1>10, <1>11, <1>12 DEF
         Next, Paso, Hilo, Sirve, Scheduler, Busca, Empuja, Avisa, Recorre, Mata,
         Comprueba, Rechaza, Verifica, objetos, procesos, otros, historia, Mueve,
         Cae

(* Where processes are, and where they go, keep their type.                *)
LEMMA PasoTipoProcesos ==
    ASSUME TipoObjetos, TipoHilos, TipoProcesos, PeticionPid, Busqueda, Next
    PROVE  TipoProcesos'
<1>1. ASSUME NEW c \in Conexiones, Devuelve(c) PROVE TipoProcesos'
  BY <1>1 DEF Devuelve, Devuelto, objetos, procesos, otros, historia, Mueve, Cae,
         procesos, TipoObjetos, TipoHilos, TipoProcesos, PeticionPid, Busqueda
<1>2. ASSUME NEW c \in Conexiones, Drena(c) PROVE TipoProcesos'
  BY <1>2 DEF Drena, objetos, procesos, otros, historia, Mueve, Cae, procesos,
         TipoObjetos, TipoHilos, TipoProcesos, PeticionPid, Busqueda
<1>3. ASSUME Empuja PROVE TipoProcesos'
  BY <1>3 DEF Empuja, objetos, procesos, otros, historia, Mueve, Cae, procesos,
         TipoObjetos, TipoHilos, TipoProcesos, PeticionPid, Busqueda
<1>4. ASSUME Recorre PROVE TipoProcesos'
  BY <1>4 DEF Recorre, Verifica, objetos, procesos, otros, historia, Mueve, Cae,
         procesos, TipoObjetos, TipoHilos, TipoProcesos, PeticionPid, Busqueda
<1>5. ASSUME NEW p \in Pids, NEW n \in Nombres, Comprueba(p, n) PROVE TipoProcesos'
  BY <1>5 DEF Comprueba, Rechaza, Reposo, objetos, procesos, otros, historia, Mueve,
         Cae, procesos, TipoObjetos, TipoHilos, TipoProcesos, PeticionPid, Busqueda
<1>6. ASSUME UNCHANGED procesos PROVE TipoProcesos'
  BY <1>6 DEF procesos, TipoObjetos, TipoHilos, TipoProcesos, PeticionPid, Busqueda
<1>7. QED
  BY <1>1, <1>2, <1>3, <1>4, <1>5, <1>6 DEF Next, Paso, Hilo, Sirve, Scheduler,
         Pregunta, agregar_interfaz_lista, Toma, RecibeRespuesta,
         quitar_interfaz_lista, liberar_recursos_interfaz, Lee, Responde, Muere,
         Busca, Avisa, Mata, objetos, procesos, otros, historia, Mueve, Cae

(* The records of the scheduler and of the search keep their fields.       *)
LEMMA PasoTipoKernel ==
    ASSUME TipoObjetos, TipoKernel, Busqueda, Next
    PROVE  TipoKernel'
<1>1. /\ kernel.paso \in {"nada", "busca", "empuja", "avisa"}
      /\ kernel.pid \in Pids \cup {Nadie}
      /\ kernel.nombre \in Nombres \cup {""} /\ kernel.con \in Conexiones \cup {Nadie}
      /\ kernel = [paso |-> kernel.paso, pid |-> kernel.pid, nombre |-> kernel.nombre,
                   con |-> kernel.con]
  BY DEF TipoKernel
<1>2. /\ mata.pid \in Pids \cup {Nadie} /\ mata.i \in Nat /\ mata.j \in Nat
      /\ mata = [pid |-> mata.pid, i |-> mata.i, j |-> mata.j]
  BY DEF TipoKernel
<1>3. ASSUME Busca PROVE TipoKernel'
  <2>1. CASE existe_interfaz(kernel.nombre)
    <3>1. buscar_interfaz(kernel.nombre) \in Conexiones
      BY <2>1, BuscarEncuentra DEF TipoObjetos
    <3>2. /\ kernel' = [kernel EXCEPT !.paso = "empuja", !.con = buscar_interfaz(kernel.nombre)]
          /\ UNCHANGED mata
      BY <1>3, <2>1 DEF Busca
    <3> QED
      BY <1>1, <3>1, <3>2 DEF TipoKernel
  <2>2. CASE ~existe_interfaz(kernel.nombre)
    BY <1>3, <2>2 DEF Busca, TipoKernel
  <2>3. QED
    BY <2>1, <2>2
<1>4. ASSUME Empuja PROVE TipoKernel'
  BY <1>4 DEF Empuja, TipoKernel
<1>5. ASSUME Avisa PROVE TipoKernel'
  <2>1. CASE UNCHANGED <<kernel, mata>>
    BY <2>1 DEF TipoKernel
  <2>2. CASE kernel' = Reposo /\ UNCHANGED mata
    BY <2>2 DEF Reposo, TipoKernel
  <2>3. QED
    BY <1>5, <2>1, <2>2 DEF Avisa
<1>6. ASSUME NEW p \in Pids, NEW n \in Nombres, Comprueba(p, n) PROVE TipoKernel'
  BY <1>6 DEF Comprueba, Rechaza, Reposo, TipoKernel
<1>7. ASSUME NEW p \in Pids, Mata(p) PROVE TipoKernel'
  BY <1>7 DEF Mata, Quieta, TipoKernel
<1>8. ASSUME Recorre PROVE TipoKernel'
  <2>1. CASE UNCHANGED kernel /\ mata' = Quieta
    BY <2>1 DEF Quieta, TipoKernel
  <2>2. CASE UNCHANGED kernel /\ mata' = [mata EXCEPT !.i = @ + 1, !.j = 1]
    <3>1. mata.i + 1 \in Nat /\ 1 \in Nat
      BY <1>2
    <3>2. QED
      BY <2>2, <3>1 DEF TipoKernel
  <2>3. CASE UNCHANGED kernel /\ mata' = [mata EXCEPT !.j = @ + 1]
    <3>1. mata.j + 1 \in Nat
      BY <1>2
    <3>2. QED
      BY <2>3, <3>1 DEF TipoKernel
  <2>4. CASE UNCHANGED <<kernel, mata>>
    BY <2>4 DEF TipoKernel
  <2>5. mata' = [mata EXCEPT !.j = @] => UNCHANGED mata
    BY <1>2
  <2>6. QED
    BY <1>8, <2>1, <2>2, <2>3, <2>4, <2>5 DEF Recorre, Verifica
<1>9. ASSUME UNCHANGED <<kernel, mata>> PROVE TipoKernel'
  BY <1>9 DEF TipoKernel
<1>10. QED
  BY <1>3, <1>4, <1>5, <1>6, <1>7, <1>8, <1>9 DEF Next, Paso, Hilo, Sirve,
         Scheduler, Pregunta, agregar_interfaz_lista, Toma, RecibeRespuesta,
         Devuelve, Drena, quitar_interfaz_lista, liberar_recursos_interfaz, Lee,
         Responde, Muere, objetos, procesos, otros, historia, Mueve, Cae

(* What is remembered keeps its type.                                      *)
LEMMA PasoTipoHistoria ==
    ASSUME TipoObjetos, TipoKernel, TipoHistoria, PeticionPid, Busqueda, Next
    PROVE  TipoHistoria'
<1>1. ASSUME NEW c \in Conexiones, Pregunta(c) PROVE TipoHistoria'
  BY <1>1, RecorreCola DEF Pregunta, objetos, procesos, otros, historia, Mueve, Cae,
         TipoHistoria, PeticionPid
<1>2. ASSUME NEW c \in Conexiones, Devuelve(c) PROVE TipoHistoria'
  BY <1>2, RecorreCola DEF Devuelve, Devuelto, objetos, procesos, otros, historia,
         Mueve, Cae, TipoHistoria, PeticionPid
<1>3. ASSUME NEW c \in Conexiones, Drena(c) PROVE TipoHistoria'
  BY <1>3, RecorreCola DEF Drena, objetos, procesos, otros, historia, Mueve, Cae,
         TipoHistoria, PeticionPid
<1>4. ASSUME NEW c \in Conexiones, quitar_interfaz_lista(c) PROVE TipoHistoria'
  BY <1>4, RecorreCola DEF quitar_interfaz_lista, objetos, procesos, otros,
         historia, Mueve, Cae, TipoHistoria, PeticionPid
<1>5. ASSUME Busca PROVE TipoHistoria'
  BY <1>5, RecorreCola DEF Busca, objetos, procesos, otros, historia, Mueve, Cae,
         TipoHistoria, PeticionPid
<1>6. ASSUME Empuja PROVE TipoHistoria'
  BY <1>6, RecorreCola DEF Empuja, objetos, procesos, otros, historia, Mueve, Cae,
         TipoHistoria, PeticionPid
<1>7. ASSUME Avisa PROVE TipoHistoria'
  BY <1>7, RecorreCola DEF Avisa, objetos, procesos, otros, historia, Mueve, Cae,
         TipoHistoria, PeticionPid
<1>8. ASSUME Recorre PROVE TipoHistoria'
  BY <1>8, RecorreCola DEF Recorre, Verifica, objetos, procesos, otros, historia,
         Mueve, Cae, TipoHistoria, PeticionPid
<1>9. ASSUME NEW p \in Pids, Mata(p) PROVE TipoHistoria'
  BY <1>9, RecorreCola DEF Mata, objetos, procesos, otros, historia, Mueve, Cae,
         TipoHistoria, PeticionPid
<1>10. ASSUME UNCHANGED <<caido, ordenadas, tarde, quitada, cruzados>> PROVE TipoHistoria'
  BY <1>10 DEF TipoHistoria, PeticionPid
<1>11. QED
  BY <1>1, <1>2, <1>3, <1>4, <1>5, <1>6, <1>7, <1>8, <1>9, <1>10 DEF Next, Paso,
         Hilo, Sirve, Scheduler, agregar_interfaz_lista, Toma, RecibeRespuesta,
         liberar_recursos_interfaz, Lee, Responde, Muere, Comprueba, Rechaza,
         objetos, procesos, otros, historia, Mueve, Cae

(* Every step keeps TypeOK.                                                *)
LEMMA PasoTipo ==
    ASSUME TypeOK, Peticion, Busqueda, Next
    PROVE  TypeOK'
<1>1. TipoObjetos'
  BY TipoPartes, PasoTipoCola, PasoTipoLista DEF TipoObjetos, Peticion
<1>2. TipoHilos' /\ TipoProcesos' /\ TipoKernel' /\ TipoHistoria'
  BY TipoPartes, PasoTipoHilos, PasoTipoProcesos, PasoTipoKernel, PasoTipoHistoria
     DEF Peticion
<1>3. QED
  BY <1>1, <1>2 DEF TypeOK, TipoObjetos, TipoHilos, TipoProcesos, TipoKernel, TipoHistoria

-----------------------------------------------------------------------------
(* What a step does to the list.                                           *)
LEMMA QuitarLista ==
    ASSUME lista \in Seq(Conexiones), NEW c \in Conexiones, quitar_interfaz_lista(c)
    PROVE  \/ UNCHANGED <<lista, hilo>>
           \/ /\ hilo' = [hilo EXCEPT ![c] = "libera"]
              /\ \E k \in 1..Len(lista) :
                   lista[k] = c /\ lista' \in Seq(Conexiones) /\ SinLugar(lista', lista, k)
BY RemoveAtSinLugar DEF quitar_interfaz_lista, Cae, objetos, Mueve

(* agregar_interfaz_lista appends.                                         *)
LEMMA AgregarLista ==
    ASSUME lista \in Seq(Conexiones), NEW c \in Conexiones, agregar_interfaz_lista(c)
    PROVE  /\ lista' \in Seq(Conexiones) /\ Len(lista') = Len(lista) + 1
           /\ \A i \in DOMAIN lista' : lista'[i] = IF i = Len(lista) + 1 THEN c ELSE lista[i]
           /\ \A i \in DOMAIN lista : i \in DOMAIN lista' /\ lista'[i] = lista[i]
BY AppendProperties DEF agregar_interfaz_lista

(* A thread that serves stays in the list, and the others do not move.     *)
Sirviendo(c) == Toma(c) \/ RecibeRespuesta(c) \/ Devuelve(c) \/ Drena(c)

(* What a thread that serves may change.                                   *)
LEMMA SirvePropiedades ==
    ASSUME TipoHilos, NEW c \in Conexiones, Sirviendo(c)
    PROVE  /\ UNCHANGED lista /\ hilo[c] \in Atiende \cup {"drena"}
           /\ hilo'[c] \in Atiende \cup {"drena", "quita"}
           /\ \A d \in Conexiones : d # c => hilo'[d] = hilo[d]
<1>1. ASSUME Toma(c)
      PROVE  /\ UNCHANGED lista /\ hilo[c] = "espera"
             /\ \E h \in {"turno", "recibe", "drena"} : hilo' = [hilo EXCEPT ![c] = h]
  BY <1>1 DEF Toma, Mueve
<1>2. ASSUME RecibeRespuesta(c)
      PROVE  /\ UNCHANGED lista /\ hilo[c] = "recibe"
             /\ \E h \in {"turno", "drena"} : hilo' = [hilo EXCEPT ![c] = h]
  BY <1>2 DEF RecibeRespuesta, Mueve, objetos
<1>3. ASSUME Devuelve(c)
      PROVE  /\ UNCHANGED lista /\ hilo[c] = "turno"
             /\ UNCHANGED hilo \/ hilo' = [hilo EXCEPT ![c] = "espera"]
  BY <1>3 DEF Devuelve, Mueve, Cae, objetos
<1>4. ASSUME Drena(c)
      PROVE  /\ UNCHANGED lista /\ hilo[c] = "drena"
             /\ UNCHANGED hilo \/ hilo' = [hilo EXCEPT ![c] = "quita"]
  BY <1>4 DEF Drena, Mueve, Cae, objetos
<1>5. QED
  BY <1>1, <1>2, <1>3, <1>4 DEF Sirviendo, TipoHilos, Atiende

(* A new connection only passes the check, or is refused.                  *)
LEMMA PreguntaPropiedades ==
    ASSUME TipoHilos, NEW c \in Conexiones, Pregunta(c)
    PROVE  /\ UNCHANGED <<objetos, kernel>> /\ hilo[c] = "fuera"
           /\ hilo'[c] \in {"rechazada", "agrega"}
           /\ hilo'[c] = "agrega" => ~existe_interfaz(Nombre[c])
           /\ \A d \in Conexiones : d # c => hilo'[d] = hilo[d]
<1>1. /\ UNCHANGED <<objetos, kernel>> /\ hilo[c] = "fuera"
      /\ \/ hilo' = [hilo EXCEPT ![c] = "rechazada"]
         \/ hilo' = [hilo EXCEPT ![c] = "agrega"] /\ ~existe_interfaz(Nombre[c])
  BY DEF Pregunta, Mueve
<1>2. QED
  BY <1>1 DEF TipoHilos

(* No thread goes back before the list, and whoever leaves does not return. *)
LEMMA HiloAvanza ==
    ASSUME TipoObjetos, TipoHilos, Next, NEW d \in Conexiones
    PROVE  /\ hilo[d] \notin Ausente => hilo'[d] \notin Ausente
           /\ hilo[d] \in Retirandose => hilo'[d] \in Retirandose
<1> DEFINE Avanza == /\ hilo[d] \notin Ausente => hilo'[d] \notin Ausente
                     /\ hilo[d] \in Retirandose => hilo'[d] \in Retirandose
<1>1. ASSUME NEW c \in Conexiones, Pregunta(c) PROVE Avanza
  BY <1>1, PreguntaPropiedades DEF Ausente, Retirandose
<1>2. ASSUME NEW c \in Conexiones, agregar_interfaz_lista(c) PROVE Avanza
  BY <1>2 DEF agregar_interfaz_lista, Mueve, TipoHilos, Ausente, Retirandose
<1>3. ASSUME NEW c \in Conexiones, Toma(c) PROVE Avanza
  BY <1>3, SirvePropiedades DEF Sirviendo, Toma, Ausente, Atiende, Retirandose
<1>4. ASSUME NEW c \in Conexiones, RecibeRespuesta(c) PROVE Avanza
  BY <1>4, SirvePropiedades DEF Sirviendo, RecibeRespuesta, Ausente, Atiende, Retirandose
<1>5. ASSUME NEW c \in Conexiones, Devuelve(c) PROVE Avanza
  BY <1>5, SirvePropiedades DEF Sirviendo, Devuelve, Ausente, Atiende, Retirandose
<1>6. ASSUME NEW c \in Conexiones, Drena(c) PROVE Avanza
  BY <1>6 DEF Drena, Mueve, Cae, TipoHilos, Ausente, Retirandose
<1>7. ASSUME NEW c \in Conexiones, quitar_interfaz_lista(c) PROVE Avanza
  BY <1>7, QuitarLista DEF TipoObjetos, TipoHilos, Ausente, Retirandose
<1>8. ASSUME NEW c \in Conexiones, liberar_recursos_interfaz(c) PROVE Avanza
  BY <1>8 DEF liberar_recursos_interfaz, Mueve, TipoHilos, Ausente, Retirandose
<1>9. ASSUME UNCHANGED hilo PROVE Avanza
  BY <1>9
<1> HIDE DEF Avanza
<1>10. Avanza
  BY <1>1, <1>2, <1>3, <1>4, <1>5, <1>6, <1>7, <1>8, <1>9
     DEF Next, Paso, Hilo, Sirve, Scheduler, Lee, Responde, Muere, Busca, Empuja, Avisa, Cae,
         Recorre, Mata, Comprueba
<1>11. QED
  BY <1>10 DEF Avanza

(* A connection enters the list when it is added and leaves it when it is  *)
(* taken out.                                                              *)
LEMMA PasoEnlistadas ==
    ASSUME TipoObjetos, TipoHilos, Enlistadas, Next
    PROVE  Enlistadas'
<1>1. ASSUME NEW c \in Conexiones, Pregunta(c) PROVE Enlistadas'
  <2>1. /\ UNCHANGED lista /\ hilo[c] = "fuera"
        /\ \A d \in Conexiones : d # c => hilo'[d] = hilo[d]
    BY <1>1, PreguntaPropiedades DEF objetos
  <2>2. \A i \in DOMAIN lista : lista[i] \in Conexiones
    BY DEF TipoObjetos
  <2>3. QED
    BY <2>1, <2>2 DEF Enlistadas, Atiende
<1>2. ASSUME NEW c \in Conexiones, agregar_interfaz_lista(c) PROVE Enlistadas'
  <2>1. lista \in Seq(Conexiones) /\ hilo[c] = "agrega" /\ hilo' = [hilo EXCEPT ![c] = "espera"]
    BY <1>2 DEF agregar_interfaz_lista, Mueve, TipoObjetos
  <2>2. /\ \A i \in DOMAIN lista' : lista'[i] = IF i = Len(lista) + 1 THEN c ELSE lista[i]
        /\ lista' \in Seq(Conexiones) /\ Len(lista') = Len(lista) + 1
    BY <1>2, <2>1, AgregarLista
  <2>3. \A i \in DOMAIN lista' : i \in DOMAIN lista \/ i = Len(lista) + 1
    BY <2>1, <2>2
  <2>4. \A i \in DOMAIN lista : lista[i] # c /\ i # Len(lista) + 1
    BY <2>1 DEF Enlistadas, Atiende
  <2>5. QED
    BY <2>1, <2>2, <2>3, <2>4 DEF Enlistadas, Atiende, TipoHilos
<1>3. ASSUME NEW c \in Conexiones, Sirviendo(c) PROVE Enlistadas'
  <2>1. /\ UNCHANGED lista /\ hilo'[c] \in Atiende \cup {"drena", "quita"}
        /\ \A d \in Conexiones : d # c => hilo'[d] = hilo[d]
    BY <1>3, SirvePropiedades
  <2>2. \A i \in DOMAIN lista : lista[i] \in Conexiones
    BY DEF TipoObjetos
  <2>3. QED
    BY <2>1, <2>2 DEF Enlistadas
<1>4. ASSUME NEW c \in Conexiones, quitar_interfaz_lista(c) PROVE Enlistadas'
  <2>1. CASE UNCHANGED <<lista, hilo>>
    BY <2>1 DEF Enlistadas
  <2>2. ASSUME hilo' = [hilo EXCEPT ![c] = "libera"], NEW k \in 1..Len(lista), lista[k] = c,
               lista' \in Seq(Conexiones), SinLugar(lista', lista, k)
        PROVE  Enlistadas'
    <3>1. lista \in Seq(Conexiones)
      BY DEF TipoObjetos
    <3>2. \E f \in [DOMAIN lista' -> DOMAIN lista] :
            /\ \A i \in DOMAIN lista' : lista'[i] = lista[f[i]] /\ f[i] # k
            /\ \A i, j \in DOMAIN lista' : f[i] = f[j] => i = j
      BY <2>2, <3>1, SinLugarPropiedades
    <3>3. PICK f \in [DOMAIN lista' -> DOMAIN lista] :
            /\ \A i \in DOMAIN lista' : lista'[i] = lista[f[i]] /\ f[i] # k
            /\ \A i, j \in DOMAIN lista' : f[i] = f[j] => i = j
      BY <3>2
    <3>4. \A i \in DOMAIN lista' : lista[f[i]] # c
      BY <2>2, <3>1, <3>3 DEF Enlistadas
    <3>5. QED
      BY <2>2, <3>1, <3>3, <3>4 DEF Enlistadas, TipoHilos
  <2>3. QED
    BY <1>4, <2>1, <2>2, QuitarLista DEF TipoObjetos
<1>5. ASSUME NEW c \in Conexiones, liberar_recursos_interfaz(c) PROVE Enlistadas'
  BY <1>5 DEF liberar_recursos_interfaz, objetos, procesos, otros, historia, Mueve,
         Cae, TipoObjetos, TipoHilos, Enlistadas, Atiende, Retirandose
<1>6. ASSUME UNCHANGED <<lista, hilo>> PROVE Enlistadas'
  BY <1>6 DEF TipoObjetos, TipoHilos, Enlistadas, Atiende, Retirandose
<1>7. QED
  BY <1>1, <1>2, <1>3, <1>4, <1>5, <1>6 DEF Next, Paso, Hilo, Sirve, Scheduler,
         Sirviendo, Lee, Responde, Muere, Busca, Empuja, Avisa, Recorre, Mata,
         Comprueba, Rechaza, Verifica, objetos, procesos, otros, historia, Mueve,
         Cae

-----------------------------------------------------------------------------
(* Nobody finds a connection before it is in the list.                     *)
LEMMA PasoVacias ==
    ASSUME TipoObjetos, TipoHilos, TipoKernel, Vacias, PeticionPid, PeticionCon, Busqueda, Next
    PROVE  Vacias'
<1>1. ASSUME NEW c \in Conexiones, Pregunta(c) PROVE Vacias'
  BY <1>1 DEF Pregunta, objetos, procesos, otros, historia, Mueve, Cae, TipoObjetos,
         TipoHilos, Vacias, Ausente, Retirandose, PeticionCon
<1>2. ASSUME NEW c \in Conexiones, agregar_interfaz_lista(c) PROVE Vacias'
  BY <1>2 DEF agregar_interfaz_lista, objetos, procesos, otros, historia, Mueve,
         Cae, TipoObjetos, TipoHilos, Vacias, Ausente, Retirandose, PeticionCon
<1>3. ASSUME NEW c \in Conexiones, Toma(c) PROVE Vacias'
  BY <1>3 DEF Toma, objetos, procesos, otros, historia, Mueve, Cae, TipoObjetos,
         TipoHilos, Vacias, Ausente, Retirandose, PeticionCon
<1>4. ASSUME NEW c \in Conexiones, RecibeRespuesta(c) PROVE Vacias'
  BY <1>4 DEF RecibeRespuesta, objetos, procesos, otros, historia, Mueve, Cae,
         TipoObjetos, TipoHilos, Vacias, Ausente, Retirandose, PeticionCon
<1>5. ASSUME NEW c \in Conexiones, Devuelve(c) PROVE Vacias'
  BY <1>5 DEF Devuelve, Devuelto, objetos, procesos, otros, historia, Mueve, Cae,
         TipoObjetos, TipoHilos, Vacias, Ausente, Retirandose, PeticionCon
<1>6. ASSUME NEW c \in Conexiones, Drena(c) PROVE Vacias'
  BY <1>6 DEF Drena, objetos, procesos, otros, historia, Mueve, Cae, TipoObjetos,
         TipoHilos, Vacias, Ausente, Retirandose, PeticionCon
<1>7. ASSUME NEW c \in Conexiones, quitar_interfaz_lista(c) PROVE Vacias'
  BY <1>7 DEF quitar_interfaz_lista, objetos, procesos, otros, historia, Mueve, Cae,
         TipoObjetos, TipoHilos, Vacias, Ausente, Retirandose, PeticionCon
<1>8. ASSUME NEW c \in Conexiones, liberar_recursos_interfaz(c) PROVE Vacias'
  BY <1>8 DEF liberar_recursos_interfaz, objetos, procesos, otros, historia, Mueve,
         Cae, TipoObjetos, TipoHilos, Vacias, Ausente, Retirandose, PeticionCon
<1>9. ASSUME Empuja PROVE Vacias'
  BY <1>9 DEF Empuja, objetos, procesos, otros, historia, Mueve, Cae, TipoObjetos,
         TipoHilos, Vacias, Ausente, Retirandose, PeticionCon
<1>10. ASSUME Avisa PROVE Vacias'
  BY <1>10 DEF Avisa, objetos, procesos, otros, historia, Mueve, Cae, TipoObjetos,
         TipoHilos, Vacias, Ausente, Retirandose, PeticionCon
<1>11. ASSUME Recorre PROVE Vacias'
  <2>1. UNCHANGED <<hilo, sem>>
    BY <1>11 DEF Recorre
  <2>2. CASE UNCHANGED cola
    BY <2>1, <2>2 DEF Vacias
  <2>3. ASSUME NEW c \in Conexiones, NEW k \in Nat, SacaDe(c, k) PROVE Vacias'
    <3>1. cola[c] # <<>>
      BY <2>3 DEF SacaDe
    <3>2. QED
      BY <2>1, <2>3, <3>1 DEF SacaDe, Vacias
  <2>4. QED
    BY <1>11, <2>2, <2>3, RecorreCola
<1>12. ASSUME UNCHANGED <<hilo, cola, sem>> PROVE Vacias'
  BY <1>12 DEF TipoObjetos, TipoHilos, Vacias, Ausente, Retirandose, PeticionCon
<1>13. QED
  BY <1>1, <1>2, <1>3, <1>4, <1>5, <1>6, <1>7, <1>8, <1>9, <1>10, <1>11, <1>12 DEF
         Next, Paso, Hilo, Sirve, Scheduler, Lee, Responde, Muere, Busca, Mata,
         Comprueba, Rechaza, objetos, procesos, otros, historia, Mueve, Cae

(* solicitud_io is freed before the thread waits again.                    *)
LEMMA PasoSueltas ==
    ASSUME TipoObjetos, TipoHilos, Primera, Sueltas, Next
    PROVE  Sueltas'
<1>1. ASSUME NEW c \in Conexiones, Pregunta(c) PROVE Sueltas'
  BY <1>1 DEF Pregunta, objetos, procesos, otros, historia, Mueve, Cae, TipoObjetos,
         TipoHilos, Sueltas, Ausente, Retirandose, Primera
<1>2. ASSUME NEW c \in Conexiones, agregar_interfaz_lista(c) PROVE Sueltas'
  BY <1>2 DEF agregar_interfaz_lista, objetos, procesos, otros, historia, Mueve,
         Cae, TipoObjetos, TipoHilos, Sueltas, Ausente, Retirandose, Primera
<1>3. ASSUME NEW c \in Conexiones, Toma(c) PROVE Sueltas'
  BY <1>3 DEF Toma, objetos, procesos, otros, historia, Mueve, Cae, TipoObjetos,
         TipoHilos, Sueltas, Ausente, Retirandose, Primera
<1>4. ASSUME NEW c \in Conexiones, RecibeRespuesta(c) PROVE Sueltas'
  BY <1>4 DEF RecibeRespuesta, objetos, procesos, otros, historia, Mueve, Cae,
         TipoObjetos, TipoHilos, Sueltas, Ausente, Retirandose, Primera
<1>5. ASSUME NEW c \in Conexiones, Devuelve(c) PROVE Sueltas'
  BY <1>5 DEF Devuelve, Devuelto, objetos, procesos, otros, historia, Mueve, Cae,
         TipoObjetos, TipoHilos, Sueltas, Ausente, Retirandose, Primera
<1>6. ASSUME NEW c \in Conexiones, Drena(c) PROVE Sueltas'
  BY <1>6 DEF Drena, objetos, procesos, otros, historia, Mueve, Cae, TipoObjetos,
         TipoHilos, Sueltas, Ausente, Retirandose, Primera
<1>7. ASSUME NEW c \in Conexiones, quitar_interfaz_lista(c) PROVE Sueltas'
  BY <1>7 DEF quitar_interfaz_lista, objetos, procesos, otros, historia, Mueve, Cae,
         TipoObjetos, TipoHilos, Sueltas, Ausente, Retirandose, Primera
<1>8. ASSUME NEW c \in Conexiones, liberar_recursos_interfaz(c) PROVE Sueltas'
  BY <1>8 DEF liberar_recursos_interfaz, objetos, procesos, otros, historia, Mueve,
         Cae, TipoObjetos, TipoHilos, Sueltas, Ausente, Retirandose, Primera
<1>9. ASSUME UNCHANGED <<hilo, solicitud>> PROVE Sueltas'
  BY <1>9 DEF TipoObjetos, TipoHilos, Sueltas, Ausente, Retirandose, Primera
<1>10. QED
  BY <1>1, <1>2, <1>3, <1>4, <1>5, <1>6, <1>7, <1>8, <1>9 DEF Next, Paso, Hilo,
         Sirve, Scheduler, Lee, Responde, Muere, Busca, Empuja, Avisa, Recorre,
         Mata, Comprueba, Rechaza, Verifica, objetos, procesos, otros, historia,
         Mueve, Cae

(* A thread leaves its loop only when the other end is lost.               *)
LEMMA PasoPares ==
    ASSUME TipoHilos, TipoObjetos, Pares, Next
    PROVE  Pares'
<1>1. ASSUME NEW c \in Conexiones, Pregunta(c) PROVE Pares'
  BY <1>1 DEF Pregunta, objetos, procesos, otros, historia, Mueve, Cae, TipoHilos,
         Pares, Retirandose
<1>2. ASSUME NEW c \in Conexiones, agregar_interfaz_lista(c) PROVE Pares'
  BY <1>2 DEF agregar_interfaz_lista, objetos, procesos, otros, historia, Mueve,
         Cae, TipoHilos, Pares, Retirandose
<1>3. ASSUME NEW c \in Conexiones, Toma(c) PROVE Pares'
  BY <1>3 DEF Toma, objetos, procesos, otros, historia, Mueve, Cae, TipoHilos,
         Pares, Retirandose
<1>4. ASSUME NEW c \in Conexiones, RecibeRespuesta(c) PROVE Pares'
  BY <1>4 DEF RecibeRespuesta, objetos, procesos, otros, historia, Mueve, Cae,
         TipoHilos, Pares, Retirandose
<1>5. ASSUME NEW c \in Conexiones, Devuelve(c) PROVE Pares'
  BY <1>5 DEF Devuelve, Devuelto, objetos, procesos, otros, historia, Mueve, Cae,
         TipoHilos, Pares, Retirandose
<1>6. ASSUME NEW c \in Conexiones, Drena(c) PROVE Pares'
  BY <1>6 DEF Drena, objetos, procesos, otros, historia, Mueve, Cae, TipoHilos,
         Pares, Retirandose
<1>7. ASSUME NEW c \in Conexiones, quitar_interfaz_lista(c) PROVE Pares'
  BY <1>7 DEF quitar_interfaz_lista, objetos, procesos, otros, historia, Mueve, Cae,
         TipoHilos, Pares, Retirandose
<1>8. ASSUME NEW c \in Conexiones, liberar_recursos_interfaz(c) PROVE Pares'
  BY <1>8 DEF liberar_recursos_interfaz, objetos, procesos, otros, historia, Mueve,
         Cae, TipoHilos, Pares, Retirandose
<1>9. ASSUME NEW c \in Conexiones, Muere(c) PROVE Pares'
  BY <1>9 DEF Muere, objetos, procesos, otros, historia, Mueve, Cae, TipoHilos,
         Pares, Retirandose
<1>10. ASSUME UNCHANGED <<hilo, par>> PROVE Pares'
  BY <1>10 DEF TipoHilos, Pares, Retirandose
<1>11. QED
  BY <1>1, <1>2, <1>3, <1>4, <1>5, <1>6, <1>7, <1>8, <1>9, <1>10 DEF Next, Paso,
         Hilo, Sirve, Scheduler, Lee, Responde, Busca, Empuja, Avisa, Recorre, Mata,
         Comprueba, Rechaza, Verifica, objetos, procesos, otros, historia, Mueve,
         Cae

(* The turn to take a request out comes after its answer.                  *)
LEMMA PasoRespuestas ==
    ASSUME TipoHilos, Sueltas, Respuestas, Next
    PROVE  Respuestas'
<1>1. ASSUME NEW c \in Conexiones, Pregunta(c) PROVE Respuestas'
  BY <1>1 DEF Pregunta, objetos, procesos, otros, historia, Mueve, Cae, TipoHilos,
         Respuestas, Respondida, Sueltas, Ausente, Retirandose
<1>2. ASSUME NEW c \in Conexiones, agregar_interfaz_lista(c) PROVE Respuestas'
  BY <1>2 DEF agregar_interfaz_lista, objetos, procesos, otros, historia, Mueve,
         Cae, TipoHilos, Respuestas, Respondida, Sueltas, Ausente, Retirandose
<1>3. ASSUME NEW c \in Conexiones, Toma(c) PROVE Respuestas'
  BY <1>3 DEF Toma, objetos, procesos, otros, historia, Mueve, Cae, TipoHilos,
         Respuestas, Respondida, Sueltas, Ausente, Retirandose
<1>4. ASSUME NEW c \in Conexiones, RecibeRespuesta(c) PROVE Respuestas'
  BY <1>4 DEF RecibeRespuesta, objetos, procesos, otros, historia, Mueve, Cae,
         TipoHilos, Respuestas, Respondida, Sueltas, Ausente, Retirandose
<1>5. ASSUME NEW c \in Conexiones, Devuelve(c) PROVE Respuestas'
  BY <1>5 DEF Devuelve, Devuelto, objetos, procesos, otros, historia, Mueve, Cae,
         TipoHilos, Respuestas, Respondida, Sueltas, Ausente, Retirandose
<1>6. ASSUME NEW c \in Conexiones, Drena(c) PROVE Respuestas'
  BY <1>6 DEF Drena, objetos, procesos, otros, historia, Mueve, Cae, TipoHilos,
         Respuestas, Respondida, Sueltas, Ausente, Retirandose
<1>7. ASSUME NEW c \in Conexiones, quitar_interfaz_lista(c) PROVE Respuestas'
  BY <1>7 DEF quitar_interfaz_lista, objetos, procesos, otros, historia, Mueve, Cae,
         TipoHilos, Respuestas, Respondida, Sueltas, Ausente, Retirandose
<1>8. ASSUME NEW c \in Conexiones, liberar_recursos_interfaz(c) PROVE Respuestas'
  BY <1>8 DEF liberar_recursos_interfaz, objetos, procesos, otros, historia, Mueve,
         Cae, TipoHilos, Respuestas, Respondida, Sueltas, Ausente, Retirandose
<1>9. ASSUME NEW c \in Conexiones, Lee(c) PROVE Respuestas'
  BY <1>9 DEF Lee, objetos, procesos, otros, historia, Mueve, Cae, TipoHilos,
         Respuestas, Respondida, Sueltas, Ausente, Retirandose
<1>10. ASSUME NEW c \in Conexiones, Responde(c) PROVE Respuestas'
  BY <1>10 DEF Responde, objetos, procesos, otros, historia, Mueve, Cae, TipoHilos,
         Respuestas, Respondida, Sueltas, Ausente, Retirandose
<1>11. ASSUME NEW c \in Conexiones, Muere(c) PROVE Respuestas'
  BY <1>11 DEF Muere, objetos, procesos, otros, historia, Mueve, Cae, TipoHilos,
         Respuestas, Respondida, Sueltas, Ausente, Retirandose
<1>12. ASSUME UNCHANGED <<hilo, solicitud, mensaje, par>> PROVE Respuestas'
  BY <1>12 DEF TipoHilos, Respuestas, Respondida, Sueltas, Ausente, Retirandose
<1>13. QED
  BY <1>1, <1>2, <1>3, <1>4, <1>5, <1>6, <1>7, <1>8, <1>9, <1>10, <1>11, <1>12 DEF
         Next, Paso, Hilo, Sirve, Scheduler, Busca, Empuja, Avisa, Recorre, Mata,
         Comprueba, Rechaza, Verifica, objetos, procesos, otros, historia, Mueve,
         Cae

(* What the scheduler does to its own record.                              *)
LEMMA BuscaKernel ==
    ASSUME TipoKernel, Busca
    PROVE  /\ kernel.paso = "busca"
           /\ UNCHANGED <<hilo, lista, cola, sem, solicitud, estado, quitada>>
           /\ \/ UNCHANGED kernel
              \/ /\ existe_interfaz(kernel.nombre)
                 /\ kernel'.paso = "empuja" /\ kernel'.pid = kernel.pid
                 /\ kernel'.con = buscar_interfaz(kernel.nombre)
BY DEF Busca, TipoKernel, objetos, procesos

(* push_elemento_cola_io: the record goes on to the post.                  *)
LEMMA EmpujaKernel ==
    ASSUME TipoKernel, Empuja
    PROVE  /\ kernel.paso = "empuja" /\ UNCHANGED <<hilo, lista, sem, solicitud, quitada>>
           /\ \/ UNCHANGED <<kernel, cola, estado>>
              \/ /\ kernel'.paso = "avisa" /\ kernel'.con = kernel.con
                 /\ cola' = [cola EXCEPT ![kernel.con] = Append(@, kernel.pid)]
                 /\ estado' = [estado EXCEPT ![kernel.pid] = "cola"]
BY DEF Empuja, Cae, TipoKernel, objetos, procesos

(* sem_post: the record is done with.                                      *)
LEMMA AvisaKernel ==
    ASSUME TipoKernel, Avisa
    PROVE  /\ kernel.paso = "avisa" /\ UNCHANGED <<hilo, lista, cola, solicitud, estado, quitada>>
           /\ \/ UNCHANGED <<kernel, sem>>
              \/ kernel' = Reposo /\ sem' = [sem EXCEPT ![kernel.con] = @ + 1]
BY DEF Avisa, Cae, TipoKernel, objetos, procesos

(* slist_comprobate_io: the record starts, or the request is refused.      *)
LEMMA CompruebaKernel ==
    ASSUME NEW p, NEW n, Comprueba(p, n)
    PROVE  /\ kernel = Reposo /\ estado[p] = "libre"
           /\ UNCHANGED <<hilo, lista, cola, sem, solicitud, quitada>>
           /\ \/ UNCHANGED kernel /\ estado' = [estado EXCEPT ![p] = "fin"]
              \/ /\ kernel'.paso = "busca" /\ kernel'.pid = p /\ kernel'.nombre = n
                 /\ existe_interfaz(n) /\ estado' = [estado EXCEPT ![p] = "pide"]
BY DEF Comprueba, Rechaza, Reposo, objetos

(* The process whose request is being made is in no queue.                 *)
LEMMA PasoPeticionPid ==
    ASSUME TipoObjetos, TipoHilos, TipoKernel, TipoProcesos, Bloqueados, Primera, Busqueda,
           PeticionPid, Next
    PROVE  PeticionPid'
<1>1. ASSUME NEW c \in Conexiones, Devuelve(c) PROVE PeticionPid'
  <2>1. UNCHANGED kernel
    BY <1>1 DEF Devuelve
  <2>2. CASE UNCHANGED procesos
    BY <2>1, <2>2 DEF PeticionPid, procesos
  <2>3. CASE cola[c] # <<>> /\ solicitud[c] # Nadie /\ hilo[c] = "turno"
             /\ estado' = [estado EXCEPT ![solicitud[c]] = Devuelto(solicitud[c])]
    <3>1. solicitud[c] \in Pids /\ estado[solicitud[c]] = "cola"
      BY <2>3, TailSinLugar DEF TipoObjetos, Primera, Bloqueados
    <3>2. QED
      BY <2>1, <2>3, <3>1 DEF PeticionPid, TipoProcesos
  <2>4. QED
    BY <1>1, <2>2, <2>3 DEF Devuelve, Cae
<1>2. ASSUME NEW c \in Conexiones, Drena(c) PROVE PeticionPid'
  <2>1. UNCHANGED kernel
    BY <1>2 DEF Drena
  <2>2. CASE UNCHANGED procesos
    BY <2>1, <2>2 DEF PeticionPid, procesos
  <2>3. CASE cola[c] # <<>> /\ estado' = [estado EXCEPT ![Head(cola[c])] = "fin"]
    <3>1. Head(cola[c]) \in Pids /\ estado[Head(cola[c])] = "cola"
      BY <2>3, TailSinLugar DEF TipoObjetos, Bloqueados
    <3>2. QED
      BY <2>1, <2>3, <3>1 DEF PeticionPid, TipoProcesos
  <2>4. QED
    BY <1>2, <2>2, <2>3 DEF Drena, Cae
<1>3. ASSUME Busca PROVE PeticionPid'
  BY <1>3, BuscaKernel DEF PeticionPid
<1>4. ASSUME Empuja PROVE PeticionPid'
  BY <1>4, EmpujaKernel DEF PeticionPid
<1>5. ASSUME Avisa PROVE PeticionPid'
  <2>1. CASE kernel' = Reposo
    BY <2>1 DEF PeticionPid, Reposo
  <2>2. CASE UNCHANGED <<kernel, estado>>
    BY <2>2 DEF PeticionPid
  <2>3. QED
    BY <1>5, <2>1, <2>2, AvisaKernel
<1>6. ASSUME Recorre PROVE PeticionPid'
  <2>1. UNCHANGED kernel /\ kernel = Reposo
    BY <1>6 DEF Recorre, Busqueda
  <2>2. QED
    BY <2>1 DEF PeticionPid, Reposo
<1>7. ASSUME NEW p \in Pids, NEW n \in Nombres, Comprueba(p, n) PROVE PeticionPid'
  <2>1. CASE UNCHANGED kernel /\ kernel = Reposo
    BY <2>1 DEF PeticionPid, Reposo
  <2>2. CASE kernel'.pid = p /\ estado' = [estado EXCEPT ![p] = "pide"]
    BY <2>2 DEF PeticionPid, TipoProcesos
  <2>3. QED
    BY <1>7, <2>1, <2>2, CompruebaKernel
<1>8. ASSUME UNCHANGED <<kernel, estado>> PROVE PeticionPid'
  BY <1>8 DEF PeticionPid
<1>9. QED
  BY <1>1, <1>2, <1>3, <1>4, <1>5, <1>6, <1>7, <1>8 DEF Next, Paso, Hilo, Sirve,
         Scheduler, Pregunta, agregar_interfaz_lista, Toma, RecibeRespuesta,
         quitar_interfaz_lista, liberar_recursos_interfaz, Lee, Responde, Muere,
         Mata, objetos, procesos, otros, historia, Mueve, Cae

(* The interface found was in the list, and no thread goes back before it. *)
LEMMA PasoPeticionCon ==
    ASSUME TipoObjetos, TipoHilos, TipoKernel, Enlistadas, PeticionCon, Next
    PROVE  PeticionCon'
<1>1. ASSUME Busca PROVE PeticionCon'
  <2>1. CASE UNCHANGED <<kernel, hilo>>
    BY <2>1 DEF PeticionCon
  <2>2. CASE existe_interfaz(kernel.nombre) /\ kernel'.con = buscar_interfaz(kernel.nombre)
    <3>1. PICK i \in DOMAIN lista : buscar_interfaz(kernel.nombre) = lista[i]
      BY <2>2, BuscarEncuentra DEF TipoObjetos
    <3>2. kernel'.con \in Conexiones /\ hilo[kernel'.con] \notin Ausente
      <4>1. lista[i] \in Conexiones /\ hilo[lista[i]] \notin Ausente
        <5>1. hilo[lista[i]] \in Atiende \cup {"drena", "quita"}
          BY <3>1 DEF Enlistadas
        <5>2. QED
          BY <3>1, <5>1 DEF TipoObjetos, Atiende, Ausente
      <4>2. QED
        BY <2>2, <3>1, <4>1
    <3>3. QED
      BY <1>1, <3>2, BuscaKernel DEF PeticionCon
  <2>3. QED
    BY <1>1, <2>1, <2>2, BuscaKernel
<1>2. ASSUME Empuja PROVE PeticionCon'
  BY <1>2, EmpujaKernel DEF PeticionCon
<1>3. ASSUME Avisa PROVE PeticionCon'
  <2>1. CASE kernel' = Reposo
    BY <2>1 DEF PeticionCon, Reposo
  <2>2. CASE UNCHANGED <<kernel, hilo>>
    BY <2>2 DEF PeticionCon
  <2>3. QED
    BY <1>3, <2>1, <2>2, AvisaKernel
<1>4. ASSUME NEW p \in Pids, NEW n \in Nombres, Comprueba(p, n) PROVE PeticionCon'
  BY <1>4, CompruebaKernel DEF PeticionCon
<1>5. ASSUME UNCHANGED kernel PROVE PeticionCon'
  BY <1>5, HiloAvanza DEF PeticionCon
<1>6. QED
  BY <1>1, <1>2, <1>3, <1>4, <1>5 DEF Next, Paso, Hilo, Sirve, Scheduler, Pregunta,
         agregar_interfaz_lista, Toma, RecibeRespuesta, Devuelve, Drena,
         quitar_interfaz_lista, liberar_recursos_interfaz, Lee, Responde, Muere,
         Recorre, Mata, Verifica, objetos, procesos, otros, historia, Mueve, Cae

(* A name disappears from the list only with an interface that leaves.     *)
LEMMA PasoPeticionNombre ==
    ASSUME TipoObjetos, TipoHilos, TipoKernel, Pares, PeticionNombre, Next
    PROVE  PeticionNombre'
<1>1. ASSUME NEW c \in Conexiones, agregar_interfaz_lista(c) PROVE PeticionNombre'
  <2>1. \A i \in DOMAIN lista : i \in DOMAIN lista' /\ lista'[i] = lista[i]
    BY <1>1, AgregarLista DEF TipoObjetos
  <2>2. UNCHANGED kernel
    BY <1>1 DEF agregar_interfaz_lista
  <2>3. AlguienSeRetira => AlguienSeRetira'
    BY HiloAvanza, InterfacesAssumption DEF AlguienSeRetira, InterfacesAssumption
  <2>4. QED
    BY <2>1, <2>2, <2>3 DEF PeticionNombre, existe_interfaz
<1>2. ASSUME NEW c \in Conexiones, quitar_interfaz_lista(c) PROVE PeticionNombre'
  <2>1. c \in Desconectables /\ hilo[c] \in Retirandose
    BY <1>2 DEF quitar_interfaz_lista, Pares, Retirandose
  <2>2. hilo'[c] \in Retirandose
    BY <2>1, HiloAvanza
  <2>3. QED
    BY <2>1, <2>2 DEF PeticionNombre, AlguienSeRetira
<1>3. ASSUME Busca PROVE PeticionNombre'
  <2>1. UNCHANGED <<kernel, lista, hilo>> \/ kernel'.paso = "empuja"
    BY <1>3, BuscaKernel
  <2>2. QED
    BY <2>1 DEF PeticionNombre, existe_interfaz, AlguienSeRetira
<1>4. ASSUME Empuja PROVE PeticionNombre'
  BY <1>4, EmpujaKernel DEF PeticionNombre
<1>5. ASSUME Avisa PROVE PeticionNombre'
  <2>1. CASE kernel' = Reposo
    BY <2>1 DEF PeticionNombre, Reposo
  <2>2. CASE UNCHANGED <<kernel, lista, hilo>>
    BY <2>2 DEF PeticionNombre, existe_interfaz, AlguienSeRetira
  <2>3. QED
    BY <1>5, <2>1, <2>2, AvisaKernel
<1>6. ASSUME NEW p \in Pids, NEW n \in Nombres, Comprueba(p, n) PROVE PeticionNombre'
  <2>1. CASE UNCHANGED kernel /\ kernel = Reposo
    BY <2>1 DEF PeticionNombre, Reposo
  <2>2. CASE kernel'.nombre = n /\ existe_interfaz(n) /\ UNCHANGED lista
    BY <2>2 DEF PeticionNombre, existe_interfaz
  <2>3. QED
    BY <1>6, <2>1, <2>2, CompruebaKernel
<1>7. ASSUME UNCHANGED <<kernel, lista>> PROVE PeticionNombre'
  <2>1. AlguienSeRetira => AlguienSeRetira'
    BY HiloAvanza, InterfacesAssumption DEF AlguienSeRetira, InterfacesAssumption
  <2>2. QED
    BY <1>7, <2>1 DEF PeticionNombre, existe_interfaz
<1>8. QED
  BY <1>1, <1>2, <1>3, <1>4, <1>5, <1>6, <1>7 DEF Next, Paso, Hilo, Sirve,
         Scheduler, Pregunta, Toma, RecibeRespuesta, Devuelve, Drena,
         liberar_recursos_interfaz, Lee, Responde, Muere, Recorre, Mata, Verifica,
         objetos, procesos, otros, historia, Mueve, Cae

(* Between requests the scheduler keeps nothing.                           *)
LEMMA PasoReposo ==
    ASSUME TipoKernel, KernelReposa, Next
    PROVE  KernelReposa'
<1>1. ASSUME Busca PROVE KernelReposa'
  BY <1>1, BuscaKernel DEF KernelReposa
<1>2. ASSUME Empuja PROVE KernelReposa'
  BY <1>2, EmpujaKernel DEF KernelReposa
<1>3. ASSUME Avisa PROVE KernelReposa'
  BY <1>3 DEF Avisa, Cae, KernelReposa, Reposo
<1>4. ASSUME NEW p \in Pids, NEW n \in Nombres, Comprueba(p, n) PROVE KernelReposa'
  BY <1>4, CompruebaKernel DEF KernelReposa
<1>5. ASSUME UNCHANGED kernel PROVE KernelReposa'
  BY <1>5 DEF KernelReposa, Reposo
<1>6. QED
  BY <1>1, <1>2, <1>3, <1>4, <1>5 DEF Next, Paso, Hilo, Sirve, Scheduler, Pregunta,
         agregar_interfaz_lista, Toma, RecibeRespuesta, Devuelve, Drena,
         quitar_interfaz_lista, liberar_recursos_interfaz, Lee, Responde, Muere,
         Recorre, Mata, Verifica, objetos, procesos, otros, historia, Mueve, Cae

(* What taking a request out of a queue, or pushing one, keeps.            *)
LEMMA SacaDistintos ==
    ASSUME TipoObjetos, NEW c \in Conexiones, NEW k, SacaDe(c, k), Distintos(cola)
    PROVE  /\ Distintos(cola')
           /\ \A d \in Conexiones : \A i \in DOMAIN cola'[d] :
                /\ cola'[d][i] # cola[c][k]
                /\ \E j \in DOMAIN cola[d] : cola'[d][i] = cola[d][j]
<1>1. /\ cola[c] \in Seq(Pids) /\ cola'[c] \in Seq(Pids) /\ k \in DOMAIN cola[c]
      /\ k \in 1..Len(cola[c]) /\ SinLugar(cola'[c], cola[c], k)
      /\ \A d \in Conexiones : d # c => cola'[d] = cola[d]
  BY DEF SacaDe, TipoObjetos
<1>2. PICK f \in [DOMAIN cola'[c] -> DOMAIN cola[c]] :
        /\ \A i \in DOMAIN cola'[c] : cola'[c][i] = cola[c][f[i]] /\ f[i] # k
        /\ \A i, j \in DOMAIN cola'[c] : f[i] = f[j] => i = j
  <2> DEFINE w == cola'[c]  s == cola[c]
  <2>1. w \in Seq(Pids) /\ s \in Seq(Pids) /\ k \in 1..Len(s) /\ SinLugar(w, s, k)
    BY <1>1
  <2> HIDE DEF w, s
  <2>2. \E f \in [DOMAIN w -> DOMAIN s] :
          /\ \A i \in DOMAIN w : w[i] = s[f[i]] /\ f[i] # k
          /\ \A i, j \in DOMAIN w : f[i] = f[j] => i = j
    BY <2>1, SinLugarPropiedades
  <2>3. QED
    BY <2>2 DEF w, s
<1>3. ASSUME NEW d \in Conexiones, NEW i \in DOMAIN cola'[d]
      PROVE  /\ cola'[d][i] # cola[c][k]
             /\ \E j \in DOMAIN cola[d] : cola'[d][i] = cola[d][j]
  <2>1. CASE d = c
    BY <2>1, <1>1, <1>2, <1>3 DEF Distintos
  <2>2. CASE d # c
    BY <2>2, <1>1, <1>3 DEF Distintos
  <2>3. QED
    BY <2>1, <2>2
<1>4. ASSUME NEW d \in Conexiones, NEW e \in Conexiones,
             NEW i \in DOMAIN cola'[d], NEW j \in DOMAIN cola'[e], cola'[d][i] = cola'[e][j]
      PROVE  d = e /\ i = j
  <2>1. CASE d = c /\ e = c
    BY <2>1, <1>2, <1>4 DEF Distintos
  <2>2. CASE d # c /\ e # c
    BY <2>2, <1>1, <1>4 DEF Distintos
  <2>3. CASE d = c /\ e # c
    <3>1. f[i] \in DOMAIN cola[d] /\ cola[d][f[i]] = cola[e][j] /\ j \in DOMAIN cola[e]
      BY <2>3, <1>1, <1>2, <1>4
    <3>2. QED
      BY <2>3, <3>1 DEF Distintos
  <2>4. CASE d # c /\ e = c
    <3>1. f[j] \in DOMAIN cola[e] /\ cola[e][f[j]] = cola[d][i] /\ i \in DOMAIN cola[d]
      BY <2>4, <1>1, <1>2, <1>4
    <3>2. QED
      BY <2>4, <3>1 DEF Distintos
  <2>5. QED
    BY <2>1, <2>2, <2>3, <2>4
<1>5. QED
  BY <1>3, <1>4 DEF Distintos

(* A process that is in no queue may be pushed.                            *)
LEMMA MeteDistintos ==
    ASSUME TipoObjetos, NEW c \in Conexiones, NEW p \in Pids, MeteEn(c, p), Distintos(cola),
           Bloqueados, estado[p] # "cola"
    PROVE  Distintos(cola')
<1>1. ASSUME NEW d \in Conexiones, NEW i \in DOMAIN cola'[d]
      PROVE  \/ i \in DOMAIN cola[d] /\ cola'[d][i] = cola[d][i] /\ cola[d][i] # p
             \/ d = c /\ i = Len(cola[c]) + 1 /\ cola'[d][i] = p
  <2>1. cola[d] \in Seq(Pids) /\ cola'[d] \in Seq(Pids)
    BY DEF TipoObjetos, MeteEn
  <2>2. CASE d # c
    BY <1>1, <2>1, <2>2 DEF MeteEn, Bloqueados
  <2>3. CASE d = c
    <3>1. i \in DOMAIN cola[c] \/ i = Len(cola[c]) + 1
      BY <1>1, <2>1, <2>3 DEF MeteEn
    <3>2. i \in DOMAIN cola[c] => i # Len(cola[c]) + 1 /\ cola[c][i] # p
      BY <2>1, <2>3 DEF Bloqueados
    <3>3. QED
      BY <1>1, <2>3, <3>1, <3>2 DEF MeteEn
  <2>4. QED
    BY <2>2, <2>3
<1>2. QED
  BY <1>1 DEF Distintos

(* A search begins, and runs, with no request half made.                   *)
LEMMA PasoBusqueda ==
    ASSUME TipoKernel, Busqueda, Next
    PROVE  Busqueda'
<1>1. ASSUME Busca PROVE Busqueda'
  <2>1. kernel.paso # "nada" /\ UNCHANGED mata
    BY <1>1 DEF Busca
  <2>2. QED
    <3>1. Reposo.paso = "nada"
      BY DEF Reposo
    <3>2. kernel # Reposo
      BY <2>1, <3>1
    <3>3. QED
      BY <2>1, <3>2 DEF Busqueda
<1>2. ASSUME Empuja PROVE Busqueda'
  <2>1. kernel.paso # "nada" /\ UNCHANGED mata
    BY <1>2 DEF Empuja
  <2>2. QED
    <3>1. Reposo.paso = "nada"
      BY DEF Reposo
    <3>2. kernel # Reposo
      BY <2>1, <3>1
    <3>3. QED
      BY <2>1, <3>2 DEF Busqueda
<1>3. ASSUME Avisa PROVE Busqueda'
  <2>1. kernel.paso # "nada" /\ UNCHANGED mata
    BY <1>3 DEF Avisa
  <2>2. QED
    <3>1. Reposo.paso = "nada"
      BY DEF Reposo
    <3>2. kernel # Reposo
      BY <2>1, <3>1
    <3>3. QED
      BY <2>1, <3>2 DEF Busqueda
<1>4. ASSUME Recorre PROVE Busqueda'
  <2>1. mata.pid \in Pids /\ mata.i \in Nat /\ mata.j \in Nat /\ mata.i >= 1 /\ mata.j >= 1
        /\ kernel' = Reposo
    BY <1>4 DEF Recorre, Busqueda, TipoKernel
  <2>2. CASE mata' = Quieta
    BY <2>2 DEF Busqueda
  <2>3. CASE mata' = [mata EXCEPT !.i = @ + 1, !.j = 1]
    <3>1. mata'.pid = mata.pid /\ mata'.i = mata.i + 1 /\ mata'.j = 1
      BY <2>3 DEF TipoKernel
    <3>2. QED
      BY <2>1, <3>1 DEF Busqueda
  <2>4. ASSUME NEW j \in {mata.j, mata.j + 1}, mata' = [mata EXCEPT !.j = j] PROVE Busqueda'
    <3>1. mata'.pid = mata.pid /\ mata'.i = mata.i /\ mata'.j = j
      BY <2>4 DEF TipoKernel
    <3>2. QED
      BY <2>1, <3>1 DEF Busqueda
  <2>5. QED
    BY <1>4, <2>2, <2>3, <2>4 DEF Recorre, Verifica
<1>5. ASSUME NEW p \in Pids, Mata(p) PROVE Busqueda'
  <2>1. kernel' = Reposo /\ mata'.pid = p /\ mata'.i = 1 /\ mata'.j = 1
    BY <1>5 DEF Mata, Quieta
  <2>2. QED
    BY <2>1 DEF Busqueda
<1>6. ASSUME NEW p \in Pids, NEW n \in Nombres, Comprueba(p, n) PROVE Busqueda'
  BY <1>6 DEF Comprueba, Busqueda
<1>7. ASSUME UNCHANGED <<kernel, mata>> PROVE Busqueda'
  BY <1>7 DEF Busqueda
<1>8. QED
  BY <1>1, <1>2, <1>3, <1>4, <1>5, <1>6, <1>7 DEF Next, Paso, Hilo, Sirve,
         Scheduler, Pregunta, agregar_interfaz_lista, Toma, RecibeRespuesta,
         Devuelve, Drena, quitar_interfaz_lista, liberar_recursos_interfaz, Lee,
         Responde, Muere, objetos, procesos, otros, historia, Mueve, Cae

(* Requests are appended behind the first and removed from behind it.      *)
LEMMA PasoPrimera ==
    ASSUME TipoObjetos, TipoHilos, TipoKernel, PeticionPid, PeticionCon, Busqueda, Primera,
           Sueltas, Next
    PROVE  Primera'
<1>1. ASSUME NEW c \in Conexiones, Pregunta(c) PROVE Primera'
  BY <1>1 DEF Pregunta, objetos, procesos, otros, historia, Mueve, Cae, TipoObjetos,
         TipoHilos, Primera, Retirandose
<1>2. ASSUME NEW c \in Conexiones, agregar_interfaz_lista(c) PROVE Primera'
  BY <1>2 DEF agregar_interfaz_lista, objetos, procesos, otros, historia, Mueve,
         Cae, TipoObjetos, TipoHilos, Primera, Retirandose
<1>3. ASSUME NEW c \in Conexiones, Toma(c) PROVE Primera'
  <2>1. CASE cola[c] = <<>>
    BY <1>3, <2>1 DEF Toma, Mueve, TipoHilos, Primera, Sueltas
  <2>2. CASE cola[c] # <<>>
    BY <1>3, <2>2 DEF Toma, Mueve, TipoHilos, Primera
  <2>3. QED
    BY <2>1, <2>2
<1>4. ASSUME NEW c \in Conexiones, RecibeRespuesta(c) PROVE Primera'
  BY <1>4 DEF RecibeRespuesta, objetos, procesos, otros, historia, Mueve, Cae,
         TipoObjetos, TipoHilos, Primera, Retirandose
<1>5. ASSUME NEW c \in Conexiones, Devuelve(c) PROVE Primera'
  BY <1>5 DEF Devuelve, Devuelto, objetos, procesos, otros, historia, Mueve, Cae,
         TipoObjetos, TipoHilos, Primera, Retirandose
<1>6. ASSUME NEW c \in Conexiones, Drena(c) PROVE Primera'
  BY <1>6 DEF Drena, objetos, procesos, otros, historia, Mueve, Cae, TipoObjetos,
         TipoHilos, Primera, Retirandose
<1>7. ASSUME NEW c \in Conexiones, quitar_interfaz_lista(c) PROVE Primera'
  BY <1>7 DEF quitar_interfaz_lista, objetos, procesos, otros, historia, Mueve, Cae,
         TipoObjetos, TipoHilos, Primera, Retirandose
<1>8. ASSUME NEW c \in Conexiones, liberar_recursos_interfaz(c) PROVE Primera'
  BY <1>8 DEF liberar_recursos_interfaz, objetos, procesos, otros, historia, Mueve,
         Cae, TipoObjetos, TipoHilos, Primera, Retirandose
<1>9. ASSUME Empuja PROVE Primera'
  <2>1. CASE UNCHANGED cola
    <3>1. UNCHANGED <<hilo, solicitud>>
      BY <1>9, EmpujaKernel
    <3>2. QED
      BY <2>1, <3>1 DEF Primera
  <2>2. CASE MeteEn(kernel.con, kernel.pid)
    <3>1. ASSUME NEW c \in Conexiones, cola[c] # <<>>
          PROVE  cola'[c] # <<>> /\ Head(cola'[c]) = Head(cola[c])
      <4>1. cola[c] \in Seq(Pids) /\ cola'[c] \in Seq(Pids)
        BY <2>2 DEF TipoObjetos, MeteEn
      <4>2. CASE c # kernel.con
        BY <2>2, <3>1, <4>2 DEF MeteEn
      <4>3. CASE c = kernel.con
        <5>1. Len(cola'[c]) = Len(cola[c]) + 1 /\ Len(cola[c]) > 0 /\ 1 \in DOMAIN cola'[c]
          BY <2>2, <3>1, <4>1, <4>3 DEF MeteEn
        <5>2. cola'[c][1] = cola[c][1]
          BY <2>2, <4>1, <4>3, <5>1 DEF MeteEn
        <5>3. QED
          BY <4>1, <5>1, <5>2
      <4>4. QED
        BY <4>2, <4>3
    <3>2. QED
      BY <1>9, <3>1, EmpujaKernel DEF Primera
  <2>3. QED
    BY <1>9, <2>1, <2>2, EmpujaCola
<1>10. ASSUME Recorre PROVE Primera'
  <2>1. UNCHANGED <<hilo, solicitud>>
    BY <1>10 DEF Recorre
  <2>2. CASE UNCHANGED cola
    BY <2>1, <2>2 DEF Primera
  <2>3. ASSUME NEW c \in Conexiones, NEW k \in Nat, k > 1, SacaDe(c, k) PROVE Primera'
    <3>1. ASSUME NEW d \in Conexiones, cola[d] # <<>>
          PROVE  cola'[d] # <<>> /\ Head(cola'[d]) = Head(cola[d])
      <4>1. cola[d] \in Seq(Pids) /\ cola'[d] \in Seq(Pids)
        BY <2>3 DEF TipoObjetos, SacaDe
      <4>2. CASE d # c
        BY <2>3, <3>1, <4>2 DEF SacaDe
      <4>3. CASE d = c
        <5>1. Len(cola'[d]) = Len(cola[d]) - 1 /\ Len(cola[d]) > 1 /\ cola'[d][1] = cola[d][1]
          BY <2>3, <4>1, <4>3 DEF SacaDe, SinLugar
        <5>2. QED
          BY <4>1, <5>1
      <4>4. QED
        BY <4>2, <4>3
    <3>2. QED
      BY <2>1, <3>1 DEF Primera
  <2>4. QED
    BY <1>10, <2>2, <2>3, RecorreCola
<1>11. ASSUME UNCHANGED <<hilo, cola, solicitud>> PROVE Primera'
  BY <1>11 DEF TipoObjetos, TipoHilos, Primera, Retirandose
<1>12. QED
  BY <1>1, <1>2, <1>3, <1>4, <1>5, <1>6, <1>7, <1>8, <1>9, <1>10, <1>11 DEF Next,
         Paso, Hilo, Sirve, Scheduler, Lee, Responde, Muere, Busca, Avisa, Mata,
         Comprueba, Rechaza, objetos, procesos, otros, historia, Mueve, Cae

(* What is pushed was in no queue.                                         *)
LEMMA PasoDistintos ==
    ASSUME TipoObjetos, TipoKernel, Bloqueados, PeticionPid, PeticionCon, Busqueda,
           Distintos(cola), Next
    PROVE  Distintos(cola')
<1>1. ASSUME NEW c \in Conexiones, Devuelve(c) PROVE Distintos(cola')
  BY <1>1, DevuelveCola, SacaDistintos DEF Distintos
<1>2. ASSUME NEW c \in Conexiones, Drena(c) PROVE Distintos(cola')
  BY <1>2, DrenaCola, SacaDistintos DEF Distintos
<1>3. ASSUME Empuja PROVE Distintos(cola')
  <2>1. /\ kernel.con \in Conexiones /\ kernel.pid \in Pids
        /\ estado[kernel.pid] # "cola"
    BY <1>3, EmpujaKernel DEF PeticionPid, PeticionCon
  <2>2. CASE UNCHANGED cola
    BY <2>2
  <2>3. CASE MeteEn(kernel.con, kernel.pid)
    BY <2>1, <2>3, MeteDistintos
  <2>4. QED
    BY <1>3, <2>2, <2>3, EmpujaCola
<1>4. ASSUME Recorre PROVE Distintos(cola')
  BY <1>4, RecorreCola, SacaDistintos DEF Distintos
<1>5. ASSUME UNCHANGED cola PROVE Distintos(cola')
  BY <1>5 DEF Distintos
<1>6. QED
  BY <1>1, <1>2, <1>3, <1>4, <1>5 DEF Next, Paso, Hilo, Sirve, Scheduler, Pregunta,
         agregar_interfaz_lista, Toma, RecibeRespuesta, quitar_interfaz_lista,
         liberar_recursos_interfaz, Lee, Responde, Muere, Busca, Avisa, Mata,
         Comprueba, Rechaza, objetos, procesos, otros, historia, Mueve, Cae

(* What Devuelve and Drena do to the process they take out of the queue.   *)
LEMMA DevuelveProceso ==
    ASSUME TipoObjetos, TipoHilos, Primera, NEW c \in Conexiones, Devuelve(c)
    PROVE  /\ UNCHANGED <<sem, kernel, quitada, lista, par, mensaje>> /\ hilo[c] = "turno"
           /\ \/ UNCHANGED <<cola, estado, solicitud>>
              \/ /\ SacaDe(c, 1) /\ solicitud[c] = cola[c][1] /\ solicitud[c] \in Pids
                 /\ estado' = [estado EXCEPT ![cola[c][1]] = Devuelto(solicitud[c])]
                 /\ solicitud' = [solicitud EXCEPT ![c] = Nadie]
                 /\ hilo' = [hilo EXCEPT ![c] = "espera"]
<1>1. /\ UNCHANGED <<sem, kernel, quitada, lista, par, mensaje>> /\ hilo[c] = "turno"
      /\ \/ UNCHANGED <<cola, estado, solicitud>>
         \/ /\ cola[c] # <<>> /\ solicitud[c] # Nadie /\ cola' = [cola EXCEPT ![c] = Tail(@)]
            /\ estado' = [estado EXCEPT ![solicitud[c]] = Devuelto(solicitud[c])]
            /\ solicitud' = [solicitud EXCEPT ![c] = Nadie]
            /\ hilo' = [hilo EXCEPT ![c] = "espera"]
  BY DEF Devuelve, Cae, Mueve, objetos, procesos, otros
<1>2. CASE cola[c] # <<>> /\ solicitud[c] # Nadie /\ cola' = [cola EXCEPT ![c] = Tail(@)]
  <2>1. SacaDe(c, 1) /\ Head(cola[c]) = cola[c][1] /\ Head(cola[c]) \in Pids
    BY <1>2, SacaPrimera
  <2>2. Head(cola[c]) = solicitud[c]
    BY <1>1, <1>2 DEF Primera
  <2>3. QED
    BY <1>1, <2>1, <2>2
<1>3. QED
  BY <1>1, <1>2

(* The same of the thread of a lost interface.                             *)
LEMMA DrenaProceso ==
    ASSUME TipoObjetos, NEW c \in Conexiones, Drena(c)
    PROVE  /\ UNCHANGED <<sem, kernel, quitada, lista, solicitud>> /\ hilo[c] = "drena"
           /\ \/ UNCHANGED <<cola, estado>>
              \/ /\ SacaDe(c, 1) /\ cola[c][1] \in Pids
                 /\ estado' = [estado EXCEPT ![cola[c][1]] = "fin"]
<1>1. /\ UNCHANGED <<sem, kernel, quitada, lista, solicitud>> /\ hilo[c] = "drena"
      /\ \/ UNCHANGED <<cola, estado>>
         \/ /\ cola[c] # <<>> /\ cola' = [cola EXCEPT ![c] = Tail(@)]
            /\ estado' = [estado EXCEPT ![Head(cola[c])] = "fin"]
  BY DEF Drena, Cae, objetos, procesos
<1>2. CASE cola[c] # <<>> /\ cola' = [cola EXCEPT ![c] = Tail(@)]
  BY <1>1, <1>2, SacaPrimera
<1>3. QED
  BY <1>1, <1>2

(* What is in a queue after an append was in it, or is what was appended.  *)
LEMMA MeteLugar ==
    ASSUME TipoObjetos, NEW c \in Conexiones, NEW p, MeteEn(c, p),
           NEW d \in Conexiones, NEW i \in DOMAIN cola'[d]
    PROVE  cola'[d][i] = p \/ (i \in DOMAIN cola[d] /\ cola'[d][i] = cola[d][i])
<1>1. cola[d] \in Seq(Pids) /\ cola'[d] \in Seq(Pids) /\ DOMAIN cola[d] = 1..Len(cola[d])
      /\ DOMAIN cola'[d] = 1..Len(cola'[d]) /\ Len(cola[d]) \in Nat
  BY DEF TipoObjetos, MeteEn
<1>2. CASE d = c
  <2>1. /\ Len(cola'[d]) = Len(cola[d]) + 1
        /\ cola'[d][i] = IF i = Len(cola[d]) + 1 THEN p ELSE cola[d][i]
    BY <1>2 DEF MeteEn
  <2> DEFINE m == Len(cola[d])  m1 == Len(cola'[d])
  <2>2. i \in 1..m1 /\ m1 = m + 1 /\ m \in Nat /\ DOMAIN cola[d] = 1..m
    BY <1>1, <2>1
  <2>3. cola'[d][i] = IF i = m + 1 THEN p ELSE cola[d][i]
    BY <2>1
  <2> HIDE DEF m, m1
  <2>4. i = m + 1 \/ i \in 1..m
    BY <2>2
  <2>5. QED
    BY <2>2, <2>3, <2>4
<1>3. CASE d # c
  BY <1>3 DEF MeteEn
<1>4. QED
  BY <1>2, <1>3

(* Whoever is left in a queue is still blocked.                            *)
LEMMA SacaBloqueados ==
    ASSUME TipoObjetos, TipoProcesos, Bloqueados, Distintos(cola), NEW c \in Conexiones, NEW k,
           SacaDe(c, k), NEW e, estado' = [estado EXCEPT ![cola[c][k]] = e]
    PROVE  Bloqueados'
<1>1. ASSUME NEW d \in Conexiones, NEW i \in DOMAIN cola'[d] PROVE estado'[cola'[d][i]] = "cola"
  <2>1. PICK j \in DOMAIN cola[d] : cola'[d][i] = cola[d][j]
    BY <1>1, SacaDistintos
  <2>2. cola'[d][i] # cola[c][k]
    BY <1>1, SacaDistintos
  <2>3. estado[cola[d][j]] = "cola" /\ cola[d][j] \in Pids
    BY <2>1 DEF Bloqueados, TipoObjetos
  <2>4. QED
    BY <2>1, <2>2, <2>3 DEF TipoProcesos
<1>2. QED
  BY <1>1 DEF Bloqueados

(* Whoever is in a queue stays blocked until it is taken out.              *)
LEMMA PasoBloqueados ==
    ASSUME TipoObjetos, TipoHilos, TipoProcesos, TipoKernel, Primera, Bloqueados, PeticionPid,
           PeticionCon, Busqueda, Distintos(cola), Next
    PROVE  Bloqueados'
<1>1. ASSUME NEW c \in Conexiones, Devuelve(c) PROVE Bloqueados'
  <2>1. CASE UNCHANGED <<cola, estado>>
    BY <2>1 DEF Bloqueados
  <2>2. CASE SacaDe(c, 1) /\ estado' = [estado EXCEPT ![cola[c][1]] = Devuelto(solicitud[c])]
    BY <2>2, SacaBloqueados
  <2>3. QED
    BY <1>1, <2>1, <2>2, DevuelveProceso
<1>2. ASSUME NEW c \in Conexiones, Drena(c) PROVE Bloqueados'
  <2>1. CASE UNCHANGED <<cola, estado>>
    BY <2>1 DEF Bloqueados
  <2>2. CASE SacaDe(c, 1) /\ estado' = [estado EXCEPT ![cola[c][1]] = "fin"]
    BY <2>2, SacaBloqueados
  <2>3. QED
    BY <1>2, <2>1, <2>2, DrenaProceso
<1>3. ASSUME Empuja PROVE Bloqueados'
  <2>1. CASE UNCHANGED <<cola, estado>>
    BY <2>1 DEF Bloqueados
  <2>2. CASE estado' = [estado EXCEPT ![kernel.pid] = "cola"]
    <3>1. ASSUME NEW c \in Conexiones, NEW i \in DOMAIN cola'[c]
          PROVE  cola'[c][i] = kernel.pid \/ (i \in DOMAIN cola[c] /\ cola'[c][i] = cola[c][i])
      <4>1. CASE UNCHANGED cola
        BY <3>1, <4>1
      <4>2. CASE MeteEn(kernel.con, kernel.pid)
        BY <1>3, <3>1, <4>2, EmpujaKernel, MeteLugar DEF PeticionCon
      <4>3. QED
        BY <1>3, <4>1, <4>2, EmpujaCola
    <3>2. \A c \in Conexiones : \A i \in DOMAIN cola[c] : cola[c][i] \in Pids
      BY DEF TipoObjetos
    <3>3. kernel.pid \in Pids
      BY <1>3, EmpujaKernel DEF PeticionPid
    <3>4. QED
      BY <2>2, <3>1, <3>2, <3>3 DEF Bloqueados, TipoProcesos
  <2>3. QED
    BY <1>3, <2>1, <2>2, EmpujaKernel
<1>4. ASSUME Recorre PROVE Bloqueados'
  <2>1. CASE UNCHANGED <<cola, estado, quitada>>
    BY <2>1 DEF Bloqueados
  <2>2. ASSUME NEW c \in Conexiones, NEW k \in Nat, SacaDe(c, k), cola[c][k] = mata.pid,
               estado' = [estado EXCEPT ![mata.pid] = "fin"]
        PROVE  Bloqueados'
    <3>1. estado' = [estado EXCEPT ![cola[c][k]] = "fin"]
      BY <2>2
    <3>2. QED
      BY <2>2, <3>1, SacaBloqueados
  <2>3. QED
    BY <1>4, <2>1, <2>2, RecorreCola
<1>5. ASSUME NEW p \in Pids, NEW n \in Nombres, Comprueba(p, n) PROVE Bloqueados'
  <2>1. estado[p] # "cola" /\ UNCHANGED cola
        /\ \E e \in {"fin", "pide"} : estado' = [estado EXCEPT ![p] = e]
    BY <1>5, CompruebaKernel
  <2>2. \A c \in Conexiones : \A i \in DOMAIN cola[c] : cola[c][i] \in Pids
    BY DEF TipoObjetos
  <2>3. QED
    BY <2>1, <2>2 DEF Bloqueados, TipoProcesos
<1>6. ASSUME UNCHANGED <<cola, estado>> PROVE Bloqueados'
  BY <1>6 DEF Bloqueados
<1>7. QED
  BY <1>1, <1>2, <1>3, <1>4, <1>5, <1>6 DEF Next, Paso, Hilo, Sirve, Scheduler,
         Pregunta, agregar_interfaz_lista, Toma, RecibeRespuesta,
         quitar_interfaz_lista, liberar_recursos_interfaz, Lee, Responde, Muere,
         Busca, Avisa, Mata, objetos, procesos, otros, historia, Mueve, Cae

-----------------------------------------------------------------------------
(* The count of the semaphore of an interface: what Cubierta and Exacta    *)
(* say of one connection.                                                  *)
Cuenta(d) == sem[d] + Tomada(d) + AvisoPara(d)
Bien(d) ==
    /\ hilo[d] \in Atiende => Len(cola[d]) <= Cuenta(d)
    /\ d \notin quitada => /\ hilo[d] \in Atiende => Len(cola[d]) = Cuenta(d)
                           /\ hilo[d] \in {"recibe", "turno"} => solicitud[d] # Nadie

(* They are Cubierta and Exacta of every connection.                       *)
LEMMA CuentaPartes == Cubierta /\ Exacta <=> \A d \in Conexiones : Bien(d)
BY DEF Cubierta, Exacta, Bien, Cuenta, Atiende

(* Both sides of the count are numbers.                                    *)
LEMMA CuentaTipos ==
    ASSUME TipoObjetos, NEW d \in Conexiones
    PROVE  /\ sem[d] \in Nat /\ Len(cola[d]) \in Nat /\ cola[d] \in Seq(Pids)
           /\ Tomada(d) \in {0, 1} /\ AvisoPara(d) \in {0, 1}
BY DEF TipoObjetos, Tomada, AvisoPara

(* A connection a step does not touch.                                     *)
Quieto(d) ==
    /\ hilo'[d] = hilo[d] /\ cola'[d] = cola[d] /\ sem'[d] = sem[d]
    /\ solicitud'[d] = solicitud[d] /\ quitada \subseteq quitada'

(* Its count is the same.                                                  *)
LEMMA QuietoBien ==
    ASSUME NEW d \in Conexiones, Bien(d), Quieto(d), AvisoPara(d)' = AvisoPara(d)
    PROVE  Bien(d)'
<1>1. Cuenta(d)' = Cuenta(d)
  BY DEF Cuenta, Tomada, Quieto
<1>2. QED
  BY <1>1 DEF Bien, Quieto

(* What Toma and RecibeRespuesta do to the count.                          *)
LEMMA TomaBien ==
    ASSUME InterfacesAssumption, TipoObjetos, TipoHilos, Sueltas, NEW c \in Conexiones, Toma(c),
           NEW d \in Conexiones, Bien(d)
    PROVE  Bien(d)'
<1>1. UNCHANGED <<kernel, cola, quitada>> /\ AvisoPara(d)' = AvisoPara(d)
  BY DEF Toma, AvisoPara
<1>2. CASE d # c
  BY <1>1, <1>2, QuietoBien DEF Toma, Mueve, Quieto, TipoObjetos, TipoHilos
<1>3. CASE d = c
  <2>1. /\ sem[d] \in Nat /\ Len(cola[d]) \in Nat /\ sem[d] > 0 /\ sem'[d] = sem[d] - 1
        /\ AvisoPara(d) \in {0, 1} /\ hilo[d] = "espera" /\ cola'[d] = cola[d]
    BY <1>1, <1>3, CuentaTipos DEF Toma, TipoObjetos
  <2>2. Tomada(d) = 0
    BY <2>1 DEF Sueltas, Tomada
  <2>3. CASE cola[d] = <<>>
    <3>1. hilo'[d] = "turno" /\ solicitud'[d] = Nadie /\ Tomada(d)' = 0 /\ Len(cola[d]) = 0
      BY <1>3, <2>1, <2>2, <2>3 DEF Toma, Mueve, TipoHilos, Sueltas, Tomada
    <3>2. d \in quitada
      BY <2>1, <2>2, <3>1 DEF Bien, Cuenta, Atiende
    <3>3. Cuenta(d)' \in Nat /\ Len(cola'[d]) = 0
      BY <1>1, <2>1, <3>1 DEF Cuenta
    <3>4. QED
      BY <1>1, <3>2, <3>3 DEF Bien
  <2>4. CASE cola[d] # <<>>
    <3>1. Head(cola[d]) \in Pids
      BY <2>4, TailSinLugar DEF TipoObjetos
    <3>2. solicitud'[d] = Head(cola[d]) /\ hilo'[d] \in {"recibe", "drena"}
      BY <1>3, <2>4 DEF Toma, Mueve, TipoHilos
    <3>3. solicitud'[d] # Nadie /\ Tomada(d)' = 1
      BY <3>1, <3>2 DEF InterfacesAssumption, Tomada
    <3>4. Cuenta(d)' = Cuenta(d) /\ Cuenta(d) \in Nat
      BY <1>1, <2>1, <2>2, <3>3 DEF Cuenta
    <3>5. QED
      BY <1>1, <2>1, <3>2, <3>3, <3>4 DEF Bien, Atiende
  <2>5. QED
    BY <2>3, <2>4
<1>4. QED
  BY <1>2, <1>3

(* An answer changes no count.                                             *)
LEMMA RecibeBien ==
    ASSUME TipoHilos, NEW c \in Conexiones, RecibeRespuesta(c), NEW d \in Conexiones, Bien(d)
    PROVE  Bien(d)'
<1>1. /\ UNCHANGED <<kernel, cola, sem, solicitud, quitada>> /\ hilo[c] = "recibe"
      /\ \E h \in {"turno", "drena"} : hilo' = [hilo EXCEPT ![c] = h]
  BY DEF RecibeRespuesta, Mueve, objetos
<1>2. Cuenta(d)' = Cuenta(d)
  BY <1>1 DEF Cuenta, Tomada, AvisoPara
<1>3. CASE d # c
  BY <1>1, <1>2, <1>3 DEF Bien, TipoHilos
<1>4. CASE d = c
  BY <1>1, <1>2, <1>4 DEF Bien, TipoHilos, Atiende
<1>5. QED
  BY <1>3, <1>4

(* The request taken out is the one the thread held.                       *)
LEMMA DevuelveBien ==
    ASSUME InterfacesAssumption, TipoObjetos, TipoHilos, Primera, NEW c \in Conexiones,
           Devuelve(c), NEW d \in Conexiones, Bien(d)
    PROVE  Bien(d)'
<1>1. AvisoPara(d)' = AvisoPara(d) /\ UNCHANGED <<sem, quitada>> /\ hilo[c] = "turno"
  BY DevuelveProceso DEF AvisoPara
<1>2. CASE UNCHANGED <<cola, solicitud>>
  <2>1. Cuenta(d)' = Cuenta(d)
    BY <1>1, <1>2 DEF Cuenta, Tomada
  <2>2. hilo'[d] = hilo[d] \/ (hilo'[d] = "espera" /\ hilo[d] = "turno")
    BY <1>1 DEF Devuelve, Mueve, Cae, TipoHilos
  <2>3. QED
    BY <1>1, <1>2, <2>1, <2>2 DEF Bien, Atiende
<1>3. CASE /\ SacaDe(c, 1) /\ solicitud[c] \in Pids
           /\ solicitud' = [solicitud EXCEPT ![c] = Nadie]
           /\ hilo' = [hilo EXCEPT ![c] = "espera"]
  <2>1. CASE d # c
    BY <1>1, <1>3, <2>1, QuietoBien DEF Quieto, SacaDe, TipoHilos
  <2>2. CASE d = c
    <3>1. Len(cola'[d]) = Len(cola[d]) - 1
      BY <1>3, <2>2 DEF SacaDe, SinLugar
    <3>2. Tomada(d) = 1 /\ Tomada(d)' = 0 /\ hilo'[d] = "espera"
      BY <1>3, <2>2 DEF Tomada, TipoHilos, InterfacesAssumption
    <3>3. sem[d] \in Nat /\ Len(cola[d]) \in Nat /\ AvisoPara(d) \in {0, 1}
      BY CuentaTipos
    <3>4. Cuenta(d)' = Cuenta(d) - 1 /\ Cuenta(d) \in Nat
      BY <1>1, <3>2, <3>3 DEF Cuenta
    <3>5. QED
      BY <1>1, <2>2, <3>1, <3>2, <3>3, <3>4 DEF Bien, Atiende
  <2>3. QED
    BY <2>1, <2>2
<1>4. QED
  BY <1>2, <1>3, DevuelveProceso

(* A thread that leaves its loop counts no more.                           *)
LEMMA DrenaBien ==
    ASSUME TipoObjetos, TipoHilos, NEW c \in Conexiones, Drena(c), NEW d \in Conexiones, Bien(d)
    PROVE  Bien(d)'
<1>1. UNCHANGED <<sem, kernel, quitada, solicitud>> /\ hilo[c] = "drena"
  BY DrenaProceso
<1>2. hilo'[c] \in {"drena", "quita"} /\ \A e \in Conexiones : e # c => hilo'[e] = hilo[e]
  BY DEF Drena, Mueve, Cae, TipoHilos
<1>3. CASE d = c
  BY <1>1, <1>2, <1>3 DEF Bien, Atiende
<1>4. CASE d # c
  <2>1. cola'[d] = cola[d] /\ AvisoPara(d)' = AvisoPara(d)
    BY <1>1, <1>4, DrenaProceso DEF SacaDe, AvisoPara
  <2>2. QED
    BY <1>1, <1>2, <1>4, <2>1, QuietoBien DEF Quieto
<1>5. QED
  BY <1>3, <1>4

(* A push is covered by the post that follows it.                          *)
LEMMA EmpujaBien ==
    ASSUME TipoObjetos, TipoKernel, PeticionPid, PeticionCon, Empuja, NEW d \in Conexiones, Bien(d)
    PROVE  Bien(d)'
<1>1. kernel.paso = "empuja" /\ kernel.con \in Conexiones
      /\ UNCHANGED <<hilo, sem, solicitud, quitada>> /\ AvisoPara(d) = 0
  BY EmpujaKernel DEF PeticionCon, AvisoPara
<1>2. CASE UNCHANGED <<kernel, cola>>
  BY <1>1, <1>2, QuietoBien DEF Quieto, AvisoPara
<1>3. CASE kernel'.paso = "avisa" /\ kernel'.con = kernel.con /\ MeteEn(kernel.con, kernel.pid)
  <2>1. CASE d # kernel.con
    <3>1. AvisoPara(d)' = 0 /\ cola'[d] = cola[d]
      BY <1>1, <1>3, <2>1 DEF AvisoPara, MeteEn
    <3>2. QED
      BY <1>1, <3>1, QuietoBien DEF Quieto
  <2>2. CASE d = kernel.con
    <3>1. AvisoPara(d)' = 1 /\ Len(cola'[d]) = Len(cola[d]) + 1
      BY <1>1, <1>3, <2>2 DEF AvisoPara, MeteEn
    <3>2. sem[d] \in Nat /\ Len(cola[d]) \in Nat /\ Tomada(d) \in {0, 1} /\ Tomada(d)' = Tomada(d)
      BY <1>1, CuentaTipos DEF Tomada
    <3>3. Cuenta(d)' = Cuenta(d) + 1 /\ Cuenta(d) \in Nat
      BY <1>1, <3>1, <3>2 DEF Cuenta
    <3>4. QED
      BY <1>1, <3>1, <3>2, <3>3 DEF Bien
  <2>3. QED
    BY <2>1, <2>2
<1>4. CASE /\ kernel'.paso = "avisa" /\ UNCHANGED cola
           /\ cola' = [cola EXCEPT ![kernel.con] = Append(@, kernel.pid)]
  <2>1. Append(cola[kernel.con], kernel.pid) = cola[kernel.con]
    BY <1>1, <1>4 DEF TipoObjetos
  <2>2. /\ cola[kernel.con] \in Seq(Pids) /\ kernel.pid \in Pids
        /\ Len(cola[kernel.con]) \in Nat
    BY <1>1 DEF TipoObjetos, PeticionPid
  <2>3. Len(Append(cola[kernel.con], kernel.pid)) = Len(cola[kernel.con]) + 1
    BY <2>2, AppendProperties
  <2>4. QED
    BY <2>1, <2>2, <2>3
<1>5. QED
  BY <1>2, <1>3, <1>4, EmpujaKernel, EmpujaCola

(* The post turns the promise into a count.                                *)
LEMMA AvisaBien ==
    ASSUME TipoObjetos, TipoKernel, PeticionCon, Avisa, NEW d \in Conexiones, Bien(d)
    PROVE  Bien(d)'
<1>1. kernel.paso = "avisa" /\ kernel.con \in Conexiones
      /\ UNCHANGED <<hilo, cola, solicitud, quitada>>
  BY AvisaKernel DEF PeticionCon
<1>2. CASE UNCHANGED <<kernel, sem>>
  BY <1>1, <1>2, QuietoBien DEF Quieto, AvisoPara
<1>3. CASE kernel' = Reposo /\ sem' = [sem EXCEPT ![kernel.con] = @ + 1]
  <2>1. AvisoPara(d)' = 0
    BY <1>3 DEF Reposo, AvisoPara
  <2>2. CASE d # kernel.con
    <3>1. AvisoPara(d) = 0 /\ sem'[d] = sem[d]
      BY <1>3, <2>2 DEF AvisoPara, TipoObjetos
    <3>2. QED
      BY <1>1, <2>1, <3>1, QuietoBien DEF Quieto
  <2>3. CASE d = kernel.con
    <3>1. /\ AvisoPara(d) = 1 /\ sem'[d] = sem[d] + 1 /\ sem[d] \in Nat
          /\ Tomada(d) \in {0, 1} /\ Tomada(d)' = Tomada(d)
      BY <1>1, <1>3, <2>3, CuentaTipos DEF AvisoPara, Tomada, TipoObjetos
    <3>2. Cuenta(d)' = Cuenta(d)
      BY <2>1, <3>1 DEF Cuenta
    <3>3. QED
      BY <1>1, <3>2 DEF Bien
  <2>4. QED
    BY <2>2, <2>3
<1>4. QED
  BY <1>2, <1>3, AvisaKernel

(* What a kill takes out leaves the count too high.                        *)
LEMMA RecorreBien ==
    ASSUME TipoObjetos, TipoKernel, Busqueda, Recorre, NEW d \in Conexiones, Bien(d)
    PROVE  Bien(d)'
<1>1. UNCHANGED <<hilo, sem, solicitud, kernel>> /\ AvisoPara(d)' = AvisoPara(d)
  BY DEF Recorre, AvisoPara
<1>2. CASE UNCHANGED <<cola, quitada>>
  BY <1>1, <1>2, QuietoBien DEF Quieto
<1>3. ASSUME NEW c \in Conexiones, NEW k \in Nat, SacaDe(c, k), quitada' = quitada \cup {c}
      PROVE  Bien(d)'
  <2>1. CASE d # c
    BY <1>1, <1>3, <2>1, QuietoBien DEF Quieto, SacaDe
  <2>2. CASE d = c
    <3>1. d \in quitada' /\ Len(cola'[d]) = Len(cola[d]) - 1 /\ Len(cola[d]) \in Nat
      BY <1>3, <2>2, CuentaTipos DEF SacaDe, SinLugar
    <3>2. Cuenta(d)' = Cuenta(d) /\ Cuenta(d) \in Nat
      BY <1>1, CuentaTipos DEF Cuenta, Tomada
    <3>3. QED
      BY <1>1, <3>1, <3>2 DEF Bien
  <2>3. QED
    BY <2>1, <2>2
<1>4. QED
  BY <1>2, <1>3, RecorreCola

(* hay_proceso_cola covers every request that waits.                       *)
LEMMA PasoCuenta ==
    ASSUME InterfacesAssumption, TipoObjetos, TipoHilos, TipoKernel, Vacias, Sueltas, Primera,
           PeticionPid, PeticionCon, Busqueda, Cubierta, Exacta, Next
    PROVE  Cubierta' /\ Exacta'
<1> SUFFICES ASSUME NEW d \in Conexiones PROVE Bien(d)'
  BY DEF Cubierta, Exacta, Bien, Cuenta, Atiende
<1>0. Bien(d)
  BY CuentaPartes
<1>1. ASSUME NEW c \in Conexiones, Pregunta(c) PROVE Bien(d)'
  <2>1. CASE d = c
    BY <1>1, <2>1, PreguntaPropiedades DEF Bien, Atiende
  <2>2. CASE d # c
    <3>1. Quieto(d) /\ AvisoPara(d)' = AvisoPara(d)
      BY <1>1, <2>2, PreguntaPropiedades DEF Pregunta, Quieto, AvisoPara, objetos
    <3>2. QED
      BY <1>0, <3>1, QuietoBien
  <2>3. QED
    BY <2>1, <2>2
<1>2. ASSUME NEW c \in Conexiones, agregar_interfaz_lista(c) PROVE Bien(d)'
  <2>1. UNCHANGED <<kernel, cola, sem, solicitud, quitada>> /\ AvisoPara(d)' = AvisoPara(d)
    BY <1>2 DEF agregar_interfaz_lista, AvisoPara
  <2>2. CASE d = c
    <3>1. hilo[d] = "agrega" /\ hilo'[d] = "espera"
      BY <1>2, <2>2 DEF agregar_interfaz_lista, Mueve, TipoHilos
    <3>2. cola[d] = <<>> /\ sem[d] = 0 /\ Tomada(d) = 0 /\ AvisoPara(d) = 0
      BY <3>1 DEF Vacias, Sueltas, PeticionCon, Ausente, Tomada, AvisoPara
    <3>3. Cuenta(d)' = 0 /\ Len(cola'[d]) = 0
      BY <2>1, <3>2 DEF Cuenta, Tomada
    <3>4. QED
      BY <3>1, <3>3 DEF Bien
  <2>3. CASE d # c
    <3>1. hilo'[d] = hilo[d]
      BY <1>2, <2>3 DEF agregar_interfaz_lista, Mueve, TipoHilos
    <3>2. QED
      BY <1>0, <2>1, <3>1, QuietoBien DEF Quieto
  <2>4. QED
    BY <2>2, <2>3
<1>3. ASSUME NEW c \in Conexiones, quitar_interfaz_lista(c) \/ liberar_recursos_interfaz(c)
      PROVE  Bien(d)'
  <2>1. /\ UNCHANGED <<kernel, cola, sem, solicitud, quitada>>
        /\ UNCHANGED hilo \/ \E h \in {"libera", "fin"} : hilo' = [hilo EXCEPT ![c] = h]
    BY <1>3 DEF quitar_interfaz_lista, liberar_recursos_interfaz, Cae, Mueve, objetos
  <2>2. AvisoPara(d)' = AvisoPara(d)
    BY <2>1 DEF AvisoPara
  <2>3. CASE hilo'[d] = hilo[d]
    BY <1>0, <2>1, <2>2, <2>3, QuietoBien DEF Quieto
  <2>4. CASE hilo'[d] \in {"libera", "fin"}
    BY <2>4 DEF Bien, Atiende
  <2>5. QED
    BY <2>1, <2>3, <2>4 DEF TipoHilos
<1>4. ASSUME Busca PROVE Bien(d)'
  <2>1. AvisoPara(d)' = AvisoPara(d)
    BY <1>4, BuscaKernel DEF AvisoPara
  <2>2. QED
    BY <1>0, <1>4, <2>1, BuscaKernel, QuietoBien DEF Quieto
<1>5. ASSUME NEW p \in Pids, NEW n \in Nombres, Comprueba(p, n) PROVE Bien(d)'
  <2>1. kernel' = kernel \/ (kernel.paso # "avisa" /\ kernel'.paso # "avisa")
    <3>1. Reposo.paso = "nada"
      BY DEF Reposo
    <3>2. QED
      BY <1>5, <3>1, CompruebaKernel
  <2>2. QED
    BY <1>0, <1>5, <2>1, CompruebaKernel, QuietoBien DEF Quieto, AvisoPara
<1>6. ASSUME UNCHANGED <<hilo, cola, sem, solicitud, kernel, quitada>> PROVE Bien(d)'
  BY <1>0, <1>6, QuietoBien DEF Quieto, AvisoPara
<1>7. ASSUME NEW c \in Conexiones, Lee(c) \/ Responde(c) \/ Muere(c) PROVE Bien(d)'
  BY <1>6, <1>7 DEF Lee, Responde, Muere, objetos
<1>8. ASSUME NEW p \in Pids, Mata(p) PROVE Bien(d)'
  BY <1>6, <1>8 DEF Mata, objetos
<1>9. QED
  BY <1>0, <1>1, <1>2, <1>3, <1>4, <1>5, <1>7, <1>8, TomaBien, RecibeBien, DevuelveBien,
     DrenaBien, EmpujaBien, AvisaBien, RecorreBien DEF Next, Paso, Hilo, Sirve, Scheduler

-----------------------------------------------------------------------------
(* What can go wrong, and why.                                             *)
LEMMA PasoCaida ==
    ASSUME TipoHilos, Pares, PeticionCon, PeticionNombre, Exacta, caido = "no", Next
    PROVE  CaidaConCausa'
<1>1. ASSUME NEW c \in Conexiones, Devuelve(c) PROVE CaidaConCausa'
  <2>1. CASE caido' = caido
    BY <2>1 DEF CaidaConCausa
  <2>2. CASE /\ caido' = "solicitud_liberada" /\ quitada' = quitada
             /\ solicitud[c] = Nadie /\ hilo[c] = "turno"
    BY <2>2 DEF CaidaConCausa, Exacta
  <2>3. QED
    BY <1>1, <2>1, <2>2 DEF Devuelve, Cae
<1>2. ASSUME NEW c \in Conexiones, hilo[c] \in Retirandose, UNCHANGED hilo,
             caido' # "solicitud_liberada"
      PROVE  CaidaConCausa'
  BY <1>2 DEF Pares, CaidaConCausa
<1>3. ASSUME NEW c \in Conexiones, Drena(c) PROVE CaidaConCausa'
  <2>1. CASE caido' = caido
    BY <2>1 DEF CaidaConCausa
  <2>2. CASE caido' = "iterador" /\ UNCHANGED hilo /\ hilo[c] = "drena"
    BY <1>2, <2>2 DEF Retirandose
  <2>3. QED
    BY <1>3, <2>1, <2>2 DEF Drena, Cae
<1>4. ASSUME NEW c \in Conexiones, quitar_interfaz_lista(c) PROVE CaidaConCausa'
  <2>1. CASE caido' = caido
    BY <2>1 DEF CaidaConCausa
  <2>2. CASE caido' = "iterador" /\ UNCHANGED hilo /\ hilo[c] = "quita"
    BY <1>2, <2>2 DEF Retirandose
  <2>3. QED
    BY <1>4, <2>1, <2>2 DEF quitar_interfaz_lista, Cae
<1>5. ASSUME Busca PROVE CaidaConCausa'
  <2>1. CASE caido' = caido
    BY <2>1 DEF CaidaConCausa
  <2>2. CASE ~existe_interfaz(kernel.nombre) /\ caido' = "nulo"
    <3>1. UNCHANGED hilo /\ kernel.paso = "busca"
      BY <1>5 DEF Busca
    <3>2. AlguienSeRetira
      BY <2>2, <3>1 DEF PeticionNombre
    <3>3. QED
      BY <2>2, <3>1, <3>2 DEF AlguienSeRetira, CaidaConCausa
  <2>3. QED
    BY <1>5, <2>1, <2>2 DEF Busca
<1>6. ASSUME Empuja \/ Avisa PROVE CaidaConCausa'
  <2>1. CASE caido' = caido
    BY <2>1 DEF CaidaConCausa
  <2>2. CASE /\ caido' = "interfaz_liberada" /\ UNCHANGED hilo /\ hilo[kernel.con] = "fin"
             /\ kernel.paso \in {"empuja", "avisa"}
    BY <1>2, <2>2 DEF PeticionCon, Retirandose
  <2>3. QED
    BY <1>6, <2>1, <2>2 DEF Empuja, Avisa, Cae
<1>7. ASSUME UNCHANGED caido PROVE CaidaConCausa'
  BY <1>7 DEF CaidaConCausa
<1>8. QED
  BY <1>1, <1>3, <1>4, <1>5, <1>6, <1>7 DEF Next, Paso, Hilo, Sirve, Scheduler, Pregunta,
     agregar_interfaz_lista, Toma, RecibeRespuesta, liberar_recursos_interfaz, Lee, Responde,
     Muere, Recorre, Mata, Comprueba, Rechaza

-----------------------------------------------------------------------------
(* Steps that neither change the list nor let anyone through the check.    *)
LEMMA NadieEntra ==
    ASSUME TipoHilos, Next
    PROVE  \/ \E c \in Conexiones : \/ Pregunta(c) \/ agregar_interfaz_lista(c)
                                    \/ quitar_interfaz_lista(c)
           \/ /\ UNCHANGED <<lista, cruzados>>
              /\ \A e \in Conexiones : hilo'[e] = "agrega" => hilo[e] = "agrega"
<1> DEFINE Nadie1 == /\ UNCHANGED <<lista, cruzados>>
                     /\ \A e \in Conexiones : hilo'[e] = "agrega" => hilo[e] = "agrega"
<1>1. ASSUME NEW c \in Conexiones, Sirviendo(c) PROVE Nadie1
  <2>1. UNCHANGED cruzados
    BY <1>1 DEF Sirviendo, Toma, RecibeRespuesta, Devuelve, Drena
  <2>2. QED
    BY <1>1, <2>1, SirvePropiedades DEF Atiende
<1>2. ASSUME NEW c \in Conexiones, liberar_recursos_interfaz(c) PROVE Nadie1
  BY <1>2 DEF liberar_recursos_interfaz, Mueve, objetos, TipoHilos
<1>3. ASSUME UNCHANGED <<lista, cruzados, hilo>> PROVE Nadie1
  BY <1>3
<1> HIDE DEF Nadie1
<1>4. \/ \E c \in Conexiones : \/ Pregunta(c) \/ agregar_interfaz_lista(c)
                               \/ quitar_interfaz_lista(c)
      \/ Nadie1
  BY <1>1, <1>2, <1>3 DEF Next, Paso, Hilo, Sirviendo, Sirve, Scheduler, Lee, Responde, Muere,
     Busca, Empuja, Avisa, Recorre, Mata, Comprueba, Rechaza, Verifica, Cae, objetos
<1>5. QED
  BY <1>4 DEF Nadie1

(* Every place of the list that is left was a place of the list.           *)
LEMMA ListaRestos ==
    ASSUME lista \in Seq(Conexiones), lista' \in Seq(Conexiones), NEW k \in 1..Len(lista),
           SinLugar(lista', lista, k), NEW i \in DOMAIN lista', NEW j \in DOMAIN lista'
    PROVE  \E m, n \in DOMAIN lista :
             lista'[i] = lista[m] /\ lista'[j] = lista[n] /\ (m = n => i = j)
<1> DEFINE m == IF i < k THEN i ELSE i + 1  n == IF j < k THEN j ELSE j + 1
<1>1. /\ i \in 1..(Len(lista) - 1) /\ j \in 1..(Len(lista) - 1) /\ Len(lista) \in Nat
      /\ DOMAIN lista = 1..Len(lista)
  BY DEF SinLugar
<1>2. m \in DOMAIN lista /\ n \in DOMAIN lista /\ (m = n => i = j)
  BY <1>1
<1>3. lista'[i] = lista[m] /\ lista'[j] = lista[n]
  BY <1>1 DEF SinLugar
<1> HIDE DEF m, n
<1>4. QED
  BY <1>2, <1>3

(* Whoever is about to be added still has a name of its own.               *)
LEMMA PasoNombresLibres ==
    ASSUME TipoObjetos, TipoHilos, NombresLibres, Next
    PROVE  NombresLibres'
<1>1. ASSUME NEW c \in Conexiones, Pregunta(c) PROVE NombresLibres'
  <2> SUFFICES ASSUME ~cruzados', NEW e \in Conexiones, hilo'[e] = "agrega"
               PROVE  /\ ~existe_interfaz(Nombre[e])'
                      /\ \A d \in Conexiones : hilo'[d] = "agrega" /\ Nombre[d] = Nombre[e] => d = e
    BY DEF NombresLibres
  <2>1. ~cruzados /\ \A d \in Conexiones : hilo[d] = "agrega" => Nombre[d] # Nombre[c]
    BY <1>1 DEF Pregunta
  <2>2. UNCHANGED lista /\ \A n : existe_interfaz(n)' = existe_interfaz(n)
    BY <1>1, PreguntaPropiedades DEF objetos, existe_interfaz
  <2>3. \A d \in Conexiones : hilo'[d] = "agrega" => d = c \/ hilo[d] = "agrega"
    BY <1>1, PreguntaPropiedades
  <2>4. hilo'[c] = "agrega" => ~existe_interfaz(Nombre[c])
    BY <1>1, PreguntaPropiedades
  <2>5. QED
    BY <2>1, <2>2, <2>3, <2>4 DEF NombresLibres
<1>2. ASSUME NEW c \in Conexiones, agregar_interfaz_lista(c) PROVE NombresLibres'
  <2> SUFFICES ASSUME ~cruzados', NEW e \in Conexiones, hilo'[e] = "agrega"
               PROVE  /\ ~existe_interfaz(Nombre[e])'
                      /\ \A d \in Conexiones : hilo'[d] = "agrega" /\ Nombre[d] = Nombre[e] => d = e
    BY DEF NombresLibres
  <2>1. /\ ~cruzados /\ hilo[c] = "agrega" /\ hilo'[c] = "espera"
        /\ \A d \in Conexiones : d # c => hilo'[d] = hilo[d]
    BY <1>2 DEF agregar_interfaz_lista, Mueve, TipoHilos
  <2>2. hilo[e] = "agrega" /\ ~existe_interfaz(Nombre[e]) /\ Nombre[c] # Nombre[e]
    BY <2>1 DEF NombresLibres
  <2>3. \A d \in Conexiones : hilo'[d] = "agrega" /\ Nombre[d] = Nombre[e] => d = e
    BY <2>1, <2>2 DEF NombresLibres
  <2>4. /\ lista \in Seq(Conexiones) /\ lista' \in Seq(Conexiones) /\ Len(lista') = Len(lista) + 1
        /\ \A i \in DOMAIN lista' : lista'[i] = IF i = Len(lista) + 1 THEN c ELSE lista[i]
    BY <1>2, AgregarLista DEF TipoObjetos
  <2>5. \A i \in DOMAIN lista' : i \in DOMAIN lista \/ i = Len(lista) + 1
    BY <2>4
  <2>6. \A i \in DOMAIN lista' : Nombre[lista'[i]] # Nombre[e]
    BY <2>2, <2>4, <2>5 DEF existe_interfaz
  <2>7. QED
    BY <2>3, <2>6 DEF existe_interfaz
<1>3. ASSUME NEW c \in Conexiones, quitar_interfaz_lista(c) PROVE NombresLibres'
  <2>1. UNCHANGED cruzados
    BY <1>3 DEF quitar_interfaz_lista
  <2>2. \A e \in Conexiones : hilo'[e] = "agrega" => hilo[e] = "agrega"
    BY <1>3 DEF quitar_interfaz_lista, Cae, Mueve, TipoHilos
  <2>3. CASE UNCHANGED lista
    BY <2>1, <2>2, <2>3 DEF NombresLibres, existe_interfaz
  <2>4. ASSUME NEW k \in 1..Len(lista), lista' \in Seq(Conexiones), SinLugar(lista', lista, k)
        PROVE  NombresLibres'
    <3>1. \A i \in DOMAIN lista' : \E j \in DOMAIN lista : lista'[i] = lista[j]
      BY <2>4, ListaRestos DEF TipoObjetos
    <3>2. \A n : existe_interfaz(n)' => existe_interfaz(n)
      BY <3>1 DEF existe_interfaz
    <3>3. QED
      BY <2>1, <2>2, <3>2 DEF NombresLibres
  <2>5. QED
    BY <1>3, <2>3, <2>4, QuitarLista DEF TipoObjetos
<1>4. ASSUME UNCHANGED <<lista, cruzados>>,
             \A e \in Conexiones : hilo'[e] = "agrega" => hilo[e] = "agrega"
      PROVE  NombresLibres'
  BY <1>4 DEF NombresLibres, existe_interfaz
<1>5. QED
  BY <1>1, <1>2, <1>3, <1>4, NadieEntra

(* Names stay different, as long as no two connections raced.              *)
LEMMA PasoNombreUnico ==
    ASSUME TipoObjetos, TipoHilos, NombresLibres, NombreUnico, Next
    PROVE  NombreUnico'
<1>1. ASSUME NEW c \in Conexiones, Pregunta(c) PROVE NombreUnico'
  BY <1>1 DEF Pregunta, objetos, NombreUnico
<1>2. ASSUME NEW c \in Conexiones, agregar_interfaz_lista(c) PROVE NombreUnico'
  <2> SUFFICES ASSUME ~cruzados', NEW i \in DOMAIN lista', NEW j \in DOMAIN lista',
                      Nombre[lista'[i]] = Nombre[lista'[j]]
               PROVE  i = j
    BY DEF NombreUnico
  <2>1. ~cruzados /\ hilo[c] = "agrega"
    BY <1>2 DEF agregar_interfaz_lista
  <2>2. \A k \in DOMAIN lista : Nombre[lista[k]] # Nombre[c]
    BY <2>1 DEF NombresLibres, existe_interfaz
  <2>3. /\ lista \in Seq(Conexiones) /\ lista' \in Seq(Conexiones) /\ Len(lista') = Len(lista) + 1
        /\ \A k \in DOMAIN lista' : lista'[k] = IF k = Len(lista) + 1 THEN c ELSE lista[k]
    BY <1>2, AgregarLista DEF TipoObjetos
  <2>4. \A k \in DOMAIN lista' : k \in DOMAIN lista \/ k = Len(lista) + 1
    BY <2>3
  <2>5. \A k \in DOMAIN lista : k # Len(lista) + 1
    BY <2>3
  <2>6. QED
    BY <2>1, <2>2, <2>3, <2>4, <2>5 DEF NombreUnico
<1>3. ASSUME NEW c \in Conexiones, quitar_interfaz_lista(c) PROVE NombreUnico'
  <2>1. UNCHANGED cruzados
    BY <1>3 DEF quitar_interfaz_lista
  <2>2. CASE UNCHANGED lista
    BY <2>1, <2>2 DEF NombreUnico
  <2>3. ASSUME NEW k \in 1..Len(lista), lista' \in Seq(Conexiones), SinLugar(lista', lista, k)
        PROVE  NombreUnico'
    <3>1. lista \in Seq(Conexiones)
      BY DEF TipoObjetos
    <3>2. ASSUME ~cruzados, NEW i \in DOMAIN lista', NEW j \in DOMAIN lista',
                 Nombre[lista'[i]] = Nombre[lista'[j]]
          PROVE  i = j
      BY <2>3, <3>1, <3>2, ListaRestos DEF NombreUnico
    <3>3. QED
      BY <2>1, <3>2 DEF NombreUnico
  <2>4. QED
    BY <1>3, <2>2, <2>3, QuitarLista DEF TipoObjetos
<1>4. ASSUME UNCHANGED <<lista, cruzados>> PROVE NombreUnico'
  BY <1>4 DEF NombreUnico
<1>5. QED
  BY <1>1, <1>2, <1>3, <1>4, NadieEntra

-----------------------------------------------------------------------------
(* IInv holds at first, and every step keeps it.                           *)
LEMMA IInvInicial == InterfacesAssumption /\ Init => IInv
<1> SUFFICES ASSUME InterfacesAssumption, Init PROVE IInv
  OBVIOUS
<1>1. TypeOK
  <2>1. TipoObjetos /\ TipoHilos
    BY DEF Init, TipoObjetos, TipoHilos
  <2>2. TipoProcesos /\ TipoHistoria
    BY DEF Init, TipoProcesos, TipoHistoria
  <2>3. TipoKernel
    BY DEF Init, TipoKernel, Reposo, Quieta
  <2>4. QED
    BY <2>1, <2>2, <2>3, TipoPartes
<1>2. Enlistadas /\ Vacias /\ Sueltas /\ Pares /\ Primera /\ Distintos(cola) /\ Bloqueados
  BY DEF Init, Enlistadas, Vacias, Sueltas, Pares, Primera, Distintos, Bloqueados, Retirandose
<1>3. kernel.paso = "nada"
  BY DEF Init, Reposo
<1>4. Peticion /\ Busqueda
  BY <1>3 DEF Init, Peticion, KernelReposa, PeticionPid, PeticionCon, PeticionNombre, Busqueda
<1>5. Cubierta /\ Exacta /\ Respuestas
  BY DEF Init, Cubierta, Exacta, Atiende, Respuestas
<1>6. NombresLibres /\ NombreUnico /\ CaidaConCausa
  BY DEF Init, NombresLibres, NombreUnico, CaidaConCausa
<1>7. QED
  BY <1>1, <1>2, <1>4, <1>5, <1>6 DEF IInv

(* The inductive step.                                                     *)
LEMMA IInvPaso == InterfacesAssumption /\ IInv /\ Next => IInv'
<1> SUFFICES ASSUME InterfacesAssumption, IInv, Next PROVE IInv'
  OBVIOUS
<1>1. /\ TipoObjetos /\ TipoHilos /\ TipoProcesos /\ TipoKernel
      /\ KernelReposa /\ PeticionPid /\ PeticionCon /\ PeticionNombre
  BY TipoPartes DEF IInv, Peticion
<1>2. /\ Enlistadas /\ Vacias /\ Sueltas /\ Pares /\ Busqueda /\ Primera /\ Distintos(cola)
      /\ Bloqueados /\ Cubierta /\ Exacta /\ Respuestas /\ NombresLibres /\ NombreUnico
      /\ TypeOK /\ Peticion
  BY DEF IInv
<1>3. caido = "no"
  BY DEF Next
<1>4. TypeOK' /\ Enlistadas' /\ Vacias' /\ Sueltas' /\ Pares'
  BY <1>1, <1>2, PasoTipo, PasoEnlistadas, PasoVacias, PasoSueltas, PasoPares
<1>5. Peticion' /\ Busqueda'
  BY <1>1, <1>2, PasoPeticionPid, PasoPeticionCon, PasoPeticionNombre, PasoReposo, PasoBusqueda
     DEF Peticion
<1>6. Primera' /\ Distintos(cola') /\ Bloqueados' /\ Respuestas'
  BY <1>1, <1>2, PasoPrimera, PasoDistintos, PasoBloqueados, PasoRespuestas
<1>7. Cubierta' /\ Exacta'
  BY <1>1, <1>2, PasoCuenta
<1>8. NombresLibres' /\ NombreUnico' /\ CaidaConCausa'
  BY <1>1, <1>2, <1>3, PasoNombresLibres, PasoNombreUnico, PasoCaida
<1>9. QED
  BY <1>4, <1>5, <1>6, <1>7, <1>8 DEF IInv

(* A stutter keeps it too.                                                 *)
LEMMA IInvQuieto == IInv /\ UNCHANGED vars => IInv'
<1> SUFFICES ASSUME IInv, UNCHANGED vars PROVE IInv'
  OBVIOUS
<1>1. TypeOK' /\ Enlistadas' /\ Vacias' /\ Sueltas' /\ Pares'
  BY DEF IInv, vars, TypeOK, Enlistadas, Vacias, Sueltas, Pares
<1>2. Peticion' /\ Busqueda'
  BY DEF IInv, vars, Peticion, KernelReposa, PeticionPid, PeticionCon, PeticionNombre, Busqueda,
     existe_interfaz, AlguienSeRetira
<1>3. Primera' /\ Distintos(cola') /\ Bloqueados' /\ Respuestas'
  BY DEF IInv, vars, Primera, Bloqueados, Respuestas, Respondida
<1>4. Cubierta' /\ Exacta'
  BY DEF IInv, vars, Cubierta, Exacta, Tomada, AvisoPara
<1>5. NombresLibres' /\ NombreUnico' /\ CaidaConCausa'
  BY DEF IInv, vars, NombresLibres, NombreUnico, CaidaConCausa, existe_interfaz
<1>6. QED
  BY <1>1, <1>2, <1>3, <1>4, <1>5 DEF IInv

(* IInv is invariant.                                                      *)
LEMMA IInvSiempre == Spec => []IInv
<1>1. Init => IInv
  BY IInvInicial, InterfacesAssumption
<1>2. IInv /\ [Next]_vars => IInv'
  BY IInvPaso, IInvQuieto, InterfacesAssumption
<1>3. QED
  BY <1>1, <1>2, PTL DEF Spec

-----------------------------------------------------------------------------
(* Type correctness of Interfaces.                                         *)
THEOREM TipoCorrecto == Spec => []TypeOK
<1>1. IInv => TypeOK
  BY DEF IInv
<1>2. QED
  BY <1>1, IInvSiempre, PTL

(* The process a thread sends on is always the one whose request it takes  *)
(* out, and nobody is in two queues: conexiones.c takes solicitud_io       *)
(* before the send and pops the queue after the answer, and every kill in  *)
(* between leaves the first place alone.                                   *)
THEOREM SolicitudPrimeraSiempre == Spec => []SolicitudPrimera
<1>1. IInv => SolicitudPrimera
  <2> SUFFICES ASSUME IInv PROVE SolicitudPrimera
    OBVIOUS
  <2>1. Primera /\ Distintos(cola) /\ Bloqueados
    BY DEF IInv
  <2>2. QED
    BY <2>1 DEF Primera, Distintos, Bloqueados, SolicitudPrimera
<1>2. QED
  BY <1>1, IInvSiempre, PTL

(* No thread of an interface sleeps in hay_proceso_cola over a request.    *)
THEOREM NadieDuermeSiempre == Spec => []NadieDuerme
<1>1. IInv => NadieDuerme
  <2> SUFFICES ASSUME IInv PROVE NadieDuerme
    OBVIOUS
  <2>1. Cubierta /\ Sueltas
    BY DEF IInv
  <2>2. QED
    BY <2>1 DEF Cubierta, Sueltas, Tomada, AvisoPara, Atiende, NadieDuerme
<1>2. QED
  BY <1>1, IInvSiempre, PTL

(* Memory is misused only after a lost interface or after a kill that took *)
(* out a request that waited: without the first, no null and no freed      *)
(* interface; without the second, no freed request.                        *)
THEOREM CaidaSoloConCausa == Spec => []CaidaConCausa
<1>1. IInv => CaidaConCausa
  BY DEF IInv
<1>2. QED
  BY <1>1, IInvSiempre, PTL

(* Names in the list of interfaces are different unless two connections    *)
(* passed the check of procesarConexionesIO at once.                       *)
THEOREM NombreUnicoSiempre == Spec => []NombreUnico
<1>1. IInv => NombreUnico
  BY DEF IInv
<1>2. QED
  BY <1>1, IInvSiempre, PTL

(* No process goes on from an interface before it was served, or after a   *)
(* kill marked it.                                                         *)
LEMMA PasoServida ==
    ASSUME TipoObjetos, TipoHilos, TipoProcesos, TipoKernel, Primera, Respuestas, PeticionPid,
           Busqueda, Next, NEW p \in Pids, estado[p] = "cola", estado'[p] = "libre"
    PROVE  /\ destino[p] = "READY"
           /\ \E c \in Conexiones : /\ solicitud[c] = p
                                    /\ mensaje[c] = "respondido" \/ par[c] = "reset"
<1>1. ASSUME NEW c \in Conexiones, Devuelve(c)
      PROVE  /\ destino[p] = "READY"
             /\ solicitud[c] = p /\ (mensaje[c] = "respondido" \/ par[c] = "reset")
  <2>1. /\ hilo[c] = "turno" /\ solicitud[c] \in Pids /\ solicitud[c] # Nadie
        /\ estado' = [estado EXCEPT ![solicitud[c]] = Devuelto(solicitud[c])]
    BY <1>1, DevuelveProceso, InterfacesAssumption DEF InterfacesAssumption
  <2>2. solicitud[c] = p /\ Devuelto(p) = "libre"
    BY <2>1 DEF TipoProcesos
  <2>3. QED
    BY <2>1, <2>2 DEF Devuelto, Respuestas, Respondida
<1>2. ASSUME NEW q, NEW e, e # "libre", estado' = [estado EXCEPT ![q] = e] PROVE FALSE
  BY <1>2 DEF TipoProcesos
<1>3. ASSUME UNCHANGED estado PROVE FALSE
  BY <1>3
<1>4. ASSUME NEW c \in Conexiones, Drena(c) PROVE FALSE
  <2>1. UNCHANGED estado \/ estado' = [estado EXCEPT ![cola[c][1]] = "fin"]
    BY <1>4, DrenaProceso
  <2>2. QED
    BY <1>2, <1>3, <2>1
<1>5. ASSUME Empuja PROVE FALSE
  <2>1. UNCHANGED estado \/ estado' = [estado EXCEPT ![kernel.pid] = "cola"]
    BY <1>5, EmpujaKernel
  <2>2. QED
    BY <1>2, <1>3, <2>1
<1>6. ASSUME Recorre PROVE FALSE
  <2>1. UNCHANGED estado \/ estado' = [estado EXCEPT ![mata.pid] = "fin"]
    BY <1>6, RecorreCola
  <2>2. QED
    BY <1>2, <1>3, <2>1
<1>7. ASSUME NEW q \in Pids, NEW n \in Nombres, Comprueba(q, n) PROVE FALSE
  BY <1>2, <1>7, CompruebaKernel
<1>8. QED
  BY <1>1, <1>3, <1>4, <1>5, <1>6, <1>7 DEF Next, Paso, Hilo, Sirve, Scheduler, Pregunta,
     agregar_interfaz_lista, Toma, RecibeRespuesta, quitar_interfaz_lista,
     liberar_recursos_interfaz, Lee, Responde, Muere, Busca, Avisa, Mata, Cae, procesos

THEOREM ServidaSiempre == Spec => ServidaAntesDeSeguir
<1> DEFINE Servida(p) ==
      estado[p] = "cola" /\ estado'[p] = "libre" =>
        /\ destino[p] = "READY"
        /\ \E c \in Conexiones : /\ solicitud[c] = p
                                 /\ mensaje[c] = "respondido" \/ par[c] = "reset"
<1>1. IInv /\ [Next]_vars => [\A p \in Pids : Servida(p)]_vars
  <2> SUFFICES ASSUME IInv, Next PROVE \A p \in Pids : Servida(p)
    OBVIOUS
  <2>1. /\ TipoObjetos /\ TipoHilos /\ TipoProcesos /\ TipoKernel
        /\ Primera /\ Respuestas /\ PeticionPid /\ Busqueda
    BY TipoPartes DEF IInv, Peticion
  <2>2. QED
    BY <2>1, PasoServida
<1>2. QED
  BY <1>1, IInvSiempre, PTL DEF Spec, ServidaAntesDeSeguir
=============================================================================
