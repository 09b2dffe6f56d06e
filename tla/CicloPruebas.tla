---------------------------- MODULE CicloPruebas ----------------------------
(* Proofs about module CicloCPU, for every number of processes, every      *)
(* program and every algorithm: the two sides of the dispatch socket agree *)
(* on whose turn it is, each instruction is charged once, nobody is taken  *)
(* out of the CPU by an interrupt meant for another or for an earlier      *)
(* dispatch, and the registers of a process only change when one of its    *)
(* own instructions runs.                                                  *)
(*                                                                         *)
(* The exchange is a sequence of stages, each a predicate that says where  *)
(* the process in EXEC is and what the copies of its pcb hold; the         *)
(* inductive invariant is that one of the stages holds.  An action leaves  *)
(* one or two of them and enters one.                                      *)
EXTENDS CicloCPU, TLAPS

Interrupciones == [pid : Pids \cup {Nadie}, motivo : Relojes]

EsRegistro(x) ==
    x = [pid |-> x.pid, pc |-> x.pc, quantum |-> x.quantum, estado |-> x.estado,
         registros |-> x.registros]

EsProceso(x, p) == EsRegistro(x) /\ x.pid = p /\ x.quantum \in Int

(* The interrupt in the slot came while the process was in the CPU.        *)
SlotAlDia == interrupcion = SinInterrupcion \/ interrupcion \in llegaron

(* What the CPU holds of the process in EXEC, with carga still to charge.  *)
Tiene(carga) ==
    /\ corre \in Pids /\ EsProceso(pcb, corre) /\ pcb.estado = "EXEC"
    /\ pcb.quantum - carga = Resto(corre)
    /\ registro = establecer_contexto(pcb)
    /\ SlotAlDia

(* The CPU waits for an answer about a process that is not in it any more. *)
Abandonado ==
    /\ pcb.pid \in Pids /\ EsRegistro(pcb)
    /\ registro = establecer_contexto(guardado[pcb.pid])

(* The kernel's copy of the process in EXEC is the one to run from.        *)
Vigente == corre \in Pids /\ guardado[corre].quantum = Resto(corre)

Ocioso == fase = "libre" /\ corre = Nadie /\ alCPU = <<>> /\ contexto = <<>>

OciosoConAviso ==
    /\ fase = "aviso" /\ corre = Nadie /\ alCPU = <<NUEVO_PID>> /\ contexto = <<>>
    /\ Abandonado

Enviado ==
    /\ fase = "libre" /\ Vigente
    /\ alCPU = <<enviar_pcb(guardado[corre])>> /\ contexto = <<>>

EnviadoConAviso ==
    /\ fase = "aviso" /\ Vigente
    /\ alCPU = <<NUEVO_PID, enviar_pcb(guardado[corre])>> /\ contexto = <<>>
    /\ Abandonado

Ejecutando == fase = "ejecuta" /\ alCPU = <<>> /\ contexto = <<>> /\ Tiene(0)

Chequeando == fase = "chequea" /\ alCPU = <<>> /\ contexto = <<>> /\ Tiene(0) /\ hechas = 1

Devuelto ==
    /\ fase = "libre" /\ corre \in Pids /\ alCPU = <<>>
    /\ EsProceso(Recibido, corre) /\ contexto = Contexto(Recibido, Motivo(contexto))
    /\ Motivo(contexto) \in Motivos \ Sincronas
    /\ Motivo(contexto) = "IO" => Recibido.quantum = Resto(corre)
    /\ Motivo(contexto) \in Relojes =>
         [pid |-> corre, motivo |-> Motivo(contexto)] \in llegaron /\ hechas = 1

Pidiendo ==
    /\ fase = "aviso" /\ alCPU = <<>> /\ Tiene(Retardo) /\ hechas = 1
    /\ contexto = Contexto(pcb, Motivo(contexto)) /\ Motivo(contexto) \in Sincronas

Concedido ==
    /\ fase = "aviso" /\ alCPU = <<MISMO_PID>> /\ contexto = <<>>
    /\ Tiene(Retardo) /\ hechas = 1

(* A kill took the place of the request: the answer never comes, and the   *)
(* head of the next pcb is taken for it.                                   *)
SinRespuesta ==
    /\ cortado /\ contexto = <<>>
    /\ \/ fase = "aviso" /\ corre = Nadie /\ alCPU = <<>> /\ Abandonado
       \/ /\ fase = "aviso" /\ corre \in Pids /\ Abandonado
          /\ alCPU = <<enviar_pcb(guardado[corre])>>
       \/ fase = "desfasada" /\ corre \in Pids /\ alCPU = <<>>

Etapa ==
    \/ Ocioso \/ OciosoConAviso \/ Enviado \/ EnviadoConAviso \/ Ejecutando \/ Chequeando
    \/ Devuelto \/ Pidiendo \/ Concedido \/ SinRespuesta

(* What holds at every stage.                                              *)
Formas ==
    /\ guardado = [p \in Pids |-> guardado[p]]
    /\ \A p \in Pids : EsProceso(guardado[p], p)
    /\ corre \in Pids \cup {Nadie} /\ reloj \in Pids \cup {Nadie}
    /\ intUsuario \in BOOLEAN /\ cortado \in BOOLEAN
    /\ enVuelo \subseteq Interrupciones /\ interrupcion \in Interrupciones
    /\ gasto \in [Pids -> Nat]

Guardados ==
    /\ corre # Nadie => guardado[corre].estado = "EXEC"
    /\ \A p \in Pids : guardado[p].estado \in {"READY", "BLOCKED"} =>
                         guardado[p].quantum = Resto(p)

IInv == Formas /\ Guardados /\ Etapa

-----------------------------------------------------------------------------
(* The kernel reads from a context what the CPU wrote in it: the two lay   *)
(* the fields of a pcb out in the same order (armar_paquete_pcb and        *)
(* actualizar_pcb_ejecutado).                                              *)
LEMMA ContextoLeido ==
    ASSUME NEW x, NEW m, EsRegistro(x)
    PROVE  /\ Contexto(x, m) # <<>> /\ Contexto(x, m)[1] = x.pid
           /\ actualizar_pcb_ejecutado(Contexto(x, m)) = x /\ Motivo(Contexto(x, m)) = m
<1> DEFINE s == <<x.pid, x.pc, x.estado, x.quantum, x.registros>>
<1>1. s \in Seq({x.pid, x.pc, x.estado, x.quantum, x.registros}) /\ Len(s) = 5
    OBVIOUS
<1>2. /\ Len(Append(s, m)) = 6 /\ Append(s, m)[6] = m
      /\ \A i \in 1..5 : Append(s, m)[i] = s[i]
    OBVIOUS
<1>3. s[1] = x.pid /\ s[2] = x.pc /\ s[3] = x.estado /\ s[4] = x.quantum /\ s[5] = x.registros
    OBVIOUS
<1>4. Append(s, m) # <<>>
    BY <1>2
<1>5. Contexto(x, m) = Append(s, m)
    BY DEF Contexto, armar_paquete_pcb
<1> HIDE DEF s
<1> QED
    BY <1>2, <1>3, <1>4, <1>5 DEF actualizar_pcb_ejecutado, Motivo, EsRegistro

(* And the CPU what the kernel sent (enviar_pcb and recibir_pcb).          *)
LEMMA PcbLeido ==
    ASSUME NEW x, EsRegistro(x)
    PROVE  recibir_pcb(enviar_pcb(x)) = x
    BY DEF recibir_pcb, enviar_pcb, EsRegistro

(* A pcb on the dispatch socket is not an answer.                          *)
LEMMA PcbNoEsAviso ==
    ASSUME NEW x
    PROVE  enviar_pcb(x) \notin Avisos
    BY DEF enviar_pcb, Avisos, MISMO_PID, NUEVO_PID

(* The two answers of the kernel to WAIT and SIGNAL differ.                *)
LEMMA AvisosDistintos ==
    MISMO_PID \in Avisos /\ NUEVO_PID \in Avisos /\ NUEVO_PID # MISMO_PID
    BY DEF Avisos, MISMO_PID, NUEVO_PID

(* The dispatch socket never holds more than an answer and a pcb: its      *)
(* first element, and what is left without it.                             *)
LEMMA ColaDeUno ==
    ASSUME NEW a
    PROVE  /\ Head(<<a>>) = a /\ Tail(<<a>>) = <<>>
           /\ <<a>> # <<>> /\ Append(<<>>, a) = <<a>>
    OBVIOUS

(* The same for two messages.                                              *)
LEMMA ColaDeDos ==
    ASSUME NEW a, NEW b
    PROVE  /\ Head(<<a, b>>) = a /\ Tail(<<a, b>>) = <<b>>
           /\ <<a, b>> # <<>> /\ Append(<<a>>, b) = <<a, b>>
<1>1. Head(<<a, b>>) = a /\ <<a, b>> # <<>>
    OBVIOUS
<1>2. Tail(<<a, b>>) = <<b>>
  <2> DEFINE t == Tail(<<a, b>>)
  <2>1. <<a, b>> \in Seq({a, b}) /\ Len(<<a, b>>) = 2 /\ <<a, b>>[2] = b
    OBVIOUS
  <2>2. t \in Seq({a, b}) /\ Len(t) = 1 /\ t[1] = b
    BY <2>1
  <2>3. t = [i \in 1..1 |-> t[i]]
    BY <2>2
  <2>4. <<b>> = [i \in 1..1 |-> b]
    OBVIOUS
  <2> QED
    BY <2>2, <2>3, <2>4
<1>3. Append(<<a>>, b) = <<a, b>>
  <2> DEFINE t == Append(<<a>>, b)
  <2>1. <<a>> \in Seq({a, b}) /\ Len(<<a>>) = 1 /\ <<a>>[1] = a /\ b \in {a, b}
    OBVIOUS
  <2>2. t \in Seq({a, b}) /\ Len(t) = 2 /\ t[1] = a /\ t[2] = b
    BY <2>1
  <2>3. t = [i \in 1..2 |-> t[i]]
    BY <2>2
  <2>4. <<a, b>> = [i \in 1..2 |-> <<a, b>>[i]]
    OBVIOUS
  <2>5. \A i \in 1..2 : t[i] = <<a, b>>[i]
    BY <2>2
  <2> QED
    BY <2>3, <2>4, <2>5
<1> QED
    BY <1>1, <1>2, <1>3

(* A pcb with its state and its quantum changed is a pcb, of the same      *)
(* process with the same registers.                                        *)
LEMMA PcbModificado ==
    ASSUME NEW x, NEW e, NEW q, NEW y,
           y = [pid |-> x.pid, pc |-> x.pc, quantum |-> q, estado |-> e,
                registros |-> x.registros]
    PROVE  /\ EsRegistro(y) /\ y.estado = e /\ y.pid = x.pid /\ y.quantum = q
           /\ establecer_contexto(y) = establecer_contexto(x)
    BY DEF EsRegistro, establecer_contexto

(* One instruction more costs Retardo more (Resto), and none costs nothing. *)
LEMMA Cobro ==
    ASSUME NEW g \in Nat
    PROVE  /\ Retardo * g \in Nat
           /\ Quantum - Retardo * (g + 1) = (Quantum - Retardo * g) - Retardo
           /\ Quantum - Retardo * 0 = Quantum
<1>1. Retardo \in Nat /\ Quantum \in Nat
    BY CicloAssumption
<1>2. Retardo * g \in Nat /\ Retardo * (g + 1) = Retardo * g + Retardo /\ Retardo * 0 = 0
    BY <1>1
<1> QED
    BY <1>1, <1>2

-----------------------------------------------------------------------------
(* With a context in the socket the process in EXEC has left the CPU, or   *)
(* waits in it for an answer, and the kernel reads its pcb.                *)
LEMMA ConContexto ==
    ASSUME IInv, contexto # <<>>
    PROVE  /\ corre \in Pids /\ EsProceso(Recibido, corre) /\ alCPU = <<>>
           /\ Devuelto \/ (Pidiendo /\ Recibido = pcb)
<1>1. Devuelto \/ Pidiendo
    BY DEF IInv, Etapa, Ocioso, OciosoConAviso, Enviado, EnviadoConAviso, Ejecutando,
           Chequeando, Concedido, SinRespuesta
<1>2. CASE Devuelto
    BY <1>2 DEF Devuelto
<1>3. CASE Pidiendo
  <2>1. EsProceso(pcb, corre) /\ contexto = Contexto(pcb, Motivo(contexto))
    BY <1>3 DEF Pidiendo, Tiene
  <2>2. Recibido = pcb
    BY <2>1, ContextoLeido DEF EsProceso, Recibido
  <2> QED
    BY <1>3, <2>1, <2>2 DEF Pidiendo, Tiene
<1> QED
    BY <1>1, <1>2, <1>3

(* Deja and DejaRenovado: the pcb the kernel keeps from now on is r.       *)
LEMMA DejadoEnSuLugar ==
    ASSUME IInv, contexto # <<>>, NEW motivos, Recibe(motivos),
           NEW r, EsProceso(r, corre), guardado' = [guardado EXCEPT ![corre] = r],
           corre' = Nadie, reloj' = Nadie,
           gasto' = gasto \/ gasto' = [gasto EXCEPT ![corre] = 0],
           r.estado \in {"READY", "BLOCKED"} => r.quantum = Quantum - Retardo * gasto'[corre]
    PROVE  Formas' /\ Guardados' /\ guardado'[corre] = r
<1>1. corre \in Pids
    BY ConContexto
<1>2. Formas
    BY DEF IInv
<1>3. gasto' \in [Pids -> Nat] /\ \A p \in Pids \ {corre} : gasto'[p] = gasto[p]
    BY <1>1, <1>2 DEF Formas
<1>4. /\ guardado' = [p \in Pids |-> guardado'[p]] /\ guardado'[corre] = r
      /\ \A p \in Pids \ {corre} : guardado'[p] = guardado[p]
    BY <1>1, <1>2 DEF Formas
<1>5. \A p \in Pids : EsProceso(guardado'[p], p)
    BY <1>1, <1>2, <1>4 DEF Formas
<1>6. Formas'
    BY <1>1, <1>2, <1>3, <1>4, <1>5 DEF Formas, Recibe
<1>7. Guardados'
  <2>1. ASSUME NEW p \in Pids, guardado'[p].estado \in {"READY", "BLOCKED"}
        PROVE  guardado'[p].quantum = Quantum - Retardo * gasto'[p]
    <3>1. CASE p = corre
        BY <2>1, <3>1, <1>4
    <3>2. CASE p # corre
        BY <2>1, <3>2, <1>3, <1>4 DEF IInv, Guardados, Resto
    <3> QED
        BY <3>1, <3>2
  <2> QED
    BY <2>1 DEF Guardados, Resto
<1> QED
    BY <1>4, <1>6, <1>7

(* The process leaves for good or for a while: the CPU is free, or hears   *)
(* that it is, unless it asked for a resource and a kill took the place of *)
(* what it asked.                                                          *)
LEMMA TurnoTerminado ==
    ASSUME IInv, contexto # <<>>, NEW motivos, Recibe(motivos),
           NEW r, EsProceso(r, corre), guardado' = [guardado EXCEPT ![corre] = r],
           corre' = Nadie, reloj' = Nadie,
           gasto' = gasto \/ gasto' = [gasto EXCEPT ![corre] = 0],
           r.estado \in {"READY", "BLOCKED"} => r.quantum = Quantum - Retardo * gasto'[corre],
           establecer_contexto(r) = establecer_contexto(Recibido),
           \/ alCPU' = alCPU /\ (Motivo(contexto) \in Sincronas => intUsuario)
           \/ alCPU' = Append(alCPU, NUEVO_PID) /\ Motivo(contexto) \in Sincronas
    PROVE  IInv'
<1>1. /\ corre \in Pids /\ EsProceso(Recibido, corre) /\ alCPU = <<>>
      /\ Devuelto \/ (Pidiendo /\ Recibido = pcb)
    BY ConContexto
<1>2. Formas' /\ Guardados' /\ guardado'[corre] = r
    BY DejadoEnSuLugar
<1>3. /\ fase' = fase /\ pcb' = pcb /\ registro' = registro /\ contexto' = <<>>
      /\ cortado' = (cortado \/ (intUsuario /\ Motivo(contexto) \in Sincronas))
    BY DEF Recibe, cpu
<1>4. CASE Devuelto
  <2>1. Motivo(contexto) \notin Sincronas /\ fase = "libre"
    BY <1>4 DEF Devuelto
  <2>2. Ocioso'
    BY <1>1, <1>3, <2>1 DEF Ocioso
  <2> QED
    BY <1>2, <2>2 DEF IInv, Etapa
<1>5. CASE Pidiendo /\ Recibido = pcb
  <2>1. /\ Motivo(contexto) \in Sincronas /\ fase = "aviso"
        /\ registro = establecer_contexto(pcb) /\ pcb.pid = corre /\ EsRegistro(pcb)
    BY <1>5 DEF Pidiendo, Tiene, EsProceso
  <2>2. Abandonado'
    BY <1>1, <1>2, <1>3, <1>5, <2>1 DEF Abandonado
  <2>3. CASE alCPU' = alCPU /\ intUsuario
    <3>1. SinRespuesta'
        BY <1>1, <1>3, <2>1, <2>2, <2>3 DEF SinRespuesta
    <3> QED
        BY <1>2, <3>1 DEF IInv, Etapa
  <2>4. CASE alCPU' = Append(alCPU, NUEVO_PID)
    <3>1. alCPU' = <<NUEVO_PID>>
        BY <1>1, <2>4, ColaDeUno
    <3>2. OciosoConAviso'
        BY <1>3, <2>1, <2>2, <3>1 DEF OciosoConAviso
    <3> QED
        BY <1>2, <3>2 DEF IInv, Etapa
  <2> QED
    BY <2>1, <2>3, <2>4
<1> QED
    BY <1>1, <1>4, <1>5

(* Deja and DejaRenovado keep what the CPU gave back.                      *)
LEMMA DejaElContexto ==
    ASSUME IInv, contexto # <<>>, NEW motivos, Recibe(motivos), NEW estado,
           \/ /\ Deja(estado)
              /\ estado \in {"READY", "BLOCKED"} => Recibido.quantum = Resto(corre)
           \/ DejaRenovado(estado),
           \/ alCPU' = alCPU /\ (Motivo(contexto) \in Sincronas => intUsuario)
           \/ alCPU' = Append(alCPU, NUEVO_PID) /\ Motivo(contexto) \in Sincronas
    PROVE  IInv'
<1>1. corre \in Pids /\ EsProceso(Recibido, corre) /\ EsRegistro(Recibido)
    BY ConContexto DEF EsProceso
<1>2. CASE Deja(estado) /\ (estado \in {"READY", "BLOCKED"} => Recibido.quantum = Resto(corre))
  <2> DEFINE r == [Recibido EXCEPT !.estado = estado]
  <2>1. /\ EsProceso(r, corre) /\ r.estado = estado /\ r.quantum = Recibido.quantum
        /\ establecer_contexto(r) = establecer_contexto(Recibido)
    <3>1. r = [pid |-> Recibido.pid, pc |-> Recibido.pc, quantum |-> Recibido.quantum,
               estado |-> estado, registros |-> Recibido.registros]
        BY DEF Recibido, actualizar_pcb_ejecutado
    <3> HIDE DEF r
    <3>2. /\ EsRegistro(r) /\ r.estado = estado /\ r.pid = Recibido.pid
          /\ r.quantum = Recibido.quantum
          /\ establecer_contexto(r) = establecer_contexto(Recibido)
        BY <3>1, PcbModificado
    <3> QED
        BY <1>1, <3>2 DEF EsProceso
  <2>2. /\ guardado' = [guardado EXCEPT ![corre] = r] /\ corre' = Nadie /\ reloj' = Nadie
        /\ gasto' = gasto
    BY <1>2 DEF Deja
  <2>3. r.estado \in {"READY", "BLOCKED"} => r.quantum = Quantum - Retardo * gasto'[corre]
    BY <1>2, <2>1, <2>2 DEF Resto
  <2> HIDE DEF r
  <2> QED
    BY <2>1, <2>2, <2>3, TurnoTerminado
<1>3. CASE DejaRenovado(estado)
  <2> DEFINE r == [Recibido EXCEPT !.estado = estado, !.quantum = Quantum]
  <2>1. /\ EsProceso(r, corre) /\ r.estado = estado /\ r.quantum = Quantum
        /\ establecer_contexto(r) = establecer_contexto(Recibido)
    <3>1. r = [pid |-> Recibido.pid, pc |-> Recibido.pc, quantum |-> Quantum,
               estado |-> estado, registros |-> Recibido.registros]
      <4> DEFINE z == [Recibido EXCEPT !.estado = estado]
      <4>1. z = [pid |-> Recibido.pid, pc |-> Recibido.pc, quantum |-> Recibido.quantum,
                 estado |-> estado, registros |-> Recibido.registros]
          BY DEF Recibido, actualizar_pcb_ejecutado
      <4>2. r = [z EXCEPT !.quantum = Quantum]
          OBVIOUS
      <4> HIDE DEF z, r
      <4> QED
          BY <4>1, <4>2
    <3> HIDE DEF r
    <3>2. /\ EsRegistro(r) /\ r.estado = estado /\ r.pid = Recibido.pid
          /\ r.quantum = Quantum
          /\ establecer_contexto(r) = establecer_contexto(Recibido)
        BY <3>1, PcbModificado
    <3> QED
        BY <1>1, <3>2, CicloAssumption DEF EsProceso
  <2>2. /\ guardado' = [guardado EXCEPT ![corre] = r] /\ corre' = Nadie /\ reloj' = Nadie
        /\ gasto' = [gasto EXCEPT ![corre] = 0]
    BY <1>3 DEF DejaRenovado
  <2>3. Quantum - Retardo * gasto'[corre] = Quantum
    BY <1>1, <2>2, Cobro DEF IInv, Formas
  <2> HIDE DEF r
  <2> QED
    BY <2>1, <2>2, <2>3, TurnoTerminado
<1> QED
    BY <1>2, <1>3

(* Without a kill, or with one, the motive is one of those the action      *)
(* handles.                                                                *)
LEMMA MotivoRecibido ==
    ASSUME NEW motivos, Recibe(motivos), "USER_INTERRUPT" \notin motivos
    PROVE  ~intUsuario /\ Motivo(contexto) \in motivos
    BY DEF Recibe, MotivoVisto

(* The end of a process, and the kill that takes the place of any motive:  *)
(* the only way to leave the CPU without its answer.                       *)
LEMMA PasoTermina ==
    ASSUME IInv, Termina
    PROVE  IInv'
<1>1. /\ Recibe({"EXIT", "OUT_OF_MEMORY", "USER_INTERRUPT"}) /\ Deja("EXIT")
      /\ alCPU' = alCPU /\ contexto # <<>>
    BY DEF Termina, Recibe
<1>2. Motivo(contexto) \in Sincronas => intUsuario
    BY <1>1 DEF Recibe, MotivoVisto, Sincronas
<1> QED
    BY <1>1, <1>2, DejaElContexto

(* A quantum that ran out is renewed.                                      *)
LEMMA PasoFinDeQuantum ==
    ASSUME IInv, FinDeQuantum
    PROVE  IInv'
<1>1. /\ Recibe({"INTERRUPCION_QUANTUM"}) /\ DejaRenovado("READY")
      /\ alCPU' = alCPU /\ contexto # <<>>
    BY DEF FinDeQuantum, Recibe
<1>2. Motivo(contexto) \notin Sincronas
    BY <1>1, MotivoRecibido DEF Sincronas
<1> QED
    BY <1>1, <1>2, DejaElContexto

(* A request to an interface, known or not: what is left of the quantum is *)
(* what the CPU charged, or a whole one.                                   *)
LEMMA PasoIO ==
    ASSUME IInv, BloqueaPorIO \/ InterfazInvalida
    PROVE  IInv'
<1>1. Recibe({"IO"}) /\ alCPU' = alCPU /\ contexto # <<>>
    BY DEF BloqueaPorIO, InterfazInvalida, Recibe
<1>2. Motivo(contexto) = "IO" /\ Motivo(contexto) \notin Sincronas
    BY <1>1, MotivoRecibido DEF Sincronas
<1>3. Recibido.quantum = Resto(corre)
    BY <1>1, <1>2, ConContexto DEF Devuelto, Pidiendo
<1>4. DejaRenovado("BLOCKED") \/ Deja("BLOCKED") \/ Deja("EXIT")
    BY DEF BloqueaPorIO, InterfazInvalida
<1> QED
    BY <1>1, <1>2, <1>3, <1>4, DejaElContexto

(* A WAIT that blocks and a resource that does not exist: the CPU is told  *)
(* to take another pcb.                                                    *)
LEMMA PasoSinRecurso ==
    ASSUME IInv, BloqueaPorRecurso \/ RecursoInvalido
    PROVE  IInv'
<1>1. CASE BloqueaPorRecurso
  <2>1. /\ Recibe({"WAIT"}) /\ DejaRenovado("BLOCKED") /\ alCPU' = Append(alCPU, NUEVO_PID)
        /\ contexto # <<>>
    BY <1>1 DEF BloqueaPorRecurso, Recibe
  <2>2. Motivo(contexto) \in Sincronas
    BY <2>1, MotivoRecibido DEF Sincronas
  <2> QED
    BY <2>1, <2>2, DejaElContexto
<1>2. CASE RecursoInvalido
  <2>1. /\ Recibe(Sincronas) /\ Deja("EXIT") /\ alCPU' = Append(alCPU, NUEVO_PID)
        /\ contexto # <<>>
    BY <1>2 DEF RecursoInvalido, Recibe
  <2>2. Motivo(contexto) \in Sincronas
    BY <2>1, MotivoRecibido DEF Sincronas
  <2> QED
    BY <2>1, <2>2, DejaElContexto
<1> QED
    BY <1>1, <1>2

(* The kernel keeps a copy that is not charged yet: the process stays in   *)
(* EXEC.                                                                   *)
LEMMA PasoConcede ==
    ASSUME IInv, Concede
    PROVE  IInv'
<1>1. /\ Recibe(Sincronas) /\ contexto # <<>> /\ guardado' = [guardado EXCEPT ![corre] = Recibido]
      /\ alCPU' = Append(alCPU, MISMO_PID) /\ corre' = corre /\ reloj' = reloj /\ gasto' = gasto
    BY DEF Concede, Recibe
<1>2. ~intUsuario /\ Motivo(contexto) \in Sincronas
    BY <1>1, MotivoRecibido DEF Sincronas
<1>3. corre \in Pids /\ EsProceso(Recibido, corre) /\ alCPU = <<>> /\ Pidiendo /\ Recibido = pcb
    BY <1>1, <1>2, ConContexto DEF Devuelto
<1>4. /\ fase' = fase /\ pcb' = pcb /\ registro' = registro /\ contexto' = <<>>
      /\ interrupcion' = interrupcion /\ llegaron' = llegaron /\ hechas' = hechas
    BY <1>1 DEF Recibe, cpu
<1>5. alCPU' = <<MISMO_PID>>
    BY <1>1, <1>3, ColaDeUno
<1>6. Concedido'
    BY <1>1, <1>3, <1>4, <1>5 DEF Concedido, Pidiendo, Tiene, SlotAlDia, Resto
<1>7. /\ guardado' = [p \in Pids |-> guardado'[p]] /\ guardado'[corre] = Recibido
      /\ \A p \in Pids \ {corre} : guardado'[p] = guardado[p]
    BY <1>1, <1>3 DEF IInv, Formas
<1>8. Formas'
    BY <1>1, <1>3, <1>4, <1>7 DEF IInv, Formas, Recibe
<1>9. Guardados'
    BY <1>1, <1>3, <1>7 DEF IInv, Guardados, Resto, Pidiendo, Tiene
<1> QED
    BY <1>6, <1>8, <1>9 DEF IInv, Etapa

-----------------------------------------------------------------------------
(* The state of a process changes in the kernel and nothing else of it.    *)
LEMMA CambioDeEstado ==
    ASSUME IInv, NEW p \in Pids, NEW e, guardado' = [guardado EXCEPT ![p].estado = e]
    PROVE  /\ guardado' = [q \in Pids |-> guardado'[q]]
           /\ \A q \in Pids \ {p} : guardado'[q] = guardado[q]
           /\ guardado'[p].estado = e /\ guardado'[p].quantum = guardado[p].quantum
           /\ \A q \in Pids : /\ EsProceso(guardado'[q], q)
                              /\ establecer_contexto(guardado'[q])
                                   = establecer_contexto(guardado[q])
<1>1. guardado = [q \in Pids |-> guardado[q]] /\ \A q \in Pids : EsProceso(guardado[q], q)
    BY DEF IInv, Formas
<1> DEFINE y == [guardado[p] EXCEPT !.estado = e]
<1>2. guardado' = [guardado EXCEPT ![p] = y]
    OBVIOUS
<1>3. y = [pid |-> guardado[p].pid, pc |-> guardado[p].pc, quantum |-> guardado[p].quantum,
           estado |-> e, registros |-> guardado[p].registros]
  <2>1. guardado[p] = [pid |-> guardado[p].pid, pc |-> guardado[p].pc,
                       quantum |-> guardado[p].quantum, estado |-> guardado[p].estado,
                       registros |-> guardado[p].registros]
    BY <1>1 DEF EsProceso, EsRegistro
  <2> QED
    BY <2>1
<1> HIDE DEF y
<1>4. /\ EsRegistro(y) /\ y.estado = e /\ y.pid = guardado[p].pid
      /\ y.quantum = guardado[p].quantum
      /\ establecer_contexto(y) = establecer_contexto(guardado[p])
    BY <1>3, PcbModificado
<1>5. /\ guardado' = [q \in Pids |-> guardado'[q]] /\ guardado'[p] = y
      /\ \A q \in Pids \ {p} : guardado'[q] = guardado[q]
    BY <1>1, <1>2
<1>6. EsProceso(y, p)
    BY <1>1, <1>4 DEF EsProceso
<1> QED
    BY <1>1, <1>4, <1>5, <1>6

(* A process is dispatched with the CPU free, or about to hear that it is, *)
(* or waiting for an answer that will not come.                            *)
LEMMA PasoDespacha ==
    ASSUME IInv, NEW p \in Pids, Despacha(p)
    PROVE  IInv'
<1>1. /\ corre = Nadie /\ guardado[p].estado = "READY" /\ corre' = p
      /\ guardado' = [guardado EXCEPT ![p].estado = "EXEC"]
      /\ alCPU' = Append(alCPU, enviar_pcb(guardado'[p]))
      /\ fase' = fase /\ pcb' = pcb /\ registro' = registro /\ contexto' = contexto
      /\ gasto' = gasto /\ cortado' = cortado
    BY DEF Despacha, cpu
<1>2. Nadie \notin Pids
    BY CicloAssumption
<1>3. Ocioso \/ OciosoConAviso \/ (SinRespuesta /\ fase = "aviso" /\ alCPU = <<>> /\ Abandonado)
    BY <1>1, <1>2 DEF IInv, Etapa, Ocioso, OciosoConAviso, Enviado, EnviadoConAviso, Vigente,
           Ejecutando, Chequeando, Devuelto, Pidiendo, Concedido, Tiene, SinRespuesta
<1>4. /\ guardado' = [q \in Pids |-> guardado'[q]]
      /\ \A q \in Pids \ {p} : guardado'[q] = guardado[q]
      /\ guardado'[p].estado = "EXEC" /\ guardado'[p].quantum = guardado[p].quantum
      /\ \A q \in Pids : /\ EsProceso(guardado'[q], q)
                         /\ establecer_contexto(guardado'[q]) = establecer_contexto(guardado[q])
    BY <1>1, CambioDeEstado
<1>5. Formas'
  <2>1. reloj' \in Pids \cup {Nadie}
    BY DEF Despacha
  <2>2. /\ enVuelo' = enVuelo /\ interrupcion' = interrupcion
        /\ intUsuario' = intUsuario
    BY DEF Despacha
  <2> QED
    BY <1>1, <1>4, <2>1, <2>2 DEF IInv, Formas
<1>6. Guardados'
  <2>1. \A q \in Pids : guardado'[q].estado \in {"READY", "BLOCKED"} =>
                          guardado'[q].quantum = Quantum - Retardo * gasto'[q]
    BY <1>1, <1>4 DEF IInv, Guardados, Resto
  <2> QED
    BY <1>1, <1>4, <2>1 DEF Guardados, Resto
<1>7. Vigente'
    BY <1>1, <1>4 DEF IInv, Guardados, Vigente, Resto
<1>8. Abandonado => Abandonado'
    BY <1>1, <1>4 DEF Abandonado
<1>9. CASE Ocioso
  <2>1. alCPU' = <<enviar_pcb(guardado'[corre'])>>
    BY <1>1, <1>9, ColaDeUno DEF Ocioso
  <2>2. Enviado'
    BY <1>1, <1>7, <1>9, <2>1 DEF Ocioso, Enviado
  <2> QED
    BY <1>5, <1>6, <2>2 DEF IInv, Etapa
<1>10. CASE OciosoConAviso
  <2>1. alCPU' = <<NUEVO_PID, enviar_pcb(guardado'[corre'])>>
    BY <1>1, <1>10, ColaDeDos DEF OciosoConAviso
  <2>2. EnviadoConAviso'
    BY <1>1, <1>7, <1>8, <1>10, <2>1 DEF OciosoConAviso, EnviadoConAviso
  <2> QED
    BY <1>5, <1>6, <2>2 DEF IInv, Etapa
<1>11. CASE SinRespuesta /\ fase = "aviso" /\ alCPU = <<>> /\ Abandonado
  <2>1. alCPU' = <<enviar_pcb(guardado'[corre'])>>
    BY <1>1, <1>11, ColaDeUno
  <2>2. SinRespuesta'
    BY <1>1, <1>8, <1>11, <2>1 DEF SinRespuesta
  <2> QED
    BY <1>5, <1>6, <2>2 DEF IInv, Etapa
<1> QED
    BY <1>3, <1>9, <1>10, <1>11

(* Steps that touch neither the socket nor the CPU nor the pcb of the      *)
(* process in EXEC keep the stage.                                         *)
LEMMA EtapaEstable ==
    ASSUME IInv, UNCHANGED <<corre, alCPU, contexto, fase, registro, pcb, gasto, hechas, cortado>>,
           \A q \in Pids : establecer_contexto(guardado'[q]) = establecer_contexto(guardado[q]),
           corre \in Pids => guardado'[corre] = guardado[corre],
           llegaron \subseteq llegaron',
           interrupcion' = interrupcion \/ interrupcion' \in llegaron'
    PROVE  Etapa'
<1> USE DEF Resto
<1>1. SlotAlDia => SlotAlDia'
    BY DEF SlotAlDia
<1>2. Abandonado => Abandonado'
    BY DEF Abandonado
<1>3. \A c : Tiene(c) => Tiene(c)'
    BY <1>1 DEF Tiene
<1>4. CASE Ocioso
    BY <1>4 DEF Etapa, Ocioso
<1>5. CASE OciosoConAviso
    BY <1>2, <1>5 DEF Etapa, OciosoConAviso
<1>6. CASE Enviado
    BY <1>6 DEF Etapa, Enviado, Vigente
<1>7. CASE EnviadoConAviso
    BY <1>2, <1>7 DEF Etapa, EnviadoConAviso, Vigente
<1>8. CASE Ejecutando
    BY <1>3, <1>8 DEF Etapa, Ejecutando
<1>9. CASE Chequeando
    BY <1>3, <1>9 DEF Etapa, Chequeando
<1>10. CASE Devuelto
    BY <1>10 DEF Etapa, Devuelto, Recibido
<1>11. CASE Pidiendo
    BY <1>3, <1>11 DEF Etapa, Pidiendo
<1>12. CASE Concedido
    BY <1>3, <1>12 DEF Etapa, Concedido
<1>13. CASE SinRespuesta
    BY <1>2, <1>13 DEF Etapa, SinRespuesta
<1> QED
    BY <1>4, <1>5, <1>6, <1>7, <1>8, <1>9, <1>10, <1>11, <1>12, <1>13 DEF IInv, Etapa

(* A process that is blocked is not the one in EXEC.                       *)
LEMMA PasoDespierta ==
    ASSUME IInv, NEW p \in Pids, Despierta(p)
    PROVE  IInv'
<1>1. /\ guardado[p].estado = "BLOCKED"
      /\ guardado' = [guardado EXCEPT ![p].estado = "READY"]
      /\ UNCHANGED <<corre, alCPU, contexto, fase, registro, pcb, gasto, hechas, cortado>>
      /\ UNCHANGED <<intUsuario, reloj, enVuelo, interrupcion, llegaron>>
    BY DEF Despierta, cpu, historia
<1>2. /\ guardado' = [q \in Pids |-> guardado'[q]]
      /\ \A q \in Pids \ {p} : guardado'[q] = guardado[q]
      /\ guardado'[p].estado = "READY" /\ guardado'[p].quantum = guardado[p].quantum
      /\ \A q \in Pids : /\ EsProceso(guardado'[q], q)
                         /\ establecer_contexto(guardado'[q]) = establecer_contexto(guardado[q])
    BY <1>1, CambioDeEstado
<1>3. corre \in Pids => corre # p
    BY <1>1, CicloAssumption DEF IInv, Guardados
<1>4. Formas'
    BY <1>1, <1>2 DEF IInv, Formas
<1>5. Guardados'
  <2>1. \A q \in Pids : guardado'[q].estado \in {"READY", "BLOCKED"} =>
                          guardado'[q].quantum = Quantum - Retardo * gasto'[q]
    BY <1>1, <1>2 DEF IInv, Guardados, Resto
  <2> QED
    BY <1>1, <1>2, <1>3, <2>1 DEF IInv, Formas, Guardados, Resto
<1>6. Etapa'
    BY <1>1, <1>2, <1>3, EtapaEstable
<1> QED
    BY <1>4, <1>5, <1>6 DEF IInv

(* hilo_quantum, the console and the interrupt connection.                 *)
LEMMA PasoInterrupciones ==
    ASSUME IInv, VenceQuantum \/ Mata \/ LlegaInterrupcion \/ UNCHANGED vars
    PROVE  IInv'
<1>1. /\ UNCHANGED <<corre, alCPU, contexto, fase, registro, pcb, gasto, hechas, cortado>>
      /\ guardado' = guardado
    BY DEF VenceQuantum, Mata, LlegaInterrupcion, vars, kernel, cpu, historia
<1>2. /\ llegaron \subseteq llegaron'
      /\ interrupcion' = interrupcion \/ interrupcion' \in llegaron'
      /\ interrupcion' \in Interrupciones
    BY DEF IInv, Formas, VenceQuantum, Mata, LlegaInterrupcion, vars, historia
<1>3. /\ enVuelo' \subseteq Interrupciones /\ reloj' \in Pids \cup {Nadie}
      /\ intUsuario' \in BOOLEAN
  <2>1. CASE VenceQuantum
    BY <2>1 DEF IInv, Formas, VenceQuantum, Interrupciones, Relojes, kernel
  <2>2. CASE Mata
    BY <2>2, CicloAssumption DEF IInv, Formas, Mata, Interrupciones, Relojes, ConReloj
  <2>3. CASE LlegaInterrupcion
    BY <2>3 DEF IInv, Formas, LlegaInterrupcion, kernel
  <2>4. CASE UNCHANGED vars
    BY <2>4 DEF IInv, Formas, vars
  <2> QED
    BY <2>1, <2>2, <2>3, <2>4
<1>4. Formas'
    BY <1>1, <1>2, <1>3 DEF IInv, Formas
<1>5. Guardados'
    BY <1>1 DEF IInv, Guardados, Resto
<1>6. Etapa'
    BY <1>1, <1>2, EtapaEstable
<1> QED
    BY <1>4, <1>5, <1>6 DEF IInv

-----------------------------------------------------------------------------
(* A register file: a function from the names of the registers.            *)
EsArchivo(R) == R = [r \in Registros |-> R[r]]

(* No instruction loses or adds a register.                                *)
LEMMA NuevoEsArchivo ==
    ASSUME EsArchivo(registro), NEW i
    PROVE  EsArchivo(Nuevo(i)) /\ EsArchivo(Avanza(registro))
<1>1. ASSUME NEW R, EsArchivo(R), NEW r, NEW v PROVE EsArchivo([R EXCEPT ![r] = v])
    BY <1>1 DEF EsArchivo
<1>2. ASSUME NEW R, EsArchivo(R) PROVE EsArchivo(Avanza(R))
    BY <1>1, <1>2 DEF Avanza
<1>3. ASSUME NEW r, NEW n PROVE EsArchivo(set(registro, r, n))
    BY <1>1 DEF set
<1>4. ASSUME NEW r, NEW n PROVE EsArchivo(InstruccionSET(registro, r, n))
    BY <1>2, <1>3 DEF InstruccionSET
<1>5. ASSUME NEW d, NEW o
      PROVE  EsArchivo(sum(registro, d, o)) /\ EsArchivo(sub(registro, d, o))
    BY <1>1 DEF sum, sub
<1>6. ASSUME NEW r, NEW n PROVE EsArchivo(jnz(registro, r, n))
    BY <1>1, <1>2 DEF jnz
<1>7. ASSUME NEW m, NEW d, NEW o PROVE EsArchivo(MovIn(registro, m, d, o))
    BY <1>3 DEF MovIn
<1> QED
    BY <1>2, <1>4, <1>5, <1>6, <1>7 DEF Nuevo

(* What actualizar_pcb leaves in the pcb: the registers of the CPU, and    *)
(* one instruction charged.                                                *)
LEMMA PcbActualizado ==
    ASSUME EsRegistro(pcb), NEW R, EsArchivo(R)
    PROVE  LET y == actualizar_pcb(R)
           IN  /\ EsRegistro(y) /\ y.pid = pcb.pid /\ y.estado = pcb.estado
               /\ y.quantum = pcb.quantum - Retardo
               /\ R = establecer_contexto(y)
<1> DEFINE G == [r \in Generales |-> R[r]]
           x == [pcb EXCEPT !.pc = R["PC"]]
           z == [x EXCEPT !.quantum = @ - Retardo]
           y == [z EXCEPT !.registros = G]
<1>1. x = [pid |-> pcb.pid, pc |-> R["PC"], quantum |-> pcb.quantum, estado |-> pcb.estado,
           registros |-> pcb.registros]
  <2>1. pcb = [pid |-> pcb.pid, pc |-> pcb.pc, quantum |-> pcb.quantum, estado |-> pcb.estado,
               registros |-> pcb.registros]
    BY DEF EsRegistro
  <2> QED
    BY <2>1
<1>2. actualizar_pcb(R) = y
    BY DEF actualizar_pcb
<1> HIDE DEF x, G
<1>3. z = [pid |-> pcb.pid, pc |-> R["PC"], quantum |-> pcb.quantum - Retardo,
           estado |-> pcb.estado, registros |-> pcb.registros]
    BY <1>1
<1> HIDE DEF z
<1>4. y = [pid |-> pcb.pid, pc |-> R["PC"], quantum |-> pcb.quantum - Retardo,
           estado |-> pcb.estado, registros |-> G]
    BY <1>3
<1> HIDE DEF y
<1>5. /\ EsRegistro(y) /\ y.pid = pcb.pid /\ y.estado = pcb.estado
      /\ y.quantum = pcb.quantum - Retardo /\ y.pc = R["PC"] /\ y.registros = G
    BY <1>4 DEF EsRegistro
<1>6. R = establecer_contexto(y)
  <2>1. \A r \in Generales : G[r] = R[r]
    BY DEF G
  <2>2. Registros = Generales \cup {"PC"} /\ "PC" \notin Generales
    BY DEF Registros, Generales, Reg8, Reg32
  <2>3. \A r \in Registros : R[r] = IF r = "PC" THEN y.pc ELSE y.registros[r]
    BY <1>5, <2>1, <2>2
  <2> QED
    BY <2>3 DEF establecer_contexto, EsArchivo
<1> QED
    BY <1>2, <1>5, <1>6

(* The pcb of a request, and of a RESIZE with no memory.                   *)
LEMMA PcbDesalojado ==
    ASSUME EsRegistro(pcb), NEW n
    PROVE  LET y == [pcb EXCEPT !.pc = n, !.quantum = @ - Retardo]
           IN  /\ EsRegistro(y) /\ y.pid = pcb.pid /\ y.estado = pcb.estado
               /\ y.pc = n /\ y.registros = pcb.registros
               /\ y.quantum = pcb.quantum - Retardo
<1> DEFINE x == [pcb EXCEPT !.pc = n]
           y == [x EXCEPT !.quantum = @ - Retardo]
<1>1. x = [pid |-> pcb.pid, pc |-> n, quantum |-> pcb.quantum, estado |-> pcb.estado,
           registros |-> pcb.registros]
  <2>1. pcb = [pid |-> pcb.pid, pc |-> pcb.pc, quantum |-> pcb.quantum, estado |-> pcb.estado,
               registros |-> pcb.registros]
    BY DEF EsRegistro
  <2> QED
    BY <2>1
<1>2. [pcb EXCEPT !.pc = n, !.quantum = @ - Retardo] = y
    OBVIOUS
<1> HIDE DEF x
<1>3. y = [pid |-> pcb.pid, pc |-> n, quantum |-> pcb.quantum - Retardo,
           estado |-> pcb.estado, registros |-> pcb.registros]
    BY <1>1
<1> HIDE DEF y
<1>4. /\ EsRegistro(y) /\ y.pid = pcb.pid /\ y.estado = pcb.estado /\ y.pc = n
      /\ y.registros = pcb.registros /\ y.quantum = pcb.quantum - Retardo
    BY <1>3 DEF EsRegistro
<1> QED
    BY <1>2, <1>4

(* The pcb of WAIT and SIGNAL: where the process goes on, not charged.     *)
LEMMA PcbPedido ==
    ASSUME EsRegistro(pcb), registro = establecer_contexto(pcb),
           NEW R, R = Avanza(registro), NEW y, y = [pcb EXCEPT !.pc = R["PC"]]
    PROVE  /\ EsRegistro(y) /\ y.pid = pcb.pid /\ y.estado = pcb.estado
           /\ y.quantum = pcb.quantum /\ R = establecer_contexto(y)
<1>1. y = [pid |-> pcb.pid, pc |-> R["PC"], quantum |-> pcb.quantum, estado |-> pcb.estado,
           registros |-> pcb.registros]
  <2>1. pcb = [pid |-> pcb.pid, pc |-> pcb.pc, quantum |-> pcb.quantum, estado |-> pcb.estado,
               registros |-> pcb.registros]
    BY DEF EsRegistro
  <2> QED
    BY <2>1
<1>2. /\ EsRegistro(y) /\ y.pid = pcb.pid /\ y.estado = pcb.estado /\ y.quantum = pcb.quantum
      /\ y.pc = R["PC"] /\ y.registros = pcb.registros
    BY <1>1 DEF EsRegistro
<1>3. registro = [r \in Registros |-> IF r = "PC" THEN pcb.pc ELSE pcb.registros[r]]
    BY DEF establecer_contexto
<1>4. /\ R = [r \in Registros |-> R[r]]
      /\ \A r \in Registros : r # "PC" => R[r] = pcb.registros[r]
    BY <1>3 DEF Avanza
<1>5. \A r \in Registros : R[r] = IF r = "PC" THEN y.pc ELSE y.registros[r]
    BY <1>2, <1>4
<1> QED
    BY <1>2, <1>4, <1>5 DEF establecer_contexto

(* Where the CPU is in its cycle says where the exchange is.               *)
LEMMA EtapaDeLaCPU ==
    ASSUME IInv
    PROVE  /\ fase = "ejecuta" => Ejecutando
           /\ fase = "chequea" => Chequeando
           /\ fase = "libre" /\ alCPU # <<>> => Enviado
           /\ fase = "aviso" /\ alCPU # <<>> =>
                OciosoConAviso \/ EnviadoConAviso \/ Concedido \/ SinRespuesta
    BY DEF IInv, Etapa, Ocioso, OciosoConAviso, Enviado, EnviadoConAviso, Ejecutando,
           Chequeando, Devuelto, Pidiendo, Concedido, SinRespuesta

(* Empieza: an instruction is counted, and it is the only thing the kernel *)
(* could see of it.                                                        *)
LEMMA Contada ==
    ASSUME IInv, NEW ops, Empieza(ops)
    PROVE  /\ Ejecutando /\ Formas' /\ Guardados' /\ hechas' = 1
           /\ corre' = corre /\ alCPU' = alCPU /\ Resto(corre)' = Resto(corre) - Retardo
           /\ interrupcion' = interrupcion /\ llegaron' = llegaron /\ Actual.op \in ops
<1>1. Ejecutando
    BY EtapaDeLaCPU DEF Empieza
<1>2. corre \in Pids /\ pcb.pid = corre /\ corre # Nadie
    BY <1>1, CicloAssumption DEF Ejecutando, Tiene, EsProceso
<1>3. /\ gasto' \in [Pids -> Nat] /\ gasto'[corre] = gasto[corre] + 1
      /\ \A p \in Pids \ {corre} : gasto'[p] = gasto[p]
    BY <1>2 DEF IInv, Formas, Empieza
<1>4. Resto(corre)' = Resto(corre) - Retardo
  <2>1. gasto[corre] \in Nat /\ corre' = corre
    BY <1>2 DEF IInv, Formas, Empieza, kernel
  <2>2. Quantum - Retardo * gasto'[corre] = (Quantum - Retardo * gasto[corre]) - Retardo
    BY <1>3, <2>1, Cobro
  <2> QED
    BY <2>1, <2>2 DEF Resto
<1>5. Formas'
    BY <1>3 DEF IInv, Formas, Empieza, kernel
<1>6. Guardados'
  <2>1. guardado' = guardado /\ corre' = corre
    BY DEF Empieza, kernel
  <2>2. guardado[corre].estado = "EXEC"
    BY <1>2 DEF IInv, Guardados
  <2>3. \A p \in Pids : guardado'[p].estado \in {"READY", "BLOCKED"} =>
                          guardado'[p].quantum = Quantum - Retardo * gasto'[p]
    BY <1>3, <2>1, <2>2 DEF IInv, Guardados, Resto
  <2> QED
    BY <2>1, <2>2, <2>3 DEF Guardados, Resto
<1> QED
    BY <1>1, <1>4, <1>5, <1>6 DEF Empieza, kernel

(* An instruction that leaves the process in the CPU is charged in the pcb *)
(* before the interrupts are looked at.                                    *)
LEMMA PasoCalcula ==
    ASSUME IInv, Calcula \/ EscribeMemoria
    PROVE  IInv'
<1> DEFINE R == Nuevo(Actual)
<1>1. PICK ops : Empieza(ops) /\ Registra(R) /\ fase' = "chequea" /\ contexto' = contexto
    BY DEF Calcula, EscribeMemoria
<1>2. /\ Ejecutando /\ Formas' /\ Guardados' /\ hechas' = 1
      /\ corre' = corre /\ alCPU' = alCPU /\ Resto(corre)' = Resto(corre) - Retardo
      /\ interrupcion' = interrupcion /\ llegaron' = llegaron
    BY <1>1, Contada
<1>3. /\ EsRegistro(pcb) /\ EsProceso(pcb, corre) /\ EsArchivo(registro)
      /\ pcb.estado = "EXEC" /\ pcb.quantum = Resto(corre)
    BY <1>2 DEF Ejecutando, Tiene, EsProceso, EsArchivo, establecer_contexto
<1>4. EsArchivo(R)
    BY <1>3, NuevoEsArchivo
<1>5. registro' = R /\ pcb' = actualizar_pcb(R)
    BY <1>1 DEF Registra
<1> HIDE DEF R
<1>6. /\ EsRegistro(pcb') /\ pcb'.pid = pcb.pid /\ pcb'.estado = pcb.estado
      /\ pcb'.quantum = pcb.quantum - Retardo /\ registro' = establecer_contexto(pcb')
    BY <1>3, <1>4, <1>5, PcbActualizado
<1>7. EsProceso(pcb', corre') /\ pcb'.quantum - 0 = Resto(corre)'
    BY <1>2, <1>3, <1>6, CicloAssumption DEF EsProceso
<1>8. Tiene(0)'
    BY <1>2, <1>3, <1>6, <1>7 DEF Ejecutando, Tiene, SlotAlDia
<1>9. Chequeando'
    BY <1>1, <1>2, <1>8 DEF Ejecutando, Chequeando
<1> QED
    BY <1>2, <1>9 DEF IInv, Etapa

(* A context that carries a pcb of the process in EXEC.                    *)
LEMMA ContextoEnviado ==
    ASSUME NEW p \in Pids, NEW x, EsProceso(x, p), NEW m \in Motivos \ Sincronas,
           corre' = p, fase' = "libre", alCPU' = <<>>, contexto' = Contexto(x, m),
           m = "IO" => x.quantum = Resto(corre)',
           m \in Relojes => [pid |-> p, motivo |-> m] \in llegaron' /\ hechas' = 1
    PROVE  Devuelto'
<1>1. contexto' = Contexto(x, m) /\ actualizar_pcb_ejecutado(contexto') = x /\ Motivo(contexto') = m
    BY ContextoLeido DEF EsProceso
<1>2. Recibido' = x
    BY <1>1 DEF Recibido
<1> QED
    BY <1>1, <1>2 DEF Devuelto

(* An instruction that gives the process back: the context that leaves is  *)
(* charged, but for EXIT.                                                  *)
LEMMA PasoDesaloja ==
    ASSUME IInv, PideIO \/ SinMemoria \/ Exit
    PROVE  IInv'
<1>1. PICK ops : Empieza(ops)
    BY DEF PideIO, SinMemoria, Exit
<1>2. /\ Ejecutando /\ Formas' /\ Guardados' /\ hechas' = 1
      /\ corre' = corre /\ alCPU' = alCPU /\ Resto(corre)' = Resto(corre) - Retardo
    BY <1>1, Contada
<1>3. /\ EsProceso(pcb, corre) /\ EsRegistro(pcb) /\ pcb.quantum = Resto(corre)
      /\ corre \in Pids /\ alCPU = <<>>
    BY <1>2 DEF Ejecutando, Tiene, EsProceso
<1>4. {"IO", "OUT_OF_MEMORY", "EXIT"} \subseteq Motivos \ Sincronas
    BY DEF Motivos, Sincronas
<1>5. "IO" \notin Relojes /\ "OUT_OF_MEMORY" \notin Relojes /\ "EXIT" \notin Relojes
    BY DEF Relojes
<1>6. CASE PideIO \/ SinMemoria
  <2>1. PICK motivo \in {"IO", "OUT_OF_MEMORY"} : Desaloja(motivo)
    BY <1>6 DEF PideIO, SinMemoria
  <2> DEFINE n == (registro["PC"] + 1) % M32
             y == [pcb EXCEPT !.pc = n, !.quantum = @ - Retardo]
  <2>2. contexto' = Contexto(y, motivo) /\ fase' = "libre"
    BY <2>1 DEF Desaloja
  <2> HIDE DEF n
  <2>3. EsRegistro(y) /\ y.pid = pcb.pid /\ y.quantum = pcb.quantum - Retardo
    BY <1>3, PcbDesalojado
  <2> HIDE DEF y
  <2>4. EsProceso(y, corre) /\ y.quantum = Resto(corre)'
    BY <1>2, <1>3, <2>3, CicloAssumption DEF EsProceso
  <2>5. Devuelto'
    BY <1>2, <1>3, <1>4, <1>5, <2>2, <2>4, ContextoEnviado
  <2> QED
    BY <1>2, <2>5 DEF IInv, Etapa
<1>7. CASE Exit
  <2>1. contexto' = Contexto(pcb, "EXIT") /\ fase' = "libre"
    BY <1>7 DEF Exit
  <2>2. Devuelto'
    BY <1>2, <1>3, <1>4, <1>5, <2>1, ContextoEnviado
  <2> QED
    BY <1>2, <2>2 DEF IInv, Etapa
<1> QED
    BY <1>6, <1>7

(* WAIT and SIGNAL: the pcb leaves without the charge, the CPU still owes  *)
(* it.                                                                     *)
LEMMA PasoPideRecurso ==
    ASSUME IInv, PideRecurso
    PROVE  IInv'
<1>1. /\ Empieza(Sincronas) /\ registro' = Avanza(registro)
      /\ pcb' = [pcb EXCEPT !.pc = registro'["PC"]]
      /\ contexto' = Contexto(pcb', Actual.op) /\ fase' = "aviso"
    BY DEF PideRecurso
<1>2. /\ Ejecutando /\ Formas' /\ Guardados' /\ hechas' = 1
      /\ corre' = corre /\ alCPU' = alCPU /\ Resto(corre)' = Resto(corre) - Retardo
      /\ interrupcion' = interrupcion /\ llegaron' = llegaron /\ Actual.op \in Sincronas
    BY <1>1, Contada
<1>3. /\ EsProceso(pcb, corre) /\ EsRegistro(pcb) /\ pcb.quantum = Resto(corre)
      /\ pcb.estado = "EXEC" /\ corre \in Pids /\ alCPU = <<>>
      /\ registro = establecer_contexto(pcb)
    BY <1>2 DEF Ejecutando, Tiene, EsProceso
<1>4. /\ EsRegistro(pcb') /\ pcb'.pid = pcb.pid /\ pcb'.estado = pcb.estado
      /\ pcb'.quantum = pcb.quantum /\ registro' = establecer_contexto(pcb')
    BY <1>1, <1>3, PcbPedido
<1>5. EsProceso(pcb', corre') /\ pcb'.quantum - Retardo = Resto(corre)'
    BY <1>2, <1>3, <1>4 DEF EsProceso
<1>6. Tiene(Retardo)'
    BY <1>2, <1>3, <1>4, <1>5 DEF Ejecutando, Tiene, SlotAlDia
<1>7. Motivo(contexto') = Actual.op
    BY <1>1, <1>4, ContextoLeido
<1>8. Pidiendo'
    BY <1>1, <1>2, <1>3, <1>6, <1>7 DEF Pidiendo
<1> QED
    BY <1>2, <1>8 DEF IInv, Etapa

(* A pcb is taken only when the one in the socket is that of the process   *)
(* in EXEC.                                                                *)
LEMMA PasoRecibePcb ==
    ASSUME IInv, RecibePcb
    PROVE  IInv'
<1>1. /\ fase = "libre" /\ alCPU # <<>> /\ pcb' = recibir_pcb(Head(alCPU))
      /\ registro' = establecer_contexto(pcb') /\ alCPU' = Tail(alCPU)
      /\ fase' = "ejecuta" /\ interrupcion' = SinInterrupcion /\ llegaron' = {}
      /\ UNCHANGED <<guardado, corre, intUsuario, reloj, enVuelo, contexto, gasto, cortado>>
    BY DEF RecibePcb, TomaPcb, kernel
<1>2. Enviado
    BY <1>1, EtapaDeLaCPU
<1>3. corre \in Pids /\ EsProceso(guardado[corre], corre) /\ guardado[corre].estado = "EXEC"
    BY <1>2, CicloAssumption DEF IInv, Formas, Guardados, Enviado, Vigente
<1>4. pcb' = guardado[corre] /\ alCPU' = <<>>
    BY <1>1, <1>2, <1>3, ColaDeUno, PcbLeido DEF Enviado, EsProceso
<1>5. guardado[corre].quantum - 0 = Resto(corre)'
    BY <1>1, <1>2, <1>3 DEF Enviado, Vigente, EsProceso, Resto
<1>6. Tiene(0)'
    BY <1>1, <1>3, <1>4, <1>5 DEF Tiene, SlotAlDia
<1>7. Ejecutando'
    BY <1>1, <1>2, <1>4, <1>6 DEF Enviado, Ejecutando
<1>8. Formas' /\ Guardados'
  <2>1. SinInterrupcion \in Interrupciones
    BY DEF SinInterrupcion, Interrupciones, Relojes
  <2> QED
    BY <1>1, <2>1 DEF IInv, Formas, Guardados, Resto
<1> QED
    BY <1>7, <1>8 DEF IInv, Etapa

(* The first thing in the socket is the answer, unless the kill took its   *)
(* place.                                                                  *)
LEMMA PasoRecibeAviso ==
    ASSUME IInv, RecibeAviso
    PROVE  IInv'
<1>1. /\ fase = "aviso" /\ alCPU # <<>> /\ pcb' = actualizar_pcb(registro)
      /\ fase' = CASE Head(alCPU) = NUEVO_PID -> "libre"
                   [] Head(alCPU) = MISMO_PID -> "chequea"
                   [] OTHER -> "desfasada"
      /\ alCPU' = Tail(alCPU) /\ registro' = registro
      /\ UNCHANGED <<guardado, corre, intUsuario, reloj, enVuelo, contexto, gasto, cortado,
                     interrupcion, llegaron, hechas>>
    BY DEF RecibeAviso, kernel, historia
<1>2. Formas' /\ Guardados'
    BY <1>1 DEF IInv, Formas, Guardados, Resto
<1>3. CASE OciosoConAviso
  <2>1. Head(alCPU) = NUEVO_PID /\ Tail(alCPU) = <<>>
    BY <1>3, ColaDeUno DEF OciosoConAviso
  <2>2. fase' = "libre"
    BY <1>1, <2>1, AvisosDistintos
  <2>3. Ocioso'
    BY <1>1, <1>3, <2>1, <2>2 DEF OciosoConAviso, Ocioso
  <2> QED
    BY <1>2, <2>3 DEF IInv, Etapa
<1>4. CASE EnviadoConAviso
  <2>1. Head(alCPU) = NUEVO_PID /\ Tail(alCPU) = <<enviar_pcb(guardado[corre])>>
    BY <1>4, ColaDeDos DEF EnviadoConAviso
  <2>2. fase' = "libre"
    BY <1>1, <2>1, AvisosDistintos
  <2>3. Enviado'
    BY <1>1, <1>4, <2>1, <2>2 DEF EnviadoConAviso, Enviado, Vigente, Resto
  <2> QED
    BY <1>2, <2>3 DEF IInv, Etapa
<1>5. CASE Concedido
  <2>1. Head(alCPU) = MISMO_PID /\ Tail(alCPU) = <<>>
    BY <1>5, ColaDeUno DEF Concedido
  <2>2. fase' = "chequea"
    BY <1>1, <2>1, AvisosDistintos
  <2>3. /\ EsRegistro(pcb) /\ EsArchivo(registro) /\ pcb.pid = corre /\ pcb.estado = "EXEC"
        /\ pcb.quantum - Retardo = Resto(corre) /\ pcb.quantum \in Int
    BY <1>5 DEF Concedido, Tiene, EsProceso, EsArchivo, establecer_contexto
  <2>4. /\ EsRegistro(pcb') /\ pcb'.pid = pcb.pid /\ pcb'.estado = pcb.estado
        /\ pcb'.quantum = pcb.quantum - Retardo /\ registro = establecer_contexto(pcb')
    BY <1>1, <2>3, PcbActualizado
  <2>5. EsProceso(pcb', corre') /\ pcb'.quantum - 0 = Resto(corre)'
    BY <1>1, <2>3, <2>4, CicloAssumption DEF EsProceso, Resto
  <2>6. Chequeando'
    BY <1>1, <1>5, <2>1, <2>2, <2>3, <2>4, <2>5 DEF Concedido, Chequeando, Tiene, SlotAlDia
  <2> QED
    BY <1>2, <2>6 DEF IInv, Etapa
<1>6. CASE SinRespuesta
  <2>1. corre \in Pids /\ alCPU = <<enviar_pcb(guardado[corre])>>
    BY <1>1, <1>6 DEF SinRespuesta
  <2>2. Head(alCPU) \notin Avisos /\ Tail(alCPU) = <<>>
    BY <2>1, ColaDeUno, PcbNoEsAviso
  <2>3. fase' = "desfasada"
    BY <1>1, <2>2, AvisosDistintos
  <2>4. SinRespuesta'
    BY <1>1, <1>6, <2>1, <2>2, <2>3 DEF SinRespuesta
  <2> QED
    BY <1>2, <2>4 DEF IInv, Etapa
<1> QED
    BY <1>1, <1>3, <1>4, <1>5, <1>6, EtapaDeLaCPU

(* The interrupt in the slot counts if it names the process that runs: it  *)
(* came after that process was taken.                                      *)
LEMMA PasoChequea ==
    ASSUME IInv, Chequea
    PROVE  IInv'
<1>1. /\ fase = "chequea" /\ interrupcion' = SinInterrupcion
      /\ UNCHANGED <<guardado, corre, intUsuario, reloj, enVuelo, alCPU, registro, pcb, gasto,
                     cortado, llegaron, hechas>>
    BY DEF Chequea, kernel, historia
<1>2. Chequeando
    BY <1>1, EtapaDeLaCPU
<1>3. Formas' /\ Guardados'
  <2>1. SinInterrupcion \in Interrupciones
    BY DEF SinInterrupcion, Interrupciones, Relojes
  <2> QED
    BY <1>1, <2>1 DEF IInv, Formas, Guardados, Resto
<1>4. CASE interrupcion.pid = pcb.pid
  <2>1. contexto' = Contexto(pcb, interrupcion.motivo) /\ fase' = "libre"
    BY <1>4 DEF Chequea
  <2>2. EsProceso(pcb, corre) /\ corre \in Pids /\ hechas = 1 /\ alCPU = <<>>
    BY <1>2 DEF Chequeando, Tiene
  <2>3. interrupcion.motivo \in Relojes /\ interrupcion # SinInterrupcion
    BY <1>4, <2>2, CicloAssumption
       DEF IInv, Formas, Interrupciones, SinInterrupcion, EsProceso
  <2>4. interrupcion = [pid |-> corre, motivo |-> interrupcion.motivo]
    BY <1>4, <2>2 DEF IInv, Formas, Interrupciones, EsProceso
  <2>5. [pid |-> corre, motivo |-> interrupcion.motivo] \in llegaron
    BY <1>2, <2>3, <2>4 DEF Chequeando, Tiene, SlotAlDia
  <2>6. interrupcion.motivo \in Motivos \ Sincronas /\ interrupcion.motivo # "IO"
    BY <2>3 DEF Relojes, Motivos, Sincronas
  <2>7. Devuelto'
    BY <1>1, <2>1, <2>2, <2>5, <2>6, ContextoEnviado
  <2> QED
    BY <1>3, <2>7 DEF IInv, Etapa
<1>5. CASE interrupcion.pid # pcb.pid
  <2>1. fase' = "ejecuta" /\ contexto' = contexto
    BY <1>5 DEF Chequea
  <2>2. Tiene(0)'
    BY <1>1, <1>2 DEF Chequeando, Tiene, SlotAlDia, Resto
  <2>3. Ejecutando'
    BY <1>1, <1>2, <2>1, <2>2 DEF Chequeando, Ejecutando
  <2> QED
    BY <1>3, <2>3 DEF IInv, Etapa
<1> QED
    BY <1>4, <1>5

-----------------------------------------------------------------------------
(* The CPU is free and nothing was run.                                    *)
LEMMA Inicio ==
    ASSUME Init
    PROVE  IInv
<1>1. /\ guardado = [p \in Pids |-> PcbNuevo(p)] /\ gasto = [p \in Pids |-> 0]
      /\ corre = Nadie /\ reloj = Nadie /\ intUsuario = FALSE /\ cortado = FALSE
      /\ enVuelo = {} /\ interrupcion = SinInterrupcion
    BY DEF Init
<1>2. \A p \in Pids : EsProceso(guardado[p], p) /\ guardado[p].quantum = Quantum
    BY <1>1, CicloAssumption DEF PcbNuevo, EsProceso, EsRegistro
<1>3. Formas
  <2>1. SinInterrupcion \in Interrupciones
    BY DEF SinInterrupcion, Interrupciones, Relojes
  <2> QED
    BY <1>1, <1>2, <2>1 DEF Formas
<1>4. Guardados
  <2>1. \A p \in Pids : Quantum - Retardo * gasto[p] = Quantum
    BY <1>1, Cobro
  <2> QED
    BY <1>1, <1>2, <2>1 DEF Guardados, Resto
<1>5. Ocioso
    BY DEF Init, Ocioso
<1> QED
    BY <1>3, <1>4, <1>5 DEF IInv, Etapa

(* Every step enters one of the stages.                                    *)
LEMMA Paso ==
    ASSUME IInv, [Next]_vars
    PROVE  IInv'
<1>1. CASE Kernel
    BY <1>1, PasoTermina, PasoFinDeQuantum, PasoIO, PasoConcede, PasoSinRecurso DEF Kernel
<1>2. CASE CPU
    BY <1>2, PasoRecibePcb, PasoCalcula, PasoDesaloja, PasoPideRecurso, PasoRecibeAviso,
       PasoChequea DEF CPU
<1>3. CASE VenceQuantum \/ LlegaInterrupcion \/ Mata \/ UNCHANGED vars
    BY <1>3, PasoInterrupciones
<1>4. ASSUME NEW p \in Pids, Despacha(p) \/ Despierta(p)
      PROVE  IInv'
    BY <1>4, PasoDespacha, PasoDespierta
<1> QED
    BY <1>1, <1>2, <1>3, <1>4 DEF Next

(* One of the stages holds in every reachable state.                       *)
LEMMA Invariante == Spec => []IInv
    BY Inicio, Paso, PTL DEF Spec

-----------------------------------------------------------------------------
(* Every instruction is charged once and no other is, in the kernel's copy *)
(* of a process that does not run and in the CPU between two instructions  *)
(* (actualizar_pcb, actualizar_pcb_ejecutado, and the places that renew a  *)
(* quantum).                                                               *)
THEOREM QuantumBienCobrado == Spec => []QuantumCobrado
<1>1. IInv => QuantumCobrado
  <2> SUFFICES ASSUME IInv
               PROVE  QuantumCobrado
    OBVIOUS
  <2>1. fase \in {"ejecuta", "chequea"} => Tiene(0)
    BY EtapaDeLaCPU DEF Ejecutando, Chequeando
  <2>2. Tiene(0) => pcb.quantum = Resto(pcb.pid)
    BY DEF Tiene, EsProceso
  <2> QED
    BY <2>1, <2>2 DEF QuantumCobrado, IInv, Guardados
<1> QED
    BY <1>1, Invariante, PTL

(* The CPU reads an answer where the kernel sent one, and a pcb where it   *)
(* sent a pcb, until a kill takes the place of a WAIT or a SIGNAL          *)
(* (recibir_contexto_actualizado, recibir_aviso).                          *)
THEOREM DialogoCorrecto == Spec => []Dialogo
<1>1. IInv => Dialogo
  <2> SUFFICES ASSUME IInv, ~cortado
               PROVE  Dialogo
    BY DEF Dialogo
  <2>1. CASE Ocioso
    BY <2>1 DEF Dialogo, Ocioso
  <2>2. CASE OciosoConAviso
    BY <2>2, ColaDeUno, AvisosDistintos DEF Dialogo, OciosoConAviso
  <2>3. CASE Enviado
    BY <2>3, ColaDeUno DEF Dialogo, Enviado
  <2>4. CASE EnviadoConAviso
    BY <2>4, ColaDeDos, AvisosDistintos DEF Dialogo, EnviadoConAviso
  <2>5. CASE Ejecutando \/ Chequeando
    BY <2>5 DEF Dialogo, Ejecutando, Chequeando, Tiene, EsProceso
  <2>6. CASE Devuelto
    <3>1. contexto # <<>>
        BY <2>6, ContextoLeido DEF Devuelto, EsProceso
    <3> QED
        BY <2>6, <3>1 DEF Dialogo, Devuelto, EsProceso
  <2>7. CASE Pidiendo
    <3>1. contexto # <<>> /\ EsProceso(pcb, corre)
        BY <2>7, ContextoLeido DEF Pidiendo, Tiene, EsProceso
    <3>2. Recibido.pid = corre
        BY <3>1, ConContexto DEF EsProceso
    <3> QED
        BY <2>7, <3>1, <3>2 DEF Dialogo, Pidiendo
  <2>8. CASE Concedido
    BY <2>8, ColaDeUno, AvisosDistintos DEF Dialogo, Concedido
  <2>9. CASE SinRespuesta
    BY <2>9 DEF SinRespuesta
  <2> QED
    BY <2>1, <2>2, <2>3, <2>4, <2>5, <2>6, <2>7, <2>8, <2>9 DEF IInv, Etapa
<1> QED
    BY <1>1, Invariante, PTL

(* Nobody is preempted by an interrupt that was not for it, that came      *)
(* before this dispatch, or before its first instruction                   *)
(* (resetear_interrupcion, check_interrupt).                               *)
THEOREM DesalojoConMotivo == Spec => []DesalojoJustificado
<1>1. IInv => DesalojoJustificado
  <2> SUFFICES ASSUME IInv, contexto # <<>>, Motivo(contexto) \in Relojes
               PROVE  [pid |-> contexto[1], motivo |-> Motivo(contexto)] \in llegaron /\ hechas = 1
    BY DEF DesalojoJustificado
  <2>1. Devuelto
    BY ConContexto DEF Pidiendo, Relojes, Sincronas
  <2>2. contexto[1] = corre
    BY <2>1 DEF Devuelto, EsProceso, Recibido, actualizar_pcb_ejecutado
  <2> QED
    BY <2>1, <2>2 DEF Devuelto
<1> QED
    BY <1>1, Invariante, PTL

-----------------------------------------------------------------------------
(* What module Maquina sees of a process, wherever its registers are.      *)
Proceso(p) == [reg |-> DondeEsta(p), mem |-> mem[p], pedidos |-> pedidos[p]]
Procesos == [p \in Pids |-> Proceso(p)]

(* The instructions whose result is arithmetic on two registers, or passes *)
(* through the memory: of these only what they leave alone is proved here. *)
DeDatos == {"SUM", "SUB", "MOV_IN", "MOV_OUT", "COPY_STRING"}

CalculaDatos(p) ==
    /\ fase = "ejecuta" /\ corre = p /\ pcb.pid = p /\ Actual.op \in DeDatos
    /\ \A q \in Pids \ {p} : Proceso(q)' = Proceso(q)
    /\ pedidos' = pedidos

(* A step of the system runs one instruction of one process as module      *)
(* Maquina says, or one of DeDatos on that process only, or leaves the     *)
(* registers, the memory and the requests of every process as they were:   *)
(* nothing is lost or repeated when a context travels (ImplementaMaquina). *)
PasosPropios == [][M!Next \/ \E p \in Pids : CalculaDatos(p)]_<<programa, Procesos>>

(* A process that is not in the CPU, or that the CPU gave up, runs from    *)
(* the copy the kernel keeps.                                              *)
FueraDeLaCPU(q) ==
    q = corre => /\ contexto = <<>> /\ fase \notin {"ejecuta", "chequea"}
                 /\ fase = "aviso" => alCPU # <<MISMO_PID>>

Guardan ==
    \A q \in Pids : FueraDeLaCPU(q) => DondeEsta(q) = establecer_contexto(guardado[q])

(* Where the registers of a process that does not run are (guardado).      *)
LEMMA RegistrosGuardados == IInv => Guardan
<1> SUFFICES ASSUME IInv, NEW q \in Pids, FueraDeLaCPU(q)
             PROVE  DondeEsta(q) = establecer_contexto(guardado[q])
    BY DEF Guardan
<1> USE DEF FueraDeLaCPU
<1>1. contexto # <<>> => contexto[1] # q
    BY ConContexto DEF EsProceso, Recibido, actualizar_pcb_ejecutado
<1>2. CASE ~EnCPU \/ pcb.pid # q
    BY <1>1, <1>2 DEF DondeEsta
<1>3. CASE EnCPU /\ pcb.pid = q
  <2>1. CASE Abandonado
    BY <1>1, <1>3, <2>1 DEF Abandonado, DondeEsta
  <2>2. CASE \E c : Tiene(c)
    <3>1. corre = q /\ contexto = <<>> /\ fase = "aviso" /\ alCPU # <<MISMO_PID>>
        BY <1>3, <2>2 DEF Tiene, EsProceso, EnCPU
    <3>2. corre # Nadie
        BY <3>1, CicloAssumption
    <3>3. OciosoConAviso \/ EnviadoConAviso \/ SinRespuesta
        BY <3>1, <3>2, ContextoLeido
           DEF IInv, Etapa, Ocioso, OciosoConAviso, Enviado, EnviadoConAviso, Ejecutando,
               Chequeando, Devuelto, Pidiendo, Concedido, SinRespuesta, Tiene, EsProceso
    <3>4. Abandonado
        BY <3>1, <3>3 DEF OciosoConAviso, EnviadoConAviso, SinRespuesta
    <3> QED
        BY <2>1, <3>4
  <2> QED
    BY <1>3, <2>1, <2>2
       DEF IInv, Etapa, Ocioso, OciosoConAviso, Enviado, EnviadoConAviso, Ejecutando,
           Chequeando, Devuelto, Pidiendo, Concedido, SinRespuesta, EnCPU
<1> QED
    BY <1>2, <1>3

(* The same in the next state.                                             *)
LEMMA RegistrosGuardadosDespues == IInv' => Guardan'
    BY RegistrosGuardados, PTL

(* The process in EXEC runs from the registers of the CPU, or from the     *)
(* context it gave back.                                                   *)
EnSuCPU ==
    /\ Ejecutando \/ Chequeando \/ Concedido => DondeEsta(corre) = registro
    /\ contexto # <<>> => DondeEsta(corre) = establecer_contexto(Recibido)

(* Where those of the process in EXEC are.                                 *)
LEMMA RegistrosEnLaCPU == IInv => EnSuCPU
<1> SUFFICES ASSUME IInv
             PROVE  EnSuCPU
    OBVIOUS
<1>1. CASE Ejecutando \/ Chequeando \/ Concedido
    BY <1>1 DEF Ejecutando, Chequeando, Concedido, Tiene, EsProceso, DondeEsta, EnCPU, EnSuCPU
<1>2. CASE contexto # <<>>
  <2>1. contexto[1] = corre
    BY <1>2, ConContexto DEF EsProceso, Recibido, actualizar_pcb_ejecutado
  <2> QED
    BY <1>2, <2>1 DEF Ejecutando, Chequeando, Concedido, DondeEsta, EnSuCPU
<1> QED
    BY <1>1, <1>2 DEF EnSuCPU

(* The same in the next state.                                             *)
LEMMA RegistrosEnLaCPUDespues == IInv' => EnSuCPU'
    BY RegistrosEnLaCPU, PTL

-----------------------------------------------------------------------------
(* The kernel takes the context in: the registers of the process are now   *)
(* in its copy.                                                            *)
LEMMA RecibirNoCambia ==
    ASSUME IInv, IInv', Termina \/ FinDeQuantum \/ BloqueaPorIO \/ InterfazInvalida
                        \/ BloqueaPorRecurso \/ RecursoInvalido, NEW q \in Pids
    PROVE  DondeEsta(q)' = DondeEsta(q)
<1>1. contexto # <<>> /\ contexto' = <<>> /\ corre' = Nadie
    BY DEF Termina, FinDeQuantum, BloqueaPorIO, InterfazInvalida, BloqueaPorRecurso,
           RecursoInvalido, Recibe, Deja, DejaRenovado
<1>2. /\ corre \in Pids /\ Nadie \notin Pids
      /\ establecer_contexto(guardado'[corre]) = establecer_contexto(Recibido)
      /\ \A p \in Pids \ {corre} : guardado'[p] = guardado[p]
  <2>1. corre \in Pids /\ Nadie \notin Pids
    BY <1>1, ConContexto, CicloAssumption
  <2>2. (\E e : Deja(e)) \/ (\E e : DejaRenovado(e))
    BY DEF Termina, FinDeQuantum, BloqueaPorIO, InterfazInvalida, BloqueaPorRecurso,
           RecursoInvalido
  <2>3. ASSUME NEW e, Deja(e)
        PROVE  /\ establecer_contexto(guardado'[corre]) = establecer_contexto(Recibido)
               /\ \A p \in Pids \ {corre} : guardado'[p] = guardado[p]
    <3> DEFINE r == [Recibido EXCEPT !.estado = e]
    <3>1. r.pc = Recibido.pc /\ r.registros = Recibido.registros
        BY DEF Recibido, actualizar_pcb_ejecutado
    <3>2. guardado' = [guardado EXCEPT ![corre] = r]
        BY <2>3 DEF Deja
    <3> HIDE DEF r
    <3>3. guardado'[corre] = r /\ \A p \in Pids \ {corre} : guardado'[p] = guardado[p]
        BY <2>1, <3>2 DEF IInv, Formas
    <3> QED
        BY <3>1, <3>3 DEF establecer_contexto
  <2>4. ASSUME NEW e, DejaRenovado(e)
        PROVE  /\ establecer_contexto(guardado'[corre]) = establecer_contexto(Recibido)
               /\ \A p \in Pids \ {corre} : guardado'[p] = guardado[p]
    <3> DEFINE r == [Recibido EXCEPT !.estado = e, !.quantum = Quantum]
               z == [Recibido EXCEPT !.estado = e]
    <3>1. z = [pid |-> Recibido.pid, pc |-> Recibido.pc, quantum |-> Recibido.quantum,
               estado |-> e, registros |-> Recibido.registros]
        BY DEF Recibido, actualizar_pcb_ejecutado
    <3>2. r = [z EXCEPT !.quantum = Quantum]
        OBVIOUS
    <3>3. guardado' = [guardado EXCEPT ![corre] = r]
        BY <2>4 DEF DejaRenovado
    <3> HIDE DEF z, r
    <3>4. r.pc = Recibido.pc /\ r.registros = Recibido.registros
        BY <3>1, <3>2
    <3>5. guardado'[corre] = r /\ \A p \in Pids \ {corre} : guardado'[p] = guardado[p]
        BY <2>1, <3>3 DEF IInv, Formas
    <3> QED
        BY <3>4, <3>5 DEF establecer_contexto
  <2> QED
    BY <2>1, <2>2, <2>3, <2>4
<1>3. DondeEsta(q)' = establecer_contexto(guardado'[q])
  <2>1. FueraDeLaCPU(q)'
    BY <1>1, <1>2 DEF FueraDeLaCPU
  <2> QED
    BY <2>1, RegistrosGuardadosDespues DEF Guardan
<1>4. CASE q = corre
    BY <1>1, <1>2, <1>3, <1>4, RegistrosEnLaCPU DEF EnSuCPU
<1>5. CASE q # corre
  <2>1. FueraDeLaCPU(q)
    BY <1>5 DEF FueraDeLaCPU
  <2>2. DondeEsta(q) = establecer_contexto(guardado[q])
    BY <2>1, RegistrosGuardados DEF Guardan
  <2> QED
    BY <1>2, <1>3, <1>5, <2>2
<1> QED
    BY <1>4, <1>5

(* MISMO_PID: the registers of the CPU stay the ones that count.           *)
LEMMA ConcederNoCambia ==
    ASSUME IInv, IInv', Concede, NEW q \in Pids
    PROVE  DondeEsta(q)' = DondeEsta(q)
<1>1. /\ contexto # <<>> /\ contexto' = <<>> /\ corre' = corre /\ fase' = fase
      /\ registro' = registro /\ alCPU' = Append(alCPU, MISMO_PID)
      /\ guardado' = [guardado EXCEPT ![corre] = Recibido]
    BY DEF Concede, Recibe, cpu
<1>2. corre \in Pids /\ alCPU = <<>> /\ Pidiendo /\ Recibido = pcb
  <2>1. Motivo(contexto) \in Sincronas
    BY MotivoRecibido DEF Concede, Sincronas
  <2> QED
    BY <1>1, <2>1, ConContexto DEF Devuelto
<1>3. CASE q = corre
  <2>1. DondeEsta(q) = registro
    BY <1>1, <1>2, <1>3, RegistrosEnLaCPU DEF EnSuCPU, Pidiendo, Tiene
  <2>2. alCPU' = <<MISMO_PID>> /\ corre' # Nadie
    BY <1>1, <1>2, ColaDeUno, CicloAssumption
  <2>3. Concedido'
    BY <1>1, <1>2, <2>2, ColaDeUno, AvisosDistintos, PcbNoEsAviso
       DEF IInv, Etapa, Ocioso, OciosoConAviso, Enviado, EnviadoConAviso, Ejecutando,
           Chequeando, Devuelto, Pidiendo, SinRespuesta
  <2> QED
    BY <1>1, <1>3, <2>1, <2>3, RegistrosEnLaCPUDespues DEF EnSuCPU
<1>4. CASE q # corre
  <2>1. guardado'[q] = guardado[q] /\ FueraDeLaCPU(q) /\ FueraDeLaCPU(q)'
    BY <1>1, <1>2, <1>4 DEF FueraDeLaCPU, IInv, Formas
  <2> QED
    BY <2>1, RegistrosGuardados, RegistrosGuardadosDespues DEF Guardan
<1> QED
    BY <1>3, <1>4

(* A state of the kernel's copy changes, or none does.                     *)
LEMMA KernelNoCambia ==
    ASSUME IInv, IInv', NEW q \in Pids,
           UNCHANGED <<contexto, fase, registro, pcb>>, NEW p \in Pids,
           guardado' = guardado \/ \E e : guardado' = [guardado EXCEPT ![p].estado = e]
    PROVE  DondeEsta(q)' = DondeEsta(q)
<1>1. establecer_contexto(guardado'[q]) = establecer_contexto(guardado[q])
    BY CambioDeEstado
<1>2. Recibido' = Recibido
    BY DEF Recibido
<1>3. establecer_contexto(guardado[q])' = establecer_contexto(guardado'[q])
    BY DEF establecer_contexto
<1> QED
    BY <1>1, <1>2, <1>3 DEF DondeEsta, EnCPU

(* The CPU takes a pcb, hears an answer or gives the process back: the     *)
(* registers are copied, never changed.                                    *)
LEMMA CPUNoCambia ==
    ASSUME IInv, IInv', RecibePcb \/ RecibeAviso \/ Chequea, NEW q \in Pids
    PROVE  DondeEsta(q)' = DondeEsta(q)
<1>1. guardado' = guardado /\ corre' = corre
    BY DEF RecibePcb, RecibeAviso, Chequea, TomaPcb, kernel
<1>2. establecer_contexto(guardado[q])' = establecer_contexto(guardado[q])
    BY <1>1 DEF establecer_contexto
<1>3. CASE FueraDeLaCPU(q) /\ FueraDeLaCPU(q)'
    BY <1>1, <1>3, RegistrosGuardados, RegistrosGuardadosDespues DEF Guardan
<1>4. CASE RecibePcb
  <2>1. /\ fase = "libre" /\ alCPU # <<>> /\ fase' = "ejecuta"
        /\ pcb' = recibir_pcb(Head(alCPU)) /\ registro' = establecer_contexto(pcb')
    BY <1>4 DEF RecibePcb, TomaPcb
  <2>2. Enviado
    BY <2>1, EtapaDeLaCPU
  <2>3. corre \in Pids /\ EsProceso(guardado[corre], corre)
    BY <2>2 DEF IInv, Formas, Enviado, Vigente
  <2>4. pcb' = guardado[corre]
    BY <2>1, <2>2, <2>3, ColaDeUno, PcbLeido DEF Enviado, EsProceso
  <2>5. DondeEsta(corre) = establecer_contexto(guardado[corre])
    <3>1. FueraDeLaCPU(corre)
        BY <2>1, <2>2 DEF FueraDeLaCPU, Enviado
    <3> QED
        BY <2>3, <3>1, RegistrosGuardados DEF Guardan
  <2>6. Ejecutando'
    BY <2>1 DEF IInv, Etapa, Ocioso, OciosoConAviso, Enviado, EnviadoConAviso, Ejecutando,
           Chequeando, Devuelto, Pidiendo, Concedido, SinRespuesta
  <2>7. DondeEsta(corre)' = registro'
    BY <2>6, RegistrosEnLaCPUDespues DEF EnSuCPU
  <2>8. CASE q = corre
    BY <1>1, <2>1, <2>4, <2>5, <2>7, <2>8
  <2>9. CASE q # corre
    BY <1>1, <1>3, <2>9 DEF FueraDeLaCPU
  <2> QED
    BY <2>8, <2>9
<1>5. CASE RecibeAviso
  <2>1. /\ fase = "aviso" /\ alCPU # <<>> /\ registro' = registro /\ contexto' = contexto
        /\ alCPU' = Tail(alCPU)
        /\ fase' = CASE Head(alCPU) = NUEVO_PID -> "libre"
                     [] Head(alCPU) = MISMO_PID -> "chequea"
                     [] OTHER -> "desfasada"
    BY <1>5 DEF RecibeAviso
  <2>2. OciosoConAviso \/ EnviadoConAviso \/ Concedido \/ SinRespuesta
    BY <2>1, EtapaDeLaCPU
  <2>3. CASE Concedido
    <3>1. Head(alCPU) = MISMO_PID
        BY <2>3, ColaDeUno DEF Concedido
    <3>2. fase' = "chequea"
        BY <2>1, <3>1, AvisosDistintos
    <3>3. Chequeando'
        BY <3>2 DEF IInv, Etapa, Ocioso, OciosoConAviso, Enviado, EnviadoConAviso, Ejecutando,
           Chequeando, Devuelto, Pidiendo, Concedido, SinRespuesta
    <3>4. DondeEsta(corre) = registro /\ DondeEsta(corre)' = registro'
        BY <1>1, <2>3, <3>3, RegistrosEnLaCPU, RegistrosEnLaCPUDespues DEF EnSuCPU
    <3>5. CASE q = corre
        BY <1>1, <2>1, <3>4, <3>5
    <3>6. CASE q # corre
        BY <1>1, <1>3, <3>6 DEF FueraDeLaCPU
    <3> QED
        BY <3>5, <3>6
  <2>4. CASE OciosoConAviso \/ EnviadoConAviso \/ SinRespuesta
    <3>1. contexto = <<>> /\ Head(alCPU) # MISMO_PID /\ alCPU # <<MISMO_PID>>
        BY <2>1, <2>4, ColaDeUno, ColaDeDos, AvisosDistintos, PcbNoEsAviso
           DEF OciosoConAviso, EnviadoConAviso, SinRespuesta
    <3>2. fase' \in {"libre", "desfasada"}
        BY <2>1, <3>1
    <3> QED
        BY <1>3, <2>1, <3>1, <3>2 DEF FueraDeLaCPU
  <2> QED
    BY <2>2, <2>3, <2>4
<1>6. CASE Chequea
  <2>1. fase = "chequea" /\ registro' = registro /\ pcb' = pcb
    BY <1>6 DEF Chequea
  <2>2. Chequeando /\ contexto = <<>>
    BY <2>1, EtapaDeLaCPU DEF Chequeando
  <2>3. DondeEsta(corre) = registro /\ registro = establecer_contexto(pcb)
        /\ EsProceso(pcb, corre)
    BY <2>2, RegistrosEnLaCPU DEF EnSuCPU, Chequeando, Tiene
  <2>4. CASE q # corre
    BY <1>1, <1>3, <2>4 DEF FueraDeLaCPU
  <2>5. CASE q = corre /\ interrupcion.pid = pcb.pid
    <3>1. contexto' = Contexto(pcb, interrupcion.motivo)
        BY <1>6, <2>5 DEF Chequea
    <3>2. contexto' # <<>> /\ Recibido' = pcb
        BY <2>3, <3>1, ContextoLeido DEF EsProceso, Recibido
    <3>3. DondeEsta(corre)' = establecer_contexto(Recibido)'
        BY <3>2, RegistrosEnLaCPUDespues DEF EnSuCPU
    <3>4. establecer_contexto(Recibido)' = establecer_contexto(pcb)
        BY <3>2 DEF establecer_contexto
    <3> QED
        BY <1>1, <2>3, <2>5, <3>3, <3>4
  <2>6. CASE q = corre /\ interrupcion.pid # pcb.pid
    <3>1. fase' = "ejecuta"
        BY <1>6, <2>6 DEF Chequea
    <3>2. Ejecutando'
        BY <3>1 DEF IInv, Etapa, Ocioso, OciosoConAviso, Enviado, EnviadoConAviso, Ejecutando,
           Chequeando, Devuelto, Pidiendo, Concedido, SinRespuesta
    <3> QED
        BY <1>1, <2>1, <2>3, <2>6, <3>2, RegistrosEnLaCPUDespues DEF EnSuCPU
  <2> QED
    BY <2>4, <2>5, <2>6
<1> QED
    BY <1>4, <1>5, <1>6

-----------------------------------------------------------------------------
(* What module Maquina does to the process m, for the instructions that do *)
(* not compute on two registers nor go through the memory.                 *)
LEMMA MaquinaEjecuta ==
    ASSUME NEW R, EsArchivo(R), NEW s, NEW n, NEW i, i.op \notin DeDatos,
           NEW m, m = [reg |-> R, mem |-> s, pedidos |-> n]
    PROVE  M!Ejecuta(m, i) =
             [reg |-> CASE i.op = "SET" -> InstruccionSET(R, i.d, i.n)
                        [] i.op = "JNZ" -> jnz(R, i.d, i.n)
                        [] i.op \in Sincronas \cup {"IO", "RESIZE"} -> Avanza(R)
                        [] OTHER -> R,
              mem |-> s,
              pedidos |-> IF i.op \in Sincronas \cup {"IO"} THEN n + 1 ELSE n]
<1>1. ASSUME NEW Q, NEW k, NEW r, NEW v
      PROVE  M!Pone([reg |-> Q, mem |-> s, pedidos |-> k], r, v)
               = [reg |-> set(Q, r, v), mem |-> s, pedidos |-> k]
    BY DEF M!Pone, M!Cabe, set, Modulo
<1>2. ASSUME NEW Q, NEW k
      PROVE  M!Sigue([reg |-> Q, mem |-> s, pedidos |-> k])
               = [reg |-> Avanza(Q), mem |-> s, pedidos |-> k]
  <2>1. set(Q, "PC", Q["PC"] + 1) = Avanza(Q)
    BY DEF set, Avanza, Modulo, Reg8
  <2> QED
    BY <1>1, <2>1 DEF M!Sigue
<1>3. ASSUME NEW v
      PROVE  M!Salta(m, v) = [reg |-> [R EXCEPT !["PC"] = v % M32], mem |-> s, pedidos |-> n]
  <2>1. set(R, "PC", v) = [R EXCEPT !["PC"] = v % M32]
    BY DEF set, Modulo, Reg8
  <2> QED
    BY <1>1, <2>1 DEF M!Salta
<1>4. CASE i.op = "SET" /\ i.d = "PC"
  <2>1. M!Ejecuta(m, i) = M!Salta(m, i.n)
    BY <1>4 DEF M!Ejecuta
  <2>2. InstruccionSET(R, i.d, i.n) = [R EXCEPT !["PC"] = i.n % M32]
    BY <1>4 DEF InstruccionSET, set, Modulo, Reg8
  <2> QED
    BY <1>3, <1>4, <2>1, <2>2 DEF Sincronas
<1>5. CASE i.op = "SET" /\ i.d # "PC"
  <2>1. M!Ejecuta(m, i) = M!Sigue(M!Pone(m, i.d, i.n))
    BY <1>5 DEF M!Ejecuta
  <2>2. InstruccionSET(R, i.d, i.n) = Avanza(set(R, i.d, i.n))
    BY <1>5 DEF InstruccionSET
  <2>3. M!Pone(m, i.d, i.n) = [reg |-> set(R, i.d, i.n), mem |-> s, pedidos |-> n]
    BY <1>1
  <2>4. M!Ejecuta(m, i) = [reg |-> InstruccionSET(R, i.d, i.n), mem |-> s, pedidos |-> n]
    BY <1>2, <2>1, <2>2, <2>3
  <2> QED
    BY <1>5, <2>4 DEF Sincronas
<1>6. CASE i.op = "JNZ"
  <2>1. M!Ejecuta(m, i) = IF R[i.d] = 0 THEN M!Sigue(m) ELSE M!Salta(m, i.n)
    BY <1>6 DEF M!Ejecuta
  <2>2. M!Ejecuta(m, i) = [reg |-> jnz(R, i.d, i.n), mem |-> s, pedidos |-> n]
    BY <1>2, <1>3, <2>1 DEF jnz
  <2> QED
    BY <1>6, <2>2 DEF Sincronas
<1>7. CASE i.op = "RESIZE"
  <2>1. M!Ejecuta(m, i) = M!Sigue(m)
    BY <1>7 DEF M!Ejecuta
  <2> QED
    BY <1>2, <1>7, <2>1 DEF Sincronas
<1>8. CASE i.op \in Sincronas \cup {"IO"}
  <2>1. M!Ejecuta(m, i) = M!Sigue([m EXCEPT !.pedidos = @ + 1])
    BY <1>8 DEF M!Ejecuta, Sincronas
  <2>2. [m EXCEPT !.pedidos = @ + 1] = [reg |-> R, mem |-> s, pedidos |-> n + 1]
    OBVIOUS
  <2>3. M!Ejecuta(m, i) = [reg |-> Avanza(R), mem |-> s, pedidos |-> n + 1]
    BY <1>2, <2>1, <2>2
  <2> QED
    BY <1>8, <2>3 DEF Sincronas
<1>9. CASE i.op \notin {"SET", "JNZ", "RESIZE", "IO"} \cup Sincronas
  <2>1. M!Ejecuta(m, i) = m
    BY <1>9 DEF M!Ejecuta, DeDatos, Sincronas
  <2> QED
    BY <1>9, <2>1 DEF Sincronas
<1> QED
    BY <1>4, <1>5, <1>6, <1>7, <1>8, <1>9

(* Every process has a count of its requests.                              *)
PedidosDeTodos == pedidos = [p \in Pids |-> pedidos[p]]

(* Only Empieza counts a request, of a process that has a count.           *)
LEMMA PedidosCompletos == Spec => []PedidosDeTodos
<1>1. Init => PedidosDeTodos
    BY DEF Init, PedidosDeTodos
<1>2. PedidosDeTodos /\ [Next]_vars => PedidosDeTodos'
  <2> SUFFICES ASSUME PedidosDeTodos, [Next]_vars
               PROVE  PedidosDeTodos'
    OBVIOUS
  <2>1. pedidos' = pedidos \/ \E p, n : pedidos' = [pedidos EXCEPT ![p] = n]
    <3>1. CASE Kernel
        BY <3>1 DEF Kernel, Termina, FinDeQuantum, BloqueaPorIO, InterfazInvalida, Concede,
           BloqueaPorRecurso, RecursoInvalido, Recibe
    <3>2. CASE RecibePcb \/ RecibeAviso \/ Chequea
        BY <3>2 DEF RecibePcb, RecibeAviso, Chequea, historia
    <3>3. ASSUME NEW ops, Empieza(ops)
          PROVE  \E p, n : pedidos' = [pedidos EXCEPT ![p] = n]
        BY <3>3 DEF Empieza
    <3>4. CASE VenceQuantum \/ LlegaInterrupcion \/ Mata \/ UNCHANGED vars
        BY <3>4 DEF VenceQuantum, LlegaInterrupcion, Mata, historia, vars
    <3>5. ASSUME NEW p \in Pids, Despacha(p) \/ Despierta(p)
          PROVE  pedidos' = pedidos
        BY <3>5 DEF Despacha, Despierta, historia
    <3> QED
        BY <3>1, <3>2, <3>3, <3>4, <3>5
           DEF Next, CPU, Calcula, EscribeMemoria, PideIO, SinMemoria, Exit, PideRecurso
  <2> QED
    BY <2>1 DEF PedidosDeTodos
<1> QED
    BY <1>1, <1>2, PTL DEF Spec

(* An instruction runs on the process in EXEC: the others keep all they    *)
(* have, and its own registers are those the CPU holds, or those that go   *)
(* in the context.                                                         *)
LEMMA InstruccionPropia ==
    ASSUME IInv, IInv', PedidosDeTodos, NEW ops, Empieza(ops),
           UNCHANGED mem \/ EscribeMemoria
    PROVE  /\ fase = "ejecuta" /\ corre \in Pids /\ pcb.pid = corre /\ corre' = corre
           /\ Actual.op \in ops /\ EsRegistro(pcb) /\ programa' = programa
           /\ registro = establecer_contexto(pcb) /\ EsArchivo(registro)
           /\ Proceso(corre) = [reg |-> registro, mem |-> mem[corre], pedidos |-> pedidos[corre]]
           /\ \A q \in Pids \ {corre} : Proceso(q)' = Proceso(q)
           /\ pedidos'[corre] = IF Actual.op \in Sincronas \cup {"IO"} THEN pedidos[corre] + 1
                                                                    ELSE pedidos[corre]
           /\ Actual.op \notin Sincronas \cup {"IO"} => pedidos' = pedidos
<1>1. /\ Ejecutando /\ corre' = corre /\ guardado' = guardado /\ Actual.op \in ops
      /\ programa' = programa /\ fase = "ejecuta"
    BY Contada DEF Empieza, kernel
<1>2. /\ corre \in Pids /\ pcb.pid = corre /\ EsRegistro(pcb)
      /\ registro = establecer_contexto(pcb) /\ EsArchivo(registro)
    BY <1>1 DEF Ejecutando, Tiene, EsProceso, EsArchivo, establecer_contexto
<1>3. DondeEsta(corre) = registro
    BY <1>1, RegistrosEnLaCPU DEF EnSuCPU
<1>4. ASSUME NEW q \in Pids \ {corre}
      PROVE  Proceso(q)' = Proceso(q)
  <2>1. FueraDeLaCPU(q) /\ FueraDeLaCPU(q)'
    BY <1>1 DEF FueraDeLaCPU
  <2>2. DondeEsta(q)' = DondeEsta(q)
    BY <1>1, <2>1, RegistrosGuardados, RegistrosGuardadosDespues
       DEF Guardan, establecer_contexto
  <2>3. pedidos'[q] = pedidos[q]
    BY <1>2 DEF PedidosDeTodos, Empieza
  <2>4. mem'[q] = mem[q]
    <3>1. ASSUME NEW v, mem' = [mem EXCEPT ![pcb.pid] = v]
          PROVE  mem'[q] = mem[q]
        BY <1>2, <3>1
    <3> QED
        BY <3>1 DEF EscribeMemoria
  <2> QED
    BY <2>2, <2>3, <2>4 DEF Proceso
<1>5. pedidos'[corre] = IF Actual.op \in Sincronas \cup {"IO"} THEN pedidos[corre] + 1
                                                             ELSE pedidos[corre]
    BY <1>2 DEF PedidosDeTodos, Empieza
<1>6. Actual.op \notin Sincronas \cup {"IO"} => pedidos' = pedidos
    BY <1>2 DEF PedidosDeTodos, Empieza
<1> QED
    BY <1>1, <1>2, <1>3, <1>4, <1>5, <1>6 DEF Proceso

(* A step that leaves one process with what Maquina gives it, and the      *)
(* others as they were, is a step of Maquina.                              *)
LEMMA CorreEnMaquina ==
    ASSUME NEW p \in Pids, programa' = programa, pcb.pid = p,
           EsArchivo(registro), Actual.op \notin DeDatos,
           Proceso(p) = [reg |-> registro, mem |-> mem[p], pedidos |-> pedidos[p]],
           \A q \in Pids \ {p} : Proceso(q)' = Proceso(q), mem'[p] = mem[p],
           pedidos'[p] = IF Actual.op \in Sincronas \cup {"IO"} THEN pedidos[p] + 1
                                                             ELSE pedidos[p],
           DondeEsta(p)' =
             CASE Actual.op = "SET" -> InstruccionSET(registro, Actual.d, Actual.n)
               [] Actual.op = "JNZ" -> jnz(registro, Actual.d, Actual.n)
               [] Actual.op \in Sincronas \cup {"IO", "RESIZE"} -> Avanza(registro)
               [] OTHER -> registro
    PROVE  M!Next
<1> DEFINE m == Proceso(p)
           i == programa[p][m.reg["PC"] + 1]
<1>1. i = Actual
    BY DEF Actual
<1>2. Proceso(p)' = M!Ejecuta(m, i)
  <2>1. Proceso(p)' = [reg |-> DondeEsta(p)', mem |-> mem[p],
                       pedidos |-> IF Actual.op \in Sincronas \cup {"IO"} THEN pedidos[p] + 1
                                                                         ELSE pedidos[p]]
    BY DEF Proceso
  <2> HIDE DEF m, i
  <2>2. M!Ejecuta(m, i) =
             [reg |-> CASE i.op = "SET" -> InstruccionSET(registro, i.d, i.n)
                        [] i.op = "JNZ" -> jnz(registro, i.d, i.n)
                        [] i.op \in Sincronas \cup {"IO", "RESIZE"} -> Avanza(registro)
                        [] OTHER -> registro,
              mem |-> mem[p],
              pedidos |-> IF i.op \in Sincronas \cup {"IO"} THEN pedidos[p] + 1 ELSE pedidos[p]]
    BY <1>1, MaquinaEjecuta DEF m
  <2> QED
    BY <1>1, <2>1, <2>2
<1> HIDE DEF m, i
<1>3. Procesos' = [q \in Pids |-> Proceso(q)'] /\ Procesos = [q \in Pids |-> Proceso(q)]
    BY DEF Procesos
<1>4. Procesos' = [Procesos EXCEPT ![p] = M!Ejecuta(m, i)]
    BY <1>2, <1>3
<1>5. Procesos[p] = m
    BY <1>3 DEF m
<1>6. Procesos' = [Procesos EXCEPT ![p] =
                     M!Ejecuta(Procesos[p], programa[p][Procesos[p].reg["PC"] + 1])]
    BY <1>4, <1>5 DEF i
<1>7. M!Corre(p)
    BY <1>6 DEF M!Corre, Procesos, Proceso
<1> QED
    BY <1>7 DEF M!Next

(* The six actions of the CPU that run an instruction.                     *)
LEMMA PasoDeInstruccion ==
    ASSUME IInv, IInv', PedidosDeTodos,
           Calcula \/ EscribeMemoria \/ PideIO \/ SinMemoria \/ Exit \/ PideRecurso
    PROVE  M!Next \/ \E p \in Pids : CalculaDatos(p)
<1> DEFINE p == corre
<1>0. PICK ops \in {{"SET", "SUM", "SUB", "JNZ", "MOV_IN", "RESIZE", "INVALIDA"},
                    {"MOV_OUT", "COPY_STRING"}, {"IO"}, {"RESIZE"}, {"EXIT"}, Sincronas} :
        /\ Empieza(ops)
        /\ \/ /\ Calcula
              /\ ops = {"SET", "SUM", "SUB", "JNZ", "MOV_IN", "RESIZE", "INVALIDA"}
           \/ EscribeMemoria /\ ops = {"MOV_OUT", "COPY_STRING"}
           \/ PideIO /\ ops = {"IO"}
           \/ SinMemoria /\ ops = {"RESIZE"}
           \/ Exit /\ ops = {"EXIT"}
           \/ PideRecurso /\ ops = Sincronas
    BY DEF Calcula, EscribeMemoria, PideIO, SinMemoria, Exit, PideRecurso
<1>1. UNCHANGED mem \/ EscribeMemoria
    BY <1>0 DEF Calcula, PideIO, SinMemoria, Exit, PideRecurso, Desaloja
<1>2. /\ fase = "ejecuta" /\ p \in Pids /\ pcb.pid = p /\ corre' = p
      /\ Actual.op \in ops /\ EsRegistro(pcb) /\ programa' = programa
      /\ registro = establecer_contexto(pcb) /\ EsArchivo(registro)
      /\ Proceso(p) = [reg |-> registro, mem |-> mem[p], pedidos |-> pedidos[p]]
      /\ \A q \in Pids \ {p} : Proceso(q)' = Proceso(q)
      /\ pedidos'[p] = IF Actual.op \in Sincronas \cup {"IO"} THEN pedidos[p] + 1
                                                           ELSE pedidos[p]
      /\ Actual.op \notin Sincronas \cup {"IO"} => pedidos' = pedidos
    BY <1>0, <1>1, InstruccionPropia
<1>3. CASE Actual.op \in DeDatos
  <2>1. pedidos' = pedidos
    BY <1>2, <1>3 DEF DeDatos, Sincronas
  <2> QED
    BY <1>2, <1>3, <2>1 DEF CalculaDatos
<1>4. CASE Actual.op \notin DeDatos
  <2>1. ~EscribeMemoria /\ mem' = mem
    BY <1>0, <1>1, <1>2, <1>4 DEF DeDatos, EscribeMemoria, Empieza
  <2>2. DondeEsta(p)' =
             CASE Actual.op = "SET" -> InstruccionSET(registro, Actual.d, Actual.n)
               [] Actual.op = "JNZ" -> jnz(registro, Actual.d, Actual.n)
               [] Actual.op \in Sincronas \cup {"IO", "RESIZE"} -> Avanza(registro)
               [] OTHER -> registro
    <3>1. CASE Calcula
      <4>1. registro' = Nuevo(Actual) /\ fase' = "chequea"
          /\ Actual.op \in {"SET", "SUM", "SUB", "JNZ", "MOV_IN", "RESIZE", "INVALIDA"}
          BY <3>1 DEF Calcula, Registra, Empieza
      <4>2. Chequeando'
          BY <4>1 DEF IInv, Etapa, Ocioso, OciosoConAviso, Enviado, EnviadoConAviso, Ejecutando,
             Chequeando, Devuelto, Pidiendo, Concedido, SinRespuesta
      <4>3. DondeEsta(p)' = Nuevo(Actual)
          BY <1>2, <4>1, <4>2, RegistrosEnLaCPUDespues DEF EnSuCPU
      <4>4. CASE Actual.op = "SET"
          BY <4>3, <4>4 DEF Nuevo
      <4>5. CASE Actual.op = "JNZ"
          BY <4>3, <4>5 DEF Nuevo
      <4>6. CASE Actual.op = "RESIZE"
          BY <4>3, <4>6 DEF Nuevo, Sincronas
      <4>7. CASE Actual.op = "INVALIDA"
          BY <4>3, <4>7 DEF Nuevo, Sincronas
      <4> QED
          BY <1>4, <4>1, <4>4, <4>5, <4>6, <4>7 DEF DeDatos
    <3>2. CASE PideIO \/ SinMemoria
      <4>1. PICK motivo : Desaloja(motivo) /\ Actual.op \in {"IO", "RESIZE"}
          BY <3>2 DEF PideIO, SinMemoria, Empieza
      <4> DEFINE n == (registro["PC"] + 1) % M32
                 y == [pcb EXCEPT !.pc = n, !.quantum = @ - Retardo]
      <4>2. contexto' = Contexto(y, motivo)
          BY <4>1 DEF Desaloja
      <4>3. Avanza(registro) = [registro EXCEPT !["PC"] = n]
          BY DEF Avanza
      <4> HIDE DEF n
      <4>4. EsRegistro(y) /\ y.pid = pcb.pid /\ y.pc = n /\ y.registros = pcb.registros
          BY <1>2, PcbDesalojado
      <4> HIDE DEF y
      <4>5. contexto' # <<>> /\ Recibido' = y
          BY <4>2, <4>4, ContextoLeido DEF Recibido
      <4>6. DondeEsta(p)' = establecer_contexto(y)
          BY <1>2, <4>5, RegistrosEnLaCPUDespues DEF EnSuCPU, establecer_contexto
      <4>7. establecer_contexto(y) = Avanza(registro)
        <5>1. /\ registro = [r \in Registros |-> registro[r]]
              /\ \A r \in Registros : registro[r] = IF r = "PC" THEN pcb.pc ELSE pcb.registros[r]
            BY <1>2 DEF establecer_contexto, EsArchivo
        <5> QED
            BY <4>3, <4>4, <5>1 DEF establecer_contexto
      <4> QED
          BY <4>1, <4>6, <4>7 DEF Sincronas
    <3>3. CASE Exit
      <4>1. contexto' = Contexto(pcb, "EXIT") /\ Actual.op = "EXIT"
          BY <3>3 DEF Exit, Empieza
      <4>2. contexto' # <<>> /\ Recibido' = pcb
          BY <1>2, <4>1, ContextoLeido DEF Recibido
      <4>3. DondeEsta(p)' = registro
          BY <1>2, <4>2, RegistrosEnLaCPUDespues DEF EnSuCPU, establecer_contexto
      <4> QED
          BY <4>1, <4>3 DEF Sincronas
    <3>4. CASE PideRecurso
      <4>1. /\ registro' = Avanza(registro) /\ pcb' = [pcb EXCEPT !.pc = registro'["PC"]]
            /\ contexto' = Contexto(pcb', Actual.op) /\ Actual.op \in Sincronas
          BY <3>4 DEF PideRecurso, Empieza
      <4>2. EsRegistro(pcb') /\ registro' = establecer_contexto(pcb')
          BY <1>2, <4>1, PcbPedido
      <4>3. contexto' # <<>> /\ Recibido' = pcb'
          BY <4>1, <4>2, ContextoLeido DEF Recibido
      <4>4. DondeEsta(p)' = Avanza(registro)
          BY <1>2, <4>1, <4>2, <4>3, RegistrosEnLaCPUDespues DEF EnSuCPU, establecer_contexto
      <4> QED
          BY <4>1, <4>4 DEF Sincronas
    <3> QED
        BY <1>0, <2>1, <3>1, <3>2, <3>3, <3>4
  <2> QED
    BY <1>2, <1>4, <2>1, <2>2, CorreEnMaquina
<1> QED
    BY <1>3, <1>4

(* The rest of the system is invisible to the processes.                   *)
LEMMA PasoInvisible ==
    ASSUME IInv, IInv', Kernel \/ RecibePcb \/ RecibeAviso \/ Chequea \/ VenceQuantum
           \/ LlegaInterrupcion \/ Mata \/ \E p \in Pids : Despacha(p) \/ Despierta(p)
    PROVE  programa' = programa /\ Procesos' = Procesos
<1>1. programa' = programa /\ mem' = mem /\ pedidos' = pedidos
    BY DEF Kernel, Termina, FinDeQuantum, BloqueaPorIO, InterfazInvalida, Concede,
           BloqueaPorRecurso, RecursoInvalido, Recibe, RecibePcb, RecibeAviso, Chequea,
           VenceQuantum, LlegaInterrupcion, Mata, Despacha, Despierta, espacio, historia
<1>2. ASSUME NEW q \in Pids
      PROVE  DondeEsta(q)' = DondeEsta(q)
  <2>1. CASE Kernel
    BY <2>1, RecibirNoCambia, ConcederNoCambia DEF Kernel
  <2>2. CASE RecibePcb \/ RecibeAviso \/ Chequea
    BY <2>2, CPUNoCambia
  <2>3. CASE VenceQuantum \/ LlegaInterrupcion \/ Mata
    <3>1. UNCHANGED <<contexto, fase, registro, pcb>> /\ guardado' = guardado
        BY <2>3 DEF VenceQuantum, LlegaInterrupcion, Mata, kernel, cpu
    <3> QED
        BY <3>1, KernelNoCambia
  <2>4. ASSUME NEW p \in Pids, Despacha(p) \/ Despierta(p)
        PROVE  DondeEsta(q)' = DondeEsta(q)
    <3>1. /\ UNCHANGED <<contexto, fase, registro, pcb>>
          /\ \E e : guardado' = [guardado EXCEPT ![p].estado = e]
        BY <2>4 DEF Despacha, Despierta, cpu
    <3> QED
        BY <3>1, KernelNoCambia
  <2> QED
    BY <2>1, <2>2, <2>3, <2>4
<1> QED
    BY <1>1, <1>2 DEF Procesos, Proceso

(* Each process runs its program as module Maquina says, up to the values  *)
(* of the instructions of DeDatos: it starts as Maquina starts, and every  *)
(* step of the system is one instruction of one process or changes nothing *)
(* a process can see.  However many times a process is preempted, blocked, *)
(* answered or charged, no register, no byte and no request of it is lost, *)
(* repeated or given to another (the step part of ImplementaMaquina).      *)
THEOREM ProcesosAislados == Spec => M!Init /\ PasosPropios
<1>1. Init => M!Init
  <2> SUFFICES ASSUME Init
               PROVE  M!Init
    OBVIOUS
  <2>1. ASSUME NEW p \in Pids
        PROVE  Proceso(p) = M!Inicial
    <3>1. DondeEsta(p) = [r \in Registros |-> 0]
        BY DEF Init, DondeEsta, EnCPU, establecer_contexto, PcbNuevo, Vacios, Registros
    <3>2. mem[p] = [i \in 1..Celdas |-> 0] /\ pedidos[p] = 0
        BY DEF Init
    <3>3. M!Inicial = [reg |-> [r \in Registros |-> 0], mem |-> [i \in 1..Celdas |-> 0],
                       pedidos |-> 0]
        BY DEF M!Inicial, M!Nombres, Registros, Generales
    <3> QED
        BY <3>1, <3>2, <3>3 DEF Proceso
  <2> QED
    BY <2>1 DEF M!Init, Proceso
<1>2. IInv /\ IInv' /\ PedidosDeTodos /\ [Next]_vars =>
        [M!Next \/ \E p \in Pids : CalculaDatos(p)]_<<programa, Procesos>>
  <2> SUFFICES ASSUME IInv, IInv', PedidosDeTodos, [Next]_vars
               PROVE  [M!Next \/ \E p \in Pids : CalculaDatos(p)]_<<programa, Procesos>>
    OBVIOUS
  <2>1. CASE Calcula \/ EscribeMemoria \/ PideIO \/ SinMemoria \/ Exit \/ PideRecurso
    BY <2>1, PasoDeInstruccion
  <2>2. CASE Kernel \/ RecibePcb \/ RecibeAviso \/ Chequea \/ VenceQuantum
             \/ LlegaInterrupcion \/ Mata \/ \E p \in Pids : Despacha(p) \/ Despierta(p)
    BY <2>2, PasoInvisible
  <2>3. CASE UNCHANGED vars
    BY <2>3 DEF vars, Procesos, Proceso, DondeEsta, EnCPU, establecer_contexto, Recibido
  <2> QED
    BY <2>1, <2>2, <2>3 DEF Next, CPU
<1> QED
    BY <1>1, <1>2, Invariante, PedidosCompletos, PTL DEF Spec, PasosPropios
=============================================================================
