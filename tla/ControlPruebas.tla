--------------------------- MODULE ControlPruebas ---------------------------
(***************************************************************************)
(* Proofs about module ControlPlanificacion, for any number of interfaces  *)
(* and of kills: however fast the user stops and starts the scheduler,     *)
(* when nothing is typed during a kill and no kill while a stopper waits,  *)
(* the flag agrees with the permits, and a kill takes the scheduler as     *)
(* module BusquedaExclusiva says.                                          *)
(***************************************************************************)
EXTENDS ControlPlanificacion, FiniteSetTheorems, TLAPS

UnaPorVez == EnSerie \/ Finalizadores = {}

Activo(k) == fin[k].paso \notin {"fuera", "termino"}
Confirma(k) == fin[k].paso = "espera"
PorConfirmar == avisan["new"] + avisan["ready"] + avisan["exec"] + avisan["blocked"]

(* A kill runs with the console idle, no other kill and no stopper of a    *)
(* DETENER_PLANIFICACION.  Without a kill any number of those may wait.    *)
Turnos ==
    /\ \A k, j \in Finalizadores : Activo(k) /\ Activo(j) => k = j
    /\ \A k \in Finalizadores :
         Activo(k) => consola.paso = "lee" /\ \A f \in Fases : mudos[f] = 0

(* The four stoppers of a kill are waiting, confirmed, or counted by it.   *)
Confirmaciones ==
    /\ \A k \in Finalizadores : Confirma(k) => fin[k].n + detenida + PorConfirmar = 4
    /\ (\A k \in Finalizadores : ~Confirma(k))
         => detenida = 0 /\ \A f \in Fases : avisan[f] = 0

(* What a command knows about the flag from where it is.                   *)
Banderas ==
    /\ consola.paso \in {"baja", "postea"} => iniciada
    /\ consola.paso = "sube" => ~iniciada
    /\ \A k \in Finalizadores :
         /\ fin[k].paso \in {"baja", "postea"} => iniciada
         /\ fin[k].paso \in {"espera", "busca_ya", "busca", "relee", "sube"} => ~iniciada

IInv == TypeOK /\ Turnos /\ Confirmaciones /\ Banderas /\ BanderaDiceLaVerdad

-----------------------------------------------------------------------------
(* The four phases, and the posts that are left after the first n.         *)
Falta(n, f) == \E i \in (n + 1)..4 : Orden[i] = f

LEMMA OrdenFases ==
    /\ Fases = {"new", "ready", "exec", "blocked"}
    /\ \A i, j \in 1..4 : Orden[i] = Orden[j] => i = j
<1>1. Orden[1] = "new" /\ Orden[2] = "ready" /\ Orden[3] = "exec" /\ Orden[4] = "blocked"
  BY DEF Orden
<1>2. 1..4 = {1, 2, 3, 4}
  OBVIOUS
<1>3. QED
  BY <1>1, <1>2 DEF Fases

LEMMA FaltaPropiedades ==
    /\ \A f \in Fases : Falta(0, f)
    /\ \A n \in 0..3 : Orden[n + 1] \in Fases /\ Falta(n, Orden[n + 1])
                       /\ ~Falta(n + 1, Orden[n + 1])
    /\ \A n \in 0..3, f \in Fases : f # Orden[n + 1] => (Falta(n, f) <=> Falta(n + 1, f))
    /\ \A f \in Fases : ~Falta(4, f)
<1>1. \A f \in Fases : Falta(0, f)
  BY DEF Fases, Falta
<1>2. ASSUME NEW n \in 0..3
      PROVE  Orden[n + 1] \in Fases /\ Falta(n, Orden[n + 1]) /\ ~Falta(n + 1, Orden[n + 1])
  <2>1. n + 1 \in 1..4 /\ n + 1 \in (n + 1)..4
    OBVIOUS
  <2>2. \A i \in (n + 2)..4 : i \in 1..4 /\ i # n + 1
    OBVIOUS
  <2>3. QED
    BY <2>1, <2>2, OrdenFases DEF Fases, Falta
<1>3. ASSUME NEW n \in 0..3, NEW f \in Fases, f # Orden[n + 1]
      PROVE  Falta(n, f) <=> Falta(n + 1, f)
  <2>1. (n + 1)..4 = {n + 1} \cup (n + 1 + 1)..4
    OBVIOUS
  <2>2. QED
    BY <1>3, <2>1 DEF Falta
<1>4. \A f \in Fases : ~Falta(4, f)
  BY DEF Falta
<1>5. QED
  BY <1>1, <1>2, <1>3, <1>4

LEMMA FaseDeHilo == \A h \in Hilos : FaseDe(h) \in Fases
BY ControlAssumption, OrdenFases DEF Hilos, FaseDe

(* Threads that enter and leave a section are counted in their phase.      *)
En(S, f) == {h \in S : FaseDe(h) = f}

LEMMA Contados ==
    ASSUME NEW S \in SUBSET Hilos, NEW f \in Fases
    PROVE  /\ IsFiniteSet(En(S, f)) /\ Cardinality(En(S, f)) \in Nat
           /\ Cardinality(En(S, f)) = 0 <=> En(S, f) = {}
           /\ \A h \in Hilos \ S :
                Cardinality(En(S \cup {h}, f))
                  = Cardinality(En(S, f)) + (IF FaseDe(h) = f THEN 1 ELSE 0)
           /\ \A h \in S :
                Cardinality(En(S \ {h}, f))
                  = Cardinality(En(S, f)) - (IF FaseDe(h) = f THEN 1 ELSE 0)
<1>1. IsFiniteSet(Hilos)
  <2>1. IsFiniteSet({"lp", "cp_ready", "cp_exec"})
    <3>1. IsFiniteSet({}) /\ IsFiniteSet({} \cup {"lp"})
      BY FS_EmptySet, FS_AddElement
    <3>2. IsFiniteSet(({} \cup {"lp"}) \cup {"cp_ready"})
      BY <3>1, FS_AddElement
    <3>3. IsFiniteSet((({} \cup {"lp"}) \cup {"cp_ready"}) \cup {"cp_exec"})
      BY <3>2, FS_AddElement
    <3>4. (({} \cup {"lp"}) \cup {"cp_ready"}) \cup {"cp_exec"} = {"lp", "cp_ready", "cp_exec"}
      OBVIOUS
    <3>5. QED
      BY <3>3, <3>4
  <2>2. QED
    BY <2>1, FS_Union, ControlAssumption DEF Hilos
<1>2. IsFiniteSet(En(S, f)) /\ Cardinality(En(S, f)) \in Nat
  <2>1. En(S, f) \subseteq Hilos
    BY DEF En
  <2>2. QED
    BY <1>1, <2>1, FS_Subset, FS_CardinalityType
<1>3. Cardinality(En(S, f)) = 0 <=> En(S, f) = {}
  BY <1>2, FS_EmptySet
<1>4. ASSUME NEW h \in Hilos \ S
      PROVE  Cardinality(En(S \cup {h}, f))
               = Cardinality(En(S, f)) + (IF FaseDe(h) = f THEN 1 ELSE 0)
  <2>1. CASE FaseDe(h) = f
    <3>1. En(S \cup {h}, f) = En(S, f) \cup {h} /\ h \notin En(S, f)
      BY <2>1 DEF En
    <3>2. QED
      BY <1>2, <2>1, <3>1, FS_AddElement
  <2>2. CASE FaseDe(h) # f
    <3>1. En(S \cup {h}, f) = En(S, f)
      BY <2>2 DEF En
    <3>2. QED
      BY <1>2, <2>2, <3>1
  <2>3. QED
    BY <2>1, <2>2
<1>5. ASSUME NEW h \in S
      PROVE  Cardinality(En(S \ {h}, f))
               = Cardinality(En(S, f)) - (IF FaseDe(h) = f THEN 1 ELSE 0)
  <2>1. CASE FaseDe(h) = f
    <3>1. En(S \ {h}, f) = En(S, f) \ {h} /\ h \in En(S, f)
      BY <2>1 DEF En
    <3>2. Cardinality(En(S, f) \ {h}) = Cardinality(En(S, f)) - 1
      BY <1>2, <3>1, FS_RemoveElement
    <3>3. QED
      BY <2>1, <3>1, <3>2
  <2>2. CASE FaseDe(h) # f
    <3>1. En(S \ {h}, f) = En(S, f)
      BY <2>2 DEF En
    <3>2. QED
      BY <1>2, <2>2, <3>1
  <2>3. QED
    BY <2>1, <2>2
<1>6. QED
  BY <1>2, <1>3, <1>4, <1>5

-----------------------------------------------------------------------------
(* The type invariant, with the flag apart.                                *)
Pc == [paso : Pasos, n : 0..3]
Contadores ==
    /\ ficha \in [Fases -> Nat] /\ detenida \in Nat
    /\ mudos \in [Fases -> Nat] /\ avisan \in [Fases -> Nat]
    /\ dentro \subseteq Hilos /\ turno \in {"cp_ready", "cp_exec"}
Comandos ==
    /\ consola \in [paso : {"lee", "baja", "sube", "postea"}, n : 0..3]
    /\ fin \in [Finalizadores -> Pc]

LEMMA Tipos == TypeOK <=> iniciada \in BOOLEAN /\ Contadores /\ Comandos
BY DEF TypeOK, Contadores, Comandos, Pc

LEMMA InicioIInv == Init => IInv
<1> SUFFICES ASSUME Init PROVE IInv
  OBVIOUS
<1>1. TypeOK
  <2>1. iniciada \in BOOLEAN
    BY DEF Init
  <2>2. Contadores
    BY DEF Init, Contadores
  <2>3. Comandos
    BY DEF Init, Comandos, Pc, Pasos
  <2>4. QED
    BY <2>1, <2>2, <2>3, Tipos
<1>2. Turnos /\ Confirmaciones /\ Banderas
  BY DEF Init, Turnos, Activo, Confirmaciones, Confirma, Banderas
<1>3. ASSUME NEW f \in Fases PROVE Ocupantes(f) = 0
  <2>1. {h \in dentro : FaseDe(h) = f} = {}
    BY DEF Init
  <2>2. QED
    BY <2>1, FS_EmptySet DEF Ocupantes
<1>4. BanderaDiceLaVerdad
  BY <1>3 DEF Init, BanderaDiceLaVerdad, Pendientes
<1>5. QED
  BY <1>1, <1>2, <1>4 DEF IInv

(* Semaphores are never negative and every variable keeps its type.        *)
LEMMA PasoTipo == TypeOK /\ [Next]_vars => TypeOK'
<1> SUFFICES ASSUME iniciada \in BOOLEAN, Contadores, Comandos, [Next]_vars
             PROVE  iniciada' \in BOOLEAN /\ Contadores' /\ Comandos'
  BY DEF TypeOK, Contadores, Comandos, Pc
<1>1. ASSUME NEW h \in Hilos, Entra(h) \/ Sale(h)
      PROVE  iniciada' \in BOOLEAN /\ Contadores' /\ Comandos'
  <2>1. UNCHANGED iniciada /\ UNCHANGED <<consola, fin>>
    BY <1>1 DEF Entra, Sale, detencion
  <2>2. Contadores'
    BY <1>1, FaseDeHilo DEF Entra, Sale, detencion, Contadores
  <2>3. QED
    BY <2>1, <2>2 DEF Comandos
<1>2. ASSUME NEW f \in Fases, DetenerCola(f) \/ DetenerColaConfirmacion(f)
      PROVE  iniciada' \in BOOLEAN /\ Contadores' /\ Comandos'
  <2>1. UNCHANGED iniciada /\ UNCHANGED <<consola, fin>>
    BY <1>2 DEF DetenerCola, DetenerColaConfirmacion
  <2>2. Contadores'
    BY <1>2 DEF DetenerCola, DetenerColaConfirmacion, planificador, Contadores
  <2>3. QED
    BY <2>1, <2>2 DEF Comandos
<1>3. CASE DetenerLee \/ IniciarLee \/ DetenerBaja \/ IniciarSube \/ IniciarPostea
  <2>1. UNCHANGED iniciada \/ iniciada' = TRUE \/ iniciada' = FALSE
    BY <1>3 DEF DetenerLee, IniciarLee, DetenerBaja, IniciarSube, IniciarPostea
  <2>2. Contadores'
    <3>1. CASE IniciarPostea
      <4>1. Orden[consola.n + 1] \in Fases
        BY FaltaPropiedades DEF Comandos
      <4>2. QED
        BY <3>1, <4>1 DEF IniciarPostea, detencion, planificador, Contadores
    <3>2. CASE ~IniciarPostea
      BY <1>3, <3>2 DEF DetenerLee, IniciarLee, DetenerBaja, IniciarSube, detencion, planificador,
                        Contadores
    <3>3. QED
      BY <3>1, <3>2
  <2>3. Comandos'
    BY <1>3 DEF DetenerLee, IniciarLee, DetenerBaja, IniciarSube, IniciarPostea, Comandos
  <2>4. QED
    BY <2>1, <2>2, <2>3
<1>4. ASSUME NEW k \in Finalizadores, FinalizarProceso(k) \/ Finaliza(k)
      PROVE  iniciada' \in BOOLEAN /\ Contadores' /\ Comandos'
  <2> USE DEF FinalizarProceso, Finaliza, FinLee, FinBaja, FinConfirmado, FinBuscado, FinRelee,
              FinSube, FinPostea, Avanza
  <2>1. UNCHANGED iniciada \/ iniciada' = TRUE \/ iniciada' = FALSE
    BY <1>4
  <2>2. Contadores'
    <3>1. CASE FinPostea(k)
      <4>1. Orden[fin[k].n + 1] \in Fases
        BY FaltaPropiedades DEF Comandos, Pc
      <4>2. QED
        BY <3>1, <4>1 DEF detencion, planificador, Contadores
    <3>2. CASE ~FinPostea(k)
      BY <1>4, <3>2 DEF detencion, planificador, Contadores
    <3>3. QED
      BY <3>1, <3>2
  <2>3. Comandos'
    <3>1. UNCHANGED consola
      BY <1>4
    <3>2. PICK v \in Pc : fin' = [fin EXCEPT ![k] = v]
      <4>1. ASSUME NEW de, NEW a \in Pasos, Avanza(k, de, a)
            PROVE  \E v \in Pc : fin' = [fin EXCEPT ![k] = v]
        <5>1. [paso |-> a, n |-> 0] \in Pc
          BY DEF Pc
        <5>2. QED
          BY <4>1, <5>1
      <4>2. ASSUME NEW a \in Pasos, NEW b \in Pasos,
                   fin' = [fin EXCEPT ![k] = IF @.n = 3 THEN [paso |-> a, n |-> 0]
                                             ELSE [paso |-> b, n |-> @.n + 1]]
            PROVE  \E v \in Pc : fin' = [fin EXCEPT ![k] = v]
        <5>1. fin[k].n \in 0..3
          BY DEF Comandos, Pc
        <5>2. (IF fin[k].n = 3 THEN [paso |-> a, n |-> 0]
               ELSE [paso |-> b, n |-> fin[k].n + 1]) \in Pc
          BY <5>1 DEF Pc
        <5>3. QED
          BY <4>2, <5>2
      <4>3. {"lee", "baja", "busca_ya", "espera", "termino", "relee", "sube", "postea", "busca"}
              \subseteq Pasos
        BY DEF Pasos
      <4>4. CASE FinConfirmado(k) \/ FinPostea(k)
        BY <4>2, <4>3, <4>4
      <4>5. CASE ~(FinConfirmado(k) \/ FinPostea(k))
        BY <1>4, <4>1, <4>3, <4>5
      <4>6. QED
        BY <4>4, <4>5
    <3>3. QED
      BY <3>1, <3>2 DEF Comandos
  <2>4. QED
    BY <2>1, <2>2, <2>3
<1>5. CASE UNCHANGED vars
  BY <1>5 DEF vars, Contadores, Comandos
<1>6. QED
  BY <1>1, <1>2, <1>3, <1>4, <1>5 DEF Next, Detenedores, Teclado, Consola

(* Nobody types a command before a kill is done, nor kills before the      *)
(* stoppers are.                                                           *)
LEMMA PasoTurnos ==
    ASSUME UnaPorVez, TypeOK, Turnos, [Next]_vars PROVE Turnos'
<1> USE DEF Turnos, Activo
<1>1. ASSUME NEW h \in Hilos, Entra(h) \/ Sale(h) PROVE Turnos'
  BY <1>1 DEF Entra, Sale, detencion
<1>2. ASSUME NEW f \in Fases, DetenerCola(f) \/ DetenerColaConfirmacion(f) PROVE Turnos'
  BY <1>2 DEF DetenerCola, DetenerColaConfirmacion, TypeOK
<1>3. CASE DetenerLee \/ IniciarLee
  BY <1>3 DEF DetenerLee, IniciarLee, PuedeTipear, SinKills, UnaPorVez, detencion
<1>4. CASE DetenerBaja \/ IniciarSube \/ IniciarPostea
  BY <1>4 DEF DetenerBaja, IniciarSube, IniciarPostea, detencion, TypeOK
<1>5. ASSUME NEW k \in Finalizadores, FinalizarProceso(k) PROVE Turnos'
  <2>1. SinKills /\ Quieto /\ consola.paso = "lee"
    BY <1>5 DEF FinalizarProceso, PuedeTipear, UnaPorVez
  <2>2. \A f \in Fases : mudos[f] = 0
    BY <2>1 DEF Quieto, Pendientes, TypeOK
  <2>3. QED
    BY <1>5, <2>1, <2>2 DEF FinalizarProceso, Avanza, SinKills, detencion, TypeOK
<1>6. ASSUME NEW k \in Finalizadores, Finaliza(k) PROVE Turnos'
  <2>1. /\ Activo(k) /\ (\A j \in Finalizadores \ {k} : fin'[j] = fin[j])
        /\ UNCHANGED <<consola, mudos>>
    BY <1>6 DEF Finaliza, FinLee, FinBaja, FinConfirmado, FinBuscado, FinRelee, FinSube,
                FinPostea, Avanza, detencion, TypeOK
  <2>2. QED
    BY <2>1
<1>7. CASE UNCHANGED vars
  BY <1>7 DEF vars
<1>8. QED
  BY <1>1, <1>2, <1>3, <1>4, <1>5, <1>6, <1>7 DEF Next, Detenedores, Teclado, Consola

(* The confirmations of the one kill that waits for them.                  *)
LEMMA PasoConfirmaciones ==
    ASSUME IInv, Turnos', [Next]_vars PROVE Confirmaciones'
<1> USE DEF Confirmaciones, Confirma, PorConfirmar
<1>0. /\ Contadores /\ Comandos /\ Turnos /\ Confirmaciones
      /\ \A f \in {"new", "ready", "exec", "blocked"} : f \in Fases
  BY Tipos, OrdenFases DEF IInv
<1>1. ASSUME NEW h \in Hilos, Entra(h) \/ Sale(h) PROVE Confirmaciones'
  BY <1>0, <1>1 DEF Entra, Sale, detencion
<1>2. ASSUME NEW f \in Fases, DetenerCola(f) PROVE Confirmaciones'
  BY <1>0, <1>2 DEF DetenerCola
<1>3. ASSUME NEW f \in Fases, DetenerColaConfirmacion(f) PROVE Confirmaciones'
  <2>1. PICK k \in Finalizadores : Confirma(k)
    BY <1>0, <1>3 DEF DetenerColaConfirmacion
  <2>2. /\ avisan' = [avisan EXCEPT ![f] = avisan[f] - 1] /\ detenida' = detenida + 1
        /\ UNCHANGED fin /\ avisan \in [Fases -> Nat] /\ detenida \in Nat
    BY <1>0, <1>3 DEF DetenerColaConfirmacion, Contadores
  <2>3. PorConfirmar' = PorConfirmar - 1
    BY <1>0, <2>2, OrdenFases
  <2>4. PorConfirmar \in Int /\ \A j \in Finalizadores : fin[j].n \in Int
    BY <1>0, <2>2 DEF Comandos, Pc
  <2>5. QED
    BY <1>0, <2>1, <2>2, <2>3, <2>4
<1>4. CASE DetenerLee \/ IniciarLee \/ DetenerBaja \/ IniciarSube \/ IniciarPostea
  BY <1>0, <1>4 DEF DetenerLee, IniciarLee, DetenerBaja, IniciarSube, IniciarPostea, detencion
<1>5. ASSUME NEW k \in Finalizadores, FinBaja(k) PROVE Confirmaciones'
  <2>1. \A j \in Finalizadores : ~Confirma(j)
    BY <1>0, <1>5 DEF FinBaja, Avanza, Turnos, Activo
  <2>2. detenida = 0 /\ \A f \in Fases : avisan[f] = 0
    BY <1>0, <2>1
  <2>3. detenida' = 0 /\ PorConfirmar' = 4
    BY <1>0, <1>5, <2>2 DEF FinBaja
  <2>4. \A j \in Finalizadores : Confirma(j)' => j = k /\ fin'[j].n = 0
    BY <1>0, <1>5, <2>1 DEF FinBaja, Avanza, Comandos
  <2>5. Confirma(k)'
    BY <1>0, <1>5 DEF FinBaja, Avanza, Comandos
  <2>6. QED
    BY <2>3, <2>4, <2>5
<1>6. ASSUME NEW k \in Finalizadores, FinConfirmado(k) PROVE Confirmaciones'
  <2>1. Confirma(k) /\ \A j \in Finalizadores : Confirma(j) => j = k
    BY <1>0, <1>6 DEF FinConfirmado, Turnos, Activo
  <2>2. /\ fin[k].n \in 0..3 /\ detenida \in Nat /\ detenida > 0 /\ detenida' = detenida - 1
        /\ UNCHANGED avisan /\ \A f \in Fases : avisan[f] \in Nat
    BY <1>0, <1>6 DEF FinConfirmado, Comandos, Contadores, Pc
  <2>3. fin[k].n + detenida + PorConfirmar = 4
    BY <1>0, <2>1
  <2>4. PorConfirmar' = PorConfirmar /\ PorConfirmar \in Nat
    BY <1>0, <2>2
  <2>5. \A j \in Finalizadores \ {k} : fin'[j] = fin[j]
    BY <1>0, <1>6 DEF FinConfirmado, Comandos
  <2>6. CASE fin[k].n = 3
    <3>1. fin'[k].paso = "busca"
      BY <1>0, <1>6, <2>6 DEF FinConfirmado, Comandos
    <3>2. detenida' = 0 /\ PorConfirmar = 0
      BY <2>2, <2>3, <2>4, <2>6
    <3>3. \A f \in Fases : avisan'[f] = 0
      BY <2>2, <3>2, OrdenFases
    <3>4. QED
      BY <2>1, <2>5, <3>1, <3>2, <3>3
  <2>7. CASE fin[k].n # 3
    <3>1. fin'[k].paso = "espera" /\ fin'[k].n = fin[k].n + 1
      BY <1>0, <1>6, <2>7 DEF FinConfirmado, Comandos
    <3>2. QED
      BY <2>1, <2>2, <2>3, <2>4, <2>5, <3>1
  <2>8. QED
    BY <2>6, <2>7
<1>7. ASSUME NEW k \in Finalizadores,
             \/ FinalizarProceso(k) \/ FinLee(k) \/ FinBuscado(k) \/ FinRelee(k) \/ FinSube(k)
             \/ FinPostea(k)
      PROVE  Confirmaciones'
  <2>1. ~Confirma(k) /\ ~Confirma(k)' /\ \A j \in Finalizadores \ {k} : fin'[j] = fin[j]
    BY <1>0, <1>7 DEF FinalizarProceso, FinLee, FinBuscado, FinRelee, FinSube, FinPostea, Avanza,
                      Comandos
  <2>2. UNCHANGED <<detenida, avisan>>
    BY <1>7 DEF FinalizarProceso, FinLee, FinBuscado, FinRelee, FinSube, FinPostea, detencion
  <2>3. QED
    BY <1>0, <2>1, <2>2
<1>8. CASE UNCHANGED vars
  BY <1>0, <1>8 DEF vars
<1>9. QED
  BY <1>1, <1>2, <1>3, <1>4, <1>5, <1>6, <1>7, <1>8
     DEF IInv, Next, Detenedores, Teclado, Consola, Finaliza

(* The flag is read and written by the command that is running, alone.     *)
LEMMA PasoBanderas ==
    ASSUME IInv, Turnos', [Next]_vars PROVE Banderas'
<1> USE DEF Banderas
<1>0. Contadores /\ Comandos /\ Turnos /\ Banderas /\ iniciada \in BOOLEAN
  BY Tipos DEF IInv
<1>1. ASSUME NEW h \in Hilos, Entra(h) \/ Sale(h) PROVE Banderas'
  BY <1>0, <1>1 DEF Entra, Sale
<1>2. ASSUME NEW f \in Fases, DetenerCola(f) \/ DetenerColaConfirmacion(f) PROVE Banderas'
  BY <1>0, <1>2 DEF DetenerCola, DetenerColaConfirmacion
<1>3. CASE DetenerLee \/ IniciarLee \/ IniciarPostea
  BY <1>0, <1>3 DEF DetenerLee, IniciarLee, IniciarPostea
<1>4. CASE DetenerBaja \/ IniciarSube
  <2>1. \A k \in Finalizadores : ~Activo(k)
    BY <1>0, <1>4 DEF Turnos, DetenerBaja, IniciarSube
  <2>2. QED
    BY <1>4, <2>1 DEF DetenerBaja, IniciarSube, Activo
<1>5. ASSUME NEW k \in Finalizadores, FinalizarProceso(k) \/ Finaliza(k) PROVE Banderas'
  <2> USE DEF FinalizarProceso, Finaliza, FinLee, FinBaja, FinConfirmado, FinBuscado, FinRelee,
              FinSube, FinPostea, Avanza
  <2>1. UNCHANGED consola /\ \A j \in Finalizadores \ {k} : fin'[j] = fin[j]
    BY <1>0, <1>5 DEF Comandos
  <2>2. Activo(k)'
           => consola.paso = "lee" /\ \A j \in Finalizadores \ {k} : ~Activo(j)
    BY <1>0, <2>1 DEF Turnos, Activo
  <2>3. CASE FinalizarProceso(k)
    BY <1>0, <2>1, <2>3 DEF Comandos
  <2>4. CASE FinLee(k) \/ FinRelee(k) \/ FinBuscado(k) \/ FinPostea(k) \/ FinConfirmado(k)
    <3>1. UNCHANGED iniciada
      BY <2>4
    <3>2. /\ fin'[k].paso \in {"baja", "postea"} => iniciada
          /\ fin'[k].paso \in {"espera", "busca_ya", "busca", "relee", "sube"} => ~iniciada
      BY <1>0, <2>4 DEF Comandos
    <3>3. QED
      BY <1>0, <2>1, <3>1, <3>2
  <2>5. CASE FinBaja(k) \/ FinSube(k)
    <3>1. /\ Activo(k)
          /\ FinBaja(k) => iniciada' = FALSE /\ fin'[k].paso = "espera"
          /\ FinSube(k) => iniciada' = TRUE /\ fin'[k].paso = "postea"
      BY <1>0, <2>5 DEF Comandos, Activo
    <3>2. consola.paso = "lee" /\ \A j \in Finalizadores \ {k} : ~Activo(j)
      BY <1>0, <3>1 DEF Turnos
    <3>3. QED
      BY <2>1, <2>5, <3>1, <3>2 DEF Activo
  <2>6. QED
    BY <1>5, <2>3, <2>4, <2>5
<1>6. CASE UNCHANGED vars
  BY <1>0, <1>6 DEF vars
<1>7. QED
  BY <1>1, <1>2, <1>3, <1>4, <1>5, <1>6 DEF IInv, Next, Detenedores, Teclado, Consola

-----------------------------------------------------------------------------
(* The count of a phase: what the flag must agree with.                    *)
Cuenta(f) == ficha[f] + Ocupantes(f) - Pendientes(f)

LEMMA PorPostearFalta ==
    \A f \in Fases :
        PorPostear(f) <=> \/ consola.paso = "postea" /\ Falta(consola.n, f)
                          \/ \E k \in Finalizadores : fin[k].paso = "postea" /\ Falta(fin[k].n, f)
BY DEF PorPostear, Falta

(* Only the flag and the posts in progress change what the count must be.  *)
LEMMA MismaBandera ==
    ASSUME BanderaDiceLaVerdad, UNCHANGED iniciada,
           \A f \in Fases : Cuenta(f)' = Cuenta(f) /\ (PorPostear(f)' <=> PorPostear(f))
    PROVE  BanderaDiceLaVerdad'
BY DEF BanderaDiceLaVerdad, Cuenta

LEMMA PasoVerdad ==
    ASSUME IInv, TypeOK', Turnos', Banderas', [Next]_vars PROVE BanderaDiceLaVerdad'
<1>0. /\ Contadores /\ Comandos /\ Turnos /\ Banderas /\ BanderaDiceLaVerdad
      /\ \A f \in Fases : Ocupantes(f) \in Nat
  <2>1. \A f \in Fases : Ocupantes(f) = Cardinality(En(dentro, f))
    BY DEF Ocupantes, En
  <2>2. Contadores /\ Comandos /\ Turnos /\ Banderas /\ BanderaDiceLaVerdad
    BY Tipos DEF IInv
  <2>3. dentro \in SUBSET Hilos
    BY <2>2 DEF Contadores
  <2>4. QED
    BY <2>1, <2>2, <2>3, Contados
<1>1. ASSUME NEW h \in Hilos, Entra(h) \/ Sale(h) PROVE BanderaDiceLaVerdad'
  <2>1. UNCHANGED <<mudos, avisan, consola, fin>> /\ UNCHANGED iniciada
    BY <1>1 DEF Entra, Sale, detencion
  <2>2. ASSUME NEW f \in Fases PROVE Cuenta(f)' = Cuenta(f)
    <3>1. dentro \in SUBSET Hilos /\ ficha \in [Fases -> Nat] /\ FaseDe(h) \in Fases
      BY <1>0, FaseDeHilo DEF Contadores
    <3>2. /\ Ocupantes(f) = Cardinality(En(dentro, f))
          /\ Ocupantes(f)' = Cardinality(En(dentro', f))
      BY DEF Ocupantes, En
    <3>3. CASE Entra(h)
      <4>1. h \in Hilos \ dentro /\ dentro' = dentro \cup {h}
        BY <3>3 DEF Entra
      <4>2. Ocupantes(f)' = Ocupantes(f) + (IF FaseDe(h) = f THEN 1 ELSE 0)
        BY <3>1, <3>2, <4>1, Contados
      <4>3. ficha'[f] = ficha[f] - (IF FaseDe(h) = f THEN 1 ELSE 0)
        BY <3>1, <3>3 DEF Entra
      <4>4. QED
        BY <1>0, <2>1, <3>1, <4>2, <4>3 DEF Cuenta, Pendientes, Contadores
    <3>4. CASE Sale(h)
      <4>1. h \in dentro /\ dentro' = dentro \ {h}
        BY <3>4 DEF Sale
      <4>2. Ocupantes(f)' = Ocupantes(f) - (IF FaseDe(h) = f THEN 1 ELSE 0)
        BY <3>1, <3>2, <4>1, Contados
      <4>3. ficha'[f] = ficha[f] + (IF FaseDe(h) = f THEN 1 ELSE 0)
        BY <3>1, <3>4 DEF Sale
      <4>4. QED
        BY <1>0, <2>1, <3>1, <4>2, <4>3 DEF Cuenta, Pendientes, Contadores
    <3>5. QED
      BY <1>1, <3>3, <3>4
  <2>3. \A f \in Fases : PorPostear(f)' <=> PorPostear(f)
    BY <2>1 DEF PorPostear
  <2>4. QED
    BY <1>0, <2>1, <2>2, <2>3, MismaBandera
<1>2. ASSUME NEW g \in Fases, DetenerCola(g) \/ DetenerColaConfirmacion(g)
      PROVE  BanderaDiceLaVerdad'
  <2>1. UNCHANGED iniciada /\ UNCHANGED <<dentro, consola, fin>>
    BY <1>2 DEF DetenerCola, DetenerColaConfirmacion, planificador
  <2>2. ASSUME NEW f \in Fases PROVE Cuenta(f)' = Cuenta(f)
    <3>1. Ocupantes(f)' = Ocupantes(f)
      BY <2>1 DEF Ocupantes
    <3>2. ficha \in [Fases -> Nat] /\ mudos \in [Fases -> Nat] /\ avisan \in [Fases -> Nat]
      BY <1>0 DEF Contadores
    <3>3. ficha'[f] = ficha[f] - (IF f = g THEN 1 ELSE 0)
      BY <1>2, <3>2 DEF DetenerCola, DetenerColaConfirmacion
    <3>4. mudos'[f] + avisan'[f] = mudos[f] + avisan[f] - (IF f = g THEN 1 ELSE 0)
      BY <1>2, <3>2 DEF DetenerCola, DetenerColaConfirmacion
    <3>5. QED
      BY <1>0, <3>1, <3>2, <3>3, <3>4 DEF Cuenta, Pendientes
  <2>3. \A f \in Fases : PorPostear(f)' <=> PorPostear(f)
    BY <2>1 DEF PorPostear
  <2>4. QED
    BY <1>0, <2>1, <2>2, <2>3, MismaBandera
<1>3. CASE DetenerLee \/ IniciarLee
  <2>1. UNCHANGED iniciada /\ UNCHANGED <<ficha, mudos, avisan, dentro, fin>>
    BY <1>3 DEF DetenerLee, IniciarLee, detencion, planificador
  <2>2. consola.paso # "postea" /\ consola'.paso # "postea"
    BY <1>3 DEF DetenerLee, IniciarLee, PuedeTipear
  <2>3. \A f \in Fases : Cuenta(f)' = Cuenta(f) /\ (PorPostear(f)' <=> PorPostear(f))
    BY <2>1, <2>2 DEF Cuenta, Ocupantes, Pendientes, PorPostear
  <2>4. QED
    BY <1>0, <2>1, <2>3, MismaBandera
<1>4. CASE DetenerBaja
  <2>1. /\ iniciada /\ ~iniciada' /\ mudos' = [f \in Fases |-> mudos[f] + 1]
        /\ UNCHANGED <<ficha, avisan, dentro, fin>>
    BY <1>0, <1>4 DEF DetenerBaja, Banderas, planificador
  <2>2. \A f \in Fases : ~PorPostear(f)
    BY <1>0, <1>4 DEF DetenerBaja, Turnos, Activo, PorPostear
  <2>3. ASSUME NEW f \in Fases PROVE Cuenta(f)' = Cuenta(f) - 1
    <3>1. Ocupantes(f)' = Ocupantes(f)
      BY <2>1 DEF Ocupantes
    <3>2. QED
      BY <1>0, <2>1, <3>1 DEF Cuenta, Pendientes, Contadores
  <2>4. \A f \in Fases : Cuenta(f) = 1
    BY <1>0, <2>1, <2>2 DEF BanderaDiceLaVerdad, Cuenta
  <2>5. QED
    BY <2>1, <2>3, <2>4 DEF BanderaDiceLaVerdad, Cuenta
<1>5. CASE IniciarSube
  <2>1. ~iniciada /\ iniciada' /\ UNCHANGED <<ficha, mudos, avisan, dentro, fin>>
    BY <1>0, <1>5 DEF IniciarSube, Banderas, detencion, planificador
  <2>2. \A f \in Fases : Cuenta(f)' = Cuenta(f) /\ Cuenta(f) = 0
    BY <1>0, <2>1 DEF BanderaDiceLaVerdad, Cuenta, Ocupantes, Pendientes
  <2>3. \A f \in Fases : PorPostear(f)'
    <3>1. consola'.paso = "postea" /\ consola'.n = 0
      BY <1>5 DEF IniciarSube
    <3>2. \A f \in Fases : \E n \in (0 + 1)..4 : Orden[n] = f
      BY FaltaPropiedades DEF Falta
    <3>3. QED
      BY <3>1, <3>2 DEF PorPostear
  <2>4. QED
    BY <2>2, <2>3 DEF BanderaDiceLaVerdad, Cuenta
<1>6. CASE IniciarPostea
  <2> DEFINE m == consola.n
  <2>1. /\ m \in 0..3 /\ iniciada /\ ficha' = [ficha EXCEPT ![Orden[m + 1]] = @ + 1]
        /\ UNCHANGED iniciada /\ UNCHANGED <<mudos, avisan, dentro, fin>>
    BY <1>0, <1>6 DEF IniciarPostea, Banderas, Comandos, detencion, planificador
  <2>2. \A k \in Finalizadores : fin[k].paso # "postea"
    BY <1>0, <1>6 DEF IniciarPostea, Turnos, Activo
  <2>3. \A f \in Fases : PorPostear(f) <=> Falta(m, f)
    BY <1>6, <2>2, PorPostearFalta DEF IniciarPostea
  <2>4. \A f \in Fases : PorPostear(f)' <=> Falta(m + 1, f)
    <3>1. CASE m = 3
      <4>1. consola'.paso = "lee"
        BY <1>6, <3>1 DEF IniciarPostea
      <4>2. \A f \in Fases : ~Falta(m + 1, f)
        BY <3>1, FaltaPropiedades
      <4>3. QED
        BY <2>1, <2>2, <4>1, <4>2 DEF PorPostear
    <3>2. CASE m # 3
      <4>1. consola'.paso = "postea" /\ consola'.n = m + 1
        BY <1>6, <3>2 DEF IniciarPostea
      <4>2. QED
        BY <2>1, <2>2, <4>1 DEF PorPostear, Falta
    <3>3. QED
      BY <3>1, <3>2
  <2>5. \A f \in Fases : Cuenta(f)' = Cuenta(f) + (IF f = Orden[m + 1] THEN 1 ELSE 0)
    BY <1>0, <2>1 DEF Cuenta, Ocupantes, Pendientes, Contadores
  <2>6. \A f \in Fases : Cuenta(f) = IF Falta(m, f) THEN 0 ELSE 1
    BY <1>0, <2>1, <2>3 DEF BanderaDiceLaVerdad, Cuenta
  <2>7. \A f \in Fases : Cuenta(f)' = IF Falta(m + 1, f) THEN 0 ELSE 1
    BY <2>1, <2>5, <2>6, FaltaPropiedades
  <2>8. QED
    BY <2>1, <2>4, <2>7 DEF BanderaDiceLaVerdad, Cuenta
<1>7. ASSUME NEW k \in Finalizadores, FinPostea(k) PROVE BanderaDiceLaVerdad'
  <2> DEFINE m == fin[k].n
  <2>1. /\ m \in 0..3 /\ iniciada /\ ficha' = [ficha EXCEPT ![Orden[m + 1]] = @ + 1]
        /\ UNCHANGED iniciada /\ UNCHANGED <<mudos, avisan, dentro, consola>>
    BY <1>0, <1>7 DEF FinPostea, Banderas, Comandos, Pc, detencion, planificador
  <2>2. /\ fin[k].paso = "postea" /\ consola.paso = "lee"
        /\ \A j \in Finalizadores \ {k} : fin[j].paso # "postea" /\ fin'[j] = fin[j]
    BY <1>0, <1>7 DEF FinPostea, Turnos, Activo, Comandos
  <2>3. \A f \in Fases : PorPostear(f) <=> Falta(m, f)
    BY <2>2, PorPostearFalta
  <2>4. \A f \in Fases : PorPostear(f)' <=> Falta(m + 1, f)
    <3>1. CASE m = 3
      <4>1. fin'[k].paso = "termino"
        BY <1>0, <1>7, <3>1 DEF FinPostea, Comandos
      <4>2. \A f \in Fases : ~Falta(m + 1, f)
        BY <3>1, FaltaPropiedades
      <4>3. QED
        BY <2>1, <2>2, <4>1, <4>2 DEF PorPostear
    <3>2. CASE m # 3
      <4>1. fin'[k].paso = "postea" /\ fin'[k].n = m + 1
        BY <1>0, <1>7, <3>2 DEF FinPostea, Comandos
      <4>2. QED
        BY <2>1, <2>2, <4>1 DEF PorPostear, Falta
    <3>3. QED
      BY <3>1, <3>2
  <2>5. \A f \in Fases : Cuenta(f)' = Cuenta(f) + (IF f = Orden[m + 1] THEN 1 ELSE 0)
    BY <1>0, <2>1 DEF Cuenta, Ocupantes, Pendientes, Contadores
  <2>6. \A f \in Fases : Cuenta(f) = IF Falta(m, f) THEN 0 ELSE 1
    BY <1>0, <2>1, <2>3 DEF BanderaDiceLaVerdad, Cuenta
  <2>7. \A f \in Fases : Cuenta(f)' = IF Falta(m + 1, f) THEN 0 ELSE 1
    BY <2>1, <2>5, <2>6, FaltaPropiedades
  <2>8. QED
    BY <2>1, <2>4, <2>7 DEF BanderaDiceLaVerdad, Cuenta
<1>8. ASSUME NEW k \in Finalizadores, FinBaja(k) PROVE BanderaDiceLaVerdad'
  <2>1. /\ iniciada /\ ~iniciada' /\ avisan' = [f \in Fases |-> avisan[f] + 1]
        /\ UNCHANGED <<ficha, mudos, dentro>>
    BY <1>0, <1>8 DEF FinBaja, Avanza, Banderas, planificador
  <2>2. \A f \in Fases : ~PorPostear(f)
    BY <1>0, <1>8 DEF FinBaja, Avanza, Turnos, Activo, PorPostear
  <2>3. ASSUME NEW f \in Fases PROVE Cuenta(f)' = Cuenta(f) - 1
    <3>1. Ocupantes(f)' = Ocupantes(f)
      BY <2>1 DEF Ocupantes
    <3>2. QED
      BY <1>0, <2>1, <3>1 DEF Cuenta, Pendientes, Contadores
  <2>4. \A f \in Fases : Cuenta(f) = 1
    BY <1>0, <2>1, <2>2 DEF BanderaDiceLaVerdad, Cuenta
  <2>5. QED
    BY <2>1, <2>3, <2>4 DEF BanderaDiceLaVerdad, Cuenta
<1>9. ASSUME NEW k \in Finalizadores, FinSube(k) PROVE BanderaDiceLaVerdad'
  <2>1. ~iniciada /\ iniciada' /\ UNCHANGED <<ficha, mudos, avisan, dentro>>
    BY <1>0, <1>9 DEF FinSube, Avanza, Banderas, detencion, planificador
  <2>2. \A f \in Fases : Cuenta(f)' = Cuenta(f) /\ Cuenta(f) = 0
    BY <1>0, <2>1 DEF BanderaDiceLaVerdad, Cuenta, Ocupantes, Pendientes
  <2>3. \A f \in Fases : PorPostear(f)'
    <3>1. fin'[k].paso = "postea" /\ fin'[k].n = 0
      BY <1>0, <1>9 DEF FinSube, Avanza, Comandos
    <3>2. \A f \in Fases : \E n \in (0 + 1)..4 : Orden[n] = f
      BY FaltaPropiedades DEF Falta
    <3>3. QED
      BY <3>1, <3>2 DEF PorPostear
  <2>4. QED
    BY <2>2, <2>3 DEF BanderaDiceLaVerdad, Cuenta
<1>10. ASSUME NEW k \in Finalizadores,
              FinalizarProceso(k) \/ FinLee(k) \/ FinConfirmado(k) \/ FinBuscado(k) \/ FinRelee(k)
       PROVE  BanderaDiceLaVerdad'
  <2>1. UNCHANGED iniciada /\ UNCHANGED <<ficha, mudos, avisan, dentro, consola>>
    BY <1>10 DEF FinalizarProceso, FinLee, FinConfirmado, FinBuscado, FinRelee, detencion,
                 planificador
  <2>2. /\ fin[k].paso # "postea" /\ fin'[k].paso # "postea"
        /\ \A j \in Finalizadores \ {k} : fin'[j] = fin[j]
    BY <1>0, <1>10 DEF FinalizarProceso, FinLee, FinConfirmado, FinBuscado, FinRelee, Avanza,
                       Comandos
  <2>3. \A f \in Fases : Cuenta(f)' = Cuenta(f) /\ (PorPostear(f)' <=> PorPostear(f))
    BY <2>1, <2>2 DEF Cuenta, Ocupantes, Pendientes, PorPostear
  <2>4. QED
    BY <1>0, <2>1, <2>3, MismaBandera
<1>11. CASE UNCHANGED vars
  BY <1>0, <1>11, MismaBandera DEF vars, Cuenta, Ocupantes, Pendientes, PorPostear
<1>12. QED
  BY <1>1, <1>2, <1>3, <1>4, <1>5, <1>6, <1>7, <1>8, <1>9, <1>10, <1>11
     DEF Next, Detenedores, Teclado, Consola, Finaliza

LEMMA PasoIInv ==
    ASSUME UnaPorVez, IInv, [Next]_vars PROVE IInv'
<1>1. TypeOK /\ Turnos
  BY DEF IInv
<1>2. TypeOK'
  BY <1>1, PasoTipo
<1>3. Turnos'
  BY <1>1, PasoTurnos
<1>4. Confirmaciones' /\ Banderas'
  BY <1>3, PasoConfirmaciones, PasoBanderas
<1>5. BanderaDiceLaVerdad'
  BY <1>2, <1>3, <1>4, PasoVerdad
<1>6. QED
  BY <1>2, <1>3, <1>4, <1>5 DEF IInv

(* TypeOK holds however many commands overlap: in particular no permit and *)
(* no confirmation is ever negative (the semaphores of consola.c).         *)
THEOREM TipoCorrecto == Spec => []TypeOK
<1>1. Init => TypeOK
  BY InicioIInv DEF IInv
<1>2. QED
  BY <1>1, PasoTipo, PTL DEF Spec

THEOREM IInvSiempre == ASSUME UnaPorVez PROVE Spec => []IInv
<1>1. IInv /\ [Next]_vars => IInv'
  BY PasoIInv
<1>2. QED
  BY <1>1, InicioIInv, PTL DEF Spec

(* BanderaDiceLaVerdad holds however many stops and starts pile up, with   *)
(* any number of kills if nothing is typed before a kill is done and no    *)
(* kill while a stopper waits.                                             *)
THEOREM BanderaSiempre == ASSUME UnaPorVez PROVE Spec => []BanderaDiceLaVerdad
<1>1. IInv => BanderaDiceLaVerdad
  BY DEF IInv
<1>2. QED
  BY <1>1, IInvSiempre, PTL

-----------------------------------------------------------------------------
(* With the flag down and no stopper waiting every permit has been taken   *)
(* and nobody is inside.                                                   *)
LEMMA SinPermisos ==
    ASSUME IInv, ~iniciada, \A f \in Fases : mudos[f] = 0 /\ avisan[f] = 0
    PROVE  dentro = {} /\ \A f \in Fases : ficha[f] = 0
<1>1. Contadores /\ BanderaDiceLaVerdad
  BY Tipos DEF IInv
<1>2. \A f \in Fases : Cardinality(En(dentro, f)) \in Nat
                       /\ (Cardinality(En(dentro, f)) = 0 <=> En(dentro, f) = {})
  <2>1. dentro \in SUBSET Hilos
    BY <1>1 DEF Contadores
  <2>2. QED
    BY <2>1, Contados
<1>3. ASSUME NEW f \in Fases PROVE ficha[f] = 0 /\ En(dentro, f) = {}
  <2>1. Ocupantes(f) = Cardinality(En(dentro, f))
    BY DEF Ocupantes, En
  <2>2. ficha[f] \in Nat /\ Pendientes(f) = 0
    BY <1>1 DEF Contadores, Pendientes
  <2>3. ficha[f] + Ocupantes(f) - Pendientes(f) = 0
    BY <1>1 DEF BanderaDiceLaVerdad
  <2>4. QED
    BY <1>2, <2>1, <2>2, <2>3
<1>4. dentro = {}
  BY <1>1, <1>3, FaseDeHilo DEF Contadores, En
<1>5. QED
  BY <1>3, <1>4

LEMMA BuscaSinNadie ==
    ASSUME IInv, NEW k \in Buscando
    PROVE  Buscando = {k} /\ dentro = {} /\ \A f \in Fases : ficha[f] = 0
<1>1. /\ k \in Finalizadores /\ Activo(k) /\ ~Confirma(k) /\ ~iniciada
      /\ Turnos /\ Confirmaciones
  BY DEF IInv, Buscando, Activo, Confirma, Banderas
<1>2. \A j \in Finalizadores : Activo(j) => j = k
  BY <1>1 DEF Turnos
<1>3. Buscando = {k}
  BY <1>2 DEF Buscando, Activo
<1>4. \A j \in Finalizadores : ~Confirma(j)
  BY <1>1, <1>2 DEF Activo, Confirma
<1>5. \A f \in Fases : mudos[f] = 0 /\ avisan[f] = 0
  BY <1>1, <1>4 DEF Turnos, Confirmaciones
<1>6. QED
  BY <1>1, <1>3, <1>5, SinPermisos

(* A kill starts its search with everything stopped and nobody else at it. *)
LEMMA EmpiezaBien ==
    ASSUME IInv, NEW k \in Finalizadores, Activo(k), k \notin Buscando, ~iniciada,
           Confirma(k) => detenida > 0 /\ fin[k].n = 3
    PROVE  Buscando = {} /\ dentro = {}
<1>1. Turnos /\ Confirmaciones /\ Contadores
  BY Tipos DEF IInv
<1>2. \A j \in Finalizadores : Activo(j) => j = k
  BY <1>1 DEF Turnos
<1>3. Buscando = {}
  BY <1>2 DEF Buscando, Activo
<1>4. \A f \in Fases : avisan[f] = 0
  <2>1. CASE Confirma(k)
    <3>1. fin[k].n = 3 /\ detenida > 0 /\ fin[k].n + detenida + PorConfirmar = 4
      BY <1>1, <2>1 DEF Confirmaciones
    <3>2. avisan \in [Fases -> Nat] /\ detenida \in Nat
      BY <1>1 DEF Contadores
    <3>3. PorConfirmar \in Int
      BY <3>2, OrdenFases DEF PorConfirmar
    <3>4. PorConfirmar <= 0
      BY <3>1, <3>2, <3>3
    <3>5. QED
      BY <3>2, <3>4, OrdenFases DEF PorConfirmar
  <2>2. CASE ~Confirma(k)
    BY <1>1, <1>2, <2>2 DEF Confirmaciones, Confirma, Activo
  <2>3. QED
    BY <2>1, <2>2
<1>5. \A f \in Fases : mudos[f] = 0
  BY <1>1 DEF Turnos
<1>6. QED
  BY <1>3, <1>4, <1>5, SinPermisos

(* Every step is one of BusquedaExclusiva or leaves its variables alone.   *)
LEMMA PasoExclusivo ==
    ASSUME IInv, [Next]_vars PROVE [Exclusiva!Next]_<<dentro, Buscando>>
<1> USE DEF Exclusiva!Next
<1>0. Comandos
  BY Tipos DEF IInv
<1>1. ASSUME NEW h \in Hilos, Entra(h) PROVE Exclusiva!Next
  <2>1. ficha[FaseDe(h)] > 0 /\ FaseDe(h) \in Fases
    BY <1>1, FaseDeHilo DEF Entra
  <2>2. Buscando = {}
    BY <2>1, BuscaSinNadie
  <2>3. Exclusiva!Entra(h)
    BY <1>1, <2>2 DEF Entra, Exclusiva!Entra, Buscando
  <2>4. QED
    BY <2>3
<1>2. ASSUME NEW h \in Hilos, Sale(h) PROVE Exclusiva!Next
  <2>1. Exclusiva!Sale(h)
    BY <1>2 DEF Sale, Exclusiva!Sale, Buscando
  <2>2. QED
    BY <2>1
<1>3. ASSUME NEW f \in Fases, DetenerCola(f) \/ DetenerColaConfirmacion(f)
      PROVE  UNCHANGED <<dentro, Buscando>>
  BY <1>3 DEF DetenerCola, DetenerColaConfirmacion, planificador, Buscando
<1>4. CASE DetenerLee \/ IniciarLee \/ DetenerBaja \/ IniciarSube \/ IniciarPostea
  BY <1>4 DEF DetenerLee, IniciarLee, DetenerBaja, IniciarSube, IniciarPostea, planificador,
              Buscando
<1>5. ASSUME NEW k \in Finalizadores, FinalizarProceso(k) \/ Finaliza(k)
      PROVE  Exclusiva!Next \/ UNCHANGED <<dentro, Buscando>>
  <2> USE DEF FinalizarProceso, Finaliza, FinLee, FinBaja, FinConfirmado, FinBuscado, FinRelee,
              FinSube, FinPostea, Avanza
  <2>1. UNCHANGED dentro /\ \A j \in Finalizadores \ {k} : fin'[j] = fin[j]
    BY <1>0, <1>5 DEF planificador, Comandos
  <2>2. Buscando' = IF fin'[k].paso \in {"busca_ya", "busca"} THEN Buscando \cup {k}
                    ELSE Buscando \ {k}
    BY <2>1 DEF Buscando
  <2>3. CASE k \in Buscando
    <3>1. FinBuscado(k) /\ fin'[k].paso \notin {"busca_ya", "busca"}
      BY <1>0, <1>5, <2>3 DEF Buscando, Comandos
    <3>2. Exclusiva!TerminaBusqueda(k)
      BY <2>1, <2>2, <2>3, <3>1 DEF Exclusiva!TerminaBusqueda
    <3>3. QED
      BY <3>2
  <2>4. CASE k \notin Buscando /\ k \in Buscando'
    <3>1. fin'[k].paso \in {"busca_ya", "busca"}
      BY <2>4 DEF Buscando
    <3>2. (FinLee(k) /\ ~iniciada) \/ (FinConfirmado(k) /\ fin[k].n = 3)
      <4>1. ASSUME NEW de, NEW a, Avanza(k, de, a) PROVE fin'[k].paso = a
        BY <1>0, <4>1 DEF Comandos
      <4>2. ~FinalizarProceso(k) /\ ~FinBaja(k) /\ ~FinRelee(k) /\ ~FinSube(k)
        BY <3>1, <4>1
      <4>3. ~FinBuscado(k)
        BY <2>4 DEF Buscando
      <4>4. ~FinPostea(k)
        BY <1>0, <3>1 DEF Comandos
      <4>5. FinConfirmado(k) => fin[k].n = 3
        BY <1>0, <3>1 DEF Comandos
      <4>6. FinLee(k) => ~iniciada
        BY <3>1, <4>1
      <4>7. QED
        BY <1>5, <4>2, <4>3, <4>4, <4>5, <4>6
    <3>3. Activo(k) /\ (Confirma(k) => detenida > 0 /\ fin[k].n = 3)
      BY <3>2 DEF Activo, Confirma
    <3>4. ~iniciada
      BY <3>2 DEF IInv, Banderas
    <3>5. Buscando = {} /\ dentro = {}
      BY <2>4, <3>3, <3>4, EmpiezaBien
    <3>6. Exclusiva!EmpiezaBusqueda(k)
      BY <2>1, <2>2, <3>1, <3>5 DEF Exclusiva!EmpiezaBusqueda
    <3>7. QED
      BY <3>6
  <2>5. CASE k \notin Buscando /\ k \notin Buscando'
    BY <2>1, <2>2, <2>5
  <2>6. QED
    BY <2>3, <2>4, <2>5
<1>6. CASE UNCHANGED vars
  BY <1>6 DEF vars, Buscando
<1>7. QED
  BY <1>1, <1>2, <1>3, <1>4, <1>5, <1>6 DEF Next, Detenedores, Teclado, Consola

(* BusquedaEsExclusiva: hilo_elimina_proceso has the scheduler for itself  *)
(* while buscar_proceso_finalizar runs, if no other command overlaps it.   *)
THEOREM BusquedaExclusivaSiempre == ASSUME UnaPorVez PROVE Spec => BusquedaEsExclusiva
<1>1. Init => Exclusiva!Init
  BY DEF Init, Exclusiva!Init, Buscando
<1>2. IInv /\ [Next]_vars => [Exclusiva!Next]_<<dentro, Buscando>>
  BY PasoExclusivo
<1>3. QED
  BY <1>1, <1>2, IInvSiempre, PTL DEF Spec, BusquedaEsExclusiva, Exclusiva!Spec
=============================================================================
