--------------------------- MODULE MemoriaPruebas ---------------------------
(***************************************************************************)
(* Proofs about module Memoria, for any number of processes, of frames and *)
(* of bytes in a page, and any TLB.  First, no frame has two owners.  Then *)
(* every translation in hand is current, as long as a process that shrank  *)
(* does not grow again: that is the one case tlb.c gets wrong.             *)
(***************************************************************************)
EXTENDS Memoria, SecuenciasTeoremas, FiniteSetTheorems

-----------------------------------------------------------------------------
(* Where each process is, for the kernel and for the memory.               *)
Estados == {"nuevo", "listo", "cpu", "io", "sirve", "muere", "fin"}
Vidas ==
    /\ procesos \subseteq Pids /\ saliendo \in Pids \cup {Nadie}
    /\ estado \in [Pids -> Estados]
    /\ \A p \in Pids : p \in procesos <=> estado[p] \notin {"nuevo", "fin"}
    /\ saliendo # Nadie => estado[saliendo] = "fin"

(* What the CPU executes.                                                  *)
Campos == {"pid", "op", "tam", "dato", "accesos", "a", "n"}
Ejecucion ==
    /\ cpu = [c \in Campos |-> cpu[c]]
    /\ cpu.pid \in Pids \cup {Nadie}
    /\ cpu.pid = Nadie => cpu = Ociosa
    /\ \A p \in Pids : (estado[p] = "cpu") <=> (cpu.pid = p)
    /\ cpu.op \in {"nada", "mov_out", "mov_in", "copy_string", "io", "resize", "agrega", "quita"}

(* The frames RESIZE still has to take are free, and the pages it still    *)
(* has to give back exist, although other connections free frames.         *)
Presupuesto ==
    /\ cpu.op = "resize" => cpu.tam \in Nat
    /\ cpu.op = "agrega" => cpu.n \in Int /\ cpu.n <= Libres
    /\ cpu.op = "quita" => cpu.n \in Int /\ cpu.n <= Len(tabla[cpu.pid])

Tablas == tabla \in [Pids -> Seq(Marcos)]

IInv == Vidas /\ Ejecucion /\ Presupuesto /\ Tablas /\ MarcosDeUno

-----------------------------------------------------------------------------
(* The first free frame exists.                                            *)
LEMMA MarcoLibreExiste ==
    ASSUME Marcos \ bitmap # {}
    PROVE  MarcoLibre \in Marcos \ bitmap
<1>1. Marcos \ bitmap \in SUBSET Nat
  BY DEF Marcos
<1>2. \E m \in Marcos \ bitmap : \A o \in Marcos \ bitmap : m <= o
  BY <1>1, MinimoExiste
<1>3. QED
  BY <1>2 DEF MarcoLibre

LEMMA MarcosFinitos ==
    ASSUME NEW S
    PROVE  IsFiniteSet(Marcos \ S) /\ Cardinality(Marcos \ S) \in Nat
<1>1. IsFiniteSet(Marcos)
  BY FS_Interval, MemoriaAssumption DEF Marcos
<1>2. QED
  BY <1>1, FS_Subset, FS_CardinalityType

-----------------------------------------------------------------------------
(* What an action of the CPU that is not a RESIZE leaves alone.            *)
Otras ==
    \/ MovOut \/ MovIn \/ CopyString \/ StdinStdout \/ TLBHit \/ TLBMiss
    \/ SolicitarEscritura \/ SolicitarLectura \/ EscribeLaCopia \/ Siguiente

LEMMA OtrasNoReparten ==
    ASSUME Ejecucion, Presupuesto, Otras
    PROVE  /\ UNCHANGED <<procesos, tabla, bitmap, saliendo, estado, io, achico>>
           /\ cpu' = [c \in Campos |-> cpu'[c]] /\ cpu'.pid = cpu.pid
           /\ \/ cpu'.op \in {"nada", "mov_out", "mov_in", "copy_string", "io"}
              \/ (cpu'.op = cpu.op /\ cpu'.n = cpu.n /\ cpu'.tam = cpu.tam)
<1>1. CASE MovOut \/ MovIn \/ CopyString \/ StdinStdout
  BY <1>1 DEF MovOut, MovIn, CopyString, StdinStdout, Decodifica, memoria, Campos
<1>2. CASE TLBHit \/ TLBMiss
  BY <1>2 DEF TLBHit, TLBMiss, Anota, memoria, Campos, Ejecucion
<1>3. CASE SolicitarEscritura \/ SolicitarLectura
  BY <1>3 DEF SolicitarEscritura, SolicitarLectura, Accediendo, memoria, Campos, Ejecucion
<1>4. CASE EscribeLaCopia \/ Siguiente
  BY <1>4 DEF EscribeLaCopia, Siguiente, Hecho, Ociosa, memoria, Campos, Ejecucion
<1>5. QED
  BY <1>1, <1>2, <1>3, <1>4 DEF Otras

(* Resize is an instruction like the others, but what it asks for matters. *)
LEMMA ResizePide ==
    ASSUME Ejecucion, Resize
    PROVE  /\ UNCHANGED <<procesos, tabla, bitmap, saliendo, estado, io, achico>>
           /\ cpu' = [c \in Campos |-> cpu'[c]] /\ cpu'.pid = cpu.pid
           /\ cpu'.op = "resize" /\ cpu'.tam \in Nat
  BY MemoriaAssumption DEF Resize, Decodifica, memoria, Campos

Simples == Otras \/ Resize
LEMMA CPUCasos ==
    ASSUME CPU
    PROVE  \/ Lista /\ Simples
           \/ TLBHit \/ TLBMiss \/ SolicitarEscritura \/ SolicitarLectura
           \/ EscribeLaCopia \/ Siguiente
           \/ Desaloja \/ EnviaIO \/ ModificarEspacio \/ OutOfMemory
           \/ AgregarPagina \/ LiberarPagina \/ RespondeResize
  BY DEF CPU, Instruccion, Simples, Otras

-----------------------------------------------------------------------------
(* Each step keeps Vidas and Ejecucion.                                    *)
LEMMA FormaPaso ==
    ASSUME Vidas, Ejecucion, Presupuesto, [Next]_vars
    PROVE  Vidas' /\ Ejecucion'
<1>1. /\ Nadie \notin Pids
      /\ cpu.pid = Nadie => cpu.op = "nada" /\ DOMAIN cpu.accesos = {}
  BY MemoriaAssumption DEF Ejecucion, Ociosa
<1>2. CASE CPU
  <2>1. CASE Lista /\ Otras
    <3>1. cpu'.op \in {"nada", "mov_out", "mov_in", "copy_string", "io"} \/ cpu'.op = cpu.op
      BY <2>1, OtrasNoReparten
    <3>2. QED
      BY <2>1, <3>1, OtrasNoReparten DEF Vidas, Ejecucion, Lista
  <2>2. CASE Lista /\ Resize
    BY <2>2, ResizePide DEF Vidas, Ejecucion, Lista
  <2>3. CASE TLBHit \/ TLBMiss \/ SolicitarEscritura \/ SolicitarLectura
             \/ EscribeLaCopia \/ Siguiente
    <3>1. cpu.pid # Nadie
      BY <2>3, <1>1 DEF TLBHit, TLBMiss, SolicitarEscritura, SolicitarLectura,
                        EscribeLaCopia, Siguiente, Traduciendo, Accediendo, Hecho
    <3>2. QED
      BY <2>3, <3>1, OtrasNoReparten DEF Vidas, Ejecucion, Otras
  <2>4. CASE Desaloja
    BY <2>4, <1>1 DEF Desaloja, Lista, Vidas, Ejecucion, Ociosa, memoria, Campos, Estados
  <2>5. CASE EnviaIO
    BY <2>5, <1>1 DEF EnviaIO, Vidas, Ejecucion, Ociosa, memoria, Campos, Estados
  <2>6. CASE ModificarEspacio
    BY <2>6, <1>1 DEF ModificarEspacio, Vidas, Ejecucion, Ociosa, memoria, Campos
  <2>7. CASE OutOfMemory
    BY <2>7, <1>1 DEF OutOfMemory, Vidas, Ejecucion, Ociosa, memoria, Campos, Estados
  <2>8. CASE AgregarPagina \/ LiberarPagina
    BY <2>8, <1>1 DEF AgregarPagina, LiberarPagina, Vidas, Ejecucion, Campos
  <2>9. CASE RespondeResize
    BY <2>9, <1>1 DEF RespondeResize, Vidas, Ejecucion, Ociosa, memoria, Campos
  <2>10. QED
    BY <1>2, <2>1, <2>2, <2>3, <2>4, <2>5, <2>6, <2>7, <2>8, <2>9, CPUCasos DEF Simples
<1>3. CASE LiberarFramesTabla
  BY <1>3 DEF LiberarFramesTabla, Vidas, Ejecucion
<1>4. ASSUME NEW p \in Pids, IniciarProceso(p) \/ QuitarDeLista(p)
      PROVE  Vidas' /\ Ejecucion'
  BY <1>4, <1>1 DEF IniciarProceso, QuitarDeLista, Vidas, Ejecucion, Estados
<1>5. ASSUME NEW p \in Pids, Despacha(p)
      PROVE  Vidas' /\ Ejecucion'
  BY <1>5, <1>1 DEF Despacha, Vidas, Ejecucion, Ociosa, memoria, Campos, Estados
<1>6. ASSUME NEW p \in Pids,
             Atiende(p) \/ IOEscribe(p) \/ IOLee(p) \/ IOCompleta(p) \/ IOSePierde(p)
      PROVE  Vidas' /\ Ejecucion'
  <2>1. UNCHANGED <<procesos, saliendo, cpu>>
    BY <1>6 DEF Atiende, IOEscribe, IOLee, IOCompleta, IOSePierde, memoria
  <2>2. CASE IOEscribe(p) \/ IOLee(p)
    BY <2>1, <2>2 DEF IOEscribe, IOLee, Vidas, Ejecucion, memoria
  <2>3. CASE Atiende(p) \/ IOCompleta(p) \/ IOSePierde(p)
    <3>1. PICK e \in {"sirve", "listo", "muere"} : estado' = [estado EXCEPT ![p] = e]
      BY <2>3 DEF Atiende, IOCompleta, IOSePierde
    <3>2. estado[p] \in {"io", "sirve"}
      BY <2>3 DEF Atiende, IOCompleta, IOSePierde
    <3>3. QED
      BY <2>1, <3>1, <3>2, <1>1 DEF Vidas, Ejecucion, Estados
  <2>4. QED
    BY <1>6, <2>2, <2>3
<1>7. CASE UNCHANGED vars
  BY <1>7 DEF vars, Vidas, Ejecucion
<1>8. QED
  BY <1>2, <1>3, <1>4, <1>5, <1>6, <1>7 DEF Next

-----------------------------------------------------------------------------
(* The owners of the frames, as a function of the tables.                  *)
Propios(t) == UNION {ToSet(t[p]) : p \in Pids}
SinCompartir(t) ==
    \A p, q \in Pids : \A i \in DOMAIN t[p], j \in DOMAIN t[q] :
        t[p][i] = t[q][j] => p = q /\ i = j

LEMMA MarcosDeUnoPartes ==
    MarcosDeUno <=> /\ SinCompartir(tabla) /\ bitmap = Propios(tabla)
                    /\ \A p \in Pids : tabla[p] # <<>> => p \in procesos \cup {saliendo}
  BY DEF MarcosDeUno, SinCompartir, Propios

(* A page more, a page less, and no pages.                                 *)
LEMMA UnaMas ==
    ASSUME NEW t \in [Pids -> Seq(Marcos)], SinCompartir(t), NEW p \in Pids,
           NEW m \in Marcos \ Propios(t)
    PROVE  LET u == [t EXCEPT ![p] = Append(@, m)]
           IN  /\ u \in [Pids -> Seq(Marcos)] /\ SinCompartir(u)
               /\ Propios(u) = Propios(t) \cup {m}
<1> DEFINE u == [t EXCEPT ![p] = Append(@, m)]
<1>1. /\ t[p] \in Seq(Marcos) /\ Len(t[p]) \in Nat
      /\ Append(t[p], m) \in Seq(Marcos) /\ Len(Append(t[p], m)) = Len(t[p]) + 1
      /\ \A i \in 1..(Len(t[p]) + 1) :
            Append(t[p], m)[i] = IF i <= Len(t[p]) THEN t[p][i] ELSE m
  OBVIOUS
<1>2. u \in [Pids -> Seq(Marcos)] /\ u[p] = Append(t[p], m)
      /\ \A q \in Pids : q # p => u[q] = t[q]
  BY <1>1
<1> HIDE DEF u
<1>3. /\ \A q \in Pids : DOMAIN t[q] = 1..Len(t[q]) /\ DOMAIN u[q] = 1..Len(u[q])
      /\ DOMAIN u[p] = 1..(Len(t[p]) + 1) /\ DOMAIN t[p] = 1..Len(t[p])
  BY <1>1, <1>2
<1>4. \A q \in Pids : \A i \in DOMAIN t[q] : t[q][i] \in Propios(t) /\ t[q][i] # m
  BY DEF Propios, ToSet
<1>5. \A q \in Pids : \A i \in DOMAIN u[q] :
        \/ i \in DOMAIN t[q] /\ u[q][i] = t[q][i]
        \/ q = p /\ i = Len(t[p]) + 1 /\ u[q][i] = m
  <2> SUFFICES ASSUME NEW q \in Pids, NEW i \in DOMAIN u[q]
               PROVE  \/ i \in DOMAIN t[q] /\ u[q][i] = t[q][i]
                      \/ q = p /\ i = Len(t[p]) + 1 /\ u[q][i] = m
    OBVIOUS
  <2>1. CASE q = p
    <3>1. i \in 1..(Len(t[p]) + 1) /\ u[p][i] = Append(t[p], m)[i]
      BY <2>1, <1>2, <1>3
    <3>2. CASE i <= Len(t[p])
      BY <2>1, <3>1, <3>2, <1>1, <1>3
    <3>3. CASE i = Len(t[p]) + 1
      BY <2>1, <3>1, <3>3, <1>1
    <3>4. QED
      BY <3>1, <3>2, <3>3, <1>1
  <2>2. CASE q # p
    BY <2>2, <1>2
  <2>3. QED
    BY <2>1, <2>2
<1>6. SinCompartir(u)
  <2> SUFFICES ASSUME NEW q \in Pids, NEW r \in Pids, NEW i \in DOMAIN u[q], NEW j \in DOMAIN u[r],
                      u[q][i] = u[r][j]
               PROVE  q = r /\ i = j
    BY DEF SinCompartir
  <2>1. QED
    BY <1>4, <1>5 DEF SinCompartir
<1>7. ASSUME NEW x
      PROVE  x \in Propios(u) <=> x \in Propios(t) \cup {m}
  <2>1. x \in Propios(u) <=> \E q \in Pids : \E i \in DOMAIN u[q] : x = u[q][i]
    BY DEF Propios, ToSet
  <2>2. x \in Propios(t) <=> \E q \in Pids : \E i \in DOMAIN t[q] : x = t[q][i]
    BY DEF Propios, ToSet
  <2>3. ASSUME NEW q \in Pids, NEW i \in DOMAIN t[q]
        PROVE  i \in DOMAIN u[q] /\ u[q][i] = t[q][i]
    <3>1. CASE q = p
      BY <3>1, <1>1, <1>2, <1>3
    <3>2. CASE q # p
      BY <3>2, <1>2
    <3>3. QED
      BY <3>1, <3>2
  <2>4. Len(t[p]) + 1 \in DOMAIN u[p] /\ u[p][Len(t[p]) + 1] = m
    BY <1>1, <1>2, <1>3
  <2>5. QED
    BY <2>1, <2>2, <2>3, <2>4, <1>5
<1>8. Propios(u) = Propios(t) \cup {m}
  BY <1>7
<1>9. QED
  BY <1>2, <1>6, <1>8 DEF u

LEMMA UnaMenos ==
    ASSUME NEW t \in [Pids -> Seq(Marcos)], SinCompartir(t), NEW p \in Pids, Len(t[p]) > 0
    PROVE  LET u == [t EXCEPT ![p] = Front(@)]
           IN  /\ u \in [Pids -> Seq(Marcos)] /\ SinCompartir(u)
               /\ Propios(u) = Propios(t) \ {Last(t[p])}
               /\ Len(u[p]) = Len(t[p]) - 1
               /\ \A i \in 1..(Len(t[p]) - 1) : u[p][i] = t[p][i]
<1> DEFINE u == [t EXCEPT ![p] = Front(@)]
<1>1. /\ t[p] \in Seq(Marcos) /\ Len(t[p]) \in Nat
      /\ Front(t[p]) \in Seq(Marcos) /\ Len(Front(t[p])) = Len(t[p]) - 1
      /\ \A i \in 1..(Len(t[p]) - 1) : Front(t[p])[i] = t[p][i]
  BY FrontPropiedades
<1>2. u \in [Pids -> Seq(Marcos)] /\ u[p] = Front(t[p])
      /\ \A q \in Pids : q # p => u[q] = t[q]
  BY <1>1
<1> HIDE DEF u
<1>3. /\ DOMAIN u[p] = 1..(Len(t[p]) - 1) /\ DOMAIN t[p] = 1..Len(t[p])
      /\ Len(t[p]) \in DOMAIN t[p]
  BY <1>1, <1>2
<1>4. \A q \in Pids : \A i \in DOMAIN u[q] :
        i \in DOMAIN t[q] /\ u[q][i] = t[q][i] /\ (q = p => i # Len(t[p]))
  BY <1>1, <1>2, <1>3
<1>5. SinCompartir(u)
  BY <1>4 DEF SinCompartir
<1>6. ASSUME NEW x
      PROVE  x \in Propios(u) <=> x \in Propios(t) \ {Last(t[p])}
  <2>1. x \in Propios(u) <=> \E q \in Pids : \E i \in DOMAIN u[q] : x = u[q][i]
    BY DEF Propios, ToSet
  <2>2. x \in Propios(t) <=> \E q \in Pids : \E i \in DOMAIN t[q] : x = t[q][i]
    BY DEF Propios, ToSet
  <2>3. ASSUME NEW q \in Pids, NEW i \in DOMAIN u[q]
        PROVE  u[q][i] # Last(t[p])
    BY <1>3, <1>4 DEF SinCompartir, Last
  <2>4. ASSUME NEW q \in Pids, NEW i \in DOMAIN t[q], t[q][i] # Last(t[p])
        PROVE  i \in DOMAIN u[q] /\ u[q][i] = t[q][i]
    <3>1. CASE q = p
      BY <3>1, <2>4, <1>1, <1>2, <1>3 DEF Last
    <3>2. CASE q # p
      BY <3>2, <1>2
    <3>3. QED
      BY <3>1, <3>2
  <2>5. QED
    BY <2>1, <2>2, <2>3, <2>4, <1>4
<1>7. Propios(u) = Propios(t) \ {Last(t[p])}
  BY <1>6
<1>8. QED
  BY <1>1, <1>2, <1>5, <1>7 DEF u

LEMMA Ninguna ==
    ASSUME NEW t \in [Pids -> Seq(Marcos)], SinCompartir(t), NEW p \in Pids
    PROVE  LET u == [t EXCEPT ![p] = <<>>]
           IN  /\ u \in [Pids -> Seq(Marcos)] /\ SinCompartir(u)
               /\ Propios(u) = Propios(t) \ ToSet(t[p])
<1> DEFINE u == [t EXCEPT ![p] = <<>>]
<1>1. u \in [Pids -> Seq(Marcos)] /\ u[p] = <<>>
      /\ \A q \in Pids : q # p => u[q] = t[q]
  OBVIOUS
<1> HIDE DEF u
<1>2. \A q \in Pids : \A i \in DOMAIN u[q] : q # p /\ i \in DOMAIN t[q] /\ u[q][i] = t[q][i]
  BY <1>1
<1>3. SinCompartir(u)
  BY <1>2 DEF SinCompartir
<1>4. ASSUME NEW x
      PROVE  x \in Propios(u) <=> x \in Propios(t) \ ToSet(t[p])
  <2>1. x \in Propios(u) <=> \E q \in Pids : \E i \in DOMAIN u[q] : x = u[q][i]
    BY DEF Propios, ToSet
  <2>2. x \in Propios(t) <=> \E q \in Pids : \E i \in DOMAIN t[q] : x = t[q][i]
    BY DEF Propios, ToSet
  <2>3. x \in ToSet(t[p]) <=> \E i \in DOMAIN t[p] : x = t[p][i]
    BY DEF ToSet
  <2>4. ASSUME NEW q \in Pids, NEW i \in DOMAIN u[q], x = u[q][i]
        PROVE  x \in Propios(t) /\ x \notin ToSet(t[p])
    BY <2>2, <2>3, <2>4, <1>2 DEF SinCompartir
  <2>5. ASSUME NEW q \in Pids, NEW i \in DOMAIN t[q], x = t[q][i], x \notin ToSet(t[p])
        PROVE  i \in DOMAIN u[q] /\ x = u[q][i]
    BY <2>3, <2>5, <1>1
  <2>6. QED
    BY <2>1, <2>2, <2>4, <2>5
<1>5. Propios(u) = Propios(t) \ ToSet(t[p])
  BY <1>4
<1>6. QED
  BY <1>1, <1>3, <1>5 DEF u

-----------------------------------------------------------------------------
(* Each step keeps the tables, the owners and what RESIZE still has to do. *)
Reparto == Presupuesto /\ Tablas /\ MarcosDeUno

(* A step that moves no frame.                                             *)
LEMMA SinMover ==
    ASSUME IInv, UNCHANGED <<tabla, bitmap, saliendo>>, procesos \subseteq procesos', Presupuesto'
    PROVE  Reparto'
  BY DEF IInv, Reparto, Tablas, MarcosDeUno

(* The budget of a RESIZE that neither begins nor advances.                *)
LEMMA PresupuestoQuieto ==
    ASSUME Presupuesto, UNCHANGED <<tabla, bitmap>>,
           \/ cpu'.op \in {"nada", "mov_out", "mov_in", "copy_string", "io"}
           \/ cpu'.op = cpu.op /\ cpu'.pid = cpu.pid /\ cpu'.n = cpu.n /\ cpu'.tam = cpu.tam
    PROVE  Presupuesto'
  BY DEF Presupuesto, Libres

LEMMA AgregarReparte ==
    ASSUME IInv, AgregarPagina
    PROVE  Reparto'
<1>1. /\ cpu.pid \in procesos /\ cpu.pid \in Pids
      /\ cpu.op = "agrega" /\ cpu.n \in Int /\ cpu.n > 0 /\ cpu.n <= Libres
  BY DEF IInv, Ejecucion, Presupuesto, AgregarPagina, Vidas, Ociosa
<1>2. Marcos \ bitmap # {} /\ IsFiniteSet(Marcos \ bitmap) /\ Libres \in Nat
  BY <1>1, MarcosFinitos, FS_EmptySet DEF Libres
<1> DEFINE m == MarcoLibre
           p == cpu.pid
<1>3. m \in Marcos \ bitmap /\ bitmap = Propios(tabla)
  BY <1>2, MarcoLibreExiste, MarcosDeUnoPartes DEF IInv
<1>4. /\ tabla' = [tabla EXCEPT ![p] = Append(@, m)] /\ bitmap' = bitmap \cup {m}
      /\ UNCHANGED <<procesos, saliendo>> /\ cpu' = [cpu EXCEPT !.n = @ - 1]
  BY DEF AgregarPagina
<1> HIDE DEF m, p
<1>5. /\ tabla' \in [Pids -> Seq(Marcos)] /\ SinCompartir(tabla')
      /\ Propios(tabla') = bitmap \cup {m}
  BY <1>1, <1>3, <1>4, UnaMas, MarcosDeUnoPartes DEF IInv, Tablas, p
<1>6. \A q \in Pids : tabla'[q] # <<>> => q \in procesos' \cup {saliendo'}
  BY <1>1, <1>4, MarcosDeUnoPartes DEF IInv, Tablas, p
<1>7. Cardinality(Marcos \ bitmap') = Libres - 1
  <2>1. Marcos \ bitmap' = (Marcos \ bitmap) \ {m}
    BY <1>4
  <2>2. QED
    BY <2>1, <1>2, <1>3, FS_RemoveElement DEF Libres
<1>8. cpu'.op = "agrega" /\ cpu'.n = cpu.n - 1
  BY <1>1, <1>4 DEF IInv, Ejecucion, Campos
<1>9. Presupuesto'
  BY <1>1, <1>2, <1>7, <1>8 DEF Presupuesto, Libres
<1>10. QED
  BY <1>4, <1>5, <1>6, <1>9, Zenon DEF Reparto, Tablas, MarcosDeUno, SinCompartir, Propios

LEMMA LiberarPaginaReparte ==
    ASSUME IInv, LiberarPagina
    PROVE  Reparto'
<1> DEFINE p == cpu.pid
<1>1. /\ p \in Pids /\ cpu.op = "quita" /\ cpu.n \in Int /\ cpu.n > 0 /\ cpu.n <= Len(tabla[p])
  BY DEF IInv, Ejecucion, Presupuesto, LiberarPagina, Ociosa
<1>2. /\ tabla' = [tabla EXCEPT ![p] = Front(@)] /\ bitmap' = bitmap \ {Last(tabla[p])}
      /\ UNCHANGED <<procesos, saliendo>> /\ cpu' = [cpu EXCEPT !.n = @ - 1]
  BY DEF LiberarPagina
<1>3. /\ tabla \in [Pids -> Seq(Marcos)] /\ SinCompartir(tabla) /\ bitmap = Propios(tabla)
      /\ Len(tabla[p]) \in Nat /\ Len(tabla[p]) > 0
  BY <1>1, MarcosDeUnoPartes DEF IInv, Tablas
<1>4. cpu'.op = "quita" /\ cpu'.n = cpu.n - 1 /\ cpu'.pid = p
  BY <1>1, <1>2 DEF IInv, Ejecucion, Campos
<1> HIDE DEF p
<1>5. /\ tabla' \in [Pids -> Seq(Marcos)] /\ SinCompartir(tabla')
      /\ Propios(tabla') = bitmap' /\ Len(tabla'[p]) = Len(tabla[p]) - 1
  BY <1>1, <1>2, <1>3, UnaMenos
<1>6. \A q \in Pids : tabla'[q] # <<>> => q \in procesos' \cup {saliendo'}
  <2>1. tabla[p] # <<>>
    BY <1>1, <1>3
  <2>2. \A q \in Pids : tabla[q] # <<>> => q \in procesos \cup {saliendo}
    BY MarcosDeUnoPartes DEF IInv
  <2>3. QED
    BY <2>1, <2>2, <1>1, <1>2, <1>3
<1>7. Presupuesto'
  BY <1>1, <1>3, <1>4, <1>5 DEF Presupuesto
<1>8. QED
  BY <1>5, <1>6, <1>7, Zenon DEF Reparto, Tablas, MarcosDeUno, SinCompartir, Propios

(* The kernel's connection only gives frames back, and not the CPU's.      *)
LEMMA LiberarFramesReparte ==
    ASSUME IInv, LiberarFramesTabla
    PROVE  Reparto'
<1> DEFINE s == saliendo
<1>1. /\ s \in Pids /\ s # Nadie /\ estado[s] = "fin" /\ saliendo' = Nadie
      /\ bitmap' = bitmap \ ToSet(tabla[s]) /\ tabla' = [tabla EXCEPT ![s] = <<>>]
      /\ UNCHANGED <<procesos, cpu>>
  BY DEF IInv, Vidas, LiberarFramesTabla
<1>2. /\ tabla \in [Pids -> Seq(Marcos)] /\ SinCompartir(tabla) /\ bitmap = Propios(tabla)
  BY MarcosDeUnoPartes DEF IInv, Tablas
<1> HIDE DEF s
<1>3. /\ tabla' \in [Pids -> Seq(Marcos)] /\ SinCompartir(tabla') /\ Propios(tabla') = bitmap'
  BY <1>1, <1>2, Ninguna
<1>4. \A q \in Pids : tabla'[q] # <<>> => q \in procesos' \cup {saliendo'}
  <2>1. \A q \in Pids : tabla[q] # <<>> => q \in procesos \cup {s}
    BY MarcosDeUnoPartes DEF IInv, s
  <2>2. QED
    BY <2>1, <1>1, <1>2
<1>5. Libres <= Cardinality(Marcos \ bitmap')
      /\ Libres \in Nat /\ Cardinality(Marcos \ bitmap') \in Nat
  <2>1. Marcos \ bitmap \in SUBSET (Marcos \ bitmap')
    BY <1>1
  <2>2. QED
    BY <2>1, MarcosFinitos, FS_Subset DEF Libres
<1>6. cpu.pid # s
  BY <1>1 DEF IInv, Ejecucion
<1>7. cpu.op = "quita" => cpu.pid \in Pids
  BY DEF IInv, Ejecucion, Ociosa
<1>8. cpu.op = "quita" => tabla'[cpu.pid] = tabla[cpu.pid]
  BY <1>1, <1>2, <1>6, <1>7
<1>9. Presupuesto'
  BY <1>1, <1>5, <1>8 DEF IInv, Presupuesto, Libres
<1>10. QED
  BY <1>3, <1>4, <1>9, Zenon DEF Reparto, Tablas, MarcosDeUno, SinCompartir, Propios

(* RESIZE begins: what it says it needs is there.                          *)
LEMMA CocienteAcotado ==
    ASSUME NEW l \in Nat, NEW t \in Nat \ {0}, NEW r \in Nat, r <= l * t
    PROVE  r \div t \in Int /\ r \div t <= l
<1> DEFINE q == r \div t
           m == r % t
<1>1. q \in Int /\ m \in 0..(t - 1) /\ r = t * q + m
  OBVIOUS
<1> HIDE DEF q, m
<1>2. ASSUME q > l PROVE FALSE
  <2>1. q >= l + 1 /\ t > 0
    BY <1>1, <1>2
  <2>2. t * q >= t * (l + 1)
    BY <2>1, <1>1
  <2>3. QED
    BY <2>1, <2>2, <1>1
<1>3. QED
  BY <1>1, <1>2 DEF q

LEMMA ModificarReparte ==
    ASSUME IInv, ModificarEspacio
    PROVE  Presupuesto'
<1> DEFINE p == cpu.pid
           l == Len(tabla[p])
<1>1. p \in Pids /\ cpu.tam \in Nat /\ l \in Nat /\ TamPagina \in Nat \ {0}
  BY MMUAssumption DEF IInv, Ejecucion, Presupuesto, Tablas, ModificarEspacio, Ociosa
<1>2. UNCHANGED <<tabla, bitmap>>
  BY DEF ModificarEspacio, memoria
<1>3. CASE cpu.tam <= Alcance(p) /\ cpu.tam >= Alcance(p) - TamPagina
  <2>1. cpu'.op = "nada"
    BY <1>3 DEF ModificarEspacio, Ociosa
  <2>2. QED
    BY <2>1 DEF Presupuesto
<1>4. CASE ~(cpu.tam <= Alcance(p) /\ cpu.tam >= Alcance(p) - TamPagina)
  <2>1. cpu' = [cpu EXCEPT !.op = IF Diferencia > 0 THEN "agrega" ELSE "quita",
                           !.n = IF Diferencia > 0 THEN Techo(Diferencia, TamPagina)
                                 ELSE (-Diferencia) \div TamPagina]
    BY <1>4 DEF ModificarEspacio
  <2>2. /\ cpu'.op = IF Diferencia > 0 THEN "agrega" ELSE "quita"
        /\ cpu'.n = IF Diferencia > 0 THEN Techo(Diferencia, TamPagina)
                    ELSE (-Diferencia) \div TamPagina
        /\ cpu'.pid = p
    BY <2>1 DEF IInv, Ejecucion, Campos
  <2>3. CASE Diferencia > 0
    <3>1. Techo(Diferencia, TamPagina) <= Libres
      BY <2>3 DEF ModificarEspacio
    <3>2. l * TamPagina \in Nat
      BY <1>1
    <3>3. Diferencia \in Int
      BY <1>1, <3>2 DEF Diferencia, Alcance
    <3>4. Techo(Diferencia, TamPagina) \in Int
      BY <1>1, <3>3 DEF Techo
    <3>5. QED
      BY <2>2, <2>3, <3>1, <3>4, <1>2 DEF Presupuesto, Libres
  <2>4. CASE ~(Diferencia > 0)
    <3>1. l * TamPagina \in Nat
      BY <1>1
    <3>2. -Diferencia \in Nat /\ -Diferencia <= l * TamPagina
      BY <1>1, <2>4, <3>1 DEF Diferencia, Alcance
    <3>3. (-Diferencia) \div TamPagina \in Int /\ (-Diferencia) \div TamPagina <= l
      BY <1>1, <3>2, CocienteAcotado
    <3>4. cpu'.op = "quita" /\ cpu'.n = (-Diferencia) \div TamPagina
      BY <2>2, <2>4
    <3>5. QED
      BY <2>2, <3>3, <3>4, <1>2 DEF Presupuesto
  <2>5. QED
    BY <2>3, <2>4
<1>5. QED
  BY <1>3, <1>4

LEMMA RepartoPaso ==
    ASSUME IInv, [Next]_vars
    PROVE  Reparto'
<1>1. Presupuesto /\ Ejecucion /\ procesos \subseteq Pids
  BY DEF IInv, Vidas
<1>2. CASE CPU
  <2>1. CASE (Lista /\ Otras) \/ TLBHit \/ TLBMiss \/ SolicitarEscritura \/ SolicitarLectura
             \/ EscribeLaCopia \/ Siguiente
    BY <2>1, <1>1, OtrasNoReparten, PresupuestoQuieto, SinMover DEF Otras
  <2>2. CASE Lista /\ Resize
    <3>1. /\ UNCHANGED <<procesos, tabla, bitmap, saliendo>>
          /\ cpu'.op = "resize" /\ cpu'.tam \in Nat
      BY <2>2, <1>1, ResizePide
    <3>2. Presupuesto'
      BY <3>1 DEF Presupuesto
    <3>3. QED
      BY <3>1, <3>2, SinMover
  <2>3. CASE Desaloja \/ EnviaIO \/ OutOfMemory \/ RespondeResize
    <3>1. UNCHANGED <<procesos, tabla, bitmap, saliendo>> /\ cpu'.op = "nada"
      BY <2>3 DEF Desaloja, EnviaIO, OutOfMemory, RespondeResize, Ociosa, memoria
    <3>2. QED
      BY <3>1, <1>1, PresupuestoQuieto, SinMover
  <2>4. CASE ModificarEspacio
    BY <2>4, ModificarReparte, SinMover DEF ModificarEspacio, memoria
  <2>5. QED
    BY <1>2, <2>1, <2>2, <2>3, <2>4, CPUCasos, AgregarReparte, LiberarPaginaReparte DEF Simples
<1>3. ASSUME NEW p \in Pids, IniciarProceso(p)
      PROVE  Reparto'
  BY <1>3, <1>1, PresupuestoQuieto, SinMover DEF IniciarProceso
<1>4. ASSUME NEW p \in Pids, QuitarDeLista(p)
      PROVE  Reparto'
  <2>1. /\ UNCHANGED <<tabla, bitmap, cpu>> /\ saliendo = Nadie /\ saliendo' = p
        /\ procesos' = procesos \ {p}
    BY <1>4 DEF QuitarDeLista
  <2>2. Presupuesto'
    BY <2>1, <1>1, PresupuestoQuieto
  <2>3. QED
    BY <2>1, <2>2, MemoriaAssumption DEF Reparto, IInv, Tablas, MarcosDeUno
<1>5. ASSUME NEW p \in Pids, Despacha(p)
      PROVE  Reparto'
  <2>1. UNCHANGED <<procesos, tabla, bitmap, saliendo>> /\ cpu'.op = "nada"
    BY <1>5 DEF Despacha, Ociosa, memoria
  <2>2. QED
    BY <2>1, <1>1, PresupuestoQuieto, SinMover
<1>6. ASSUME NEW p \in Pids,
             Atiende(p) \/ IOEscribe(p) \/ IOLee(p) \/ IOCompleta(p) \/ IOSePierde(p)
      PROVE  Reparto'
  <2>1. UNCHANGED <<procesos, tabla, bitmap, saliendo, cpu>>
    BY <1>6 DEF Atiende, IOEscribe, IOLee, IOCompleta, IOSePierde, memoria
  <2>2. QED
    BY <2>1, <1>1, PresupuestoQuieto, SinMover
<1>7. CASE UNCHANGED vars
  BY <1>7, <1>1, PresupuestoQuieto, SinMover DEF vars
<1>8. QED
  BY <1>2, <1>3, <1>4, <1>5, <1>6, <1>7, LiberarFramesReparte DEF Next

-----------------------------------------------------------------------------
LEMMA InitIInv == Init => IInv
<1> SUFFICES ASSUME Init PROVE IInv
  OBVIOUS
<1>1. Vidas /\ Ejecucion /\ Presupuesto /\ Tablas
  BY MemoriaAssumption DEF Init, Vidas, Ejecucion, Presupuesto, Tablas, Ociosa, Campos, Estados
<1>2. MarcosDeUno
  BY DEF Init, MarcosDeUno, ToSet
<1>3. QED
  BY <1>1, <1>2 DEF IInv

LEMMA IInvPaso == ASSUME IInv, [Next]_vars PROVE IInv'
<1>1. Vidas' /\ Ejecucion'
  BY FormaPaso DEF IInv
<1>2. Reparto'
  BY RepartoPaso
<1>3. QED
  BY <1>1, <1>2 DEF IInv, Reparto

(* The inductive invariant: who each process is with, what the CPU         *)
(* executes, and that a RESIZE in progress asks for no more than is free.  *)
THEOREM IInvSiempre == Spec => []IInv
<1>1. Init => IInv
  BY InitIInv
<1>2. IInv /\ [Next]_vars => IInv'
  BY IInvPaso
<1>3. QED
  BY <1>1, <1>2, PTL DEF Spec

(* Frames have one owner and are marked exactly while they have it, for    *)
(* any number of processes and frames: bitmap.c, user_space.c and          *)
(* archivos.c neither leak a frame nor hand one out twice although two     *)
(* connections allocate and free at once.                                  *)
THEOREM MarcosDeUnoSiempre == Spec => []MarcosDeUno
<1>1. IInv => MarcosDeUno
  BY DEF IInv
<1>2. QED
  BY <1>1, IInvSiempre, PTL

-----------------------------------------------------------------------------
(* The entries of the TLB are of processes that were admitted, and those   *)
(* of a process that never shrank are of pages it has.                     *)
EntradaSana(e) ==
    /\ estado[e.pid] # "nuevo"
    /\ e.pid \in procesos /\ e.pid \notin achico => e.pagina < Len(tabla[e.pid])
    /\ e.pid \in procesos /\ e.pagina < Len(tabla[e.pid])
         => e.marco = tabla[e.pid][e.pagina + 1]
TLBSana ==
    /\ tlb \in Seq(EntradaTLB(Pids, Marcos))
    /\ \A i \in DOMAIN tlb : EntradaSana(tlb[i])

(* Only a process that never shrank grows.                                 *)
SinRecrecer ==
    /\ cpu.op = "resize" => cpu.pid \notin achico \/ cpu.tam <= Alcance(cpu.pid)
    /\ cpu.op = "agrega" => cpu.pid \notin achico

(* What the instruction translated so far.                                 *)
Accesos == [tipo : {"escribe", "lee"}, dl : Nat, marcos : Seq(Marcos)]
AccesoSano(x, tam, t) ==
    /\ x.dl + tam <= Len(t) * TamPagina
    /\ Len(x.marcos) <= PaginasNecesarias(Desplazamiento(x.dl), tam)
    /\ \A k \in 1..Len(x.marcos) : x.marcos[k] = t[Pagina(x.dl) + k]
AccesosSanos ==
    /\ cpu.op \in {"nada", "resize", "agrega", "quita"} => cpu.accesos = <<>>
    /\ cpu.accesos # <<>> => cpu.tam \in Nat /\ cpu.tam > 0
    /\ cpu.op = "io" => cpu.accesos # <<>>
    /\ cpu.accesos \in Seq(Accesos)
    /\ \A i \in DOMAIN cpu.accesos : AccesoSano(cpu.accesos[i], cpu.tam, tabla[cpu.pid])

(* What the requests carry.                                                *)
CamposIO == {"tipo", "dl", "tam", "dato", "porciones", "n"}
PedidoSano(r, est, t) ==
    /\ r = [c \in CamposIO |-> r[c]]
    /\ est \notin {"io", "sirve"} => r.porciones = <<>>
    /\ \A k \in DOMAIN r.porciones :
         r.porciones[k].dir \div TamPagina = t[Pagina(r.dl) + k]
PedidosSanos == DOMAIN io = Pids /\ \A p \in Pids : PedidoSano(io[p], estado[p], tabla[p])

TInv == TLBSana /\ SinRecrecer /\ AccesosSanos /\ PedidosSanos

-----------------------------------------------------------------------------
(* The pages of an access that is inside the process.                      *)
LEMMA TechoAcotado ==
    ASSUME NEW x \in Nat, NEW t \in Nat \ {0}, NEW k \in Int, x <= k * t
    PROVE  Techo(x, t) \in Nat /\ Techo(x, t) <= k
<1> DEFINE q == (x + t - 1) \div t
           m == (x + t - 1) % t
<1>1. q \in Int /\ m \in 0..(t - 1) /\ x + t - 1 = t * q + m
  OBVIOUS
<1> HIDE DEF q, m
<1>2. ASSUME q > k PROVE FALSE
  <2>1. q >= k + 1 /\ t > 0
    BY <1>1, <1>2
  <2>2. t * q >= t * (k + 1)
    BY <2>1, <1>1
  <2>3. QED
    BY <2>1, <2>2, <1>1
<1>3. ASSUME q < 0 PROVE FALSE
  <2>1. t * q <= t * (-1)
    BY <1>1, <1>3
  <2>2. QED
    BY <2>1, <1>1
<1>4. q = Techo(x, t)
  BY DEF q, Techo
<1>5. QED
  BY <1>1, <1>2, <1>3, <1>4

LEMMA PaginaDesplazamiento ==
    ASSUME NEW dl \in Nat
    PROVE  /\ Pagina(dl) \in Nat /\ Desplazamiento(dl) \in 0..(TamPagina - 1)
           /\ dl = Pagina(dl) * TamPagina + Desplazamiento(dl)
<1>1. TamPagina \in Nat \ {0}
  BY MMUAssumption
<1> DEFINE q == dl \div TamPagina
           m == dl % TamPagina
<1>2. q \in Int /\ m \in 0..(TamPagina - 1) /\ dl = TamPagina * q + m
  BY <1>1
<1> HIDE DEF q, m
<1>3. ASSUME q < 0 PROVE FALSE
  <2>1. TamPagina * q <= TamPagina * (-1)
    BY <1>1, <1>2, <1>3
  <2>2. QED
    BY <2>1, <1>1, <1>2
<1>4. Pagina(dl) = q
  BY DEF Pagina, q
<1>5. q * TamPagina = TamPagina * q /\ q * TamPagina \in Int
  BY <1>1, <1>2
<1>6. Desplazamiento(dl) = m
  BY <1>2, <1>4, <1>5 DEF Desplazamiento
<1>7. QED
  BY <1>2, <1>3, <1>4, <1>5, <1>6

LEMMA PaginasAdentro ==
    ASSUME NEW dl \in Nat, NEW tam \in Nat, tam > 0, NEW l \in Nat, dl + tam <= l * TamPagina
    PROVE  /\ PaginasNecesarias(Desplazamiento(dl), tam) \in Nat
           /\ Pagina(dl) + PaginasNecesarias(Desplazamiento(dl), tam) <= l
<1> DEFINE t == TamPagina
           g == Pagina(dl)
           d == Desplazamiento(dl)
<1>1. t \in Nat \ {0} /\ g \in Nat /\ d \in 0..(t - 1) /\ dl = g * t + d
  BY MMUAssumption, PaginaDesplazamiento
<1>2. PaginasNecesarias(d, tam) = IF t - d < tam THEN 1 + Techo(tam - (t - d), t) ELSE 1
  BY DEF PaginasNecesarias
<1>3. dl + tam <= l * t
  OBVIOUS
<1> HIDE DEF t, g, d
<1>4. l * t \in Nat /\ g * t \in Nat /\ (l - g - 1) * t = l * t - g * t - t
  BY <1>1
<1>5. CASE t - d < tam
  <2>1. tam - (t - d) \in Nat /\ tam - (t - d) <= (l - g - 1) * t
    BY <1>1, <1>3, <1>4, <1>5
  <2>2. Techo(tam - (t - d), t) \in Nat /\ Techo(tam - (t - d), t) <= l - g - 1
    BY <2>1, <1>1, TechoAcotado
  <2>3. QED
    BY <2>2, <1>1, <1>2, <1>5 DEF d, g
<1>6. CASE ~(t - d < tam)
  <2>1. l * t > g * t
    BY <1>1, <1>3, <1>4
  <2>2. ASSUME l <= g PROVE FALSE
    <3>1. l * t <= g * t
      BY <2>2, <1>1
    <3>2. QED
      BY <3>1, <2>1, <1>4
  <2>3. QED
    BY <2>2, <1>1, <1>2, <1>6 DEF d, g
<1>7. QED
  BY <1>5, <1>6

-----------------------------------------------------------------------------
(* What the TLB does with its entries: none of them changes what it        *)
(* translates, whatever the algorithm takes out.                           *)
Entradillas == EntradaTLB(Pids, Marcos)
Mismas(e, f) == e.pid = f.pid /\ e.pagina = f.pagina /\ e.marco = f.marco

LEMMA EntradaRango ==
    ASSUME NEW e \in Entradillas, NEW n \in Nat
    PROVE  [e EXCEPT !.instante = n] \in Entradillas /\ Mismas([e EXCEPT !.instante = n], e)
  BY DEF Entradillas, EntradaTLB, Mismas

LEMMA ReferenciaPropiedades ==
    ASSUME NEW s \in Seq(Entradillas), NEW i \in DOMAIN s
    PROVE  /\ Referencia(s, i) \in Seq(Entradillas)
           /\ DOMAIN Referencia(s, i) = DOMAIN s
           /\ \A j \in DOMAIN s : Mismas(Referencia(s, i)[j], s[j])
<1> DEFINE n(j) == IF j = i THEN Len(s)
                   ELSE IF s[j].instante > s[i].instante THEN s[j].instante - 1 ELSE s[j].instante
<1>1. Len(s) \in Nat /\ DOMAIN s = 1..Len(s) /\ \A j \in 1..Len(s) : s[j] \in Entradillas
  OBVIOUS
<1>2. ASSUME NEW j \in DOMAIN s PROVE n(j) \in Nat
  <2>1. s[j].instante \in Nat /\ s[i].instante \in Nat
    BY <1>1 DEF Entradillas, EntradaTLB
  <2>2. QED
    BY <2>1, <1>1
<1>3. Referencia(s, i) = [j \in DOMAIN s |-> [s[j] EXCEPT !.instante = n(j)]]
  BY DEF Referencia
<1> HIDE DEF n
<1>4. ASSUME NEW j \in DOMAIN s
      PROVE  /\ [s[j] EXCEPT !.instante = n(j)] \in Entradillas
             /\ Mismas([s[j] EXCEPT !.instante = n(j)], s[j])
  BY <1>1, <1>2, EntradaRango
<1>5. /\ \A j \in DOMAIN s : Referencia(s, i)[j] = [s[j] EXCEPT !.instante = n(j)]
      /\ Referencia(s, i) \in [1..Len(s) -> Entradillas]
  <2>1. \A j \in 1..Len(s) : [s[j] EXCEPT !.instante = n(j)] \in Entradillas
    BY <1>1, <1>4
  <2>2. QED
    BY <1>1, <1>3, <2>1
<1>6. Referencia(s, i) \in Seq(Entradillas) /\ DOMAIN Referencia(s, i) = 1..Len(s)
  BY <1>1, <1>5, FuncionSecuencia
<1>7. QED
  BY <1>1, <1>4, <1>5, <1>6

(* The entries have a rank.                                                *)
LEMMA Rangos ==
    ASSUME NEW s \in Seq(Entradillas)
    PROVE  /\ Len(s) \in Nat /\ DOMAIN s = 1..Len(s)
           /\ \A j \in 1..Len(s) : s[j] \in Entradillas /\ s[j].instante \in Nat
<1>1. Len(s) \in Nat /\ DOMAIN s = 1..Len(s) /\ \A j \in 1..Len(s) : s[j] \in Entradillas
  OBVIOUS
<1>2. \A e \in Entradillas : e.instante \in Nat
  BY DEF Entradillas, EntradaTLB
<1>3. QED
  BY <1>1, <1>2

LEMMA VictimaPropiedades ==
    ASSUME NEW s \in Seq(Entradillas), s # <<>>
    PROVE  Victima(s) \in DOMAIN s
<1>1. Len(s) \in Nat /\ DOMAIN s = 1..Len(s) /\ Len(s) > 0
      /\ \A j \in 1..Len(s) : s[j] \in Entradillas /\ s[j].instante \in Nat
  <2>1. Len(s) # 0
    OBVIOUS
  <2>2. QED
    BY <2>1, Rangos
<1>2. CASE AlgoritmoTLB = "FIFO"
  BY <1>1, <1>2 DEF Victima
<1>3. CASE AlgoritmoTLB # "FIFO"
  <2> DEFINE T == {s[j].instante : j \in DOMAIN s}
  <2>1. T \in SUBSET Nat /\ T # {}
    BY <1>1
  <2>2. \E x \in T : \A y \in T : x <= y
    BY <2>1, MinimoExiste
  <2>3. \E i \in DOMAIN s : \A j \in DOMAIN s : s[i].instante <= s[j].instante
    BY <2>2
  <2>4. QED
    BY <2>3, <1>3 DEF Victima
<1>4. QED
  BY <1>2, <1>3

LEMMA QuitarEntradaPropiedades ==
    ASSUME NEW s \in Seq(Entradillas), s # <<>>
    PROVE  /\ QuitarEntrada(s) \in Seq(Entradillas)
           /\ \A j \in DOMAIN QuitarEntrada(s) :
                 \E k \in DOMAIN s : Mismas(QuitarEntrada(s)[j], s[k])
<1> DEFINE v == Victima(s)
           sin == RemoveAt(s, v)
           n(j) == IF sin[j].instante > s[v].instante THEN sin[j].instante - 1
                   ELSE sin[j].instante
<1>1. /\ Len(s) \in Nat /\ DOMAIN s = 1..Len(s) /\ v \in 1..Len(s)
      /\ \A j \in 1..Len(s) : s[j] \in Entradillas /\ s[j].instante \in Nat
  BY VictimaPropiedades, Rangos
<1>2. QuitarEntrada(s) = [j \in DOMAIN sin |-> [sin[j] EXCEPT !.instante = n(j)]]
  BY DEF QuitarEntrada
<1> HIDE DEF v
<1>3. /\ sin \in Seq(Entradillas) /\ Len(sin) = Len(s) - 1
      /\ \A i \in 1..(Len(s) - 1) : sin[i] = IF i < v THEN s[i] ELSE s[i + 1]
  BY <1>1, RemoveAtPropiedades
<1> HIDE DEF sin
<1>4. DOMAIN sin = 1..(Len(s) - 1)
  BY <1>3
<1>5. ASSUME NEW j \in DOMAIN sin
      PROVE  /\ [sin[j] EXCEPT !.instante = n(j)] \in Entradillas
             /\ \E k \in DOMAIN s : Mismas([sin[j] EXCEPT !.instante = n(j)], s[k])
  <2>1. PICK k \in 1..Len(s) : sin[j] = s[k]
    BY <1>1, <1>3, <1>4
  <2>2. n(j) \in Nat
    BY <2>1, <1>1
  <2> HIDE DEF n
  <2>3. QED
    BY <2>1, <2>2, <1>1, EntradaRango
<1> HIDE DEF n
<1>6. /\ \A j \in DOMAIN sin : QuitarEntrada(s)[j] = [sin[j] EXCEPT !.instante = n(j)]
      /\ QuitarEntrada(s) \in [1..(Len(s) - 1) -> Entradillas]
  <2>1. \A j \in 1..(Len(s) - 1) : [sin[j] EXCEPT !.instante = n(j)] \in Entradillas
    BY <1>4, <1>5
  <2>2. QED
    BY <1>2, <1>4, <2>1
<1>7. /\ QuitarEntrada(s) \in Seq(Entradillas)
      /\ DOMAIN QuitarEntrada(s) = 1..(Len(s) - 1)
  <2>1. Len(s) - 1 \in Nat
    BY <1>1
  <2>2. QED
    BY <2>1, <1>6, FuncionSecuencia
<1>8. ASSUME NEW j \in DOMAIN QuitarEntrada(s)
      PROVE  \E k \in DOMAIN s : Mismas(QuitarEntrada(s)[j], s[k])
  <2>1. j \in DOMAIN sin /\ QuitarEntrada(s)[j] = [sin[j] EXCEPT !.instante = n(j)]
    BY <1>4, <1>6, <1>7
  <2>2. QED
    BY <2>1, <1>5
<1>9. QED
  BY <1>7, <1>8

CreceCon(r, s, p, g, m) ==
    /\ r \in Seq(Entradillas)
    /\ \A j \in DOMAIN r :
         \/ \E k \in DOMAIN s : Mismas(r[j], s[k])
         \/ r[j].pid = p /\ r[j].pagina = g /\ r[j].marco = m

LEMMA AgregarEntradaPropiedades ==
    ASSUME NEW s \in Seq(Entradillas), Entradas > 0,
           NEW p \in Pids, NEW g \in Nat, NEW m \in Marcos
    PROVE  CreceCon(AgregarEntrada(s, p, g, m), s, p, g, m)
<1> DEFINE lugar == IF Len(s) < Entradas THEN s ELSE QuitarEntrada(s)
           nueva == [pid |-> p, pagina |-> g, marco |-> m, instante |-> Len(lugar) + 1]
<1>1. /\ lugar \in Seq(Entradillas)
      /\ \A j \in DOMAIN lugar : \E k \in DOMAIN s : Mismas(lugar[j], s[k])
  <2>1. CASE Len(s) < Entradas
    BY <2>1 DEF Mismas
  <2>2. CASE ~(Len(s) < Entradas)
    <3>1. s # <<>>
      BY <2>2, MMUAssumption
    <3>2. QED
      BY <2>2, <3>1, QuitarEntradaPropiedades
  <2>3. QED
    BY <2>1, <2>2
<1>2. AgregarEntrada(s, p, g, m) = Append(lugar, nueva)
  BY DEF AgregarEntrada
<1> HIDE DEF lugar
<1>3. Len(lugar) \in Nat /\ nueva \in Entradillas
      /\ nueva.pid = p /\ nueva.pagina = g /\ nueva.marco = m
  BY <1>1 DEF Entradillas, EntradaTLB
<1> HIDE DEF nueva
<1>4. /\ Append(lugar, nueva) \in Seq(Entradillas)
      /\ \A j \in DOMAIN Append(lugar, nueva) :
            \/ j \in DOMAIN lugar /\ Append(lugar, nueva)[j] = lugar[j]
            \/ Append(lugar, nueva)[j] = nueva
  BY <1>1, <1>3
<1>5. QED
  BY <1>1, <1>2, <1>3, <1>4 DEF CreceCon

(* A hit is an entry of the page that was asked for.                       *)
LEMMA BuscarEntradaPropiedades ==
    ASSUME NEW s \in Seq(Entradillas), NEW p, NEW g, BuscarEntrada(s, p, g) # 0
    PROVE  /\ BuscarEntrada(s, p, g) \in DOMAIN s
           /\ s[BuscarEntrada(s, p, g)].pid = p /\ s[BuscarEntrada(s, p, g)].pagina = g
<1> DEFINE I == {i \in 1..Len(s) : s[i].pid = p /\ s[i].pagina = g}
<1>1. BuscarEntrada(s, p, g) = IF I # {} THEN Min(I) ELSE 0
  BY DEF BuscarEntrada, SelectInSeq
<1>2. I # {} /\ I \in SUBSET Nat
  BY <1>1
<1>3. \E x \in I : \A y \in I : x <= y
  BY <1>2, MinimoExiste
<1>4. Min(I) \in I
  BY <1>3 DEF Min
<1>5. QED
  BY <1>1, <1>2, <1>4

-----------------------------------------------------------------------------
(* What can happen to the page tables and to the processes.                *)
LEMMA CasosTablas ==
    ASSUME IInv, [Next]_vars
    PROVE  \/ UNCHANGED <<procesos, tabla, achico>>
           \/ \E p \in Pids : IniciarProceso(p) \/ QuitarDeLista(p)
           \/ LiberarFramesTabla \/ AgregarPagina \/ LiberarPagina
<1>1. CASE CPU
  <2>1. CASE (Lista /\ Otras) \/ TLBHit \/ TLBMiss \/ SolicitarEscritura \/ SolicitarLectura
             \/ EscribeLaCopia \/ Siguiente
    BY <2>1, OtrasNoReparten DEF Otras, IInv
  <2>2. CASE Lista /\ Resize
    BY <2>2, ResizePide DEF IInv
  <2>3. CASE Desaloja \/ EnviaIO \/ OutOfMemory \/ RespondeResize \/ ModificarEspacio
    BY <2>3 DEF Desaloja, EnviaIO, OutOfMemory, RespondeResize, ModificarEspacio, memoria
  <2>4. QED
    BY <1>1, <2>1, <2>2, <2>3, CPUCasos DEF Simples
<1>2. ASSUME NEW p \in Pids,
             Despacha(p) \/ Atiende(p) \/ IOEscribe(p) \/ IOLee(p) \/ IOCompleta(p) \/ IOSePierde(p)
      PROVE  UNCHANGED <<procesos, tabla, achico>>
  BY <1>2 DEF Despacha, Atiende, IOEscribe, IOLee, IOCompleta, IOSePierde, memoria
<1>3. CASE UNCHANGED vars
  BY <1>3 DEF vars
<1>4. QED
  BY <1>1, <1>2, <1>3 DEF Next

(* A process is created once.                                              *)
LEMMA NuevoUnaVez ==
    ASSUME IInv, [Next]_vars, NEW p \in Pids, estado[p] # "nuevo"
    PROVE  estado'[p] # "nuevo"
<1>1. estado \in [Pids -> Estados]
  BY DEF IInv, Vidas
<1>2. CASE CPU
  <2>1. CASE (Lista /\ Otras) \/ TLBHit \/ TLBMiss \/ SolicitarEscritura \/ SolicitarLectura
             \/ EscribeLaCopia \/ Siguiente
    BY <2>1, OtrasNoReparten DEF Otras, IInv
  <2>2. CASE Lista /\ Resize
    BY <2>2, ResizePide DEF IInv
  <2>3. CASE Desaloja \/ EnviaIO \/ OutOfMemory
    BY <2>3, <1>1 DEF Desaloja, EnviaIO, OutOfMemory
  <2>4. CASE RespondeResize \/ ModificarEspacio \/ AgregarPagina \/ LiberarPagina
    BY <2>4 DEF RespondeResize, ModificarEspacio, AgregarPagina, LiberarPagina
  <2>5. QED
    BY <1>2, <2>1, <2>2, <2>3, <2>4, CPUCasos DEF Simples
<1>3. CASE LiberarFramesTabla
  BY <1>3 DEF LiberarFramesTabla
<1>4. ASSUME NEW q \in Pids, IniciarProceso(q) \/ QuitarDeLista(q) \/ Despacha(q)
      PROVE  estado'[p] # "nuevo"
  BY <1>1, <1>4 DEF IniciarProceso, QuitarDeLista, Despacha
<1>5. ASSUME NEW q \in Pids,
             Atiende(q) \/ IOEscribe(q) \/ IOLee(q) \/ IOCompleta(q) \/ IOSePierde(q)
      PROVE  estado'[p] # "nuevo"
  BY <1>1, <1>5 DEF Atiende, IOEscribe, IOLee, IOCompleta, IOSePierde
<1>6. CASE UNCHANGED vars
  BY <1>6 DEF vars
<1>7. QED
  BY <1>2, <1>3, <1>4, <1>5, <1>6 DEF Next

(* What happens to a table that is not the one the CPU is resizing.        *)
LEMMA TablaQuieta ==
    ASSUME IInv, [Next]_vars, NEW p \in Pids,
           p = cpu.pid => cpu.op \notin {"agrega", "quita"},
           estado[p] # "fin"
    PROVE  tabla'[p] = tabla[p]
<1>1. tabla \in [Pids -> Seq(Marcos)] /\ (saliendo # Nadie => estado[saliendo] = "fin")
  BY DEF IInv, Tablas, Vidas
<1>2. QED
  BY <1>1, CasosTablas DEF IniciarProceso, QuitarDeLista, LiberarFramesTabla, AgregarPagina,
                           LiberarPagina

(* An entry stays sane while its process is resized, ended or created.     *)
LEMMA EntradaPaso ==
    ASSUME IInv, SinRecrecer, [Next]_vars, NEW e \in Entradillas, EntradaSana(e)
    PROVE  EntradaSana(e)'
<1> DEFINE p == e.pid
<1>1. p \in Pids /\ e.pagina \in Nat
  BY DEF Entradillas, EntradaTLB
<1>2. tabla \in [Pids -> Seq(Marcos)] /\ tabla[p] \in Seq(Marcos) /\ Len(tabla[p]) \in Nat
  BY <1>1 DEF IInv, Tablas
<1>3. estado[p] # "nuevo" /\ estado'[p] # "nuevo"
  BY <1>1, NuevoUnaVez DEF EntradaSana
<1>4. CASE UNCHANGED <<procesos, tabla, achico>>
  BY <1>3, <1>4 DEF EntradaSana
<1>5. ASSUME NEW q \in Pids, IniciarProceso(q) \/ QuitarDeLista(q)
      PROVE  EntradaSana(e)'
  BY <1>3, <1>5 DEF EntradaSana, IniciarProceso, QuitarDeLista
<1>6. CASE LiberarFramesTabla
  <2>1. saliendo # Nadie /\ saliendo \notin procesos
    BY <1>6 DEF LiberarFramesTabla, IInv, Vidas
  <2>2. p \in procesos => tabla'[p] = tabla[p]
    BY <1>1, <1>2, <1>6, <2>1 DEF LiberarFramesTabla
  <2>3. QED
    BY <1>3, <1>6, <2>2 DEF EntradaSana, LiberarFramesTabla
<1>7. CASE AgregarPagina
  <2>1. CASE p = cpu.pid
    <3>1. p \notin achico /\ UNCHANGED <<procesos, achico>>
      BY <1>7, <2>1 DEF AgregarPagina, SinRecrecer
    <3>2. tabla'[p] = Append(tabla[p], MarcoLibre)
      BY <1>1, <1>2, <1>7, <2>1 DEF AgregarPagina
    <3>3. /\ Len(tabla'[p]) = Len(tabla[p]) + 1
          /\ \A i \in 1..Len(tabla[p]) : tabla'[p][i] = tabla[p][i]
      BY <1>2, <3>2
    <3>4. p \in procesos => e.pagina < Len(tabla[p]) /\ e.marco = tabla[p][e.pagina + 1]
      BY <3>1 DEF EntradaSana
    <3>5. p \in procesos => e.pagina < Len(tabla'[p]) /\ e.marco = tabla'[p][e.pagina + 1]
      BY <3>3, <3>4, <1>1, <1>2
    <3>6. QED
      BY <1>3, <3>1, <3>5 DEF EntradaSana
  <2>2. CASE p # cpu.pid
    <3>1. tabla'[p] = tabla[p] /\ UNCHANGED <<procesos, achico>>
      BY <1>1, <1>2, <1>7, <2>2 DEF AgregarPagina
    <3>2. QED
      BY <1>3, <3>1 DEF EntradaSana
  <2>3. QED
    BY <2>1, <2>2
<1>8. CASE LiberarPagina
  <2>1. UNCHANGED procesos /\ achico' = achico \cup {cpu.pid}
    BY <1>8 DEF LiberarPagina
  <2>2. CASE p = cpu.pid
    <3>1. tabla'[p] = Front(tabla[p]) /\ Len(tabla[p]) > 0
      BY <1>1, <1>2, <1>8, <2>2 DEF LiberarPagina, IInv, Presupuesto
    <3>2. /\ Len(tabla'[p]) = Len(tabla[p]) - 1
          /\ \A i \in 1..(Len(tabla[p]) - 1) : tabla'[p][i] = tabla[p][i]
      <4>1. /\ Len(Front(tabla[p])) = Len(tabla[p]) - 1
            /\ \A i \in 1..(Len(tabla[p]) - 1) : Front(tabla[p])[i] = tabla[p][i]
        BY <1>2, <3>1, FrontPropiedades
      <4>2. QED
        BY <4>1, <3>1
    <3>3. p \in procesos /\ e.pagina < Len(tabla'[p]) => e.marco = tabla'[p][e.pagina + 1]
      <4>1. p \in procesos /\ e.pagina < Len(tabla[p]) => e.marco = tabla[p][e.pagina + 1]
        BY DEF EntradaSana
      <4>2. e.pagina < Len(tabla'[p]) => /\ e.pagina < Len(tabla[p])
                                        /\ e.pagina + 1 \in 1..(Len(tabla[p]) - 1)
        BY <3>2, <1>1, <1>2
      <4>3. QED
        BY <4>1, <4>2, <3>2
    <3>4. QED
      BY <1>3, <2>1, <2>2, <3>3 DEF EntradaSana
  <2>3. CASE p # cpu.pid
    <3>1. tabla'[p] = tabla[p]
      BY <1>1, <1>2, <1>8, <2>3 DEF LiberarPagina
    <3>2. QED
      BY <1>3, <2>1, <2>3, <3>1 DEF EntradaSana
  <2>4. QED
    BY <2>2, <2>3
<1>9. QED
  BY <1>4, <1>5, <1>6, <1>7, <1>8, CasosTablas

-----------------------------------------------------------------------------
(* An instruction's translations advance one page at a time.               *)
LEMMA AnotaPropiedades ==
    ASSUME Ejecucion, cpu.accesos \in Seq(Accesos), NEW i \in DOMAIN cpu.accesos,
           NEW m \in Marcos, Anota(i, m)
    PROVE  /\ cpu'.pid = cpu.pid /\ cpu'.op = cpu.op /\ cpu'.tam = cpu.tam
           /\ cpu'.accesos \in Seq(Accesos) /\ DOMAIN cpu'.accesos = DOMAIN cpu.accesos
           /\ \A j \in DOMAIN cpu.accesos : j # i => cpu'.accesos[j] = cpu.accesos[j]
           /\ cpu'.accesos[i].dl = cpu.accesos[i].dl
           /\ cpu'.accesos[i].marcos = Append(cpu.accesos[i].marcos, m)
<1> DEFINE a == cpu.accesos
           x == [a[i] EXCEPT !.marcos = Append(a[i].marcos, m)]
<1>1. cpu' = [cpu EXCEPT !.accesos = [a EXCEPT ![i] = x]]
  BY DEF Anota
<1>2. /\ cpu'.pid = cpu.pid /\ cpu'.op = cpu.op /\ cpu'.tam = cpu.tam
      /\ cpu'.accesos = [a EXCEPT ![i] = x]
  BY <1>1 DEF Ejecucion, Campos
<1> HIDE DEF a
<1>3. a \in Seq(Accesos) /\ i \in DOMAIN a
  BY DEF a
<1>4. a[i] \in Accesos
  BY <1>3
<1>5. x \in Accesos /\ x.dl = a[i].dl /\ x.marcos = Append(a[i].marcos, m)
  <2>1. ASSUME NEW y \in Accesos, NEW ms \in Seq(Marcos)
        PROVE  LET z == [y EXCEPT !.marcos = ms]
               IN  z \in Accesos /\ z.dl = y.dl /\ z.marcos = ms
    BY DEF Accesos
  <2>2. a[i].marcos \in Seq(Marcos)
    BY <1>4 DEF Accesos
  <2>3. Append(a[i].marcos, m) \in Seq(Marcos)
    BY <2>2
  <2>4. QED
    BY <1>4, <2>1, <2>3
<1> HIDE DEF x
<1>6. /\ [a EXCEPT ![i] = x] \in Seq(Accesos) /\ DOMAIN [a EXCEPT ![i] = x] = DOMAIN a
      /\ \A j \in DOMAIN a : j # i => [a EXCEPT ![i] = x][j] = a[j]
      /\ [a EXCEPT ![i] = x][i] = x
  BY <1>3, <1>5
<1>7. QED
  BY <1>2, <1>5, <1>6 DEF a

(* The page a translation asks for is one the process has.                 *)
LEMMA PedidaAdentro ==
    ASSUME IInv, AccesosSanos, NEW i \in DOMAIN cpu.accesos, Traduciendo(i)
    PROVE  /\ cpu.pid \in Pids /\ cpu.pid \in procesos /\ estado[cpu.pid] = "cpu"
           /\ tabla[cpu.pid] \in Seq(Marcos)
           /\ cpu.op \notin {"nada", "resize", "agrega", "quita"}
           /\ PaginaPedida(i) \in Nat /\ PaginaPedida(i) < Len(tabla[cpu.pid])
           /\ tabla[cpu.pid][PaginaPedida(i) + 1] \in Marcos
<1> DEFINE t == tabla[cpu.pid]
           x == cpu.accesos[i]
           pn == PaginasNecesarias(Desplazamiento(x.dl), cpu.tam)
<1>1. cpu.accesos # <<>> /\ cpu.accesos \in Seq(Accesos)
  BY DEF AccesosSanos
<1>2. cpu.pid \in Pids /\ cpu.op \notin {"nada", "resize", "agrega", "quita"}
  BY <1>1 DEF AccesosSanos, IInv, Ejecucion, Ociosa
<1>3. estado[cpu.pid] = "cpu" /\ cpu.pid \in procesos
  BY <1>2 DEF IInv, Ejecucion, Vidas
<1>4. t \in Seq(Marcos) /\ Len(t) \in Nat
  BY <1>2 DEF IInv, Tablas
<1>5. x \in Accesos
  BY <1>1
<1>6. x.dl \in Nat /\ x.marcos \in Seq(Marcos) /\ Len(x.marcos) \in Nat
  BY <1>5 DEF Accesos
<1>7. cpu.tam \in Nat /\ cpu.tam > 0 /\ x.dl + cpu.tam <= Len(t) * TamPagina
  BY <1>1 DEF AccesosSanos, AccesoSano
<1>8. Len(x.marcos) < pn
  BY DEF Traduciendo, Faltan, MarcosDe
<1> HIDE DEF t, x
<1>9. pn \in Nat /\ Pagina(x.dl) + pn <= Len(t)
  BY <1>4, <1>6, <1>7, PaginasAdentro
<1>10. Pagina(x.dl) \in Nat
  BY <1>6, PaginaDesplazamiento
<1> HIDE DEF pn
<1>11. PaginaPedida(i) = Pagina(x.dl) + Len(x.marcos)
  BY DEF PaginaPedida, MarcosDe, x
<1>12. PaginaPedida(i) \in Nat /\ PaginaPedida(i) < Len(t)
  BY <1>4, <1>6, <1>8, <1>9, <1>10, <1>11
<1>13. t[PaginaPedida(i) + 1] \in Marcos
  BY <1>4, <1>12
<1>14. QED
  BY <1>2, <1>3, <1>4, <1>12, <1>13 DEF t

(* The frame it finds, in the TLB or in the memory, is the table's.        *)
LEMMA TraduceBien ==
    ASSUME IInv, TLBSana, AccesosSanos, TLBHit \/ TLBMiss
    PROVE  \E i \in DOMAIN cpu.accesos :
             /\ Traduciendo(i) /\ Anota(i, tabla[cpu.pid][PaginaPedida(i) + 1])
             /\ tlb' \in Seq(Entradillas)
             /\ \A j \in DOMAIN tlb' :
                   \/ \E k \in DOMAIN tlb : Mismas(tlb'[j], tlb[k])
                   \/ /\ tlb'[j].pid = cpu.pid /\ tlb'[j].pagina = PaginaPedida(i)
                      /\ tlb'[j].marco = tabla[cpu.pid][PaginaPedida(i) + 1]
<1>1. tlb \in Seq(Entradillas)
  BY DEF TLBSana, Entradillas
<1>2. CASE TLBHit
  <2>1. PICK i \in DOMAIN cpu.accesos :
          LET e == BuscarEntrada(tlb, cpu.pid, PaginaPedida(i))
          IN Traduciendo(i) /\ e # 0 /\ Anota(i, tlb[e].marco) /\ tlb' = Referencia(tlb, e)
    BY <1>2 DEF TLBHit
  <2> DEFINE e == BuscarEntrada(tlb, cpu.pid, PaginaPedida(i))
  <2>2. e \in DOMAIN tlb /\ tlb[e].pid = cpu.pid /\ tlb[e].pagina = PaginaPedida(i)
    BY <1>1, <2>1, BuscarEntradaPropiedades
  <2>3. tlb' = Referencia(tlb, e) /\ Anota(i, tlb[e].marco) /\ Traduciendo(i)
    BY <2>1
  <2> HIDE DEF e
  <2>4. tlb[e].marco = tabla[cpu.pid][PaginaPedida(i) + 1]
    BY <2>2, <2>3, PedidaAdentro DEF TLBSana, EntradaSana
  <2>5. /\ tlb' \in Seq(Entradillas)
        /\ \A j \in DOMAIN tlb' : \E k \in DOMAIN tlb : Mismas(tlb'[j], tlb[k])
    BY <1>1, <2>2, <2>3, ReferenciaPropiedades
  <2>6. Anota(i, tabla[cpu.pid][PaginaPedida(i) + 1])
    BY <2>3, <2>4
  <2>7. QED
    BY <2>3, <2>5, <2>6
<1>3. CASE TLBMiss
  <2>1. PICK i \in DOMAIN cpu.accesos :
          LET marco == tabla[cpu.pid][PaginaPedida(i) + 1]
          IN /\ Traduciendo(i) /\ Anota(i, marco)
             /\ tlb' = IF Entradas = 0 THEN tlb
                       ELSE AgregarEntrada(tlb, cpu.pid, PaginaPedida(i), marco)
    BY <1>3 DEF TLBMiss
  <2> DEFINE m == tabla[cpu.pid][PaginaPedida(i) + 1]
             g == PaginaPedida(i)
  <2>2. cpu.pid \in Pids /\ g \in Nat /\ m \in Marcos
    BY <2>1, PedidaAdentro
  <2>3. CASE Entradas = 0
    <3>1. tlb' = tlb
      BY <2>1, <2>3
    <3>2. \A j \in DOMAIN tlb' : Mismas(tlb'[j], tlb[j]) /\ j \in DOMAIN tlb
      BY <3>1 DEF Mismas
    <3>3. QED
      BY <1>1, <2>1, <3>1, <3>2
  <2>4. CASE Entradas # 0
    <3>1. tlb' = AgregarEntrada(tlb, cpu.pid, g, m) /\ Entradas > 0
      BY <2>1, <2>4, MMUAssumption
    <3> HIDE DEF g, m
    <3>2. /\ tlb' \in Seq(Entradillas)
          /\ \A j \in DOMAIN tlb' :
                \/ \E k \in DOMAIN tlb : Mismas(tlb'[j], tlb[k])
                \/ tlb'[j].pid = cpu.pid /\ tlb'[j].pagina = g /\ tlb'[j].marco = m
      <4>1. Entradas > 0 /\ cpu.pid \in Pids /\ g \in Nat /\ m \in Marcos
        BY <2>2, <3>1
      <4>2. CreceCon(AgregarEntrada(tlb, cpu.pid, g, m), tlb, cpu.pid, g, m)
        BY <1>1, <4>1, AgregarEntradaPropiedades
      <4>3. QED
        BY <3>1, <4>2 DEF CreceCon
    <3>3. QED
      BY <2>1, <3>2 DEF g, m
  <2>5. QED
    BY <2>3, <2>4
<1>4. QED
  BY <1>2, <1>3

LEMMA MismasSanas ==
    ASSUME NEW e, NEW f, Mismas(e, f), EntradaSana(f)
    PROVE  EntradaSana(e)
  BY DEF Mismas, EntradaSana

(* Each step keeps the TLB sane.                                           *)
LEMMA TLBPaso ==
    ASSUME IInv, TInv, [Next]_vars
    PROVE  TLBSana'
<1>1. /\ tlb \in Seq(Entradillas)
      /\ \A k \in DOMAIN tlb : tlb[k] \in Entradillas /\ EntradaSana(tlb[k])
  BY DEF TInv, TLBSana, Entradillas
<1>2. CASE TLBHit \/ TLBMiss
  <2>1. PICK i \in DOMAIN cpu.accesos :
             /\ Traduciendo(i)
             /\ tlb' \in Seq(Entradillas)
             /\ \A j \in DOMAIN tlb' :
                   \/ \E k \in DOMAIN tlb : Mismas(tlb'[j], tlb[k])
                   \/ /\ tlb'[j].pid = cpu.pid /\ tlb'[j].pagina = PaginaPedida(i)
                      /\ tlb'[j].marco = tabla[cpu.pid][PaginaPedida(i) + 1]
    BY <1>2, TraduceBien DEF TInv
  <2>2. /\ estado[cpu.pid] = "cpu" /\ PaginaPedida(i) < Len(tabla[cpu.pid])
    BY <2>1, PedidaAdentro DEF TInv
  <2>3. \A j \in DOMAIN tlb' : EntradaSana(tlb'[j])
    <3>1. TAKE j \in DOMAIN tlb'
    <3>2. CASE \E k \in DOMAIN tlb : Mismas(tlb'[j], tlb[k])
      BY <3>2, <1>1, MismasSanas
    <3>3. CASE /\ tlb'[j].pid = cpu.pid /\ tlb'[j].pagina = PaginaPedida(i)
               /\ tlb'[j].marco = tabla[cpu.pid][PaginaPedida(i) + 1]
      BY <3>3, <2>2 DEF EntradaSana
    <3>4. QED
      BY <2>1, <3>2, <3>3
  <2>4. UNCHANGED <<estado, procesos, achico, tabla>>
    BY <1>2 DEF TLBHit, TLBMiss, memoria
  <2>5. QED
    BY <2>1, <2>3, <2>4 DEF TLBSana, EntradaSana, Entradillas
<1>3. CASE UNCHANGED tlb
  <2>1. \A k \in DOMAIN tlb : EntradaSana(tlb[k])
    BY <1>1
  <2>2. ASSUME NEW e \in Entradillas, EntradaSana(e) PROVE EntradaSana(e)'
    BY <2>2, EntradaPaso DEF TInv
  <2>3. QED
    BY <1>1, <1>3, <2>2 DEF TLBSana, EntradaSana, Entradillas
<1>4. QED
  <2>1. TLBHit \/ TLBMiss \/ UNCHANGED tlb
    BY CPUCasos DEF Next, vars, memoria, Simples, Otras, MovOut, MovIn, CopyString, StdinStdout,
       Resize, Decodifica, SolicitarEscritura, SolicitarLectura, EscribeLaCopia, Siguiente,
       Desaloja, EnviaIO, ModificarEspacio, OutOfMemory, AgregarPagina, LiberarPagina,
       RespondeResize, LiberarFramesTabla, IniciarProceso, QuitarDeLista, Despacha, Atiende,
       IOEscribe, IOLee, IOCompleta, IOSePierde
  <2>2. QED
    BY <2>1, <1>2, <1>3

-----------------------------------------------------------------------------
(* What a step may do to the instruction the CPU executes.                 *)
Continua == UNCHANGED <<cpu>>
Acaba == cpu'.op = "nada" /\ cpu'.accesos = <<>>
Decodifican == MovOut \/ MovIn \/ CopyString \/ StdinStdout
Avanza ==
    /\ cpu.op \notin {"nada", "resize", "agrega", "quita"}
    /\ cpu'.op = cpu.op /\ cpu'.pid = cpu.pid /\ cpu'.tam = cpu.tam
    /\ cpu'.accesos = cpu.accesos
Ajusta ==
    /\ cpu.op \in {"resize", "agrega", "quita"} /\ cpu'.op \in {"agrega", "quita"}
    /\ cpu'.pid = cpu.pid /\ cpu'.accesos = cpu.accesos
    /\ cpu'.op = cpu.op \/ cpu.op = "resize"
    /\ (cpu.op = "resize" /\ cpu'.op = "agrega") => ~(cpu.tam <= Alcance(cpu.pid))

LEMMA CasosCPU ==
    ASSUME IInv, AccesosSanos, [Next]_vars
    PROVE  \/ Continua \/ Acaba \/ (Lista /\ Decodifican) \/ (Lista /\ Resize)
           \/ TLBHit \/ TLBMiss \/ Avanza \/ Ajusta
<1>1. cpu = [c \in Campos |-> cpu[c]]
  BY DEF IInv, Ejecucion
<1>2. CASE SolicitarEscritura \/ SolicitarLectura
  BY <1>1, <1>2 DEF SolicitarEscritura, SolicitarLectura, Accediendo, Avanza, Campos
<1>3. CASE EscribeLaCopia
  <2>1. cpu.op \in {"mov_out", "mov_in", "copy_string"} /\ cpu' = [cpu EXCEPT !.a = @ + 1, !.n = 0]
    BY <1>3 DEF EscribeLaCopia, Hecho
  <2>2. QED
    BY <1>1, <2>1 DEF Avanza, Campos
<1>4. CASE Siguiente \/ Desaloja \/ EnviaIO \/ OutOfMemory \/ RespondeResize
  BY <1>4 DEF Siguiente, Desaloja, EnviaIO, OutOfMemory, RespondeResize, Ociosa, Acaba
<1>5. CASE ModificarEspacio
  <2>1. CASE cpu.tam <= Alcance(cpu.pid) /\ cpu.tam >= Alcance(cpu.pid) - TamPagina
    <3>1. cpu' = [Ociosa EXCEPT !.pid = cpu.pid]
      BY <1>5, <2>1 DEF ModificarEspacio
    <3>2. QED
      BY <3>1 DEF Ociosa, Acaba
  <2>2. CASE ~(cpu.tam <= Alcance(cpu.pid) /\ cpu.tam >= Alcance(cpu.pid) - TamPagina)
    <3>1. /\ cpu'.op = IF Diferencia > 0 THEN "agrega" ELSE "quita"
          /\ cpu'.pid = cpu.pid /\ cpu'.accesos = cpu.accesos /\ cpu.op = "resize"
      BY <1>1, <1>5, <2>2 DEF ModificarEspacio, Campos
    <3>2. cpu.pid \in Pids /\ cpu.tam \in Nat
      BY <3>1 DEF IInv, Ejecucion, Presupuesto, Ociosa
    <3>3. Len(tabla[cpu.pid]) \in Nat /\ TamPagina \in Nat
      BY <3>2, MMUAssumption DEF IInv, Tablas
    <3>4. Len(tabla[cpu.pid]) * TamPagina \in Nat
      BY <3>3
    <3>5. Diferencia > 0 => ~(cpu.tam <= Alcance(cpu.pid))
      BY <3>2, <3>4 DEF Diferencia, Alcance
    <3>6. QED
      BY <3>1, <3>5 DEF Ajusta
  <2>3. QED
    BY <2>1, <2>2
<1>6. CASE AgregarPagina \/ LiberarPagina
  <2>1. cpu.op \in {"agrega", "quita"} /\ cpu' = [cpu EXCEPT !.n = @ - 1]
    BY <1>6 DEF AgregarPagina, LiberarPagina
  <2>2. cpu'.op = cpu.op /\ cpu'.pid = cpu.pid /\ cpu'.accesos = cpu.accesos
    BY <1>1, <2>1 DEF Campos
  <2>3. QED
    BY <2>1, <2>2 DEF Ajusta
<1>7. CASE LiberarFramesTabla \/ UNCHANGED vars
  BY <1>7 DEF LiberarFramesTabla, vars, Continua
<1>8. ASSUME NEW p \in Pids, Despacha(p)
      PROVE  Acaba
  BY <1>8 DEF Despacha, Acaba, Ociosa
<1>9. ASSUME NEW p \in Pids,
             \/ IniciarProceso(p) \/ QuitarDeLista(p) \/ Atiende(p)
             \/ IOEscribe(p) \/ IOLee(p) \/ IOCompleta(p) \/ IOSePierde(p)
      PROVE  Continua
  BY <1>9 DEF IniciarProceso, QuitarDeLista, Atiende, IOEscribe, IOLee, IOCompleta, IOSePierde,
              Continua
<1>10. QED
  BY <1>2, <1>3, <1>4, <1>5, <1>6, <1>7, <1>8, <1>9 DEF Next, CPU, Instruccion, Decodifican

(* A process that shrank is not resized upwards, if it never grows again.  *)
LEMMA SinRecrecerPaso ==
    ASSUME ~Recrece, IInv, TInv, [Next]_vars
    PROVE  SinRecrecer'
<1>1. SinRecrecer /\ AccesosSanos
  BY DEF TInv
<1>2. CASE Continua
  <2>1. CASE AgregarPagina \/ LiberarPagina
    BY <1>1, <1>2, <2>1 DEF Continua, AgregarPagina, LiberarPagina, SinRecrecer, IInv, Ejecucion,
                            Campos
  <2>2. CASE ~(AgregarPagina \/ LiberarPagina)
    <3>1. UNCHANGED achico
      BY <2>2, CasosTablas DEF IniciarProceso, QuitarDeLista, LiberarFramesTabla
    <3>2. cpu.op = "resize" => tabla'[cpu.pid] = tabla[cpu.pid]
      <4>1. cpu.op = "resize" => cpu.pid \in Pids /\ estado[cpu.pid] # "fin"
        BY DEF IInv, Ejecucion, Ociosa
      <4>2. QED
        BY <4>1, TablaQuieta
    <3>3. QED
      BY <1>1, <1>2, <3>1, <3>2 DEF Continua, SinRecrecer, Alcance
  <2>3. QED
    BY <2>1, <2>2
<1>3. CASE Acaba
  BY <1>3 DEF Acaba, SinRecrecer
<1>4. CASE Lista /\ Decodifican
  BY <1>4 DEF Decodifican, MovOut, MovIn, CopyString, StdinStdout, Decodifica, SinRecrecer
<1>5. CASE Lista /\ Resize
  BY <1>5 DEF Resize, Decodifica, memoria, SinRecrecer, Alcance
<1>6. CASE TLBHit \/ TLBMiss
  <2>1. PICK i \in DOMAIN cpu.accesos :
             Traduciendo(i) /\ Anota(i, tabla[cpu.pid][PaginaPedida(i) + 1])
    BY <1>6, TraduceBien DEF TInv
  <2>2. cpu'.op = cpu.op /\ cpu.op \notin {"nada", "resize", "agrega", "quita"}
    BY <1>1, <2>1, PedidaAdentro, AnotaPropiedades DEF AccesosSanos, IInv
  <2>3. QED
    BY <2>2 DEF SinRecrecer
<1>7. CASE Avanza
  BY <1>7 DEF Avanza, SinRecrecer
<1>8. CASE Ajusta
  <2>1. CASE cpu'.op = "quita"
    BY <2>1 DEF SinRecrecer
  <2>2. CASE cpu'.op = "agrega"
    <3>1. cpu.pid \notin achico
      BY <1>1, <1>8, <2>2 DEF Ajusta, SinRecrecer
    <3>2. ~LiberarPagina
      BY <1>8, <2>2 DEF LiberarPagina, Ajusta, IInv, Ejecucion, Campos
    <3>3. UNCHANGED achico
      BY <3>2, CasosTablas DEF IniciarProceso, QuitarDeLista, LiberarFramesTabla, AgregarPagina
    <3>4. QED
      BY <1>8, <2>2, <3>1, <3>3 DEF Ajusta, SinRecrecer
  <2>3. QED
    BY <1>8, <2>1, <2>2 DEF Ajusta
<1>9. QED
  BY <1>1, <1>2, <1>3, <1>4, <1>5, <1>6, <1>7, <1>8, CasosCPU

-----------------------------------------------------------------------------
(* What an instruction has translated stays right: the CPU does not resize *)
(* meanwhile, and nobody else moves the pages of the process it executes.  *)
LEMMA AccesoNuevo ==
    ASSUME NEW t \in Seq(Marcos), NEW tipo \in {"escribe", "lee"}, NEW dl \in Nat, NEW n \in Nat,
           n > 0, dl + n <= Len(t) * TamPagina
    PROVE  Acceso(tipo, dl) \in Accesos /\ AccesoSano(Acceso(tipo, dl), n, t)
<1>1. Len(t) \in Nat
  OBVIOUS
<1>2. PaginasNecesarias(Desplazamiento(dl), n) \in Nat
  BY <1>1, PaginasAdentro
<1>3. Acceso(tipo, dl) \in Accesos /\ Acceso(tipo, dl).dl = dl /\ Acceso(tipo, dl).marcos = <<>>
  BY DEF Acceso, Accesos
<1>4. QED
  BY <1>2, <1>3 DEF AccesoSano

LEMMA DecodificaAccesos ==
    ASSUME IInv, AccesosSanos, Lista, Decodifican
    PROVE  AccesosSanos'
<1> DEFINE t == tabla[cpu.pid]
<1>1. cpu.pid \in Pids /\ t \in Seq(Marcos)
  BY DEF IInv, Ejecucion, Lista, Tablas
<1>2. \A dl \in Dirs : dl \in Nat
  <2>1. CantMarcos * TamPagina - 1 \in Int
    BY MMUAssumption, MemoriaAssumption
  <2>2. QED
    BY <2>1 DEF Dirs
<1>3. \A x \in Textos : Len(x) \in Nat
  BY MemoriaAssumption
<1>4. \A n \in TamsLectura : n \in Nat
  BY MemoriaAssumption
<1>5. ASSUME NEW tipo \in {"escribe", "lee"}, NEW dl \in Dirs, NEW n \in Nat, Cabe(cpu.pid, dl, n)
      PROVE  n > 0 /\ Acceso(tipo, dl) \in Accesos /\ AccesoSano(Acceso(tipo, dl), n, t)
  <2>1. n > 0 /\ dl + n <= Len(t) * TamPagina /\ dl \in Nat
    BY <1>2, <1>5 DEF Cabe, Alcance
  <2>2. QED
    BY <1>1, <2>1, AccesoNuevo
<1>6. UNCHANGED tabla /\ cpu'.pid = cpu.pid
  BY DEF Decodifican, MovOut, MovIn, CopyString, StdinStdout, Decodifica, memoria
<1> DEFINE Bueno ==
             /\ cpu'.op \in {"mov_out", "mov_in", "copy_string", "io"}
             /\ cpu'.tam \in Nat /\ cpu'.tam > 0 /\ cpu'.accesos # <<>>
             /\ cpu'.accesos \in Seq(Accesos)
             /\ \A j \in DOMAIN cpu'.accesos : AccesoSano(cpu'.accesos[j], cpu'.tam, t)
<1>7. ASSUME NEW x \in Accesos, AccesoSano(x, cpu'.tam, t), cpu'.accesos = <<x>>,
             cpu'.op \in {"mov_out", "mov_in", "io"}, cpu'.tam \in Nat, cpu'.tam > 0
      PROVE  Bueno
  <2>1. <<x>> \in Seq(Accesos) /\ <<x>> # <<>> /\ DOMAIN <<x>> = {1} /\ <<x>>[1] = x
    OBVIOUS
  <2>2. QED
    BY <1>7, <2>1
<1> HIDE DEF Bueno, t
<1>8. ASSUME MovOut PROVE Bueno
  <2>1. PICK x \in Textos, dl \in Dirs :
             /\ Cabe(cpu.pid, dl, Len(x))
             /\ Decodifica("mov_out", Len(x), x, <<Acceso("escribe", dl)>>)
    BY <1>8 DEF MovOut
  <2>2. cpu'.op = "mov_out" /\ cpu'.tam = Len(x) /\ cpu'.accesos = <<Acceso("escribe", dl)>>
    BY <2>1 DEF Decodifica
  <2>3. /\ Len(x) \in Nat /\ Len(x) > 0 /\ Acceso("escribe", dl) \in Accesos
        /\ AccesoSano(Acceso("escribe", dl), Len(x), t)
    BY <2>1, <1>3, <1>5
  <2>4. QED
    BY <2>2, <2>3, <1>7
<1>9. ASSUME MovIn PROVE Bueno
  <2>1. PICK n \in TamsLectura, dl \in Dirs :
             Cabe(cpu.pid, dl, n) /\ Decodifica("mov_in", n, <<>>, <<Acceso("lee", dl)>>)
    BY <1>9 DEF MovIn
  <2>2. cpu'.op = "mov_in" /\ cpu'.tam = n /\ cpu'.accesos = <<Acceso("lee", dl)>>
    BY <2>1 DEF Decodifica
  <2>3. /\ n \in Nat /\ n > 0 /\ Acceso("lee", dl) \in Accesos
        /\ AccesoSano(Acceso("lee", dl), n, t)
    BY <2>1, <1>4, <1>5
  <2>4. QED
    BY <2>2, <2>3, <1>7
<1>10. ASSUME StdinStdout PROVE Bueno
  <2>1. PICK n \in TamsLectura, dl \in Dirs, tipo \in {"escribe", "lee"} :
             Cabe(cpu.pid, dl, n) /\ Decodifica("io", n, <<>>, <<Acceso(tipo, dl)>>)
    BY <1>10 DEF StdinStdout
  <2>2. cpu'.op = "io" /\ cpu'.tam = n /\ cpu'.accesos = <<Acceso(tipo, dl)>>
    BY <2>1 DEF Decodifica
  <2>3. /\ n \in Nat /\ n > 0 /\ Acceso(tipo, dl) \in Accesos
        /\ AccesoSano(Acceso(tipo, dl), n, t)
    BY <2>1, <1>4, <1>5
  <2>4. QED
    BY <2>2, <2>3, <1>7
<1>11. ASSUME CopyString PROVE Bueno
  <2>1. PICK n \in TamsLectura, si \in Dirs, di \in Dirs :
             /\ Cabe(cpu.pid, si, n) /\ Cabe(cpu.pid, di, n)
             /\ Decodifica("copy_string", n, <<>>, <<Acceso("lee", si), Acceso("escribe", di)>>)
    BY <1>11 DEF CopyString
  <2> DEFINE x == Acceso("lee", si)
             y == Acceso("escribe", di)
  <2>2. cpu'.op = "copy_string" /\ cpu'.tam = n /\ cpu'.accesos = <<x, y>>
    BY <2>1 DEF Decodifica
  <2>3. /\ n \in Nat /\ n > 0 /\ x \in Accesos /\ y \in Accesos
        /\ AccesoSano(x, n, t) /\ AccesoSano(y, n, t)
    BY <2>1, <1>4, <1>5
  <2> HIDE DEF x, y
  <2>4. /\ <<x, y>> \in Seq(Accesos) /\ <<x, y>> # <<>> /\ DOMAIN <<x, y>> = {1, 2}
        /\ <<x, y>>[1] = x /\ <<x, y>>[2] = y
    BY <2>3
  <2>5. QED
    BY <2>2, <2>3, <2>4 DEF Bueno
<1>12. Bueno
  BY <1>8, <1>9, <1>10, <1>11 DEF Decodifican
<1>13. QED
  BY <1>6, <1>12 DEF AccesosSanos, Bueno, t

LEMMA AccesosPaso ==
    ASSUME IInv, TInv, [Next]_vars
    PROVE  AccesosSanos'
<1>1. AccesosSanos
  BY DEF TInv
<1>2. cpu.op \notin {"nada", "resize", "agrega", "quita"} => tabla'[cpu.pid] = tabla[cpu.pid]
  <2>1. cpu.op # "nada" => cpu.pid \in Pids /\ estado[cpu.pid] = "cpu"
    BY DEF IInv, Ejecucion, Ociosa
  <2>2. QED
    BY <2>1, TablaQuieta
<1>3. CASE Acaba
  BY <1>3 DEF Acaba, AccesosSanos
<1>4. CASE Ajusta
  BY <1>1, <1>4 DEF Ajusta, AccesosSanos
<1>5. CASE Lista /\ Resize
  BY <1>5 DEF Resize, Decodifica, AccesosSanos
<1>6. CASE Avanza
  BY <1>1, <1>2, <1>6 DEF Avanza, AccesosSanos
<1>7. CASE Continua
  BY <1>1, <1>2, <1>7 DEF Continua, AccesosSanos
<1>8. CASE TLBHit \/ TLBMiss
  <2>1. PICK i \in DOMAIN cpu.accesos :
             Traduciendo(i) /\ Anota(i, tabla[cpu.pid][PaginaPedida(i) + 1])
    BY <1>8, TraduceBien DEF TInv
  <2> DEFINE t == tabla[cpu.pid]
             m == t[PaginaPedida(i) + 1]
             x == cpu.accesos[i]
             y == cpu'.accesos[i]
  <2>2. m \in Marcos /\ cpu.op \notin {"nada", "resize", "agrega", "quita"}
    BY <1>1, <2>1, PedidaAdentro
  <2>3. cpu.accesos \in Seq(Accesos) /\ cpu.tam \in Nat /\ cpu.tam > 0
        /\ \A j \in DOMAIN cpu.accesos : AccesoSano(cpu.accesos[j], cpu.tam, t)
    BY <1>1 DEF AccesosSanos
  <2>4. /\ cpu'.pid = cpu.pid /\ cpu'.op = cpu.op /\ cpu'.tam = cpu.tam
        /\ cpu'.accesos \in Seq(Accesos) /\ DOMAIN cpu'.accesos = DOMAIN cpu.accesos
        /\ \A j \in DOMAIN cpu.accesos : j # i => cpu'.accesos[j] = cpu.accesos[j]
        /\ y.dl = x.dl /\ y.marcos = Append(x.marcos, m)
    BY <2>1, <2>2, <2>3, AnotaPropiedades DEF IInv
  <2>5. AccesoSano(y, cpu.tam, t)
    <3>1. x \in Accesos /\ AccesoSano(x, cpu.tam, t)
      BY <2>3
    <3>2. /\ x.marcos \in Seq(Marcos) /\ Len(x.marcos) \in Nat /\ x.dl \in Nat
          /\ Pagina(x.dl) \in Nat
      <4>1. \A z \in Accesos : z.marcos \in Seq(Marcos) /\ z.dl \in Nat
        BY DEF Accesos
      <4> HIDE DEF x
      <4>2. x.marcos \in Seq(Marcos) /\ x.dl \in Nat
        BY <3>1, <4>1
      <4>3. Len(x.marcos) \in Nat
        BY <4>2
      <4>4. Pagina(x.dl) \in Nat
        BY <4>2, PaginaDesplazamiento
      <4>5. QED
        BY <4>2, <4>3, <4>4
    <3>3. Len(x.marcos) < PaginasNecesarias(Desplazamiento(x.dl), cpu.tam)
      BY <2>1 DEF Traduciendo, Faltan, MarcosDe
    <3>4. PaginaPedida(i) = Pagina(x.dl) + Len(x.marcos)
      BY DEF PaginaPedida, MarcosDe
    <3>5. PaginasNecesarias(Desplazamiento(x.dl), cpu.tam) \in Nat
      <4>1. t \in Seq(Marcos) /\ Len(t) \in Nat
        BY <1>1, <2>1, PedidaAdentro
      <4>2. x.dl + cpu.tam <= Len(t) * TamPagina
        BY <3>1 DEF AccesoSano
      <4>3. QED
        BY <2>3, <3>2, <4>1, <4>2, PaginasAdentro
    <3>6. m = t[Pagina(x.dl) + (Len(x.marcos) + 1)]
      <4>1. Pagina(x.dl) + Len(x.marcos) + 1 = Pagina(x.dl) + (Len(x.marcos) + 1)
        BY <3>2
      <4>2. QED
        BY <3>4, <4>1
    <3> HIDE DEF x, y, t, m
    <3>7. /\ Len(y.marcos) = Len(x.marcos) + 1
          /\ \A k \in 1..Len(x.marcos) : y.marcos[k] = x.marcos[k]
          /\ y.marcos[Len(x.marcos) + 1] = m
      BY <2>2, <2>4, <3>2
    <3>8. ASSUME NEW k \in 1..Len(y.marcos)
          PROVE  y.marcos[k] = t[Pagina(x.dl) + k]
      <4>1. CASE k \in 1..Len(x.marcos)
        BY <4>1, <3>1, <3>7 DEF AccesoSano
      <4>2. CASE k = Len(x.marcos) + 1
        BY <4>2, <3>6, <3>7
      <4>3. QED
        BY <4>1, <4>2, <3>2, <3>7
    <3>9. Len(y.marcos) <= PaginasNecesarias(Desplazamiento(x.dl), cpu.tam)
      BY <3>2, <3>3, <3>5, <3>7
    <3>10. x.dl + cpu.tam <= Len(t) * TamPagina /\ y.dl = x.dl
      BY <2>4, <3>1 DEF AccesoSano
    <3>11. QED
      BY <3>8, <3>9, <3>10 DEF AccesoSano
  <2>6. \A j \in DOMAIN cpu'.accesos : AccesoSano(cpu'.accesos[j], cpu'.tam, tabla'[cpu'.pid])
    BY <1>2, <2>2, <2>3, <2>4, <2>5
  <2>7. cpu'.accesos # <<>>
    BY <2>3, <2>4
  <2>8. QED
    BY <2>2, <2>3, <2>4, <2>6, <2>7 DEF AccesosSanos
<1>9. QED
  BY <1>1, <1>3, <1>4, <1>5, <1>6, <1>7, <1>8, CasosCPU, DecodificaAccesos

-----------------------------------------------------------------------------
(* The requests.  A frame comes back from the physical addresses in it.    *)
LEMMA MarcoDeDireccion ==
    ASSUME NEW m \in Nat, NEW d \in 0..(TamPagina - 1)
    PROVE  DirFisica(m, d) \div TamPagina = m
<1> DEFINE t == TamPagina
           z == DirFisica(m, d)
           q == z \div t
           r == z % t
<1>1. t \in Nat \ {0} /\ d \in 0..(t - 1) /\ m * t \in Nat
  BY MMUAssumption
<1>2. z = m * t + d /\ z \in Nat
  BY <1>1 DEF DirFisica
<1> HIDE DEF z, t
<1>3. q \in Int /\ r \in 0..(t - 1) /\ z = q * t + r /\ q * t \in Int
  BY <1>1, <1>2
<1> HIDE DEF q, r
<1>4. ASSUME q > m PROVE FALSE
  <2>1. (q - m) * t >= t /\ (q - m) * t = q * t - m * t
    BY <1>1, <1>3, <1>4
  <2>2. QED
    BY <2>1, <1>1, <1>2, <1>3
<1>5. ASSUME q < m PROVE FALSE
  <2>1. (m - q) * t >= t /\ (m - q) * t = m * t - q * t
    BY <1>1, <1>3, <1>5
  <2>2. QED
    BY <2>1, <1>1, <1>2, <1>3
<1>6. q = m
  BY <1>3, <1>4, <1>5
<1>7. QED
  BY <1>6 DEF q, z, t

LEMMA PorcionesSanas ==
    ASSUME NEW t \in Seq(Marcos), NEW x \in Accesos, NEW n \in Nat, n > 0,
           AccesoSano(x, n, t), Len(x.marcos) >= PaginasNecesarias(Desplazamiento(x.dl), n),
           NEW k \in DOMAIN Porciones(x.dl, n, x.marcos)
    PROVE  Porciones(x.dl, n, x.marcos)[k].dir \div TamPagina = t[Pagina(x.dl) + k]
<1> DEFINE desp == Desplazamiento(x.dl)
           pn == PaginasNecesarias(desp, n)
           d == IF k = 1 THEN desp ELSE 0
<1>1. x.dl \in Nat /\ x.marcos \in Seq(Marcos)
  BY DEF Accesos
<1>2. Len(t) \in Nat /\ Len(x.marcos) \in Nat
  BY <1>1
<1>3. pn \in Nat
  BY <1>1, <1>2, PaginasAdentro DEF AccesoSano
<1>4. /\ DOMAIN Porciones(x.dl, n, x.marcos) = 1..pn
      /\ Porciones(x.dl, n, x.marcos)[k].dir = DirFisica(x.marcos[k], d)
  BY DEF Porciones
<1>5. desp \in 0..(TamPagina - 1) /\ TamPagina \in Nat \ {0}
  BY <1>1, PaginaDesplazamiento, MMUAssumption
<1> HIDE DEF pn, desp
<1>6. k \in 1..Len(x.marcos) /\ d \in 0..(TamPagina - 1)
  BY <1>2, <1>3, <1>4, <1>5 DEF pn, desp
<1> HIDE DEF d
<1>7. x.marcos[k] \in Nat /\ x.marcos[k] = t[Pagina(x.dl) + k]
  <2>1. x.marcos[k] \in Marcos
    BY <1>1, <1>6
  <2>2. QED
    BY <2>1, <1>6 DEF AccesoSano, Marcos
<1>8. QED
  BY <1>4, <1>6, <1>7, MarcoDeDireccion

(* Every process has a request, if only the empty one.                     *)
LEMMA PedidosDe ==
    ASSUME IInv, DOMAIN io = Pids, [Next]_vars
    PROVE  DOMAIN io' = Pids
<1>1. CASE CPU
  <2>1. CASE EnviaIO
    BY <2>1 DEF EnviaIO
  <2>2. CASE (Lista /\ Otras) \/ TLBHit \/ TLBMiss \/ SolicitarEscritura
             \/ SolicitarLectura \/ EscribeLaCopia \/ Siguiente
    BY <2>2, OtrasNoReparten DEF Otras, IInv
  <2>3. CASE Lista /\ Resize
    BY <2>3, ResizePide DEF IInv
  <2>4. CASE \/ RespondeResize \/ ModificarEspacio \/ AgregarPagina \/ LiberarPagina
             \/ Desaloja \/ OutOfMemory
    BY <2>4 DEF RespondeResize, ModificarEspacio, AgregarPagina, LiberarPagina, Desaloja,
                OutOfMemory
  <2>5. QED
    BY <1>1, <2>1, <2>2, <2>3, <2>4, CPUCasos DEF Simples
<1>2. CASE LiberarFramesTabla \/ UNCHANGED vars
  BY <1>2 DEF LiberarFramesTabla, vars
<1>3. ASSUME NEW q \in Pids, IniciarProceso(q) \/ Despacha(q)
      PROVE  DOMAIN io' = Pids
  BY <1>3 DEF IniciarProceso, Despacha
<1>4. ASSUME NEW q \in Pids,
             \/ QuitarDeLista(q) \/ Atiende(q) \/ IOEscribe(q) \/ IOLee(q)
             \/ IOCompleta(q) \/ IOSePierde(q)
      PROVE  DOMAIN io' = Pids
  BY <1>4 DEF QuitarDeLista, Atiende, IOEscribe, IOLee, IOCompleta, IOSePierde
<1>5. QED
  BY <1>1, <1>2, <1>3, <1>4 DEF Next

(* What a step may do to a request.                                        *)
Sigue(p) ==
    /\ io'[p] = [c \in CamposIO |-> io'[p][c]]
    /\ io'[p].porciones = io[p].porciones /\ io'[p].dl = io[p].dl
    /\ estado[p] \in {"io", "sirve"} => estado'[p] \in {"io", "sirve"}

LEMMA CasosPedido ==
    ASSUME IInv, PedidosSanos, [Next]_vars, NEW p \in Pids
    PROVE  io'[p] = SinPedido \/ Sigue(p) \/ (EnviaIO /\ cpu.pid = p)
<1>1. /\ DOMAIN io = Pids /\ io[p] = [c \in CamposIO |-> io[p][c]]
      /\ DOMAIN estado = Pids
  BY DEF PedidosSanos, PedidoSano, IInv, Vidas
<1>2. CASE CPU
  <2>1. CASE EnviaIO
    BY <1>1, <2>1 DEF EnviaIO, Sigue
  <2>2. CASE Desaloja \/ OutOfMemory
    BY <1>1, <2>2 DEF Desaloja, OutOfMemory, Sigue, IInv, Ejecucion
  <2>3. CASE ~(EnviaIO \/ Desaloja \/ OutOfMemory)
    <3>1. UNCHANGED <<io, estado>>
      <4>1. CASE (Lista /\ Otras) \/ TLBHit \/ TLBMiss \/ SolicitarEscritura
                 \/ SolicitarLectura \/ EscribeLaCopia \/ Siguiente
        BY <4>1, OtrasNoReparten DEF Otras, IInv
      <4>2. CASE Lista /\ Resize
        BY <4>2, ResizePide DEF IInv
      <4>3. CASE RespondeResize \/ ModificarEspacio \/ AgregarPagina \/ LiberarPagina
        BY <4>3 DEF RespondeResize, ModificarEspacio, AgregarPagina, LiberarPagina
      <4>4. QED
        BY <1>2, <2>3, <4>1, <4>2, <4>3, CPUCasos DEF Simples
    <3>2. QED
      BY <1>1, <3>1 DEF Sigue
  <2>4. QED
    BY <2>1, <2>2, <2>3
<1>3. CASE LiberarFramesTabla \/ UNCHANGED vars
  BY <1>1, <1>3 DEF LiberarFramesTabla, vars, Sigue
<1>4. ASSUME NEW q \in Pids, IniciarProceso(q) \/ Despacha(q)
      PROVE  Sigue(p)
  BY <1>1, <1>4 DEF IniciarProceso, Despacha, Sigue
<1>5. ASSUME NEW q \in Pids, QuitarDeLista(q) \/ IOCompleta(q) \/ IOSePierde(q)
      PROVE  io'[p] = SinPedido \/ Sigue(p)
  BY <1>1, <1>5 DEF QuitarDeLista, IOCompleta, IOSePierde, Sigue
<1>6. ASSUME NEW q \in Pids, Atiende(q)
      PROVE  Sigue(p)
  BY <1>1, <1>6 DEF Atiende, Sigue, CamposIO
<1>7. ASSUME NEW q \in Pids, IOEscribe(q) \/ IOLee(q)
      PROVE  Sigue(p)
  <2>1. UNCHANGED estado
    BY <1>7 DEF IOEscribe, IOLee, memoria
  <2>2. CASE p # q
    BY <1>1, <1>7, <2>1, <2>2 DEF IOEscribe, IOLee, Sigue
  <2>3. CASE p = q /\ IOEscribe(q)
    BY <1>1, <2>1, <2>3 DEF IOEscribe, Sigue, CamposIO
  <2>4. CASE p = q /\ IOLee(q)
    <3>1. PICK d : io' = [io EXCEPT ![p].n = @ + 1, ![p].dato = d]
      BY <2>4 DEF IOLee
    <3>2. io'[p] = [io[p] EXCEPT !.n = @ + 1, !.dato = d]
      BY <1>1, <3>1
    <3>3. QED
      BY <1>1, <2>1, <3>2 DEF Sigue, CamposIO
  <2>5. QED
    BY <1>7, <2>2, <2>3, <2>4
<1>8. QED
  BY <1>2, <1>3, <1>4, <1>5, <1>6, <1>7 DEF Next

(* The addresses a request carries stay right while it waits and is        *)
(* served: the process neither runs nor is ended meanwhile.                *)
LEMMA PedidoPaso ==
    ASSUME IInv, TInv, [Next]_vars, NEW p \in Pids
    PROVE  PedidoSano(io'[p], estado'[p], tabla'[p])
<1>1. PedidosSanos /\ PedidoSano(io[p], estado[p], tabla[p])
  BY DEF TInv, PedidosSanos
<1>2. CASE io'[p] = SinPedido
  BY <1>2 DEF SinPedido, PedidoSano, CamposIO
<1>3. CASE Sigue(p)
  <2>1. estado'[p] \notin {"io", "sirve"} => io'[p].porciones = <<>>
    BY <1>1, <1>3 DEF Sigue, PedidoSano
  <2>2. io'[p].porciones # <<>> => tabla'[p] = tabla[p]
    <3>1. io'[p].porciones # <<>> => estado[p] \in {"io", "sirve"} /\ p # cpu.pid
      BY <1>1, <1>3 DEF Sigue, PedidoSano, IInv, Ejecucion
    <3>2. QED
      BY <3>1, TablaQuieta
  <2>3. \A k \in DOMAIN io'[p].porciones :
          io'[p].porciones[k].dir \div TamPagina = tabla'[p][Pagina(io'[p].dl) + k]
    <3>1. CASE io'[p].porciones = <<>>
      BY <3>1
    <3>2. CASE io'[p].porciones # <<>>
      BY <1>1, <1>3, <2>2, <3>2 DEF Sigue, PedidoSano
    <3>3. QED
      BY <3>1, <3>2
  <2>4. QED
    BY <1>3, <2>1, <2>3 DEF Sigue, PedidoSano
<1>4. CASE EnviaIO /\ cpu.pid = p
  <2> DEFINE x == cpu.accesos[1]
  <2>1. cpu.accesos # <<>> /\ cpu.accesos \in Seq(Accesos) /\ cpu.tam \in Nat /\ cpu.tam > 0
        /\ \A i \in DOMAIN cpu.accesos : AccesoSano(cpu.accesos[i], cpu.tam, tabla[p])
    BY <1>4 DEF EnviaIO, TInv, AccesosSanos
  <2>2. 1 \in DOMAIN cpu.accesos
    BY <2>1
  <2>3. x \in Accesos /\ AccesoSano(x, cpu.tam, tabla[p])
    BY <2>1, <2>2
  <2>4. ~(Len(x.marcos) < PaginasNecesarias(Desplazamiento(x.dl), cpu.tam))
    BY <1>4, <2>2 DEF EnviaIO, Traducido, Faltan, MarcosDe
  <2>5. /\ io'[p] = [tipo |-> x.tipo, dl |-> x.dl, tam |-> cpu.tam, dato |-> <<>>,
                     porciones |-> Porciones(x.dl, cpu.tam, x.marcos), n |-> 0]
        /\ estado'[p] = "io" /\ UNCHANGED tabla
    <3>1. DOMAIN io = Pids /\ DOMAIN estado = Pids
      BY <1>1 DEF PedidosSanos, IInv, Vidas
    <3>2. QED
      BY <1>4, <3>1 DEF EnviaIO, PorcionesDe, MarcosDe, memoria
  <2> HIDE DEF x
  <2>6. x.dl \in Nat /\ x.marcos \in Seq(Marcos) /\ tabla[p] \in Seq(Marcos)
    <3>1. \A z \in Accesos : z.marcos \in Seq(Marcos) /\ z.dl \in Nat
      BY DEF Accesos
    <3>2. QED
      BY <2>3, <3>1 DEF IInv, Tablas
  <2>7. Len(x.marcos) >= PaginasNecesarias(Desplazamiento(x.dl), cpu.tam)
    <3>1. Len(x.marcos) \in Nat /\ Len(tabla[p]) \in Nat
      BY <2>6
    <3>2. x.dl + cpu.tam <= Len(tabla[p]) * TamPagina
      BY <2>3 DEF AccesoSano
    <3>3. PaginasNecesarias(Desplazamiento(x.dl), cpu.tam) \in Nat
      BY <2>1, <2>6, <3>1, <3>2, PaginasAdentro
    <3>4. QED
      BY <2>4, <3>1, <3>3
  <2>8. \A k \in DOMAIN Porciones(x.dl, cpu.tam, x.marcos) :
          Porciones(x.dl, cpu.tam, x.marcos)[k].dir \div TamPagina = tabla[p][Pagina(x.dl) + k]
    BY <2>1, <2>3, <2>6, <2>7, PorcionesSanas
  <2>9. /\ io'[p].porciones = Porciones(x.dl, cpu.tam, x.marcos) /\ io'[p].dl = x.dl
        /\ io'[p] = [c \in CamposIO |-> io'[p][c]]
    BY <2>5 DEF CamposIO
  <2>10. QED
    BY <2>5, <2>8, <2>9 DEF PedidoSano
<1>5. QED
  BY <1>1, <1>2, <1>3, <1>4, CasosPedido

-----------------------------------------------------------------------------
LEMMA InitTInv == Init => TInv
<1> SUFFICES ASSUME Init PROVE TInv
  OBVIOUS
<1>1. TLBSana /\ SinRecrecer
  BY DEF Init, TLBSana, SinRecrecer, Ociosa
<1>2. AccesosSanos
  BY DEF Init, AccesosSanos, Ociosa
<1>3. PedidosSanos
  BY DEF Init, PedidosSanos, PedidoSano, SinPedido, CamposIO
<1>4. QED
  BY <1>1, <1>2, <1>3 DEF TInv

LEMMA TInvPaso == ASSUME ~Recrece, IInv, TInv, [Next]_vars PROVE TInv'
<1>1. PedidosSanos'
  <2>1. DOMAIN io' = Pids
    BY PedidosDe DEF TInv, PedidosSanos
  <2>2. QED
    BY <2>1, PedidoPaso DEF PedidosSanos, PedidoSano
<1>2. QED
  BY <1>1, TLBPaso, SinRecrecerPaso, AccesosPaso DEF TInv

(* If no process that shrank grows again, every translation in hand is     *)
(* what the page table says, in the TLB, in the CPU and in the requests of *)
(* the interfaces, for any TLB, page size and number of processes: a       *)
(* RESIZE that frees pages is the only thing tlb.c would have to be told   *)
(* of.                                                                     *)
THEOREM TraduccionSiempre ==
    ASSUME ~Recrece
    PROVE  Spec => []TraduccionVigente
<1>1. Init => IInv /\ TInv
  BY InitIInv, InitTInv
<1>2. (IInv /\ TInv) /\ [Next]_vars => (IInv /\ TInv)'
  BY IInvPaso, TInvPaso
<1>3. IInv /\ TInv => TraduccionVigente
  <2> SUFFICES ASSUME IInv, TInv PROVE TraduccionVigente
    OBVIOUS
  <2>1. \A i \in DOMAIN tlb :
          tlb[i].pid \in procesos /\ tlb[i].pagina < Len(tabla[tlb[i].pid])
            => tlb[i].marco = tabla[tlb[i].pid][tlb[i].pagina + 1]
    BY DEF TInv, TLBSana, EntradaSana
  <2>2. ASSUME NEW i \in DOMAIN cpu.accesos, NEW k \in DOMAIN MarcosDe(i)
        PROVE  MarcosDe(i)[k] = tabla[cpu.pid][Pagina(cpu.accesos[i].dl) + k]
    <3> DEFINE x == cpu.accesos[i]
    <3>1. x \in Accesos /\ AccesoSano(x, cpu.tam, tabla[cpu.pid])
      BY DEF TInv, AccesosSanos
    <3>2. MarcosDe(i) = x.marcos
      BY DEF MarcosDe
    <3> HIDE DEF x
    <3>3. x.marcos \in Seq(Marcos)
      BY <3>1 DEF Accesos
    <3>4. DOMAIN x.marcos = 1..Len(x.marcos)
      BY <3>3
    <3>5. QED
      BY <2>2, <3>1, <3>2, <3>4 DEF AccesoSano, x
  <2>3. \A p \in Pids : \A k \in DOMAIN io[p].porciones :
          io[p].porciones[k].dir \div TamPagina = tabla[p][Pagina(io[p].dl) + k]
    BY DEF TInv, PedidosSanos, PedidoSano
  <2>4. QED
    BY <2>1, <2>2, <2>3 DEF TraduccionVigente
<1>4. QED
  BY <1>1, <1>2, <1>3, PTL DEF Spec
=============================================================================
