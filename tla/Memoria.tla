------------------------------ MODULE Memoria ------------------------------
(***************************************************************************)
(* The memory server and who uses it: the connection of the kernel, which  *)
(* creates and ends processes; the connection of the CPU, which translates *)
(* logical addresses through its TLB and then resizes, reads and writes;   *)
(* and the connections of two interfaces, which read and write the         *)
(* physical addresses a process sent them when it blocked.  Each one waits *)
(* for the answer to a message before it sends another, so a message and   *)
(* its answer are one step; the pieces of one instruction are many.        *)
(***************************************************************************)
EXTENDS MMU, FiniteSets

CONSTANTS Pids,
          Nadie,          \* no process
          CantMarcos,     \* TAM_MEMORIA / TAM_PAGINA
          Valores,        \* what a byte may hold, 0 included
          Textos,         \* bound: what registers and keyboards write
          Tamanios,       \* bound: the sizes a RESIZE asks for
          TamsLectura,    \* bound: how much is read or copied
          Recrece         \* bound: whether a process that shrank grows again

ASSUME MemoriaAssumption ==
    /\ Nadie \notin Pids /\ CantMarcos \in Nat /\ 0 \in Valores /\ Textos \subseteq Seq(Valores)
    /\ Tamanios \subseteq Nat /\ TamsLectura \subseteq Nat /\ Recrece \in BOOLEAN

Marcos == 0..(CantMarcos - 1)
Dirs == 0..(CantMarcos * TamPagina - 1)

VARIABLES
    procesos,   \* the pids of instrucciones_procesos
    tabla,      \* tabla_paginas of each process
    bitmap,     \* the frames whose bit is set
    espacio,    \* user_space
    saliendo,   \* the process whose frames quitar_proceso_lista has yet to free
    estado,     \* where the kernel has each process
    tlb,        \* tlb_scheduler
    cpu,        \* the instruction the CPU is executing
    io,         \* the request each blocked process sent
    achico      \* processes that gave pages back

vars == <<procesos, tabla, bitmap, espacio, saliendo, estado, tlb, cpu, io, achico>>
memoria == <<procesos, tabla, bitmap, espacio, saliendo>>

Interfaz(tipo) == IF tipo = "escribe" THEN "stdin" ELSE "stdout"

Ociosa == [pid |-> Nadie, op |-> "nada", tam |-> 0, dato |-> <<>>, accesos |-> <<>>,
           a |-> 1, n |-> 0]
SinPedido == [tipo |-> "nada", dl |-> 0, tam |-> 0, dato |-> <<>>, porciones |-> <<>>,
              n |-> 0]

TypeOK ==
    /\ procesos \subseteq Pids /\ bitmap \subseteq Marcos /\ achico \subseteq Pids
    /\ tabla \in [Pids -> Seq(Marcos)]
    /\ espacio \in [Dirs -> Valores]
    /\ saliendo \in Pids \cup {Nadie}
    /\ estado \in [Pids -> {"nuevo", "listo", "cpu", "io", "sirve", "muere", "fin"}]
    /\ tlb \in Seq(EntradaTLB(Pids, Marcos)) /\ Len(tlb) <= Entradas
    /\ \A i, j \in DOMAIN tlb :
         i # j => <<tlb[i].pid, tlb[i].pagina>> # <<tlb[j].pid, tlb[j].pagina>>
    /\ cpu.pid \in Pids \cup {Nadie}
    /\ \A p \in Pids : (estado[p] = "cpu") <=> (cpu.pid = p)
    /\ \A p \in Pids : (estado[p] \in {"io", "sirve"}) <=> (io[p] # SinPedido)

Init ==
    /\ procesos = {} /\ tabla = [p \in Pids |-> <<>>] /\ bitmap = {}
    /\ \E v \in Valores : espacio = [d \in Dirs |-> v]   \* what malloc left there
    /\ saliendo = Nadie
    /\ estado = [p \in Pids |-> "nuevo"]
    /\ tlb = <<>> /\ cpu = Ociosa /\ io = [p \in Pids |-> SinPedido] /\ achico = {}

-----------------------------------------------------------------------------
(* The connection of the kernel.                                           *)
IniciarProceso(p) ==
    /\ estado[p] = "nuevo"
    /\ estado' = [estado EXCEPT ![p] = "listo"]
    /\ procesos' = procesos \cup {p}
    /\ UNCHANGED <<tabla, bitmap, espacio, saliendo, tlb, cpu, io, achico>>

(* The kernel ends a process that neither the CPU nor an interface has in  *)
(* its hands: one that exits, has no memory left, or is killed while it    *)
(* waits.                                                                  *)
QuitarDeLista(p) ==
    /\ estado[p] \in {"listo", "io", "muere"} /\ saliendo = Nadie
    /\ procesos' = procesos \ {p} /\ saliendo' = p
    /\ estado' = [estado EXCEPT ![p] = "fin"]
    /\ io' = [io EXCEPT ![p] = SinPedido]
    /\ UNCHANGED <<tabla, bitmap, espacio, tlb, cpu, achico>>

(* Mutant: the frames are cleared but for the last one. *)
LiberarFramesTablaMenosUno ==
    /\ saliendo # Nadie
    /\ bitmap' = bitmap \ {tabla[saliendo][i] : i \in 1..(Len(tabla[saliendo]) - 1)}
    /\ tabla' = [tabla EXCEPT ![saliendo] = <<>>]
    /\ saliendo' = Nadie
    /\ UNCHANGED <<procesos, espacio, estado, tlb, cpu, io, achico>>

LiberarFramesTabla ==
    /\ saliendo # Nadie
    /\ bitmap' = bitmap \ ToSet(tabla[saliendo])
    /\ tabla' = [tabla EXCEPT ![saliendo] = <<>>]
    /\ saliendo' = Nadie
    /\ UNCHANGED <<procesos, espacio, estado, tlb, cpu, io, achico>>

-----------------------------------------------------------------------------
(* The CPU.  An instruction is a list of accesses, all of them translated  *)
(* before the first is done.                                               *)
Acceso(tipo, dl) == [tipo |-> tipo, dl |-> dl, marcos |-> <<>>]
Alcance(p) == Len(tabla[p]) * TamPagina
Cabe(p, dl, tam) == tam > 0 /\ dl + tam <= Alcance(p)

Lista == cpu.pid # Nadie /\ cpu.op = "nada"   \* for an instruction

Despacha(p) ==
    /\ cpu.pid = Nadie /\ estado[p] = "listo"
    /\ cpu' = [Ociosa EXCEPT !.pid = p]
    /\ estado' = [estado EXCEPT ![p] = "cpu"]
    /\ UNCHANGED <<memoria, tlb, io, achico>>

Desaloja ==
    /\ Lista
    /\ estado' = [estado EXCEPT ![cpu.pid] = "listo"]
    /\ cpu' = Ociosa
    /\ UNCHANGED <<memoria, tlb, io, achico>>

Decodifica(op, tam, dato, accesos) ==
    /\ cpu' = [pid |-> cpu.pid, op |-> op, tam |-> tam, dato |-> dato, accesos |-> accesos,
               a |-> 1, n |-> 0]
    /\ UNCHANGED <<memoria, estado, tlb, io, achico>>

MovOut == \E t \in Textos, dl \in Dirs :
             /\ Cabe(cpu.pid, dl, Len(t))
             /\ Decodifica("mov_out", Len(t), t, <<Acceso("escribe", dl)>>)
MovIn == \E n \in TamsLectura, dl \in Dirs :
             /\ Cabe(cpu.pid, dl, n)
             /\ Decodifica("mov_in", n, <<>>, <<Acceso("lee", dl)>>)
CopyString == \E n \in TamsLectura, si, di \in Dirs :
             /\ Cabe(cpu.pid, si, n) /\ Cabe(cpu.pid, di, n)
             /\ Decodifica("copy_string", n, <<>>, <<Acceso("lee", si), Acceso("escribe", di)>>)
StdinStdout == \E n \in TamsLectura, dl \in Dirs, tipo \in {"escribe", "lee"} :
             /\ Cabe(cpu.pid, dl, n)
             /\ Decodifica("io", n, <<>>, <<Acceso(tipo, dl)>>)
Resize == \E t \in Tamanios :
             /\ Recrece \/ cpu.pid \notin achico \/ t <= Alcance(cpu.pid)
             /\ Decodifica("resize", t, <<>>, <<>>)

(* solicitar_macros: a page at a time, from the TLB or from the memory.    *)
MarcosDe(i) == cpu.accesos[i].marcos
Faltan(i) == Len(MarcosDe(i)) < PaginasNecesarias(Desplazamiento(cpu.accesos[i].dl), cpu.tam)
PaginaPedida(i) == Pagina(cpu.accesos[i].dl) + Len(MarcosDe(i))
Traduciendo(i) == /\ i \in DOMAIN cpu.accesos /\ Faltan(i)
                  /\ \A j \in 1..(i - 1) : ~Faltan(j)
Traducido == \A i \in DOMAIN cpu.accesos : ~Faltan(i)
Anota(i, marco) ==
    cpu' = [cpu EXCEPT !.accesos[i].marcos = Append(@, marco)]

TLBHit ==
    \E i \in DOMAIN cpu.accesos :
        /\ Traduciendo(i)
        /\ LET e == BuscarEntrada(tlb, cpu.pid, PaginaPedida(i))
           IN /\ e # 0
              /\ Anota(i, tlb[e].marco)
              /\ tlb' = Referencia(tlb, e)
        /\ UNCHANGED <<memoria, estado, io, achico>>

TLBMiss ==
    \E i \in DOMAIN cpu.accesos :
        /\ Traduciendo(i)
        /\ BuscarEntrada(tlb, cpu.pid, PaginaPedida(i)) = 0
        /\ LET marco == tabla[cpu.pid][PaginaPedida(i) + 1]
           IN /\ Anota(i, marco)
              /\ tlb' = IF Entradas = 0 THEN tlb
                        ELSE AgregarEntrada(tlb, cpu.pid, PaginaPedida(i), marco)
        /\ UNCHANGED <<memoria, estado, io, achico>>

(* One piece, in memory: by the CPU's connection or by an interface's.     *)
PorcionesDe(i) == Porciones(cpu.accesos[i].dl, cpu.tam, MarcosDe(i))
Escribe(porcion, dato) ==
    espacio' = [d \in Dirs |->
                  IF d - porcion.dir \in 0..(porcion.tam - 1)
                  THEN dato[porcion.base + (d - porcion.dir) + 1] ELSE espacio[d]]
Leido(porcion) == [k \in 1..porcion.tam |-> espacio[porcion.dir + k - 1]]

Accediendo(tipo) ==
    /\ cpu.op \in {"mov_out", "mov_in", "copy_string"} /\ Traducido
    /\ cpu.accesos[cpu.a].tipo = tipo /\ cpu.n < Len(PorcionesDe(cpu.a))

SolicitarEscritura ==
    /\ Accediendo("escribe")
    /\ Escribe(PorcionesDe(cpu.a)[cpu.n + 1], cpu.dato)
    /\ cpu' = [cpu EXCEPT !.n = @ + 1]
    /\ UNCHANGED <<procesos, tabla, bitmap, saliendo, estado, tlb, io, achico>>

SolicitarLectura ==
    /\ Accediendo("lee")
    /\ cpu' = [cpu EXCEPT !.n = @ + 1,
                          !.dato = @ \o Leido(PorcionesDe(cpu.a)[cpu.n + 1])]
    /\ UNCHANGED <<memoria, estado, tlb, io, achico>>

Hecho == /\ cpu.op \in {"mov_out", "mov_in", "copy_string"} /\ Traducido
         /\ cpu.n = Len(PorcionesDe(cpu.a))
EscribeLaCopia ==
    /\ Hecho /\ cpu.a < Len(cpu.accesos)
    /\ cpu' = [cpu EXCEPT !.a = @ + 1, !.n = 0]
    /\ UNCHANGED <<memoria, estado, tlb, io, achico>>
Siguiente ==
    /\ Hecho /\ cpu.a = Len(cpu.accesos)
    /\ cpu' = [Ociosa EXCEPT !.pid = cpu.pid]
    /\ UNCHANGED <<memoria, estado, tlb, io, achico>>

(* The process blocks, and its request carries the physical addresses.     *)
EnviaIO ==
    /\ cpu.op = "io" /\ Traducido
    /\ io' = [io EXCEPT ![cpu.pid] =
                [tipo |-> cpu.accesos[1].tipo, dl |-> cpu.accesos[1].dl, tam |-> cpu.tam,
                 dato |-> <<>>, porciones |-> PorcionesDe(1), n |-> 0]]
    /\ estado' = [estado EXCEPT ![cpu.pid] = "io"]
    /\ cpu' = Ociosa
    /\ UNCHANGED <<memoria, tlb, achico>>

-----------------------------------------------------------------------------
(* RESIZE, on the CPU's connection: n is the number of pages to add or, if *)
(* negative, to take, until the answer is sent.                            *)
Diferencia == cpu.tam - Alcance(cpu.pid)
Libres == Cardinality(Marcos \ bitmap)

ModificarEspacio ==
    /\ cpu.op = "resize"
    /\ Diferencia > 0 => Libres >= Techo(Diferencia, TamPagina)
    /\ cpu' = IF cpu.tam <= Alcance(cpu.pid) /\ cpu.tam >= Alcance(cpu.pid) - TamPagina
              THEN [Ociosa EXCEPT !.pid = cpu.pid]
              ELSE [cpu EXCEPT !.op = IF Diferencia > 0 THEN "agrega" ELSE "quita",
                               !.n = IF Diferencia > 0 THEN Techo(Diferencia, TamPagina)
                                     ELSE (-Diferencia) \div TamPagina]
    /\ UNCHANGED <<memoria, estado, tlb, io, achico>>

OutOfMemory ==
    /\ cpu.op = "resize"
    /\ Diferencia > 0 /\ Libres < Techo(Diferencia, TamPagina)
    /\ estado' = [estado EXCEPT ![cpu.pid] = "muere"]
    /\ cpu' = Ociosa
    /\ UNCHANGED <<memoria, tlb, io, achico>>

MarcoLibre == CHOOSE m \in Marcos \ bitmap : \A o \in Marcos \ bitmap : m <= o

AgregarPagina ==
    /\ cpu.op = "agrega" /\ cpu.n > 0
    /\ bitmap' = bitmap \cup {MarcoLibre}
    /\ tabla' = [tabla EXCEPT ![cpu.pid] = Append(@, MarcoLibre)]
    /\ cpu' = [cpu EXCEPT !.n = @ - 1]
    /\ UNCHANGED <<procesos, espacio, saliendo, estado, tlb, io, achico>>

(* Mutant: the page is taken from the front of the table. *)
LiberarPaginaDelFrente ==
    /\ cpu.op = "quita" /\ cpu.n > 0
    /\ bitmap' = bitmap \ {Head(tabla[cpu.pid])}
    /\ tabla' = [tabla EXCEPT ![cpu.pid] = Tail(@)]
    /\ cpu' = [cpu EXCEPT !.n = @ - 1]
    /\ achico' = achico \cup {cpu.pid}
    /\ UNCHANGED <<procesos, espacio, saliendo, estado, tlb, io>>

LiberarPagina ==
    /\ cpu.op = "quita" /\ cpu.n > 0
    /\ bitmap' = bitmap \ {Last(tabla[cpu.pid])}
    /\ tabla' = [tabla EXCEPT ![cpu.pid] = Front(@)]
    /\ cpu' = [cpu EXCEPT !.n = @ - 1]
    /\ achico' = achico \cup {cpu.pid}
    /\ UNCHANGED <<procesos, espacio, saliendo, estado, tlb, io>>

RespondeResize ==
    /\ cpu.op \in {"agrega", "quita"} /\ cpu.n = 0
    /\ cpu' = [Ociosa EXCEPT !.pid = cpu.pid]
    /\ UNCHANGED <<memoria, estado, tlb, io, achico>>

-----------------------------------------------------------------------------
(* The interfaces.  One request at a time each; a process that is being    *)
(* served is not ended until it is done, or the interface is lost; what a  *)
(* lost interface had sent to the memory was served before.                *)
Atiende(p) ==
    /\ estado[p] = "io"
    /\ ~\E q \in Pids : estado[q] = "sirve" /\ Interfaz(io[q].tipo) = Interfaz(io[p].tipo)
    /\ \E t \in Textos :
         /\ io[p].tipo = "escribe" => Len(t) = io[p].tam
         /\ io' = IF io[p].tipo = "escribe" THEN [io EXCEPT ![p].dato = t] ELSE io
    /\ estado' = [estado EXCEPT ![p] = "sirve"]
    /\ UNCHANGED <<memoria, tlb, cpu, achico>>

IOEscribe(p) ==
    /\ estado[p] = "sirve" /\ io[p].tipo = "escribe" /\ io[p].n < Len(io[p].porciones)
    /\ Escribe(io[p].porciones[io[p].n + 1], io[p].dato)
    /\ io' = [io EXCEPT ![p].n = @ + 1]
    /\ UNCHANGED <<procesos, tabla, bitmap, saliendo, estado, tlb, cpu, achico>>

IOLee(p) ==
    /\ estado[p] = "sirve" /\ io[p].tipo = "lee" /\ io[p].n < Len(io[p].porciones)
    /\ io' = [io EXCEPT ![p].n = @ + 1,
                        ![p].dato = @ \o Leido(io[p].porciones[io[p].n + 1])]
    /\ UNCHANGED <<memoria, estado, tlb, cpu, achico>>

IOCompleta(p) ==
    /\ estado[p] = "sirve" /\ io[p].n = Len(io[p].porciones)
    /\ io' = [io EXCEPT ![p] = SinPedido]
    /\ estado' \in {[estado EXCEPT ![p] = "listo"], [estado EXCEPT ![p] = "muere"]}
    /\ UNCHANGED <<memoria, tlb, cpu, achico>>

IOSePierde(p) ==
    /\ estado[p] = "sirve"
    /\ io' = [io EXCEPT ![p] = SinPedido]
    /\ estado' = [estado EXCEPT ![p] = "muere"]
    /\ UNCHANGED <<memoria, tlb, cpu, achico>>

-----------------------------------------------------------------------------
Instruccion == Lista /\ (MovOut \/ MovIn \/ CopyString \/ StdinStdout \/ Resize)
CPU == Instruccion \/ Desaloja \/ TLBHit \/ TLBMiss \/ SolicitarEscritura \/ SolicitarLectura
       \/ EscribeLaCopia \/ Siguiente \/ EnviaIO \/ ModificarEspacio \/ OutOfMemory
       \/ AgregarPagina \/ LiberarPagina \/ RespondeResize

Next == CPU \/ LiberarFramesTabla
        \/ (\E p \in Pids : IniciarProceso(p) \/ QuitarDeLista(p) \/ Despacha(p) \/ Atiende(p)
                            \/ IOEscribe(p) \/ IOLee(p) \/ IOCompleta(p) \/ IOSePierde(p))

Spec == Init /\ [][Next]_vars

-----------------------------------------------------------------------------
(* No frame is in two page tables or twice in one, and a frame is marked   *)
(* exactly while it is in one, a process that is being ended included:     *)
(* nothing leaks and nothing is handed out twice although the kernel's     *)
(* connection frees frames while the CPU's takes them.                     *)
MarcosDeUno ==
    /\ \A p, q \in Pids : \A i \in DOMAIN tabla[p], j \in DOMAIN tabla[q] :
         tabla[p][i] = tabla[q][j] => p = q /\ i = j
    /\ bitmap = UNION {ToSet(tabla[p]) : p \in Pids}
    /\ \A p \in Pids : tabla[p] # <<>> => p \in procesos \cup {saliendo}

(* Every translation in hand is what the page table says: in the TLB (for  *)
(* the pages the process has), in the instruction the CPU is executing and *)
(* in the requests that wait or are served.  Memory copies without a mutex *)
(* when it reads (conexionCPU.c:123): this is what makes that safe.        *)
TraduccionVigente ==
    /\ \A i \in DOMAIN tlb :
         tlb[i].pid \in procesos /\ tlb[i].pagina < Len(tabla[tlb[i].pid])
           => tlb[i].marco = tabla[tlb[i].pid][tlb[i].pagina + 1]
    /\ \A i \in DOMAIN cpu.accesos : \A k \in DOMAIN MarcosDe(i) :
         MarcosDe(i)[k] = tabla[cpu.pid][Pagina(cpu.accesos[i].dl) + k]
    /\ \A p \in Pids : \A k \in DOMAIN io[p].porciones :
         io[p].porciones[k].dir \div TamPagina = tabla[p][Pagina(io[p].dl) + k]

(* The programs see a private memory each.                                 *)
Memorias ==
    [p \in Pids |->
       IF p \notin procesos THEN <<>>
       ELSE [b \in 1..Alcance(p) |->
               espacio[DirFisica(tabla[p][Pagina(b - 1) + 1], Desplazamiento(b - 1))]]]

BytesHechos(porciones, n) == IF n = 0 THEN 0 ELSE porciones[n].base + porciones[n].tam
Ordenes ==
    [p \in Pids |->
       CASE cpu.pid = p /\ cpu.op \in {"mov_out", "mov_in", "copy_string"} /\ Traducido ->
              [tipo |-> cpu.accesos[cpu.a].tipo, dl |-> cpu.accesos[cpu.a].dl, tam |-> cpu.tam,
               dato |-> cpu.dato, hechos |-> BytesHechos(PorcionesDe(cpu.a), cpu.n)]
         [] cpu.pid = p /\ cpu.op \in {"resize", "agrega", "quita"} ->
              [tipo |-> "ajusta", dl |-> 0, tam |-> cpu.tam, dato |-> <<>>,
               hechos |-> IF cpu.op = "resize" THEN 0 ELSE 1]
         [] estado[p] = "sirve" ->
              [tipo |-> io[p].tipo, dl |-> io[p].dl, tam |-> io[p].tam, dato |-> io[p].dato,
               hechos |-> BytesHechos(io[p].porciones, io[p].n)]
         [] OTHER -> [tipo |-> "nada", dl |-> 0, tam |-> 0, dato |-> <<>>, hechos |-> 0]]

Privados == INSTANCE EspaciosPrivados WITH mem <- Memorias, orden <- Ordenes
ImplementaEspacios == Privados!Spec
=============================================================================
