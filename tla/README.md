# A verification project for Hobbits, an operating system simulator

Hobbits is four C programs that play the parts of a computer and talk over TCP:
`kernel`, `cpu`, `memoria` and any number of `entradasalida` (I/O interfaces).
This directory holds TLA+ models of them, the TLC configurations that check the
models on small instances, and theorems about them with proofs for TLAPS.

## 1. Inventory

### Kernel (`src/kernel`)

State: the queues NEW, READY, READY+, EXEC and EXIT; one queue of blocked
requests per connected I/O interface; one counter and one queue of blocked
processes per resource; the dictionary of units each process uses; the counting
semaphores `grado_de_multiprogramacion`, `proceso_en_cola_new`,
`proceso_en_cola_ready`; the four permits `planificacion_{new,ready,exec,blocked}_iniciada`;
the flag `planificacion_iniciada` and the semaphore `planificacion_detenida`;
the flag `interrupcion_usuario`.

Threads, all of which share that state:

| thread | code | does |
|---|---|---|
| console | `consola.c` | reads commands, starts the threads below |
| creator | `consola.c:233-269` | pcb, pid, asks memory for the file, NEW |
| long term | `planificadorLP.c:22-78` | NEW to READY under the degree |
| short term | `fifo.c`, `rr.c`, `vrr.c` + `planificadorCP.c` | READY(+) to EXEC, waits for the context, handles its motive |
| quantum timer | `planificadorCP.c:783-792` | one per burst, sends the interrupt |
| one per interface | `conexiones.c` | serves its request queue, detects its loss |
| killer | `consola.c:289-318` | one per FINALIZAR_PROCESO: stops, searches, starts |
| stoppers | `consola.c:436-474` | four per stop, each takes one permit |
| bajar_grado | `consola.c:707-710` | one per permit to take away |

Each scheduler thread works inside a critical section guarded by *one* of the
four permits, so taking the four of them stops the scheduler.  What is hard here
is that these permits are used as a lock by some threads (wait ... post) and as a
switch by others (wait now, post from another thread later), that the flag is
read and written in separate critical sections, and that counters (semaphores)
and contents (queues) are updated in different steps.

What makes it correct: no pcb is lost, doubled or stranded; the degree of
multiprogramming is conserved; the kernel and the CPU agree on who runs; a kill
takes effect once, under a stopped scheduler, and the scheduler starts again;
resource units are conserved and a unit has one holder.

### CPU (`src/cpu`)

State: the registers, the context being executed, the interrupt slot
(`PID_INTERRUMPIR`, `MOTIVO_INTERRUPCION`), `MOTIVO_DESALOJO`, the TLB.  Two
threads: the dispatch one executes a context to its eviction, the interrupt one
overwrites the slot.  Hard: the slot holds one interrupt and is cleared at the
start of a burst and at every instruction, the answer to WAIT and SIGNAL shares
the dispatch socket with the contexts, and the TLB is never invalidated.

What makes it correct: a program computes what it would compute alone; an
interrupt ends the burst it was meant for or none; every instruction is charged
to the quantum once; a CPU that waits for an answer gets it; a logical access is cut into pieces that
together are exactly the bytes asked for; a translation that is used is the one
the page table has at that moment.

### Memory (`src/memoria`)

State: the list of processes with their page tables, the bitmap of frames, the
user space.  Connections: kernel (create, end), CPU (instruction, page, resize,
read, write), interfaces (read, write), each served by a thread.  Hard: frames
are counted, chosen and marked in separate critical sections while another
connection frees them; reads take no mutex; the physical addresses in a request
to an interface are used long after they were translated.  Correct when no frame
has two owners, frames are conserved, and what a process writes is what it reads
back, whatever the others do.

### Interfaces (`src/entradasalida`)

GENERICA, STDIN, STDOUT serve one request at a time.  DIALFS keeps a file
system with contiguous allocation: bitmap of blocks, one metadata file per name
(first block, size), compaction.  The bitmap and the blocks are files mapped in
memory, the metadata and the list of names are written whole, and a request is
many of those writes: the process may die between any two and is started again on
what is there.  Correct when no block belongs to two files, the bitmap says what
the metadata say, files keep their contents, and a crash loses no more than the
file that was being changed.

### Utils (`src/utils`)

Queues, lists and dictionaries with one mutex each; the packet protocol; sockets
and logs.

## 2. Plan

Modules are written in the order of what the system cannot do without: the
scheduler first, then the switch that stops it, then resources, memory and the
file system.

| step | modules | abstract specification | state |
|---|---|---|---|
| 1 | `Colas`, `Planificador` | | modelled, checked, safety proved |
| 2 | `ControlPlanificacion` | `BusquedaExclusiva` | modelled, checked, safety and refinement proved |
| 3 | `Recursos` | `Semaforo` | modelled, checked, safety and refinement proved |
| 4 | `MMU`, `Memoria` | `EspaciosPrivados` | modelled, checked, ownership of frames and translation proved |
| 5 | `DialFS`, with crashes | `Archivos` | modelled, checked, safety and refinement proved |
| 6 | `Interfaces` | | modelled, checked, safety proved |
| 7 | `Instrucciones`, `CicloCPU` | `Maquina` | modelled, checked, safety proved, refinement in part |

What each is about: 1, who has each pcb and each permit; 2, whether "stopped"
means stopped; 3, whether units and wake-ups add up with no lock around them; 4,
whether programs have memories of their own; 5, whether files keep their data,
and what a crash takes; 6, the windows between looking an interface up and
pushing to its queue, which step 1 closes by making both one action; 7, what the
programs compute while their registers travel between the kernel and the CPU.

Every safety property the runs check is a theorem of section 6, except two
refinements.  Planned next: that `Memoria` implements `EspaciosPrivados`, whose
steps need the translation proved here; then the steps of `Maquina` that pass
through arithmetic.  New behaviour goes into the instances that exist, composed
with them, before it gets an instance of its own.

## 3. The modules and the code

Names are the source's where TLA+ allows them.  A `sem_t` is a natural number,
`sem_wait` a guard `> 0` with a decrement; a list or queue with its mutex is a
sequence, and one call on it one step; a socket that carries at most one message
at a time is a variable that holds it or nothing; what a model keeps only to
state a property is called *history* where it is declared.  A definition called
after another with a suffix and a comment that starts with "Mutant" is the same
code with a plausible mistake in it; nothing else uses it.  It is there to see
that the property it is paired with notices.

### `Colas`

The queues of `utils/listas.c` as one function from names to sequences,
and what the kernel does with them: push, pop of the head, removal of a pid,
moving a pcb from one to another.

### `Planificador`

Each critical section under one of the four permits is one action, because
whoever searches all the queues first takes the four permits.

| actor | actions | code |
|---|---|---|
| creator | `AsignarPid`, `CrearProceso`, `ArchivoInvalido` | `consola.c:233-269`, `743-751` |
| long term | `LPEsperaNew`, `LPEsperaGrado`, `LPMueve` (one per `sem_wait`) | `planificadorLP.c:22-78` |
| short term | `CPEsperaReady`, `CPDespacha`, `CPColaVacia`, then `FinDeEjecucion`, `FinDeQuantum` or `BloqueoPorIO` by motive, then `CPCancela` | `fifo.c`, `rr.c`, `vrr.c`, `planificadorCP.c` |
| CPU | `CPURecibe`, `CPUDevuelve`, `CPUInterrumpe` | `cicloInstruccion.c`, as the kernel sees it |
| quantum timer | `VenceQuantum` | `planificadorCP.c:783-792` |
| interface | `IOConecta`, `IOCompleta`, `IODesconecta`, `IODrena`, `IOSale` | `conexiones.c` |
| killer | `DetenerCola` per permit, `PlanificacionDetenida`, `MataEn*` by queue, `Reanuda` | `consola.c:289-430` |
| console | `Iniciar`, `Detener`, `FinalizarProceso`, `CambiarGrado`, `BajarGrado` | `consola.c` |

The flag of the kill replaces the motive the CPU sent (`MotivoEfectivo`), under
RR and VRR only, as in the code.  Programs of this module do not use WAIT and
SIGNAL.  The console takes a stop, a start or a kill only when the previous one
is complete; the next module drops that.

### `ControlPlanificacion` and `BusquedaExclusiva`

The switch of the scheduler at the grain of its semaphores.  A scheduler thread
is inside its section or not (`Entra`, `Sale`).  A stop is: read the flag, lower
it, start four stoppers (`DetenerCola`; `DetenerColaConfirmacion` for those of a
kill, which post `planificacion_detenida`).  A start is: read, raise, four posts.
A kill reads the flag (`FinLee`), lowers it (`FinBaja`), counts four
confirmations (`FinConfirmado`), searches (`FinBuscado`), reads the flag again
(`FinRelee`), raises it (`FinSube`) and posts (`FinPostea`), or searches at once
if the flag was down.  Any number of kills run at once.

`BusquedaExclusiva` says what this is for: who searches the queues does it while
no scheduler thread is inside a section, as a writer among readers.  The mapping
only gives the set of kills that are searching.

### `Recursos` and `Semaforo`

WAIT, SIGNAL and `liberar_recursos`, one step per read or write that no common
mutex covers.  `LiberarLee` and `LiberarGuarda` are the two halves of
`instancias_recurso++`, `LiberarMira` and `LiberarSaca` the test of
`cola_blocked` and the pop; three threads may be in them (the short-term
scheduler, an interface's, a killer).  `WaitGuarda`, `WaitConcede`,
`WaitNoAlcanza`, `WaitRemira`, `WaitEncola` and `SignalGuarda`, `SignalMira`,
`SignalSaca`, `SignalSigue` are the cases WAIT and SIGNAL of
`manejar_motivo_interrupcion` in their order.  `CPUPide` and `CPUAviso` are the
CPU that sends the request and waits for `MISMO_PID` or `NUEVO_PID` on the
socket that also carries contexts; `CPUAvisoAjeno` is what happens when the next
thing there is a pcb.  A NULL pop sets `caido`, and the model stops.

`Semaforo` is a counting semaphore per resource with a queue in order of arrival.

### `MMU`, `Memoria` and `EspaciosPrivados`

`MMU` has the arithmetic of `mmu.c` (page, offset, pages needed, the pieces of
an access) and the TLB of `tlb.c`, FIFO and LRU.  The counter `instante` of an
entry is kept as its rank among the entries: only comparisons of it matter.

`Memoria` is the memory server with its users.  Every client waits for the
answer of a message before the next, so a message with its answer is a step:
`IniciarProceso`, `QuitarDeLista` and `LiberarFramesTabla` for the kernel (the
second and third are two critical sections of one request); `TLBHit`, `TLBMiss`,
`SolicitarEscritura`, `SolicitarLectura` for the CPU, one per page or piece;
`ModificarEspacio`, `OutOfMemory`, `AgregarPagina`, `LiberarPagina`,
`RespondeResize` for RESIZE, a frame at a time; `Atiende`, `IOEscribe`,
`IOLee`, `IOCompleta`, `IOSePierde` for STDIN and STDOUT, which use the physical
addresses the process sent when it blocked.

`EspaciosPrivados` knows no frames: every process has an array of bytes, an
order in progress touches only its own bytes from the first to the last, and a
change of size keeps the prefix that fits.  The mapping reads each array through
the page table.

### `DialFS` and `Archivos`

`DialFS` has the bitmap, the blocks, the metadata, the list of names, and one
action per request: `Crear`, `Borrar`, `Achicar`, `Agrandar`, `Escribir`, `Leer`,
`NoHaceNada` (a name in use, no room, or nothing to delete).  A TRUNCATE that
finds no contiguous room is `IniciarCompactacion`, one `MoverArchivo` for each
other file in the order of their blocks, and `ColocarAlFinal`.  `ReasignarBitmap`
clears the bits the code clears, those past the file included.

The process may die in the middle of each of these.  `MuereCreando`,
`MuereBorrando`, `MuereAchicando`, `MuereAgrandando`, `MuereMoviendo`,
`MuereColocando` and `MuereSinMas` leave on the disk any prefix of the writes of
the request, in the order of the code: bits one by one, metadata files, the list
of names (`madre`), the bytes of a copy.  A metadata file that was created and
not yet filled is in `vacios`; the code reads it all the same and dies again
(`MuereConVacio`).  Starting again loads what is there and repairs nothing.  A
crash that leaves a file without its blocks, or its name, sets `caida`, and the
behaviour ends there: the next requests would only spread the damage.

`Archivos` knows no blocks: a name has a sequence of bytes, a write changes the
bytes it says, a truncate keeps the prefix, a read answers what is there, and no
request touches another file.  A crash (`Pierde`) may leave any bytes in the file
of the request and, if it was a truncate, in one other.  The mapping reads a file
through its metadata.

### `Interfaces`

What the kernel does with interfaces, one action per critical section.  The
thread of a connection is `hilo[c]`: `Pregunta` (`procesarConexionesIO` looks the
name up), `agregar_interfaz_lista`, then the loop of `atender_interfaz_*`
(`Toma`, `RecibeRespuesta`, `Devuelve`) and, once the connection is lost,
`Drena`, one request at a time, `quitar_interfaz_lista` and
`liberar_recursos_interfaz`.  The other end is `Lee`, `Responde`, `Muere`: a
process that dies with the request unread resets the connection, and `recv`
returns -1, which the code does not take for a loss.  The scheduler is
`Comprueba`, `Busca`, `Empuja`, `Avisa` (`slist_comprobate_io`,
`slist_buscar_interfaz`, `push_elemento_cola_io`, `sem_post`), with `kernel`
holding what it carries from one to the next.  A kill is `Mata` and then
`Recorre`, a place of a queue at a time.

A null or freed pointer that is followed, or an iterator over a list that another
thread changes, sets `caido`, and nothing is said of what comes next.

### `Instrucciones`, `CicloCPU` and `Maquina`

`Instrucciones` has the arithmetic of `instrucciones.c` and `conversores.c`:
registers of one byte and of a word, the promotions of C, numbers as bytes in
memory, the PC.  Bytes have `Byte` values and words `Palabra` bytes.

`CicloCPU` is the thread of the CPU (`RecibePcb`, `Calcula`, `EscribeMemoria`,
`PideIO`, `SinMemoria`, `Exit`, `PideRecurso`, `RecibeAviso`, `Chequea`), the
interrupt thread (`LlegaInterrupcion`), the quantum timer (`VenceQuantum`) and
what the kernel does with the contexts (`Despacha`, `Termina`, `FinDeQuantum`,
`BloqueaPorIO`, `InterfazInvalida`, `Concede`, `BloqueaPorRecurso`,
`RecursoInvalido`, `Despierta`, `Mata`).  A pcb on the socket is the list of
fields `enviar_pcb` writes, in its order, and `recibir_pcb` reads; an answer to
WAIT or SIGNAL goes on the same socket.  Which process is dispatched and what a
resource answers are left free: modules 1 and 3 have that.

`Maquina` knows no kernel: a process runs its program one instruction after
another on numbers modulo the size of its registers, and a request to the kernel
is counted.  The mapping reads the registers of a process where they are: in the
pcb the kernel keeps, in the CPU, or in the context that goes back.

## 4. The runs

Deadlock is checked in `Control_serie` only: the other systems stop when the
programs have ended and the user types nothing more, and the models stop too at
their bounds.

| run | shows |
|---|---|
| `Planificador_vrr` | VRR, two processes, one interface, a kill, fairness: no pcb lost or doubled, kernel and CPU agree on who runs, READY+ only for who has quantum left, a kill ends, restarts the scheduler and takes its victim to EXIT, who is in READY runs |
| `Planificador_rr` | RR with stops, starts, kills, changes of the degree and the loss of an interface: counts, permits and queues agree, and a kill searches a stopped scheduler |
| `Control_serie` | stops and starts as fast as they are typed, two interfaces, two kills that no command overlaps: the flag tells the truth about the permits, no deadlock, a kill has the scheduler for itself and leaves it as it was |
| `Control_dos_kills` | *violation*: two kills typed together split the four confirmations and wait for ever |
| `Recursos_ordenado` | three processes, one unit, preemption, kills of processes in READY: WAIT and SIGNAL implement the fair semaphore, the CPU is answered, who waits leaves the queue |
| `Recursos_kills` | every kind of kill and the loss of the interface: no pcb in two places, and, before the interface's thread releases anything, units add up, no wake-up is lost, no NULL is followed |
| `Recursos_kill_espera` | *violation*: killing a process that waits for a unit wakes the next one, and a unit has two holders |
| `Memoria_aislada` | two processes, three frames, a TLB of two entries (LRU), STDIN and STDOUT: frames have one owner, every translation in hand is current, each process sees a private memory |
| `Memoria_tlb` | *violation*: who shrinks and grows again is answered the old frame by the TLB (FIFO) |
| `DialFS_archivos` | three files on five blocks, any sequence of requests, a crash anywhere in them: no shared block, compaction in order, no bit leaked outside a compaction, the files of `Archivos`, and after a crash that breaks a file which one it may be |
| `Interfaces_perdidas` | three connections, two of one name, one that may be lost, a kill of each of two processes: the request taken out is the one that was served, no thread sleeps over a request, memory is misused only after a loss or after a kill removed a request that waited, names differ unless two connections raced, and every request ends |
| `CicloCPU_programas` | VRR, two processes, one of two programs and one that never stops, a kill: every instruction is charged once, kernel and CPU agree on what is on the socket, an interrupt only evicts whom it was sent for, a process lets the CPU go unless its interrupt was lost, and programs compute what `Maquina` does |

One type invariant is checked, in `Planificador_vrr`; the `TypeOK` of the other
modules says what their variables hold, and is a theorem in section 6 where the
module has one.

### Bounds, and why they are enough

- `MaxProcesos = 2`: one process runs while another waits, arrives, is killed
  or is served; every interaction of the scheduler is between two pcbs or
  between a pcb and a thread. The proofs cover any number.
- `Quantum = 2` under VRR, so that a burst may leave nothing, part or all of it;
  1 under RR, where what is left decides nothing.
- `Grados = {1, 2}`, `MaxBajadores = 1`: the degree goes up and down, with one
  pending reduction that may be waiting for a permit.
- `Matables`, `Desconectables`: which pids are killed (any, in `_rr`) and which
  interfaces may be lost.
- `MaxPendientes = 2` in `Control_serie`: two stoppers left over from old stops
  for each permit, enough to have one take the permit of a new start while
  another still waits.
  The proofs cover any number.
- `EnSerie`: nothing is typed while a kill is not done, nor a kill while a
  stopper waits; stops and starts are not limited by it. The positive run needs
  it: `Control_dos_kills` shows why for two kills, and section 5 for a kill after
  a stop.
- `MaxUnidades`: units a program holds of one resource; 2 in `Recursos_kills`, so
  that one release has more than one round. Programs give back only units they
  hold, which the code does not check. `MataEn` and `Desconecta` choose the kills
  and losses of an instance. One interrupt signal is in flight at a time.
- `TamPagina = 2`, three frames (four in `Memoria_tlb`), sizes 2 and 5, texts of
  1 and 4 bytes: an access may begin inside a page, cover a whole one and end
  inside a third, so each of the three kinds of piece occurs; two processes
  cannot both have what they ask for, so frames change owner. `Recrece` says
  whether a process that gave pages back may grow again.
- `TamBloque = 2`, five blocks, three names, sizes 3 and 5 after the 0 of a CREATE: sizes that are
  rounded up, a file in front of, between and behind others, a disk that fills.
  `Datos` has one byte to write, anywhere in a file. Names are interchangeable
  (symmetry). `Copias = {"adelante"}`: `memcpy` on overlapping areas is
  undefined; a copy from the first byte on is what the usual C libraries do when
  the destination is below the source, and with `{"atras"}` the same run finds
  `ImplementaArchivos` violated.
- Any number of crashes that break no file, and one that does.
- `Interfaces`: three connections, two of one name (the second may come while the
  first is being added, or after it left), of which one may be lost; two
  processes that ask any number of times, each killed at most once. One loss is
  enough for each thread to meet it at every point; the proofs cover any number.
- `CicloCPU`: `Byte = 4`, `Palabra = 2`: sums overflow both widths, a word takes
  more than one byte. `Quantum = 4`, `Retardo = 2`: two instructions are a
  quantum, and a burst may leave nothing, part or all of it. `MaxEnVuelo = 2`
  interrupts on their way, `MaxGasto = 3` instructions before the timer is heard,
  four bytes of memory. Programs jump, wrap, truncate, move bytes between
  registers of both sizes, ask for interfaces and resources, and run for ever.
- Programs are legal: they access pages and bytes of files they have and ask
  for no more blocks than exist; neither `memoria` nor the interface checks it.

### Fairness

- `Planificador` (`Justicia`): weak fairness of every kernel thread that can run,
  and strong fairness of the ones that wait for a permit that kills keep taking
  and posting back: glibc wakes a waiter of a semaphore that is posted again and
  again. Bursts end because the CPU always either finishes the instruction that
  blocks or is interrupted; a connected interface answers; the user starts the
  scheduler once. Nothing else is asked of the user.
- `ControlPlanificacion` (`SpecJusta`): sections end, threads that can run do,
  stoppers get a permit posted infinitely often. Nothing is asked of the keyboard.
- `Recursos` (`SpecJusta`): threads run, the interface answers, and programs end
  however often they are preempted (strong fairness of EXIT), without which a
  program may keep its unit for ever and no scheduler can help.

- `Interfaces` (`SpecJusta`): the thread of each connection, the scheduler and the
  kill run, and an interface that is alive reads and answers. Nobody has to
  connect, ask, die or kill.
- `CicloCPU` (`SpecJusta`): the CPU and the kernel run, a sleep of the timer ends,
  an interrupt that was sent arrives. Each of these is a thread that waits for
  nothing but its input.

`Memoria` and `DialFS` have no liveness properties.

## 5. What the violations are about

Each one contradicts a sentence written in the code, quoted in the findings of
`PROJECT.json`.  More disagreements were met that have no run of their own, and
the models state where their properties stop because of them:

- A request to an interface of type DIALFS under VRR renews the quantum and then
  finds it positive (`planificadorCP.c:507-513`, two `if`s that are not
  alternatives), so it comes back to READY+ with a full quantum.
  `PrioridadConResto` is checked, and proved, with `InterfacesFS = {}`; with
  interfaces of that type what is left is `PrioridadNuncaSinQuantum`.
- A kill typed right after a stop finds the flag down and searches at once, while
  the stoppers still wait for permits (`consola.c:275`, `294`).
  Under `EnSerie` that kill is not typed: starts and stops may pile up, a kill
  waits for them.
- WAIT tests, tests again and pushes with no mutex around the three
  (`planificadorCP.c:649-653`): a unit given back by the thread of an interface
  in between wakes nobody. `Cuadra`, `NadieEsperaEnVano` and `NoCae` are stated
  under `SinCarrera`, until the thread of an interface releases something.
- The flag of a kill replaces the motive of a WAIT or a SIGNAL
  (`planificadorCP.c:73`), and nobody answers the CPU, which takes the next pcb
  for the answer (`CPUAvisoAjeno`; `RecibeAviso` in `CicloCPU`, phase
  "desfasada"). `Dialogo` and `SueltaLaCPU` are stated until that happens
  (`cortado`).
- The slot of interrupts holds one: an interrupt that comes between the dispatch
  and the moment the CPU takes the pcb, or before an earlier one is looked at, is
  lost (`cicloInstruccion.c:528`), and the process runs on without it.
  `SueltaLaCPU` is stated until that happens (`ignorada`).
- A process ended by the loss of its interface keeps its slot of the degree
  (`conexiones.c:245`; `fifo.c:99` posts it for every other end):
  `GradoCuadra` counts those slots (`fugados`).
- A compaction places the file that grows after the others, at the first free
  block, and marks its blocks without asking whether they are all on the disk
  (`interfazDialFS.c:193`, `221`, `569`): when bits were leaked by an earlier one
  they may not be. `ColocarAlFinal` is enabled while they are.
- A connection that is reset is taken for one that answered
  (`conexiones.c:218`): `ServidaAntesDeSeguir` names the case.
- A kill that removes a request that waits leaves `hay_proceso_cola` one too high
  (`conexiones.c:237`): the thread wakes with an empty queue and, if a request
  comes before its turn, uses the one it already freed. `CaidaConCausa` says this
  is the only way there.
- Two interfaces of one name may both be accepted (`conexiones.c:86`):
  `NombreUnico` is stated until two connections cross (`cruzados`).
- A process pushed to an interface after its thread found the queue empty for the
  last time waits for ever: `SolicitudTermina` leaves it out (`tarde`).

Under FIFO no flag is raised and the kill of the running process is forgotten
when its burst ends for another reason; `CondenadoNoSigue` and `CondenadoTermina`
are about RR and VRR.

## 6. Proofs

TLAPS checks the theorems for every value of the constants that satisfies the
named assumptions (`ColasAssumption`, `PlanificadorAssumption`,
`ControlAssumption`, `RecursosAssumption`, `MMUAssumption`, `MemoriaAssumption`,
`DialFSAssumption`, `InterfacesAssumption`, `CicloAssumption`), which TLC evaluates
in the runs of the modules that declare them.  A theorem that needs more says so
in its ASSUME, and each of those is a bound of section 4: which kills and losses
happen, the order of a copy, whether commands overlap.

| property | theorem | further hypotheses |
|---|---|---|
| `TypeOK`, `UnSoloLugar`, `BuscaConTodoDetenido`, `CPUCoherente`, `ColasCubiertas`, `GradoCuadra` | `PlanificadorPruebas` | |
| `CondenadoNoSigue` | `PlanificadorPruebas` | RR or VRR |
| `PrioridadConResto` | `PlanificadorPruebas` | no interface of type DIALFS |
| `BanderaDiceLaVerdad`, `BusquedaEsExclusiva` | `ControlPruebas` | no command overlaps a kill (stops and starts may overlap) |
| `SinDuplicados`, `Cuadra`, `NadieEsperaEnVano`, `NoCae` | `RecursosPruebas` | |
| `UnLugar` | `RecursosPruebas` | the thread of an interface never releases |
| `ImplementaSemaforo` | `RecursosPruebas` | the same, and no kill of who waits for a unit |
| `MarcosDeUno` | `MemoriaPruebas` | |
| `TraduccionVigente` | `MemoriaPruebas` | who shrank does not grow again |
| `BloquesDeUno`, `CompactaEnOrden`, `CaidaDelimitada`, `SoloCompactarPierde` | `DialFSPruebas` | |
| `ImplementaArchivos` | `DialFSPruebas` | copies go from the first byte on |
| `SolicitudPrimera`, `NadieDuerme`, `CaidaConCausa`, `NombreUnico`, `ServidaAntesDeSeguir` | `InterfacesPruebas` | |
| `QuantumCobrado`, `Dialogo`, `DesalojoJustificado` | `CicloPruebas` | |

**`SecuenciasTeoremas`**: what is needed of sequences and of least elements of
sets of numbers.

**`PlanificadorPruebas`**: lemmas about `Colas` first (what pushing, popping and
moving do to the length of a queue, to the set of pids in it and to the absence
of repetitions; that moving a pid, `MudaPropiedades`, changes neither the set of
located pids nor the fact that each is in one place).  `IInv` is inductive and has
two layers.  `Base` says
what the state is made of: types, `UnSoloLugar`, which pid the creator thread
holds (`CreadorCoherente`), the four permits against the flag, the stoppers and
the kill in progress (`FichasCoherentes`) and `CPUCoherente`.  It is needed
first because the pops of the code are unguarded: that `FinDeEjecucion` moves a
pcb that exists, and the right one, is `CPUCoherente`, and that no second one is
dispatched meanwhile is the state of the short-term scheduler.  The counting
invariants `ColasCubiertas` and `GradoCuadra` then follow from one
lemma (`Mudanzas`: every step moves at most one pcb, from where to where), with
`SoloVRRPrioriza` (READY+ stays empty under FIFO and RR, whose scheduler never
looks at it) and `FugadosEnExit` (who was ended by a loss is in EXIT and is not
counted again).  From it follow `TipoCorrecto`,
`NingunProcesoSePierde`, `BuscaDetenido`, `CPUYKernelCoinciden`, `NadieVarado`
and `GradoSeConserva`.  They hold for the three algorithms, any number of
processes and interfaces, any degree, kills, stops and losses.  Two more parts of
`IInv` follow a pcb.  `CondenadosEncaminados`: who was killed is in EXIT, runs with
the flag raised, or is the request an interface serves with EXIT as its
destination; the other queues never see it again (`CondenadoNoSigue`, false under
FIFO, where no flag is raised).  `PrioridadConQuantum`: who is in READY+, or in an
interface on its way there, has between 1 and `Tope` of quantum, where `Tope` is a
whole quantum if there are interfaces of type DIALFS and one less if not.  The
first gives that nobody is dispatched from READY+ with nothing, DIALFS or not
(`PrioridadNuncaSinQuantum`), the second `PrioridadConResto`.

**`ControlPruebas`**: `TipoCorrecto` has no hypothesis: however many commands
overlap no count goes below zero.  `IInv` (types, `Turnos`: a kill runs
alone, with no stopper of the console left; `Confirmaciones`: confirmations against
stoppers and steps of a kill; `Banderas`: who may be between reading and writing the flag; and
`BanderaDiceLaVerdad`) is inductive under `UnaPorVez`: no command overlaps a kill,
or there are no kills. Stops and starts may pile up without bound but for
`MaxPendientes`, which the proof does not use.  `BanderaSiempre` and the refinement
`BusquedaExclusivaSiempre` follow from it.

**`RecursosPruebas`**: three invariants, each on top of the one before.  `Base`
holds in every state, races included.  `SinDuplicados` is not inductive: that a pop
does not take a pcb another thread has in its hands depends on what each thread
holds at each step (`Hilero`), on whose turn it is between the CPU and the
scheduler (`Turno`), and on what each process uses, has and waits for (`Cuentas`):
a program has all it uses, except the unit whose queue it is in or which is being
decided.  `Separados` is `SinDuplicados` queue by queue.
`Serie` is about the states before the thread of an interface releases
(`SinCarrera`): of the steps that change units only one thread is in the middle
(`Exclusivos`: what was read is still there, and a queue found not empty is still
so, which is `NoCae`), and no pcb is in no place (`Justos`).
`Contada` counts, for each resource, what Cardinality makes of the sets of units.
`Cuadrado` is the body of `Cuadra`.  `Ordenado` says that the units left, those
held, one for each place of the queue, one taken in advance by a WAIT that has not
decided (`Pedida`) and one that a killed process gives back without having had it
(`DeMas`) are the units configured; that while there is a queue no unit is free
beyond the one just given back (`Devuelta`), which with the threads at rest is
`NadieEsperaEnVano`; and that a unit given back is free, unless somebody was killed
while it waited.  The last part makes the pop of a release the `Entrega` of
`Semaforo`, and is what the finding `Recursos_kill_espera` breaks:
`UnidadesAlcanzan` proves that nothing else does.

**`MemoriaPruebas`**: frames have one owner, for any number of processes and
frames and any page size.  `MarcosDeUno` is not inductive: `AgregarPagina` takes
the first free frame without asking whether there is one, and frees and takes
interleave.  `IInv` adds `Vidas` (the kernel and the memory agree on which
processes live, and the one whose frames are being freed does not), `Ejecucion` (the CPU executes
at most one process, which is in no other hands) and `Presupuesto`: a RESIZE that
was told there is room never has more pages left to add than there are free
frames, nor more to give back than the process has.  `Presupuesto` is what makes
the count made in one critical section good in the later ones: other connections
only give frames back.  Each of the three steps that move frames has a lemma
about the tables alone (`UnaMas`, `UnaMenos`, `Ninguna`).

Its second half: under `~Recrece`, every translation in hand is current.
`TInv` says that an entry of the TLB of a process that never shrank is of a page
it has, and is right for the pages it has (`TLBSana`), that only who never shrank
grows (`SinRecrecer`), that what an instruction has translated is inside the
process and right (`AccesosSanos`), and so is what a request to an interface
carries (`PedidosSanos`).  The arithmetic of pages (`PaginasAdentro`,
`MarcoDeDireccion`) and what the TLB does with its entries
(`ReferenciaPropiedades`, `QuitarEntradaPropiedades`) are lemmas of their own.
`Memoria_tlb` shows the hypothesis is needed.

**`DialFSPruebas`**: `IInv` is the state of a disk that no crash broke (`Sano`) or
what `CaidaDelimitada` says of one that a crash did.  `BloquesDeUno` and
`CompactaEnOrden` need each other, that files end inside the disk (`Caben`), which
a request that is legal for its file (`PedidoValido`) keeps, and
`EnCompactacion`: clearing the bits of a file that moved may clear those of one yet
to move, but only once there is a hole before it.  A crash may stop any action
between two writes: `CaerAlto` and its lemmas go through them.
The refinement of `Archivos` rests on two facts about an area of the disk
(`ContenidoIgual`, `ContenidoCambia`): what is written outside it does not change
the file read through it, and what is written in it changes the bytes it says.
`IInv` is what says that the areas of two files are apart, at every write of every
action.  The order of the copy is used where a file moves onto an area that
overlaps its own.

**`InterfacesPruebas`**: for any number of connections, names, processes, losses
and kills, the six results listed in `PROJECT.json`.  `SolicitudPrimera` is not
inductive: `Devuelve` pops the queue and sends on the process of `solicitud_io`,
two things that agree only because nobody touches the first place of a queue in
between.  `IInv` says so (`Primera`, `Distintos`, `Bloqueados`), what the
scheduler carries between its four critical sections (`PeticionPid`: its process
is in no queue yet; `PeticionCon`: the interface it found was added;
`PeticionNombre`: its name was there, unless an interface leaves), that a kill
searches while the scheduler holds nothing (`Busqueda`), and two counts of
`hay_proceso_cola`: it covers the queue (`Cubierta`, from which nobody sleeps
over a request) and is exact where no kill removed a request that waited
(`Exacta`, from which nobody uses a freed one).  Lemmas say what each action does
to the queues (`SacaDe`, `MeteEn`: one place out, one in at the end), to the list
(`QuitarLista`, `AgregarLista`) and to the count of one connection (`TomaBien`,
`DevuelveBien`, ...); the names follow from `NombresLibres`: whoever is about to be
added has a name nobody else has, until two connections cross.

**`CicloPruebas`**: the dialogue of the kernel and the CPU is a sequence of stages
(`Ocioso`, `Enviado`, `Ejecutando`, `Chequeando`, `Pidiendo`, `Concedido`,
`Devuelto`, ...), and the inductive invariant is that one of them holds.  Each says
where the process in EXEC is, what is on the socket and how the copy of its pcb
that counts relates to what was charged and to the copy the kernel keeps;
`SinRespuesta` is the stage after a kill replaced a request, where the CPU takes a
pcb for an answer.  `QuantumCobrado`, `Dialogo` and `DesalojoJustificado` are read
off the stages.  `ProcesosAislados` is the part of `ImplementaMaquina` that is
about the kernel: for any programs, each step either runs on one process what
`Maquina` says, or one of the instructions on data (`SUM`, `SUB`, `MOV_IN`,
`MOV_OUT`, `COPY_STRING`) on that process alone, or changes the registers, the
memory and the requests of none, wherever the copies are.

### Only model-checked

- That `Memoria` implements `EspaciosPrivados`.
- The arithmetic of `ImplementaMaquina`: the instructions on data pass through
  `ConBytes`, a recursive function, and what a recursive definition computes for
  every input needs induction over data, whose theorems take an operator that no
  back end can instantiate. For the same reason the modules that are proved
  about declare no `RECURSIVE` operator, and sums over processes are
  cardinalities of sets of units in `Recursos` and `Semaforo`.
- Every liveness property (`ReadyEjecuta`, `PedidoTermina`, `CondenadoTermina`,
  `MataYReanuda`, `EsperaTermina`, `SolicitudTermina`, `SueltaLaCPU`): the prover
  does not do liveness under fairness or `ENABLED`.

## 7. What is not modelled

- Start-up, sockets, handshakes, serialisation and logs: they keep no state the
  rest depends on once connected. TCP is a channel that loses and reorders nothing.
- Parsing of console lines, of scripts and of the file of instructions;
  PROCESO_ESTADO and help, which only print.
- Programs that misuse what they are given: PC as an operand of SUM, SUB, JNZ or
  MOV is a null pointer in the CPU, an address past the end is not checked. No
  program of the repository does it, and `CicloAssumption` says so.
- A crash of the machine under DialFS: the process dies, the pages it wrote do
  not. Writing a configuration file (`config_save_in_file`) is one step.
- A crash of the kernel, the CPU or the memory: nothing of theirs is kept, and the
  system stops with them.
- The bytes of a request to an interface in `Interfaces` and `CicloCPU`: `Memoria`
  has the pieces of STDIN and STDOUT, `DialFS` what a file receives.
- An interface that is lost with a write in its socket that the memory serves
  after the process ended: in `Memoria` what a lost interface had sent is served
  before the loss.
