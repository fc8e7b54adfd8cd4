# A TLA+ development of We-Will-Fork-You (ansisop, 2016-1c)

The repository is a distributed simulator of an operating system: consoles send
programs to a kernel, the kernel schedules their PCBs on CPU processes, the CPUs
read and write memory in the UMC, and the UMC pages to a swap process. Every
part is a C process; they talk over TCP sockets.

Identifiers are those of the source, in Spanish; comments are in English.
Every TLC configuration runs as `tlc -workers 2 -config X.cfg M`, every proof
with `tlapm M.tla`.

## 1. Inventory

| component | state it keeps | operations | talks to |
|---|---|---|---|
| console (`src/consola`) | its socket | connect, send the program, print what comes, end | kernel |
| kernel (`src/nucleo`) | five queues of PCBs, `lista_programas_actuales`, `lista_cpus_conectadas`, `lista_relacion`, semaphores, shared variables | admit, dispatch, end of quantum, I/O, WAIT, SIGNAL, end of a program, loss of a console or of a CPU | consoles, CPUs, UMC |
| CPU (`src/cpu`) | the PCB it runs (`pc`, instruction index, stack index, `fin_stack`), `quantum_actual`, `stack_overflow`, `llego_sugus` | run a PCB for a quantum, fetch, the primitives, SIGUSR1 | kernel, UMC |
| UMC, paging (`src/umc`) | page tables with a clock hand, frames and their bitmap, TLB | NUEVO_PROGRAMA, read, write, change of process, FINALIZA_PROGRAMA | kernel, CPUs, swap |
| UMC, connections and console | the permits `programasquepuedencorrer`, `cant_programas_conectados`, `retardo` | handshake, close, flush tlb, flush memory, dump, retardo | paging, kernel, CPUs |
| swap (`src/swap`) | one file, its bitmap, the list of `t_control_swap` | admit, read, write, finish, compact | UMC |
| sockets (`src/sockets`) | what a packet still lacks, the `fd_set` | send, receive, select loop | kernel, UMC; all send and receive with it |
| serialisation (`src/general`) | none | encode and decode | all |

What is hard here:

* **Threads in the kernel.** Two select loops and a thread per admission share
  the lists under `mutexKernel`; the threads of `entrada_salida` call
  `enviar_a_cpu()` without it (nucleo.c:575-580), so a dispatch races with every
  handler and with other dispatches.
* **Peers that die.** A console or a CPU may close at any moment; the kernel has
  to forget its program in every list and tell the UMC exactly once.
* **Answers on a shared socket.** The threads that wait for the UMC's answer to
  NUEVO_PROGRAMA read the same descriptor.
* **Threads in the UMC.** One per CPU and one for the kernel, over page tables
  that no mutex covers; a replacement runs while FINALIZA_PROGRAMA frees the same
  pages if the CPU died.
* **Permits in the UMC.** Each thread of a connection takes one per request, the
  console takes all of them, and the select loop adds and removes them meanwhile.
* **A program that travels.** Its PCB is encoded and decoded at every change of
  CPU; its stack lives in pages that the CPU addresses by page and offset, its
  lines in others that a fetch may cross; SIGUSR1 and the end of the stack are
  noticed only after the line.
* **Packets in pieces.** TCP promises bytes, not packets; one thread puts them
  together for every client, and a client may die between two of them.
* **In-place compaction** in the swap, process by process, with the bitmap
  rebuilt on the way.
* **Widths.** Several decoders read an `int` through a `char *`.

What makes each component correct: the kernel loses and duplicates no PCB, its
lists agree, a CPU gets its own answers, no program starves and none runs after
it was finished; the UMC gives a frame to one page, keeps to `MARCO_X_PROC`, and
with its TLB, its clock and its write-backs is still just a memory, and neither
its requests nor its console wait for ever; the CPU gives a program the variables,
calls and prints of its text, wherever and in however many pieces it runs; the swap
keeps each process's pages intact across compactions and refuses a program only
when the file is really full; the sockets hand over every packet that was sent, as
it was sent, and one client cannot hurt another. `PROJECT.json` lists the hazards one by one, at
their lines, with the properties that cover them.

## 2. Modules

| module | models | role |
|---|---|---|
| `Nucleo` | nucleo.c, estados.c, the protocol of cpu.c and consola.c | concurrent state machine |
| `NucleoMC`, `NucleoProofs`, `NucleoSecuencial` | | values for TLC; the TLAPS proofs: types and places of the PCBs, then the kernel without I/O threads |
| `SwapAbs` | what the swap promises | abstract specification |
| `Swap` | funciones_swap.c, swap.c, operaciones_swap.c | implements `SwapAbs` |
| `SwapMC`, `SwapProofs` | | values for TLC; the TLAPS proofs of the invariants and of the refinement |
| `Reloj` | elegir_victima_clock, elegir_victima_clock_m | the clock as a definition, no state |
| `RelojBucle` | the same functions, loop by loop | state machine, shown equal to `Reloj` |
| `RelojBucleProofs` | | the TLAPS proofs |
| `MemoriaAbs` | what the UMC promises to a CPU | abstract specification |
| `Umc` | Conexiones_Umc.c, estructuras_umc.c | EXTENDS `Reloj`, implements `MemoriaAbs` |
| `UmcMC`, `UmcProofs` | | values for TLC; the TLAPS proofs of the invariants and of the refinement |
| `UmcConsola` | Consola_Umc.c, and handshakes, closes and permits of Conexiones_Umc.c | concurrent state machine |
| `UmcConsolaProofs` | | the TLAPS proofs |
| `Fetch` | fetch_instruction of cpu.c, the instruction index of nucleo.c | state machine |
| `AnsisopAbs` | what a program is promised | abstract specification |
| `Cpu` | correr_pcb of cpu.c, primitivas.c, pcb.c, Operaciones_umc.c | EXTENDS `Fetch`, implements `AnsisopAbs` |
| `CpuMC`, `CpuProofs` | | values for TLC; the TLAPS proofs: the fetch, the serialisation, the invariants of the interpreter, the refinement of `AnsisopAbs` |
| `Sockets` | Sockets.c | concurrent state machine |
| `SocketsProofs` | | the TLAPS proofs |

### Nucleo

A handler runs under `mutexKernel`, so it is one action up to where a thread of
`entrada_salida`, which does not take that mutex, can see the difference.
`enviar_a_cpu()` is five actions (`buscar`, `sacar`, `relacionar`, `ejecutar`,
`enviar`): find a free CPU, pop Ready, add the relation, push into Exec, send.
`desbloquear_pcb` is two, because it leaves Blocked under one mutex
(estados.c:169) and enters Ready under another (:172): `Desbloquear` takes the PCB
out and leaves it in the hands of the thread (`mover`), `MoverAReady` puts it in.
The handler of WAIT frees its CPU before it answers (`Responder`), that of SIGUSR1
before it takes the CPU out of its list (`EliminarCpu`). What else a handler does
is one action: of its accesses to what those threads use (Ready, Exec, the
CPUs, the relations) either there is one, or a thread that comes in between
does what it does after or before all of them. `hilos` says where each thread is;
`hilos[Kernel]` is whoever holds the mutex, the others are `entrada_salida`
threads. The pid, not the pointer, names a PCB and its console; a descriptor is
named by its peer, so a number reused by the system is outside the model.
`canal` and `aCpu` are the two directions of a CPU's socket. `enviar()` to a
peer that closed is lost or raises SIGPIPE; on a descriptor the kernel itself
closed, the loop of Sockets.c:123-127 never ends and the thread is `colgado`.

What a program does is not interpreted: a running CPU sends any message that
`Instrucciones` lists. Printing, the name of an I/O device and the length of a
quantum are left out.

### Swap

One action per request. `compactar()` is a start (clear the bitmap), one action
per `moverProcesos` and an end that places the program that was waiting; the
swap serves nobody else in between, as in the code. A position of -1 does not
appear because `SiempreHayHueco` proves that it cannot. `Char` is the decoding
of an id; `Exactos` the texts whose final NUL ends a page (see section 5).

### Reloj and RelojBucle

`Reloj` gives the victim, the hand and the table after a search by a `CHOOSE`
over distances from the hand. `RelojBucle` is the code: its `for` loops, one
iteration per step, with `paginas`, `manecilla` and the pass it is in. `Umc`
uses the definition; the run `reloj` is why that is right.

### Umc

A request of a CPU is cut where another thread can get in: the TLB's mutex,
`memoriaposta`, and the mutex of the conversation with the swap. So a page fault
is `BuscarPaginaEnTabla`, `ElegirMarco` or `ElegirVictima` (with the write-back),
`LeerDeSwap`, `InstalarEnMarco` or `PisarVictima`, then the TLB and the access.
`FINALIZA_PROGRAMA` is the swap's OK, `QuitarTabla`, and per page `MirarMarco`
and `EliminarPaginas`. The exchange with the swap is one step because the swap
is sequential and `mutex` covers it; the swap is a memory of pages, as `SwapAbs`
has it.

A thread that uses an entry after `free` sets `umc = "indefinida"` and the model
stops there: C promises nothing of what follows, and neither do the properties.
`exit` and NULL dereferences set `umc = "muerta"`. `proceso_activo` is
uninitialised in the code, so `Init` leaves it open. Two facts of the code that
look like slips are kept: FINALIZA_PROGRAMA and CAMBIO_PROCESO_ACTIVO remove only
one TLB entry of the process, and a hit in the TLB does not set `uso`.

`Visible(p)` is the refinement: a page is what its frame holds when it is
present, else its copy in the swap. It is defined in the middle of a fault too,
and there a fault changes no page of `MemoriaAbs`: only `Acceder` does.
The swap answers OK to a write for a process it forgot, and the page goes where
the file position is (funciones_swap.c:259): `TrasEscribir` then says "some page".

`PisarVictima` writes the frame and the two entries in one step. The code holds
no mutex there; while the CPU lives no other thread looks at that process, so the
step loses nothing. Once the CPU died, FINALIZA_PROGRAMA could also get between
those three assignments; the model has it before and after them only.

### UmcConsola

The semaphore, its counter and who is where: the select loop (`AtenderSaludo`,
`Contar`, `Permitir`; `CerrarConexion`, `Quitar`), the thread of each connection
(`Recibir`, `EsperarPermiso`, `Atender`, `Soltar`) and the console (`MirarCuantos`
is the test of its loop, which reads the counter at every turn). A handshake is
three steps because its thread already serves requests before the connection is
counted. `Atender` is a whole request of `Umc`; `TerminarComando` a whole
command. The flushes of `Umc` run only when `NadieCorre`: `ComandoExclusivo` is
the condition under which that is what the code does.

### Fetch, Cpu and AnsisopAbs

`Fetch` reads an instruction, request by request; a byte of the text is named by
its position. `Cpu` puts it in the loop of `correr_pcb`. A line is a phase
(`linea`) and one or more primitives: definitions, a call with its arguments, or
a single one. What the parser of the commons library would find in the text is
not interpreted: any line may come, as long as the program is well formed (names
that exist, `return` inside a function, no end of text without `end`).

`asignar`, `dereferenciar` and `llamarConRetorno` take an address, and no line of
the code looks at what it is: tests/vector.ansisop does `*&a+i = 0` and
`print *&a+i`. `Destinos` are the addresses that a line may use: those of the names
it can see, and `Punteros`, a constant: whatever else the program computes, or was
given as an argument. It may be a cell of any call, under way or over, part of two
cells, the text, or nothing. `Escribir` and `Leer` follow it through page and
offset: a cell takes the value; a word across two cells leaves something in both; one
that ends beyond its page (the UMC copies it over the next frame), or is outside the
stack (of the pages, to read), makes the program `pisado`.

The PCB is a record with the fields of `t_pcb`. `Serializar` writes it as a
sequence of words and `Deserializar` reads it back with the code's offsets, each
`int` that the code reads through a `char *` going through `Char`; every change of
hands (`Entregar`, `CorrerPcb`) applies both. `memoria` holds the cells of the
stack. `Escribir` sends the write through `deserializar_pedido_almacenar`. The UMC is a memory
(`MemoriaAbs`), whose cells hold anything at first, since the swap does not clear
the pages of the processes before; it refuses only fetches (`NoOkSoloAlEmpezar`).
In `lugar = "nucleo"` the program waits for a CPU, a device or a semaphore;
`CorrerPcb` gives it the same CPU process or another.

`AnsisopAbs` has no pages, positions or PCBs: a stack of calls whose names have
addresses, one after the other in the order of the definitions; what each address
holds; and a number of definitions. That much of addresses is what a program that
computes them is promised (`Poner`): writing to the address of a variable, by name or
computed, changes that variable and nothing else; another address may spoil those it
overlaps, any variable when it is not of the stack, or put an end to all
promises. Through the refinement mapping a name stands for the address its entry
points at, so a variable that overlaps another or is not where it should be, a result
that goes to the wrong place, or a counter that the wire changes is a step the
abstract program cannot make. One thing it does know about: `senal`
(`llego_sugus`), because an overflow in the line in which the CPU is told to stop
is forgotten (cpu.c:202 comes before :214) and the program goes on elsewhere. After
that its text may name what it could not define; such lines are not well formed
any more and are left out.

When SIGUSR1 arrives in the line that blocks or ends the program, correr_pcb
serialises a PCB that was freed: `lugar = "indefinido"`, and nothing more is said;
neither is it after `pisado`.

### Sockets

A byte is named by its packet and its place, so the order and the borders of
packets are all there is. `Send` is a turn of the loop of `enviar`; the server is a
turn of `for`, a `recv` or a callback per step (`servidor` says where it is). A
`recv` gives what is there, up to what was asked, as TCP does; the end of a
connection comes after its bytes, either as 0 or once as -1 and then as 0. The
three ways in which the code loses control are states in which the model stops:
the loop returned (`terminado`), the sum of the data never reaches its size
(`girando`), or a field of the header was read in part (`desfasado`), after which
the program runs on with uninitialised bytes. `Nucleo` and `UmcConsola` take
whole packets: this module is under which conditions they may.

## 3. Runs

| run | bounds | shows |
|---|---|---|
| `nucleo_semaforos` | 3 consoles, 2 CPUs, a semaphore at 1 | queues, relations, flags, semaphores and CPUs agree; no idle CPU while a PCB is ready |
| `nucleo_fallas` | 2 consoles, 1 CPU, 1 I/O thread, every failure | every PCB in one queue or in the hands of one thread, no dangling relation |
| `nucleo_consolas` | 2 consoles that die, 2 CPUs | nobody runs after FINALIZA_PROGRAMA, which is sent once |
| `nucleo_vivo` | 2 consoles, 1 CPU, 2 I/O threads, fairness | every console hears how its program ended; no thread hangs |
| `swap` | 3 processes of 1-2 pages, 4 cells, 2 contents, requests for processes that ended too | regions, bitmap, compaction; `Swap` implements `SwapAbs` |
| `reloj` | every table of 4 pages, in memory or not, every hand, both algorithms | the loops are the clock, and end |
| `umc_datos` | 2 CPUs, 2+1 pages, 2 frames, TLB of 2, 2 contents | `Umc` implements `MemoriaAbs`; frames exclusive, none lost; NO_OK only to a program without frames |
| `umc_fallas` | 2 CPUs that die, 2+2 pages, 2 frames, MARCO_X_PROC 1, TLB of 2, both flushes | MARCO_X_PROC respected, TLB coherent |
| `umc_consola` | the kernel and a CPU, deaths and early closes, fairness | permits add up; a command runs alone; requests and commands do not starve |
| `cpu` | 3 instructions over 3 pages of 8 bytes, 2 pages of stack, 1 letter, 2 arguments, 3 computed addresses, quantum 2, 2 entries of the stack index | `Cpu` implements `AnsisopAbs`; variables apart; PCB and instructions exact |
| `sockets` | 2 clients, 2 packets of 1 or 3 bytes of data, header of 2+2, both ways to die, fairness | packets handled as sent, also of senders that are gone; only a packet cut in two brings the server down |

Why these are enough to be interesting: two programs on two CPUs and one more
that waits are the least for two dispatches, a queue and a semaphore with two
waiters to meet; one I/O thread beside the handlers races with them, two race
with each other. In the swap three processes and four cells give a hole before,
between and after; a compaction then moves a process over its own old place.
In `umc_datos` three pages share two frames, so both branches of a fault (own
victim, no memory at all) and both of a replacement (clean, dirty) occur, and the
TLB is smaller than the pages. `umc_fallas` has a limit of one frame below what a
process wants, so every second access is a replacement with somebody else's
fault, flush, death or FINALIZA in the middle. In `umc_consola` two clients and
the console are three parties for a semaphore of at most two permits; the proofs
cover any number. The instructions of `cpu` lie inside a page, across three, and up
to the end of one; the stack has room for four definitions, two a page, so it can
end in a line of definitions, among the arguments of a call, and on the way back. One
letter is enough, since each call has its own and arguments are names too. Of the
computed addresses (`Punteros`) 36 is the last cell, which is nobody's until the fourth
definition; 26 has half of the first cell and half of the second; a word at 30 runs
past its page.

In `sockets` a header field, and the data, have a middle to be cut in, the data are
long enough for a `recv` that takes back a byte and for one that does not, and the
two packets may come from one client or from both, in one round or in two.

Bounds that are not in the code: `MaxPaquetes`, `MaxCanal` (unread messages of a CPU; a CPU that
waits for an answer has at most one anyway), `MaxValor` (value of a semaphore),
`HilosIO`, `MaxEntradas` (nested calls, which the stack bounds anyway once they
define something). `finalizaciones` counts up to 2. Symmetry is used over consoles, CPUs
and I/O threads, which no operator orders, and not in the liveness runs nor over
pids where `Min` or page counts tell them apart.

`CHECK_DEADLOCK FALSE` where the system really may rest: the kernel with every
console served or every program blocked, the UMC when every program ended, the
clock once it chose, the program once it ended, the UMC's console once the UMC
exited, the sockets with nothing to read. The swap's run checks deadlock.

### Fairness

* `nucleo_vivo`: strong fairness for the handlers of the select loops (`select`
  returns what is ready and the handlers of a round all run; the mutex may be
  taken by others meanwhile), weak fairness for the steps of a thread that is
  running, and strong fairness that a program that is given the CPU again and
  again ends: programs are finite texts, and no fault of the kernel is masked by it.
* `swap`: weak fairness of the steps of a compaction, which is a loop
  with no waiting in it.
* `reloj`: weak fairness of the iterations, for the same reason.
* `umc_consola`: weak fairness of every thread that can go on and of the operator
  who presses Enter; strong fairness of each `sem_wait`, since POSIX promises no
  order but nobody keeps a permit, and a thread that gives one back returns only
  after a round trip to its client and the delay of the UMC. No fairness for
  clients, deaths or commands. `PedidoRespondido` and `ComandoLlega` except a UMC
  that exited and a connection closed before its handshake (next section).

* `sockets`: weak fairness of the server's thread and of an `enviar()` that
  began, whose loop does nothing but send. No fairness for new packets or deaths.

### Where the code and its words differ

One run expects a violation; `PROJECT.json` quotes the line it contradicts.

* `umc_marco_ajeno` (29 steps): a CPU dies in a replacement, its program is
  finished, and the frame of the victim moves to a page that `eliminarPaginas`
  has not reached. The frame is freed twice; the second time a live process
  already has it.

More of them are kept as configurations, outside the list of runs:

| configuration | property | what TLC shows |
|---|---|---|
| `NucleoConsolaCruzada.cfg` | `ConsolaCorrecta` | two consoles start together; the thread of one reads the other's answer from the UMC, and each pid gets the other console, whatever the log of nucleo.c:412 says ("a la consola ... que pudo poner en Ready su PCB") |
| `NucleoDobleDespacho.cfg` | `UnProcesoPorCpu` | two threads in `enviar_a_cpu()` take the same free CPU |
| `NucleoRevive.cfg` | `NuncaRevive` | a console dies while an I/O thread has its PCB between Blocked and Ready (estados.c:169 and :172): `cerrar_socket_consola` finds it in no queue, the UMC is told FINALIZA_PROGRAMA, and then the PCB enters Ready. The same between `queue_pop` and `relacionar_cpu_programa` |
| `NucleoZombi.cfg` | `SinZombis` | the entry of a dead console stays with socket -1 |
| `NucleoConsolaMuere.cfg` | `NucleoSano` | a console dies while its program is loaded: `enviar()` never returns, with `mutexKernel` taken |
| `NucleoSigusr1.cfg` | `SigusrMientrasCorria` | SIGUSR1 in the last instruction: the message has no relation any more, NULL is dereferenced |
| `NucleoWaitPisado.cfg` | `RespuestaDeWait` | WAIT releases its CPU before it answers NO_OK; an I/O thread dispatches another PCB to it, and the CPU takes QUANTUM for the answer and exits saying that the kernel is gone |
| `UmcConsolaTarde.cfg` (module `UmcConsola`) | `BloqueoTotal` | "bloqueo todos los posibles programas" (Consola_Umc.c:256) does not cover a handshake that ends after the last permit was taken |
| `UmcConsolaCierre.cfg` (module `UmcConsola`) | `PedidoSiempreRespondido` | a connection closed before its handshake takes the permit of another for ever |
| `CpuLiberado.cfg` (module `CpuMC`) | `SinUsarLiberado` | SIGUSR1 in a line that blocks or ends the program: its freed PCB is serialised |
| `CpuPaginas.cfg` (module `CpuMC`) | `VariablesSeparadas` | a program of 129 pages gets a `cant_pags_totales` of -127 from the wire: it never overflows |
| `SwapPidGrande.cfg` | `AdmitidoEsConocido` | pid 130 is stored as -126 |
| `SwapCodigoExacto.cfg` | `CodigoGrabado` | a text that fills its last page is wiped by its padding |
| `SocketsCortado.cfg` (module `Sockets`) | `ServidorSobrevive` | "Corre indefinidamente" (Sockets.h:79), but a client that dies inside a packet ends the loop or makes it spin |
| `SocketsCabecera.cfg` (module `Sockets`) | `CabeceraEntera` | the header of a packet is read in part, and the rest of it is not initialised |

They bound what the passing runs may claim. With consoles that die,
`SemaforoContable` and `TrabajoConservado` fail (a SIGNAL is spent on a dead
process; the end of a dead console's program calls no dispatch). With I/O
threads, `RelacionesCoherentes` fails (the double dispatch), and with deaths
too, `NuncaRevive` and `FinalizaUnaVez`. With SIGUSR1, `NucleoSano` fails. Each
property is checked in the widest environment where the code satisfies it, and
`CadaPcbEnUnLugar` and `RelacionSinColgar` hold in all of them at once, but for
SIGNAL in the presence of I/O and deaths, where the code reaches a use after
free. `Umc`'s data, likewise, are checked without CPUs that die.

## 4. Proofs

`NucleoProofs` and `NucleoSecuencial` are about the kernel, for every finite set of
consoles, every set of CPUs, semaphores and threads, and every bound. The invariant has five layers,
each on top of the ones before:

* `TInv`, the types, and that a pid is handed out once per admission (`CuentaDePids`).
* `LInv`, the places. `Reparto`: the pids handed out are split among the five queues
  and the threads that hold one, between `queue_pop` and `moverA_colaExec` or between
  the two halves of `desbloquear_pcb`; no two threads hold the same one (`UnaMano`).
  `Entradas`: who may still run has an entry. `Transito`: an admission is a request to
  the UMC, an answer or a thread that read it, one of them. `Relaciones`: a relation is
  of a PCB in Exec or about to be pushed there (`EnCamino`), and no PCB has two.
* `SInv`, what is said between the kernel and each CPU. `Hablan` gives for every CPU the
  state of its conversation (`Charla`) over both directions of the socket: what may be
  unread when the CPU is idle, when it runs and when it waits, whom those messages may
  be about, and what the holder of the mutex owes it. `UnaPorCpu` and `Despachando` are
  the kernel's side, `Finales` is that the UMC was told only of programs in Exit.
  With them goes `EInv`: Exec holds the PCBs that have a relation, but for the one that
  the holder of the mutex is about to push.
* `CInv`, the counts. `Cuentas`: a semaphore's value is its queue. `Despacho`: at each of
  the steps of `enviar_a_cpu()`, how many PCBs may be ready and CPUs free;
  a handler readies at most one PCB and frees at most one CPU, and nobody was ready
  or no CPU was free before, so its one call is enough. `Consolado` and `Conectadas` give the handlers the
  consoles and CPUs they look up.
* `VInv`: nothing hangs and no CPU closes.

No property is inductive alone. `CadaPcbEnUnLugar` needs `Relaciones`, since most
handlers move the PCB of a relation and not the one of a message; `CpuDeAcuerdo` needs
what is still in the channel when the CPU is given something else;
`NuncaRevive` needs the same, for the PCB that is on its way to a CPU when its console
dies; `TrabajoConservado` says nothing of the steps between two calls, and those are
where it is kept.

The theorems differ in what may happen, and each hypothesis is there because of an
execution that TLC finds (section 3) when it is dropped, or else the text says so:

| theorems | hypothesis | without it |
|---|---|---|
| `TipoCorrecto` (`TypeOK`) | none | |
| `UnLugar` (`CadaPcbEnUnLugar`), `NingunoSeDescarta` (`ListoTienePrograma`), `NoCuelgan` (`RelacionSinColgar`) | `Repartida`: no SIGUSR1; I/O or WAIT, not both | see below |
| `Coherentes` (`RelacionesCoherentes`), `DeAcuerdo` (`CpuDeAcuerdo`), `UnaFinalizacion` (`FinalizaUnaVez`), `MuertoNoCorre` (`NuncaRevive`), `UnProceso` (`UnProcesoPorCpu`), `LeeSuRespuesta` (`RespuestaDeWait`) | `Secuencial`: no I/O, no SIGUSR1; consoles and CPUs die at any moment | `NucleoDobleDespacho`, `NucleoWaitPisado`, `NucleoRevive` |
| `SemaforosCuentan` (`SemaforoContable`), `NadieEspera` (`TrabajoConservado`) | `ConConsolas`: also no console dies before its program ended | a SIGNAL is spent on a dead process; the end of a dead console's program frees a CPU and dispatches nothing |
| `SiempreSano` (`NucleoSano`) | `SinFallas`: also no CPU dies | `NucleoConsolaMuere`, `NucleoSigusr1` |

`UnLugar` does not say that a PCB is always in a queue: in the hands of a thread it is
in none, and whoever looks for it then does not find it (`NucleoRevive`). It says
that the thread is one, that nobody else has the PCB, and hence that it is neither
lost nor queued twice when the thread is done.

`Repartida` is there because a WAIT that an I/O thread's double dispatch sends to the
relation of another PCB (the step `Acuerdo` excludes) puts one PCB in two places. With
I/O, WAIT, SIGNAL and deaths, three consoles and one CPU, TLC
reaches in some fifty steps a relation whose entry was freed; with two consoles it
does not, which is what `nucleo_fallas` shows. So that run goes where the theorem
does not (SIGUSR1, and I/O with WAIT), and the theorem where no run does (any
number of PCBs). `SIGUSR1` is left out of the proofs and not known to be needed for
`UnLugar`: its handler finishes the PCB that the message names and removes the
relation of the CPU that sent it, so the proof would need that both are the same.
`RespuestaDeWait` and `UnProcesoPorCpu` are the properties that two of the
configurations of section 3 refute: the theorems say that the threads of
`entrada_salida` are the only reason.

`KernelReparte`, `KernelSecuencial` and `KernelConConsolas` are the inductive invariants
themselves; there is one lemma per handler and layer, from `Init` up. The assumptions:
a finite set of consoles, whose names are not those of the special values, and
initial semaphores that are not negative. The runs evaluate them.

`SwapProofs` proves, for every file size, set of pids, page counts and texts
that the assumptions of `Swap` admit:

* `Invariante`: `Spec => []IInv`, with
  `IInv == TypeOK /\ Separadas /\ BitmapExacto /\ NoPisaPendientes /\ CompactacionEnOrden`;
* from it `Tipos`, `PaginasPrivadas` (`RegionesDisjuntas`), `BitmapSinFugas`
  (`BitmapExacto`), `CompactarNoPisa` (`NoPisaPendientes`) and `SiempreHayHueco`
  (`CompactarHaceLugar`).

`RegionesDisjuntas` alone is not inductive: a process that moves lands at
`primerPosicionVacia`, and only `NoPisaPendientes` says that every process still
to move starts above it; an admission needs `BitmapExacto`, since it looks at the
bitmap and not at the list. `CompactacionEnOrden` says that the processes that
moved end at or below `primerPosicionVacia` and that the pending program is new
and well formed. `SiempreHayHueco` is then a count: when all have moved,
the occupied cells are `0 .. primerPosicionVacia - 1`, so the free ones are an
interval as large as their number, which `verificarPaginasLibres` had compared
with the request. That is the invariant `Cuenta` (proved on top of `IInv`); the
lemmas `LibresSonElResto`, `MoverCuenta` and `HayHueco` carry the cardinalities.

The assumptions: a file of at least one page, page counts of 1 to 127 and pids
whose low bytes differ (that is where `Char` is faithful), `Cero` among the
contents. All are evaluated by the run of the swap.

`SwapProofs` also proves `Implementa`: `SinDesbordes => (Spec => ImplementaAbs)`. Under the
mapping of section 2 an admission, a write and an end are the steps of `SwapAbs` of the
same name; a read, a search of space and every step of a compaction leave the abstract
memory as it is (`MoverTartamudea`: moving a process moves its pages with it).
`SinDesbordes` says what section 3 shows to be needed: no text fills its last page
exactly (`Exactos = {}`) and pids are below 128. The refinement needs one invariant
more, `PedidoEnPie`: the program that waits for the compaction is still the one that was
asked for. That the swap accepts exactly when `SwapAbs` does is `Cuenta` again
(`LibresCuenta`, `AgregarAdmite`).

`UmcProofs` proves, for every number of CPUs, frames, pages, programs, contents and
entries of the TLB, with both clocks, every command, and CPUs that die or not:

* `Invariante`: `Spec => []IInv`, and from it `TipoCorrecto` (`TypeOK`),
  `LimiteRespetado` (`LimiteDeMarcos`), `MarcoSiempreReservado` (`MarcoReservado`),
  `TlbSiempreCoherente` (`TlbCoherente`) and the action property
  `NoOkSoloAlPrincipio` (`NoOkSoloAlEmpezar`);
* `SinFallasMarcosExclusivos`: if no CPU dies, `Spec => []MarcosExclusivos`. The
  hypothesis is needed: `umc_marco_ajeno` shows what happens without it.

None of these is inductive alone, because what a thread read of the page table is
old when it acts on it. `PasoCoherente(c)` says what is still true of it: the page it
faults on is not in memory; a thread that takes a free frame has fewer than
`MARCO_X_PROC` pages; the victim it chose is another page, in memory unless the
entry was freed. That survives the steps of the others because of
`UnHiloPorProceso`: no two requests, and no two CPUs, are about one process, also
when a CPU died (its program is then `abortado`, and nobody runs it again).
`Programas` ties the kernel's thread to the programs that ended, `Reservas` is the
mutex of the frames, and `Tlb` adds to `TlbCoherente` that no thread that still has to
load a page finds it in the TLB. For `MarcosExclusivos`, `JInv` adds that the frame
which `eliminarPaginas` read is still that of the page when it frees it
(`MarcoMirado`): without deaths the process being finished has no request left.
There is one lemma per operation; `QuienMueveMarcos` says that only
`InstalarEnMarco`, `PisarVictima` and `EliminarPaginas` move frames. That the clocks
choose a page in memory without bit of use is `VictimaEn`, from the definitions of
`Reloj`, and `MinExiste` gives the least element of a set without induction, from
the well-foundedness of finite subsets.

`UmcProofs` also proves `ImplementaLaMemoria`: if no CPU dies, `Spec => ImplementaAbs`, the
paging is the memory of `MemoriaAbs`. A request, its answer, an admission, an end and a
return to the kernel are the steps of that name; a fault, a replacement by either clock,
a write-back, the TLB, the commands of the console and `eliminarPaginas` change nothing
that a CPU can see. On top of `IInv` and `JInv` it needs `KInv`:

* `CopiasFieles`: a page in memory that is not marked `modificado` is what the swap has
  (so a victim may be dropped without writing it back);
* `HilosFieles`: what `leerDeSwap` returned is still what the swap has when it is
  installed, and the frame of a victim holds what was saved of it until it is
  overwritten (so nobody reads the old page through the new one, or the reverse);
* `NuevosEnBlanco`: a program that was not admitted yet has nothing anywhere.

Each process is changed by one thread: `FielesEstables` says that `KInv` survives a step
that leaves the other processes alone (`Quieto`), and `OtrosQuietos` gets that from
`MarcosDistintos`, since a frame that is written is nobody else's. That is where deaths
of CPUs matter: a frame may then be of two processes, and the mapping breaks with it.

The assumptions are those of `Umc`: at least one page a program, one frame, one
frame per process. All are evaluated by the runs of the UMC.

`RelojBucleProofs` proves, for every number of pages, every page table with a page in
memory and every hand, that the loops of both clocks compute the definitions of
`Reloj`: `BucleEsReloj` (`EligeLaDelReloj`: victim, bits of use and hand) and
`VictimaPorClases` (`RespetaLasClases`), from `Invariante`. So what `Umc` takes as one
step, under the mutex of the frames, is what the loops do. `IInv` says where the hand is
in the turn that began at the call: the pages it went past in this turn (`Pasada`) are
none of the class being searched, and they, or all of them from the second turn on,
have lost their bit of use. There is one predicate per turn (`PrimeraVuelta`,
`SegundaVuelta` of CLOCK; `BuscaLimpia`, `BuscaSinUso`, `OtraVezLimpia`,
`OtraVezCualquiera` of CLOCK-M); a turn that ends without a victim shows that its class
is empty, and the last turn cannot end, since its class is that of the pages in
memory. `Turno` is the arithmetic of the hand: one step adds one page to those it went
past, and the step back to where it stood has gone past all. In CLOCK-M `Distancia` adds
that the counter of each `for` is how far the hand is, so that the loop ends exactly
there.

`UmcConsolaProofs` proves, for every finite set of clients, `Invariante`
(`IInv == TypeOK /\ SaludoSinHilo /\ PermisosCuadran /\ CuentaDeLaConsola`), and
from it `Tipos`, `PermisosConservados` (`PermisosCuadran`) and `ComandoSolo`
(`ComandoExclusivo`). The sum of permits is inductive with the types;
`ComandoExclusivo` needs `CuentaDeLaConsola` as well: as long as nothing
interferes, the console holds exactly what its loop counted, so at the command it
holds `cant`, and the sum leaves nothing for a thread.

`CpuProofs` has four parts.

* The fetch. Of `SpecFetch`, for every page size and every table of
  instructions: `TextoExacto` (`InstruccionExacta`) and `PedidosAcotados`
  (`PedidosEnSuPagina`: no request leaves its page or exceeds the buffer), from
  the invariant of the while: either all was read, or the read ends at the end of a
  page. `ComienzoExacto` says that dividing a start into page and offset and
  putting them together again loses nothing.
* The serialisation. `SerializacionExacta`: `Viaje(p) = p` for every PCB `p` whose
  counters are below 128 (`PcbChico`), whatever its code, calls and variables. An entry
  starts where the words of the ones before it end (`Tramos`, from `JuntoEs` on the
  concatenation), and the loop of `deserializar` stands there when it reads it
  (`Bucle`). Both are inductions; their theorems cannot be used (they take an operator),
  so `Induccion` proves them by the least counterexample.
* The interpreter. `InvarianteCpu`: `Spec /\ []Cabe => [](CpuInv /\ FetchInv)`, for every
  program, page size, stack and quantum, with and without SIGUSR1. `CpuInv` is
  `Globales` (types), `Marcha` (a fetch goes on only between two lines of a program that
  runs, and there pc is a line of the text), `DelPrograma` (pid, code and
  pages are the program's, the counters are in its range) and `PilaBien`: `fin_stack` is
  a cell or the end of the stack; in every entry the arguments
  and the variables lie in cells, no more of them than fit before `fin_stack`, and
  every return leads to a cell or to an address of `Punteros` (`EntradasBien`); no cell is used twice
  (`Separadas`). From it `TiposCpu` (`TypeOK`), `CeldasSeparadas`
  (`VariablesSeparadas`), `PcbEntero` (`IdaYVuelta`), `LineaExacta`
  (`InstruccionExacta`, of a program that runs), `SoloPisaUnPuntero` and `NuncaPisa`.
* The refinement. `ImplementaAnsisop`: with pages of at most 128 bytes,
  `Spec /\ []Cabe => ImplementaAbs`; `ImplementaSiEsChico` says it from bounds on the
  constants alone. Each action of `Cpu` is one of `AnsisopAbs` or a stutter (`PasoRefina`):
  requests of the fetch, ends of quantum, changes of CPU and the PCB on the wire are
  stutters. The calls of the program
  are seen as maps from names to addresses (`Llamado`, `Marcos`): a definition adds to
  the last one the address at `fin_stack` (`GanaValor`), which by `RefInv` is the next
  one in order. What `asignar` and `retornar` leave in memory is what the language puts
  there, for each of the three kinds of address that `Poner` tells apart
  (`EscribirPone`); that a word which is no cell but in the stack lands in a page of the
  stack is `PaginaDePila`. `RefInv` adds two facts no property of the stack needs:
  `fin_stack` is the start of the stack plus 4 bytes per definition
  (`PcbCuenta`), so the stack is full exactly when the definitions are as many as its
  cells (`LlenoEs`), which is when `AnsisopAbs` ends the program; and `stack_overflow` is set
  only in the line that runs, a fetch unanswered only when the UMC may refuse
  (`Avisos`), so no flag of one line ends another. The pages need their 128 bytes
  because an offset goes to the UMC through a byte. Nothing is said after
  a PCB that was freed is serialised (`lugar = "indefinido"`), nor after `pisado`.

`VariablesSeparadas` is not inductive alone. A definition takes the cell at `fin_stack`,
so it needs every cell in use to be before it, and the next one to be a cell or the end
of the stack (`AvanzaUna`); a return takes away the last entry and keeps `fin_stack`,
which is why that is an inequality and not a count. And every change of CPU needs
`IdaYVuelta`, that is, `Cabe`.

`Cabe` (`PcbChico(pcb)`) says that each counter of the PCB is below 128. The code needs
it: `deserializar` reads those `int`s through a `char *`, and above 127 it makes another
PCB. `ContadoresCaben` shows that it holds throughout (`Spec => []Cabe`) when the pid,
the lines, the pages and the bound of nested calls are below 128 and the stack has less
than 512 bytes (so a call has less than 128 variables), as with the `nucleo.cfg` and
`umc.cfg` of the repository (10 pages of 32 bytes); of such programs the theorems say
everything, and of a bigger one, all until a counter passes 127.
`SoloPisaUnPuntero` says that, when a page has at most 128 bytes, the stack is left only
in the step in which the program uses an address that it computed and that is no cell;
`NuncaPisa`, that a program that computes only addresses of cells never leaves it.
With bigger pages the offset may not survive the byte it is read through. No theorem
assumes anything else of `Punteros`. The assumptions are those of `Cpu`: a program with a line, labels that are
lines of it, a stack of one page at least, pages of whole words, and names of
arguments (`NombresAssumption`) that are the characters '0' to '9', different from those
of variables.

`SocketsProofs` proves, for every finite or infinite set of clients, every number and
size of header fields and of data, packets cut anywhere by `send()` and `recv()`, and
clients that die in the middle of one: `Exacta` (`EntregaExacta`) and `CaeSoloCortado`
(`SoloCaeCortado`), from `Invariante`. Neither is inductive: they say what the callback
got, and that depends on bytes that another client's callback left unread in
between. `IInv` describes what lies between `enviar()` and the callback:

* `Orden`: what `enviar()` still holds is the end of the last packet, and every byte on
  its way belongs to a packet that was sent (a header that came in two pieces
  leaves its mark, `partida`);
* `Trenes`: the unread bytes of a client are a train: each is followed by the next one of
  its packet, or by the first of the next packet, and then comes what `enviar()` still has
  to write; it begins at `Lugar`, the byte where the server stands. The exception is
  `Perdido`, a reset that took a byte back;
* `Recepcion`: what the server has so far of the packet is its beginning.

`Corrida` (the bytes that one `recv()` takes from a train are consecutive) is an
induction; the theorems for it take an operator and cannot be used, so it is
proved by the least counterexample, from the well-foundedness of the naturals.
The assumptions: a header with at least one field, fields and data of at least one
byte. They are evaluated by the run of the sockets.

Only model-checked: the kernel's properties outside the hypotheses above, and what the
CPU does once a counter passes the hypotheses of its theorems.
Liveness (`SiempreElige`, `PaqueteLlega`, what the kernel and the console of the UMC
promise to do) is out of the prover's reach, as are `ENABLED` and induction over data.

## 5. Not modelled, and preconditions

* `ASIGNAR_VALOR_COMPARTIDA`, the exit on an unknown semaphore, inotify: they
  change nothing that the kernel's properties see.
* Races inside one list or queue operation of the commons library: an operation is
  atomic. The races between the operations of `desbloquear_pcb` and
  of `enviar_a_cpu()` are modelled, but for one: `Relacionar` finds the program and adds
  its relation in one step. Only the handlers that end the program of a relation free
  an entry of that list (`cerrar_socket_consola` frees none, section 3), and a PCB in
  the hands of a thread has no relation yet. Descriptors are never reused.
* In the CPU: the parser and `metadata_buscar_etiqueta` (commons library), the
  values of shared variables, the UMC that dies (the process exits), and the loop of
  cpu.c:150, which looks for a line feed beyond the buffer when the last line of a
  text has none.
* What a program does after it wrote outside its stack, or read outside its pages,
  through an address it computed (`pisado`), and the value of such addresses: they are
  a constant, whatever arithmetic gave them.
* PCBs with a counter or a page above 127: `Char` models what happens to them, and
  the passing run stays below.
* In the sockets: the timeout of `handshake()`, the creation of sockets, a `malloc` or
  an `accept` that fails, and packets without data (nobody sends one; the receiver
  would take it for a closed connection).
* In the UMC: a swap that fails or dies, pids of three digits
  (`i_to_s` keeps two characters), and a console command about an unknown pid. The
  TLB keeps entries of finished
  processes; pids are never reused, so nobody finds them.
* In the swap's passing run `Exactos = {}` and pids are below 128, for the two
  reasons shown in section 3. It has `UmcAlDia = FALSE`: a write for a process the
  swap forgot goes to wherever the file position is (`EscribirPaginaDesconocida`),
  and `SwapAbs` allows it to change one page of anybody. With `UmcAlDia = TRUE`
  `SwapAbs` is a plain memory, which is how `Umc` uses the swap as long as no CPU
  dies in a request.

## 6. Plan

1. `umc_vivo`, a small liveness run: every request of a CPU is answered.
2. `Umc` composed with `Swap`, to discharge `UmcAlDia`: both refinements are proved,
   and what is missing is that `Umc` keeps the preconditions of `Swap`.
3. The values of the shared variables in `Nucleo`.
4. `UnLugar` with SIGUSR1.
