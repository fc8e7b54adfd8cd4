------------------------------- MODULE Nucleo -------------------------------
(***************************************************************************)
(* The kernel (nucleo/src/nucleo.c, nucleo/src/estados.c): it admits the   *)
(* programs the consoles send, keeps each PCB in one of five queues and    *)
(* hands ready PCBs to the connected CPUs.                                 *)
(*                                                                         *)
(* A handler runs under mutexKernel, so it is one step, up to where it     *)
(* calls enviar_a_cpu() or does what the threads of entrada_salida() may   *)
(* get into: these run WITHOUT the mutex (nucleo.c:575-580), so each       *)
(* critical section of theirs is a step.  hilos[Kernel] is whoever holds   *)
(* mutexKernel.                                                            *)
(*                                                                         *)
(* The CPUs (cpu/src/cpu.c, cpu/src/primitivas.c) appear by what they send *)
(* and receive; the consoles and the UMC likewise.  A socket is named by   *)
(* its peer: descriptors are never reused.                                 *)
(***************************************************************************)
EXTENDS Integers, Sequences, FiniteSets

CONSTANTS Consolas,        \* the consoles; each one runs one program
          Cpus,
          Semaforos,       \* SEMAF_IDS
          ValorInicial,    \* SEMAF_INIT, for every semaphore
          HilosIO,         \* bound: entrada_salida threads alive at once
          MaxCanal,        \* bound: messages of a CPU the kernel has not read
          MaxValor,        \* bound: value a semaphore may reach
          Instrucciones,   \* what the programs of this run do (see CpuEjecuta)
          Fallas,          \* what goes wrong in this run: consoles and CPUs
                           \*   that die, SIGUSR1, freed memory already reused
          RespuestasUmc,   \* subset of {"OK", "NO_OK"}: answers to NUEVO_PROGRAMA
          EnvioACerrado,   \* subset of {"perdido", "sigpipe"}: see Envio
          Kernel, Nadie    \* the mutex holder; "no CPU", "no console"

\* nuevo_pcb->pid = ++pidActual
Pids == 1 .. Cardinality(Consolas)
Hilos == {Kernel} \union HilosIO

ASSUME ConsolasAssumption == IsFiniteSet(Consolas)
ASSUME NombresAssumption == /\ Kernel \notin HilosIO
                            /\ Nadie \notin Consolas \union Cpus
                            /\ {"ninguno", "cerrado"} \intersect Consolas = {}
ASSUME SemaforosAssumption == ValorInicial \in [Semaforos -> Nat]
ASSUME CotasAssumption == MaxCanal \in Nat \ {0} /\ MaxValor \in Nat
ASSUME EntornoAssumption ==
  /\ Instrucciones \subseteq {"FIN_QUANTUM", "FINALIZA", "ERROR_MEM", "WAIT",
                              "SIGNAL", "IO", "IMPRIMIR", "OBTENER"}
  /\ Fallas \subseteq {"consola", "cpu", "sigusr1", "memoria"}
  /\ RespuestasUmc \subseteq {"OK", "NO_OK"}
  /\ EnvioACerrado \subseteq {"perdido", "sigpipe"}

VARIABLES
  nucleo,          \* "vivo" or "muerto" (NULL dereference, SIGPIPE)
  pidActual,
  colaNew, colaExec, colaBlocked, colaExit,   \* sets of pids
  colaReady,       \* sequence of pids: the one queue whose order matters
  programas,       \* lista_programas_actuales: the socket of each pid, or
                   \*   "ninguno" (no entry) or "cerrado" (socket = -1)
  cpus,            \* lista_cpus_conectadas, in order
  corriendo,       \* the CPUs with corriendo = true
  relacion,        \* lista_relacion: sequence of [cpu, pid]
  valor, cola,     \* of each semaphore: its value, its queue of pids
  hilos,           \* where each thread is: [paso, cpu, pid]
  pendienteES,     \* pid whose entrada_salida thread is still to be created
  hiloInit,        \* respuesta_inicializar_programa of each console
  umcPedidos,      \* NUEVO_PROGRAMA sent and not answered yet
  umcRespuestas,   \* answers not read yet: [cod, pid]
  finalizaciones,  \* FINALIZA_PROGRAMA sent for each pid (counted up to 2)
  consola,         \* "nueva", "conectada", "muerta" (closed, the kernel has
                   \*   not seen it) or "cerrada" (the kernel closed its side)
  aviso,           \* the last message of each console
  duenio,          \* the console whose program has that pid
  cpu,             \* each CPU process: [est, pid]
  canal,           \* CPU -> kernel
  aCpu             \* kernel -> CPU

colas == <<colaNew, colaReady, colaExec, colaBlocked, colaExit>>
listas == <<programas, cpus, corriendo, relacion>>
semaforos == <<valor, cola>>
umc == <<umcPedidos, umcRespuestas>>
consolas == <<consola, aviso, duenio, hiloInit>>
procesosCpu == <<cpu, canal, aCpu>>
vars == <<nucleo, pidActual, colas, listas, semaforos, hilos, pendienteES, umc,
          finalizaciones, consolas, procesosCpu>>

HiloLibre == [paso |-> "libre", cpu |-> Nadie, pid |-> 0]
Mensaje(op, pid, sem) == [op |-> op, pid |-> pid, sem |-> sem]

Init ==
  /\ nucleo = "vivo" /\ pidActual = 0
  /\ colaNew = {} /\ colaExec = {} /\ colaBlocked = {} /\ colaExit = {}
  /\ colaReady = <<>>
  /\ programas = [p \in Pids |-> "ninguno"]
  /\ cpus = <<>> /\ corriendo = {} /\ relacion = <<>>
  /\ valor = ValorInicial
  /\ cola = [s \in Semaforos |-> <<>>]
  /\ hilos = [h \in Hilos |-> HiloLibre]
  /\ pendienteES = 0
  /\ hiloInit = [k \in Consolas |-> [paso |-> "no", cod |-> "OK", pid |-> 0]]
  /\ umcPedidos = <<>> /\ umcRespuestas = <<>>
  /\ finalizaciones = [p \in Pids |-> 0]
  /\ consola = [k \in Consolas |-> "nueva"]
  /\ aviso = [k \in Consolas |-> "nada"]
  /\ duenio = [p \in Pids |-> Nadie]
  /\ cpu = [c \in Cpus |-> [est |-> "apagada", pid |-> 0]]
  /\ canal = [c \in Cpus |-> <<>>]
  /\ aCpu = [c \in Cpus |-> <<>>]

-----------------------------------------------------------------------------
(* Threads, sockets and lists *)

\* Somebody may take mutexKernel.
MutexLibre == nucleo = "vivo" /\ hilos[Kernel].paso = "libre"

\* The thread goes on to the first line of enviar_a_cpu().
AEnviar(h) == [hilos EXCEPT ![h] = [HiloLibre EXCEPT !.paso = "buscar"]]

\* enviar() to a peer that is "abierto" arrives.  To one that closed its side
\* ("a medias") it is lost or it raises SIGPIPE, which nobody handles.  On a
\* descriptor the kernel already closed send() fails for ever and the loop of
\* Sockets.c:123-127 never ends ("colgado").
Envio(estado, llega, nada, h, luego) ==
  \/ estado = "abierto" /\ llega /\ hilos' = luego /\ UNCHANGED nucleo
  \/ /\ estado = "a medias"
     /\ \/ "perdido" \in EnvioACerrado /\ UNCHANGED nucleo
        \/ "sigpipe" \in EnvioACerrado /\ nucleo' = "muerto"
     /\ nada /\ hilos' = luego
  \/ /\ estado = "cerrado" /\ nada /\ UNCHANGED nucleo
     /\ hilos' = [hilos EXCEPT ![h].paso = "colgado"]

SocketConsola(k) == IF consola[k] = "conectada" THEN "abierto"
                    ELSE IF consola[k] = "muerta" THEN "a medias" ELSE "cerrado"
SocketCpu(c) == IF cpu[c].est = "cerrada" THEN "a medias"
                ELSE IF cpu[c].est = "retirada" THEN "cerrado" ELSE "abierto"

EnviarAConsola(k, m, luego) ==
  Envio(SocketConsola(k), aviso' = [aviso EXCEPT ![k] = m], UNCHANGED aviso,
        Kernel, luego)

EnviarACpu(c, m, h, luego) ==
  Envio(SocketCpu(c), aCpu' = [aCpu EXCEPT ![c] = Append(@, m)], UNCHANGED aCpu,
        h, luego)

\* list_find and list_remove_by_condition take the first match.
Primera(I) == CHOOSE i \in I : \A j \in I : i <= j
RelacionesDePid(p) == {i \in DOMAIN relacion : relacion[i].pid = p}
RelacionesDeCpu(c) == {i \in DOMAIN relacion : relacion[i].cpu = c}
SinLa(i, s) == SubSeq(s, 1, i - 1) \o SubSeq(s, i + 1, Len(s))
Sacar(x, s) == LET I == {i \in DOMAIN s : s[i] = x}
               IN  IF I = {} THEN s ELSE SinLa(Primera(I), s)
EnSecuencia(s) == {s[i] : i \in DOMAIN s}

\* FINALIZA_PROGRAMA to the UMC; one more than once is as bad as ten.
Finalizar(p) ==
  finalizaciones' = [finalizaciones EXCEPT ![p] = IF @ < 2 THEN @ + 1 ELSE @]

-----------------------------------------------------------------------------
(* Consoles *)

\* conectar_kernel() and NUEVO_PROGRAMA.
ConsolaEnvia(k) ==
  /\ consola[k] = "nueva"
  /\ consola' = [consola EXCEPT ![k] = "conectada"]
  /\ UNCHANGED <<nucleo, pidActual, colas, listas, semaforos, hilos, pendienteES,
                 umc, finalizaciones, aviso, duenio, hiloInit, procesosCpu>>

\* The loop of consola.c ends, or somebody kills the console.
ConsolaCierra(k) ==
  /\ consola[k] = "conectada"
  /\ \/ aviso[k] \in {"NO_OK", "TERMINO_BIEN", "TERMINO_MAL"}
     \/ "consola" \in Fallas
  /\ consola' = [consola EXCEPT ![k] = "muerta"]
  /\ UNCHANGED <<nucleo, pidActual, colas, listas, semaforos, hilos, pendienteES,
                 umc, finalizaciones, aviso, duenio, hiloInit, procesosCpu>>

\* Mutation: nuevo_pcb->pid = pidActual++.
NuevoProgramaPostIncremento(k) ==
  LET p == pidActual IN
  /\ MutexLibre
  /\ consola[k] \in {"conectada", "muerta"}
  /\ hiloInit[k].paso = "no"
  /\ pidActual' = p + 1
  /\ duenio' = [duenio EXCEPT ![p + 1] = k]
  /\ colaNew' = colaNew \union {p}
  /\ umcPedidos' = Append(umcPedidos, p)
  /\ hiloInit' = [hiloInit EXCEPT ![k].paso = "recibiendo"]
  /\ UNCHANGED <<nucleo, colaReady, colaExec, colaBlocked, colaExit, listas,
                 semaforos, hilos, pendienteES, umcRespuestas, finalizaciones,
                 consola, aviso, procesosCpu>>

\* manejar_socket_consola, NUEVO_PROGRAMA: the PCB goes to New, the request to
\* the UMC, and a thread waits for the answer.
NuevoPrograma(k) ==
  LET p == pidActual + 1 IN
  /\ MutexLibre
  /\ consola[k] \in {"conectada", "muerta"}
  /\ hiloInit[k].paso = "no"
  /\ pidActual' = p
  /\ duenio' = [duenio EXCEPT ![p] = k]
  /\ colaNew' = colaNew \union {p}
  /\ umcPedidos' = Append(umcPedidos, p)
  /\ hiloInit' = [hiloInit EXCEPT ![k].paso = "recibiendo"]
  /\ UNCHANGED <<nucleo, colaReady, colaExec, colaBlocked, colaExit, listas,
                 semaforos, hilos, pendienteES, umcRespuestas, finalizaciones,
                 consola, aviso, procesosCpu>>

\* The UMC answers the requests of the kernel in the order they arrive.
UmcResponde(cod) ==
  /\ cod \in RespuestasUmc
  /\ umcPedidos # <<>>
  /\ umcPedidos' = Tail(umcPedidos)
  /\ umcRespuestas' = Append(umcRespuestas, [cod |-> cod, pid |-> Head(umcPedidos)])
  /\ UNCHANGED <<nucleo, pidActual, colas, listas, semaforos, hilos, pendienteES,
                 finalizaciones, consolas, procesosCpu>>

\* respuesta_inicializar_programa, under mutexRecibirumc: ANY waiting thread
\* reads the next answer.
InitRecibe(k) ==
  /\ nucleo = "vivo"
  /\ hiloInit[k].paso = "recibiendo"
  /\ umcRespuestas # <<>>
  /\ hiloInit' = [hiloInit EXCEPT ![k] = [paso |-> "cargando",
                   cod |-> Head(umcRespuestas).cod, pid |-> Head(umcRespuestas).pid]]
  /\ umcRespuestas' = Tail(umcRespuestas)
  /\ UNCHANGED <<nucleo, pidActual, colas, listas, semaforos, hilos, pendienteES,
                 umcPedidos, finalizaciones, consola, aviso, duenio, procesosCpu>>

\* The rest of it, under mutexKernel: cargar_programa with ITS console and the
\* pid of the ANSWER.
InitCarga(k) ==
  LET p == hiloInit[k].pid IN
  /\ MutexLibre
  /\ hiloInit[k].paso = "cargando"
  /\ programas' = [programas EXCEPT ![p] = k]
  /\ colaNew' = colaNew \ {p}
  /\ IF hiloInit[k].cod = "OK"
     THEN colaReady' = Append(colaReady, p) /\ UNCHANGED colaExit
     ELSE colaExit' = colaExit \union {p} /\ UNCHANGED colaReady
  /\ EnviarAConsola(k, hiloInit[k].cod, AEnviar(Kernel))
  /\ hiloInit' = [hiloInit EXCEPT ![k] = [paso |-> "fin", cod |-> "OK", pid |-> 0]]
  /\ UNCHANGED <<pidActual, colaExec, colaBlocked, cpus, corriendo, relacion,
                 semaforos, pendienteES, umc, finalizaciones, consola, duenio,
                 procesosCpu>>

\* cerrar_socket_consola for a console with no program in the list.
CerrarConsolaSinPrograma(k) ==
  /\ MutexLibre
  /\ consola[k] = "muerta" /\ hiloInit[k].paso # "no"
  /\ \A p \in Pids : programas[p] # k
  /\ consola' = [consola EXCEPT ![k] = "cerrada"]
  /\ UNCHANGED <<nucleo, pidActual, colas, listas, semaforos, hilos, pendienteES,
                 umc, finalizaciones, aviso, duenio, hiloInit, procesosCpu>>

\* Mutation: a ready PCB of a dead console stays in Ready.
CerrarConsolaDejandoReady(k) ==
  /\ MutexLibre
  /\ consola[k] = "muerta" /\ hiloInit[k].paso # "no"
  /\ consola' = [consola EXCEPT ![k] = "cerrada"]
  /\ \E p \in Pids :
       /\ programas[p] = k
       /\ programas' = [programas EXCEPT ![p] = "cerrado"]
       /\ IF RelacionesDePid(p) # {}
          THEN UNCHANGED <<colas, finalizaciones, hilos>>
          ELSE /\ colaNew' = colaNew \ {p}
               /\ colaBlocked' = colaBlocked \ {p}
               /\ colaExit' = IF p \in colaNew \union colaBlocked
                              THEN colaExit \union {p} ELSE colaExit
               /\ UNCHANGED <<colaReady, colaExec>>
               /\ Finalizar(p)
               /\ hilos' = AEnviar(Kernel)
  /\ UNCHANGED <<nucleo, pidActual, cpus, corriendo, relacion, semaforos,
                 pendienteES, umc, aviso, duenio, hiloInit, procesosCpu>>

\* Mutation: the entry of a running program is removed when its console dies.
CerrarConsolaEliminando(k) ==
  /\ MutexLibre
  /\ consola[k] = "muerta" /\ hiloInit[k].paso # "no"
  /\ consola' = [consola EXCEPT ![k] = "cerrada"]
  /\ \E p \in Pids :
       /\ programas[p] = k
       /\ programas' = [programas EXCEPT ![p] = "ninguno"]
       /\ IF RelacionesDePid(p) # {}
          THEN UNCHANGED <<colas, finalizaciones, hilos>>
          ELSE /\ colaNew' = colaNew \ {p}
               /\ colaBlocked' = colaBlocked \ {p}
               /\ colaReady' = Sacar(p, colaReady)
               /\ colaExit' = IF p \in colaNew \union colaBlocked \union EnSecuencia(colaReady)
                              THEN colaExit \union {p} ELSE colaExit
               /\ UNCHANGED colaExec
               /\ Finalizar(p)
               /\ hilos' = AEnviar(Kernel)
  /\ UNCHANGED <<nucleo, pidActual, cpus, corriendo, relacion, semaforos,
                 pendienteES, umc, aviso, duenio, hiloInit, procesosCpu>>

\* With a program: its socket becomes -1, and elminar_consola_por_socket(socket)
\* then finds no entry to remove (nucleo.c:516, 524).
CerrarConsola(k) ==
  /\ MutexLibre
  /\ consola[k] = "muerta" /\ hiloInit[k].paso # "no"
  /\ consola' = [consola EXCEPT ![k] = "cerrada"]
  /\ \E p \in Pids :
       /\ programas[p] = k
       /\ programas' = [programas EXCEPT ![p] = "cerrado"]
       /\ IF RelacionesDePid(p) # {}
          THEN UNCHANGED <<colas, finalizaciones, hilos>>
          ELSE /\ colaNew' = colaNew \ {p}
               /\ colaBlocked' = colaBlocked \ {p}
               /\ colaReady' = Sacar(p, colaReady)
               /\ colaExit' = IF p \in colaNew \union colaBlocked \union EnSecuencia(colaReady)
                              THEN colaExit \union {p} ELSE colaExit
               /\ UNCHANGED colaExec
               /\ Finalizar(p)
               /\ hilos' = AEnviar(Kernel)
  /\ UNCHANGED <<nucleo, pidActual, cpus, corriendo, relacion, semaforos,
                 pendienteES, umc, aviso, duenio, hiloInit, procesosCpu>>

-----------------------------------------------------------------------------
(* CPUs *)

restoDelNucleo == <<nucleo, pidActual, colas, listas, semaforos, hilos,
                    pendienteES, umc, finalizaciones, consolas>>

Quedar(c, est, pid) == cpu' = [cpu EXCEPT ![c] = [est |-> est, pid |-> pid]]
Mandar(c, mensajes) == canal' = [canal EXCEPT ![c] = @ \o mensajes]
HayLugar(c) == Len(canal[c]) < MaxCanal

\* conectar_cpu(): the handshake with the kernel.
CpuConecta(c) ==
  /\ cpu[c].est = "apagada"
  /\ Quedar(c, "libre", 0)
  /\ Mandar(c, <<Mensaje("HS", 0, Nadie)>>)
  /\ UNCHANGED <<restoDelNucleo, aCpu>>

\* The loop of main() in cpu.c.  CORRER stands for the three packets QUANTUM,
\* RETARDOQUANTUM and CORRER_PCB; an OK or NO_OK nobody waits for is dropped.
CpuRecibe(c) ==
  /\ cpu[c].est = "libre"
  /\ aCpu[c] # <<>>
  /\ aCpu' = [aCpu EXCEPT ![c] = Tail(@)]
  /\ IF Head(aCpu[c]).op = "CORRER" THEN Quedar(c, "corriendo", Head(aCpu[c]).pid)
                                    ELSE UNCHANGED cpu
  /\ UNCHANGED <<restoDelNucleo, canal>>

\* The program of c runs one instruction that does not leave the CPU.
CpuAvisa(c) ==
  /\ cpu[c].est = "corriendo" /\ HayLugar(c)
  /\ \/ /\ "IMPRIMIR" \in Instrucciones
        /\ Mandar(c, <<Mensaje("IMPRIMIR", cpu[c].pid, Nadie)>>)
     \/ /\ "SIGNAL" \in Instrucciones
        /\ \E s \in Semaforos : /\ valor[s] < MaxValor
                                /\ Mandar(c, <<Mensaje("SIGNAL", cpu[c].pid, s)>>)
  /\ UNCHANGED <<restoDelNucleo, cpu, aCpu>>

\* wait() and obtenerValorCompartida(): send and block for the answer.
CpuPide(c) ==
  /\ cpu[c].est = "corriendo" /\ HayLugar(c)
  /\ \/ /\ "OBTENER" \in Instrucciones
        /\ Mandar(c, <<Mensaje("OBTENER", cpu[c].pid, Nadie)>>)
     \/ /\ "WAIT" \in Instrucciones
        /\ \E s \in Semaforos : Mandar(c, <<Mensaje("WAIT", cpu[c].pid, s)>>)
  /\ Quedar(c, "espera", cpu[c].pid)
  /\ UNCHANGED <<restoDelNucleo, aCpu>>

\* The answer.  Any packet that is not OK or NO_OK, the QUANTUM of another
\* dispatch included, makes the CPU exit ("Se desconecto el nucleo!").
CpuRespuesta(c) ==
  /\ cpu[c].est = "espera"
  /\ aCpu[c] # <<>>
  /\ aCpu' = [aCpu EXCEPT ![c] = Tail(@)]
  /\ CASE Head(aCpu[c]).op = "OK"    -> Quedar(c, "corriendo", cpu[c].pid)
       [] Head(aCpu[c]).op = "NO_OK" -> Quedar(c, "libre", 0)
       [] OTHER                      -> Quedar(c, "cerrada", 0)
  /\ UNCHANGED <<restoDelNucleo, canal>>

\* The program leaves the CPU: end of quantum, end of program, no memory, I/O.
CpuSuelta(c, op) ==
  /\ cpu[c].est = "corriendo"
  /\ op \in Instrucciones \intersect {"FIN_QUANTUM", "FINALIZA", "ERROR_MEM", "IO"}
  /\ Mandar(c, <<Mensaje(op, cpu[c].pid, Nadie)>>)
  /\ Quedar(c, "libre", 0)
  /\ UNCHANGED <<restoDelNucleo, aCpu>>

\* llego_sugus seen after an instruction: TERMINO_MAL_PROGRAMA and exit.
CpuSigusr1(c) ==
  /\ "sigusr1" \in Fallas
  /\ cpu[c].est = "corriendo"
  /\ Mandar(c, <<Mensaje("TERMINO_MAL", cpu[c].pid, Nadie)>>)
  /\ Quedar(c, "cerrada", 0)
  /\ UNCHANGED <<restoDelNucleo, aCpu>>

\* The same after an instruction that already destroyed the PCB (finalizar,
\* entradaSalida): a freed PCB is serialised, with its old pid or with another.
CpuSigusr1SinPcb(c, op) ==
  /\ "sigusr1" \in Fallas
  /\ cpu[c].est = "corriendo"
  /\ op \in Instrucciones \intersect {"FINALIZA", "IO"}
  /\ \E p \in {cpu[c].pid, 0} :
       Mandar(c, <<Mensaje(op, cpu[c].pid, Nadie), Mensaje("TERMINO_MAL", p, Nadie)>>)
  /\ Quedar(c, "cerrada", 0)
  /\ UNCHANGED <<restoDelNucleo, aCpu>>

\* And after a wait() that blocked.
CpuSigusr1TrasWait(c) ==
  /\ "sigusr1" \in Fallas
  /\ cpu[c].est = "espera" /\ aCpu[c] # <<>> /\ Head(aCpu[c]).op = "NO_OK"
  /\ aCpu' = [aCpu EXCEPT ![c] = Tail(@)]
  /\ \E p \in {cpu[c].pid, 0} : Mandar(c, <<Mensaje("TERMINO_MAL", p, Nadie)>>)
  /\ Quedar(c, "cerrada", 0)
  /\ UNCHANGED restoDelNucleo

\* The process is killed, or sugus() finds that it has not run anything yet.
CpuMuere(c) ==
  /\ "cpu" \in Fallas
  /\ cpu[c].est \in {"libre", "corriendo", "espera"}
  /\ Quedar(c, "cerrada", 0)
  /\ UNCHANGED <<restoDelNucleo, canal, aCpu>>

-----------------------------------------------------------------------------
(* manejar_socket_cpu *)

Llega(c, op) == /\ MutexLibre
                /\ canal[c] # <<>> /\ Head(canal[c]).op = op
                /\ canal' = [canal EXCEPT ![c] = Tail(@)]

Muerta(p) == programas[p] = "cerrado"

\* Mutation: rel->cpu->corriendo stays true.
SoltarSinLiberarCpu(i) == /\ relacion' = SinLa(i, relacion)
                          /\ UNCHANGED corriendo

\* liberar_una_relacion(_porsocket_cpu): the list part, for relation i.
Soltar(i) == /\ relacion' = SinLa(i, relacion)
             /\ corriendo' = corriendo \ {relacion[i].cpu}

\* liberar_una_relacion(_porsocket_cpu): the rest, when the console of q died
\* while q was running.  The caller takes q out of colaExec.
Enterrar(q) ==
  /\ colaExit' = IF q \in colaExec THEN colaExit \union {q} ELSE colaExit
  /\ Finalizar(q)
  /\ programas' = [programas EXCEPT ![q] = "ninguno"]

SinEntierro == UNCHANGED <<colaExit, finalizaciones, programas>>

HandshakeCpu(c) ==
  /\ Llega(c, "HS")
  /\ Envio(SocketCpu(c), TRUE, TRUE, Kernel, AEnviar(Kernel))
  /\ cpus' = Append(cpus, c)
  /\ UNCHANGED <<pidActual, colas, programas, corriendo, relacion, semaforos,
                 pendienteES, umc, finalizaciones, consolas, cpu, aCpu>>

\* Mutation: without "if (pcb_viejo_en_exec)".
FinQuantumSinMirar(c) ==
  LET p == Head(canal[c]).pid IN
  /\ Llega(c, "FIN_QUANTUM")
  /\ RelacionesDePid(p) # {}
  /\ Soltar(Primera(RelacionesDePid(p)))
  /\ IF Muerta(p) THEN Enterrar(p) ELSE SinEntierro
  /\ colaReady' = Append(colaReady, p)
  /\ colaExec' = colaExec \ {p}
  /\ hilos' = AEnviar(Kernel)
  /\ UNCHANGED <<nucleo, pidActual, colaNew, colaBlocked, cpus, semaforos,
                 pendienteES, umc, consolas, cpu, aCpu>>

FinQuantum(c) ==
  LET p == Head(canal[c]).pid IN
  /\ Llega(c, "FIN_QUANTUM")
  /\ RelacionesDePid(p) # {}
  /\ Soltar(Primera(RelacionesDePid(p)))
  /\ IF Muerta(p) THEN Enterrar(p) ELSE SinEntierro
  /\ colaReady' = IF ~Muerta(p) /\ p \in colaExec THEN Append(colaReady, p) ELSE colaReady
  /\ colaExec' = colaExec \ {p}
  /\ hilos' = AEnviar(Kernel)
  /\ UNCHANGED <<nucleo, pidActual, colaNew, colaBlocked, cpus, semaforos,
                 pendienteES, umc, consolas, cpu, aCpu>>

\* Mutation: FINALIZA_PROGRAMA goes to the UMC also when liberar_una_relacion has
\* already sent it.
FinalizaDosVeces(c, op) ==
  LET p == Head(canal[c]).pid
      m == IF op = "FINALIZA" THEN "TERMINO_BIEN" ELSE "TERMINO_MAL"
  IN
  /\ op \in {"FINALIZA", "ERROR_MEM"}
  /\ Llega(c, op)
  /\ RelacionesDePid(p) # {}
  /\ Soltar(Primera(RelacionesDePid(p)))
  /\ colaExec' = colaExec \ {p}
  /\ colaExit' = colaExit \union {p}
  /\ programas' = [programas EXCEPT ![p] = "ninguno"]
  /\ IF Muerta(p) \/ p \notin colaExec
     THEN /\ finalizaciones' = [finalizaciones EXCEPT ![p] = 2]
          /\ UNCHANGED <<nucleo, hilos, aviso>>
     ELSE /\ Finalizar(p)
          /\ EnviarAConsola(programas[p], m, AEnviar(Kernel))
  /\ UNCHANGED <<pidActual, colaNew, colaReady, colaBlocked, cpus, semaforos,
                 pendienteES, umc, consola, duenio, hiloInit, cpu, aCpu>>

\* Mutation: enviar_a_cpu() is not called when a program ends.
FinalizaSinDespachar(c, op) ==
  LET p == Head(canal[c]).pid
      m == IF op = "FINALIZA" THEN "TERMINO_BIEN" ELSE "TERMINO_MAL"
  IN
  /\ op \in {"FINALIZA", "ERROR_MEM"}
  /\ Llega(c, op)
  /\ RelacionesDePid(p) # {}
  /\ Soltar(Primera(RelacionesDePid(p)))
  /\ colaExec' = colaExec \ {p}
  /\ IF Muerta(p) \/ p \notin colaExec
     THEN /\ IF Muerta(p) THEN Enterrar(p) ELSE SinEntierro
          /\ UNCHANGED <<nucleo, hilos, aviso>>
     ELSE /\ colaExit' = colaExit \union {p}
          /\ Finalizar(p)
          /\ EnviarAConsola(programas[p], m, hilos)
          /\ programas' = [programas EXCEPT ![p] = "ninguno"]
  /\ UNCHANGED <<pidActual, colaNew, colaReady, colaBlocked, cpus, semaforos,
                 pendienteES, umc, consola, duenio, hiloInit, cpu, aCpu>>

\* FINALIZA_PROGRAMA and ERROR_FALTA_MEMORIA differ in what the console reads.
\* Only the branch where the PCB was still in Exec calls enviar_a_cpu().
FinalizaPrograma(c, op) ==
  LET p == Head(canal[c]).pid
      m == IF op = "FINALIZA" THEN "TERMINO_BIEN" ELSE "TERMINO_MAL"
  IN
  /\ op \in {"FINALIZA", "ERROR_MEM"}
  /\ Llega(c, op)
  /\ RelacionesDePid(p) # {}
  /\ Soltar(Primera(RelacionesDePid(p)))
  /\ colaExec' = colaExec \ {p}
  /\ IF Muerta(p) \/ p \notin colaExec
     THEN /\ IF Muerta(p) THEN Enterrar(p) ELSE SinEntierro
          /\ UNCHANGED <<nucleo, hilos, aviso>>
     ELSE /\ colaExit' = colaExit \union {p}
          /\ Finalizar(p)
          /\ EnviarAConsola(programas[p], m, AEnviar(Kernel))
          /\ programas' = [programas EXCEPT ![p] = "ninguno"]
  /\ UNCHANGED <<pidActual, colaNew, colaReady, colaBlocked, cpus, semaforos,
                 pendienteES, umc, consola, duenio, hiloInit, cpu, aCpu>>

\* SIGUSR1: the relation is the one of the CPU, the PCB the one of the message.
TerminoMal(c) ==
  LET p == Head(canal[c]).pid
      i == Primera(RelacionesDeCpu(c))
      q == relacion[i].pid
      exec == IF Muerta(q) THEN colaExec \ {q} ELSE colaExec
  IN
  /\ Llega(c, "TERMINO_MAL")
  /\ RelacionesDeCpu(c) # {}
  /\ Soltar(i)
  /\ IF Muerta(q) THEN Enterrar(q) ELSE SinEntierro
  /\ colaExec' = exec \ {p}
  /\ IF p \in exec
     THEN /\ colaReady' = Append(colaReady, p)
          /\ hilos' = [hilos EXCEPT ![Kernel] = [paso |-> "eliminar", cpu |-> c, pid |-> p]]
     ELSE UNCHANGED <<colaReady, hilos>>
  /\ UNCHANGED <<nucleo, pidActual, colaNew, colaBlocked, cpus, semaforos, pendienteES,
                 umc, consolas, cpu, aCpu>>

\* eliminar_cpu_por_socket: until here the CPU looked free to entrada_salida.
EliminarCpu ==
  /\ nucleo = "vivo" /\ hilos[Kernel].paso = "eliminar"
  /\ cpus' = Sacar(hilos[Kernel].cpu, cpus)
  /\ hilos' = AEnviar(Kernel)
  /\ UNCHANGED <<nucleo, pidActual, colas, programas, corriendo, relacion, semaforos,
                 pendienteES, umc, finalizaciones, consolas, procesosCpu>>

WaitSinBloquear(c) ==
  LET s == Head(canal[c]).sem IN
  /\ Llega(c, "WAIT")
  /\ valor[s] > 0
  /\ valor' = [valor EXCEPT ![s] = @ - 1]
  /\ EnviarACpu(c, Mensaje("OK", 0, Nadie), Kernel, hilos)
  /\ UNCHANGED <<pidActual, colas, listas, cola, pendienteES, umc, finalizaciones,
                 consolas, cpu>>

\* The PCB joins the queue of the semaphore BEFORE liberar_una_relacion finds
\* out whether its console is still there.
WaitBloquea(c) ==
  LET p == Head(canal[c]).pid
      s == Head(canal[c]).sem
      i == Primera(RelacionesDeCpu(c))
      q == relacion[i].pid
      exec == IF Muerta(q) THEN colaExec \ {q} ELSE colaExec
  IN
  /\ Llega(c, "WAIT")
  /\ valor[s] <= 0
  /\ RelacionesDeCpu(c) # {}
  /\ valor' = [valor EXCEPT ![s] = @ - 1]
  /\ cola' = [cola EXCEPT ![s] = Append(@, p)]
  /\ Soltar(i)
  /\ IF Muerta(q) THEN Enterrar(q) ELSE SinEntierro
  /\ colaExec' = exec \ {p}
  /\ colaBlocked' = IF p \in exec THEN colaBlocked \union {p} ELSE colaBlocked
  /\ hilos' = [hilos EXCEPT ![Kernel] = [paso |-> "responder", cpu |-> c, pid |-> p]]
  /\ UNCHANGED <<nucleo, pidActual, colaNew, colaReady, cpus, pendienteES, umc,
                 consolas, cpu, aCpu>>

\* Mutation: the CPU is told OK although its process was blocked.
ResponderOk ==
  LET c == hilos[Kernel].cpu IN
  /\ nucleo = "vivo" /\ hilos[Kernel].paso = "responder"
  /\ EnviarACpu(c, Mensaje("OK", 0, Nadie), Kernel, AEnviar(Kernel))
  /\ UNCHANGED <<pidActual, colas, listas, semaforos, pendienteES, umc,
                 finalizaciones, consolas, cpu, canal>>

\* enviar(NO_OK): from here the CPU may be taken by a thread of entrada_salida.
Responder ==
  LET c == hilos[Kernel].cpu IN
  /\ nucleo = "vivo" /\ hilos[Kernel].paso = "responder"
  /\ EnviarACpu(c, Mensaje("NO_OK", 0, Nadie), Kernel, AEnviar(Kernel))
  /\ UNCHANGED <<pidActual, colas, listas, semaforos, pendienteES, umc,
                 finalizaciones, consolas, cpu, canal>>

\* desbloquear_pcb(p) takes p out of Blocked under one mutex (estados.c:169) and
\* puts it in Ready under another (:172): in between only thread h has it.
\* Nothing happens to a PCB that is no longer blocked.
Desbloquear(h, p) ==
  /\ colaBlocked' = colaBlocked \ {p}
  /\ hilos' = IF p \in colaBlocked
              THEN [hilos EXCEPT ![h] = [paso |-> "mover", cpu |-> Nadie, pid |-> p]]
              ELSE AEnviar(h)

\* Mutation: the queue is served only when the value is back to zero.
SignalEnCero(c) ==
  LET s == Head(canal[c]).sem IN
  /\ Llega(c, "SIGNAL")
  /\ valor' = [valor EXCEPT ![s] = @ + 1]
  /\ IF cola[s] = <<>> \/ valor[s] < -1
     THEN hilos' = AEnviar(Kernel) /\ UNCHANGED <<cola, colaBlocked>>
     ELSE /\ cola' = [cola EXCEPT ![s] = Tail(@)]
          /\ Desbloquear(Kernel, Head(cola[s]))
  /\ UNCHANGED <<nucleo, pidActual, colaNew, colaReady, colaExec, colaExit, listas,
                 pendienteES, umc, finalizaciones, consolas, cpu, aCpu>>

Signal(c) ==
  LET s == Head(canal[c]).sem IN
  /\ Llega(c, "SIGNAL")
  /\ valor' = [valor EXCEPT ![s] = @ + 1]
  /\ IF cola[s] = <<>>
     THEN hilos' = AEnviar(Kernel) /\ UNCHANGED <<cola, colaBlocked>>
     ELSE /\ cola' = [cola EXCEPT ![s] = Tail(@)]
          /\ Desbloquear(Kernel, Head(cola[s]))
  /\ UNCHANGED <<nucleo, pidActual, colaNew, colaReady, colaExec, colaExit, listas,
                 pendienteES, umc, finalizaciones, consolas, cpu, aCpu>>

\* Mutation: the relation is looked up by the socket of the CPU.
EntradaSalidaPorSocket(c) ==
  LET p == Head(canal[c]).pid IN
  /\ Llega(c, "IO")
  /\ RelacionesDeCpu(c) # {}
  /\ Soltar(Primera(RelacionesDeCpu(c)))
  /\ IF Muerta(p) THEN Enterrar(p) ELSE SinEntierro
  /\ colaExec' = colaExec \ {p}
  /\ colaBlocked' = IF ~Muerta(p) /\ p \in colaExec THEN colaBlocked \union {p}
                                                     ELSE colaBlocked
  /\ pendienteES' = p
  /\ hilos' = AEnviar(Kernel)
  /\ UNCHANGED <<nucleo, pidActual, colaNew, colaReady, cpus, semaforos, umc,
                 consolas, cpu, aCpu>>

\* The thread of entrada_salida() is created after enviar_a_cpu().
EntradaSalida(c) ==
  LET p == Head(canal[c]).pid IN
  /\ Llega(c, "IO")
  /\ RelacionesDePid(p) # {}
  /\ Soltar(Primera(RelacionesDePid(p)))
  /\ IF Muerta(p) THEN Enterrar(p) ELSE SinEntierro
  /\ colaExec' = colaExec \ {p}
  /\ colaBlocked' = IF ~Muerta(p) /\ p \in colaExec THEN colaBlocked \union {p}
                                                     ELSE colaBlocked
  /\ pendienteES' = p
  /\ hilos' = AEnviar(Kernel)
  /\ UNCHANGED <<nucleo, pidActual, colaNew, colaReady, cpus, semaforos, umc,
                 consolas, cpu, aCpu>>

\* IMPRIMIR_VARIABLE and IMPRIMIR_TEXTO: forwarded to a console that lives.
Imprimir(c) ==
  LET k == programas[relacion[Primera(RelacionesDeCpu(c))].pid] IN
  /\ Llega(c, "IMPRIMIR")
  /\ RelacionesDeCpu(c) # {}
  /\ IF k \in Consolas THEN EnviarAConsola(k, aviso[k], hilos)
                       ELSE UNCHANGED <<aviso, nucleo, hilos>>
  /\ UNCHANGED <<pidActual, colas, listas, semaforos, pendienteES, umc,
                 finalizaciones, consola, duenio, hiloInit, cpu, aCpu>>

\* One answer stands for two: to the NO_OK of an unknown shared variable the CPU
\* only logs an error, and goes on with its line (primitivas.c:209-211).
Obtener(c) ==
  /\ Llega(c, "OBTENER")
  /\ EnviarACpu(c, Mensaje("OK", 0, Nadie), Kernel, hilos)
  /\ UNCHANGED <<pidActual, colas, listas, semaforos, pendienteES, umc,
                 finalizaciones, consolas, cpu>>

\* liberar_una_relacion and matchear_relacion_por_socketcpu give NULL, and the
\* handler dereferences it.
RelacionNula(c) ==
  /\ \/ /\ \E op \in {"FIN_QUANTUM", "FINALIZA", "ERROR_MEM", "IO"} : Llega(c, op)
        /\ RelacionesDePid(Head(canal[c]).pid) = {}
     \/ /\ \/ \E op \in {"TERMINO_MAL", "IMPRIMIR"} : Llega(c, op)
           \/ Llega(c, "WAIT") /\ valor[Head(canal[c]).sem] <= 0
        /\ RelacionesDeCpu(c) = {}
  /\ nucleo' = "muerto"
  /\ UNCHANGED <<pidActual, colas, listas, semaforos, hilos, pendienteES, umc,
                 finalizaciones, consolas, cpu, aCpu>>

\* cerrar_socket_cpu.  The message to a console that is already gone goes to
\* descriptor -1, and never ends.  elminar_consola_por_socket reads the relation
\* that was just freed.  enviar_a_cpu() is not called.
CerrarCpu(c) ==
  /\ MutexLibre
  /\ cpu[c].est = "cerrada" /\ canal[c] = <<>>
  /\ Quedar(c, "retirada", 0)
  /\ cpus' = Sacar(c, cpus)
  /\ IF RelacionesDeCpu(c) = {}
     THEN UNCHANGED <<nucleo, hilos, aviso, colaExec, colaExit, finalizaciones,
                      programas, relacion, corriendo>>
     ELSE LET i == Primera(RelacionesDeCpu(c))
              q == relacion[i].pid
          IN IF Muerta(q)
             THEN /\ hilos' = [hilos EXCEPT ![Kernel].paso = "colgado"]
                  /\ UNCHANGED <<nucleo, aviso, colaExec, colaExit, finalizaciones,
                                 programas, relacion, corriendo>>
             ELSE /\ \/ EnviarAConsola(programas[q], "TERMINO_MAL", hilos)
                     \/ /\ "memoria" \in Fallas /\ nucleo' = "muerto"
                        /\ UNCHANGED <<aviso, hilos>>
                  /\ Enterrar(q)
                  /\ colaExec' = colaExec \ {q}
                  /\ Soltar(i)
  /\ UNCHANGED <<pidActual, colaNew, colaReady, colaBlocked, semaforos, pendienteES,
                 umc, consola, duenio, hiloInit, canal, aCpu>>

-----------------------------------------------------------------------------
(* enviar_a_cpu, by the holder of mutexKernel or by an entrada_salida thread *)

EnPaso(h, paso) == nucleo = "vivo" /\ hilos[h].paso = paso

\* return: the holder unlocks, unless it still has a thread to create.
Volver(h) == [hilos EXCEPT ![h] =
               IF h = Kernel /\ pendienteES # 0 THEN [HiloLibre EXCEPT !.paso = "lanzar"]
                                                ELSE HiloLibre]

resto == <<pidActual, semaforos, pendienteES, umc, finalizaciones, consolas,
           cpu, canal>>

\* list_find(lista_cpus_conectadas, esta_libre)
Buscar(h) ==
  LET libres == {i \in DOMAIN cpus : cpus[i] \notin corriendo} IN
  /\ EnPaso(h, "buscar")
  /\ hilos' = IF libres = {} THEN Volver(h)
              ELSE [hilos EXCEPT ![h] = [paso |-> "sacar", cpu |-> cpus[Primera(libres)],
                                         pid |-> 0]]
  /\ UNCHANGED <<nucleo, colas, listas, resto, aCpu>>

\* queue_pop(colaReady)
SacarReady(h) ==
  /\ EnPaso(h, "sacar")
  /\ IF colaReady = <<>>
     THEN hilos' = Volver(h) /\ UNCHANGED colaReady
     ELSE /\ colaReady' = Tail(colaReady)
          /\ hilos' = [hilos EXCEPT ![h].paso = "relacionar", ![h].pid = Head(colaReady)]
  /\ UNCHANGED <<nucleo, colaNew, colaExec, colaBlocked, colaExit, listas, resto, aCpu>>

\* relacionar_cpu_programa, up to the list of relations.  A PCB whose program is
\* not in the list is dropped (nucleo.c:347-349).
Relacionar(h) ==
  LET c == hilos[h].cpu
      p == hilos[h].pid
  IN
  /\ EnPaso(h, "relacionar")
  /\ IF programas[p] = "ninguno"
     THEN hilos' = Volver(h) /\ UNCHANGED <<corriendo, relacion>>
     ELSE /\ corriendo' = corriendo \union {c}
          /\ relacion' = Append(relacion, [cpu |-> c, pid |-> p])
          /\ hilos' = [hilos EXCEPT ![h].paso = "ejecutar"]
  /\ UNCHANGED <<nucleo, colas, programas, cpus, resto, aCpu>>

\* The rest of it: moverA_colaExec.
MoverAExec(h) ==
  /\ EnPaso(h, "ejecutar")
  /\ colaExec' = colaExec \union {hilos[h].pid}
  /\ hilos' = [hilos EXCEPT ![h].paso = "enviar"]
  /\ UNCHANGED <<nucleo, colaNew, colaReady, colaBlocked, colaExit, listas, resto, aCpu>>

EnviarPcb(h) ==
  /\ EnPaso(h, "enviar")
  /\ EnviarACpu(hilos[h].cpu, Mensaje("CORRER", hilos[h].pid, Nadie), h, Volver(h))
  /\ UNCHANGED <<colas, listas, resto>>

\* pthread_create(entrada_salida)
LanzarES ==
  /\ EnPaso(Kernel, "lanzar")
  /\ \E h \in HilosIO :
       /\ hilos[h].paso = "libre"
       /\ hilos' = [hilos EXCEPT ![h] = [paso |-> "io", cpu |-> Nadie, pid |-> pendienteES],
                                 ![Kernel] = HiloLibre]
  /\ pendienteES' = 0
  /\ UNCHANGED <<nucleo, pidActual, colas, listas, semaforos, umc, finalizaciones,
                 consolas, procesosCpu>>

\* entrada_salida after msleep: desbloquear_pcb, without mutexKernel.
FinES(h) ==
  /\ h \in HilosIO /\ EnPaso(h, "io")
  /\ Desbloquear(h, hilos[h].pid)
  /\ UNCHANGED <<nucleo, colaNew, colaReady, colaExec, colaExit, listas, resto, aCpu>>

\* Mutation: enviar_a_cpu() is not called after desbloquear_pcb().
MoverSinDespachar(h) ==
  /\ EnPaso(h, "mover")
  /\ colaReady' = Append(colaReady, hilos[h].pid)
  /\ hilos' = [hilos EXCEPT ![h] = HiloLibre]
  /\ UNCHANGED <<nucleo, colaNew, colaExec, colaBlocked, colaExit, listas, resto, aCpu>>

\* moverA_colaReady of desbloquear_pcb; enviar_a_cpu() follows.
MoverAReady(h) ==
  /\ EnPaso(h, "mover")
  /\ colaReady' = Append(colaReady, hilos[h].pid)
  /\ hilos' = AEnviar(h)
  /\ UNCHANGED <<nucleo, colaNew, colaExec, colaBlocked, colaExit, listas, resto, aCpu>>

-----------------------------------------------------------------------------
EnviarACpuPasos(h) ==
  Buscar(h) \/ SacarReady(h) \/ Relacionar(h) \/ MoverAExec(h) \/ EnviarPcb(h)
PasoDeHilo(h) == EnviarACpuPasos(h) \/ FinES(h) \/ MoverAReady(h)

AtenderCpu(c) ==
  \/ HandshakeCpu(c) \/ FinQuantum(c)
  \/ \E op \in {"FINALIZA", "ERROR_MEM"} : FinalizaPrograma(c, op)
  \/ TerminoMal(c) \/ WaitSinBloquear(c) \/ WaitBloquea(c) \/ Signal(c)
  \/ EntradaSalida(c) \/ Imprimir(c) \/ Obtener(c) \/ RelacionNula(c)
  \/ CerrarCpu(c)

AtenderConsola(k) ==
  \/ NuevoPrograma(k) \/ InitRecibe(k) \/ InitCarga(k)
  \/ CerrarConsolaSinPrograma(k) \/ CerrarConsola(k)

CpuResponde(c) == CpuRecibe(c) \/ CpuRespuesta(c)

Next ==
  \/ \E k \in Consolas : ConsolaEnvia(k) \/ ConsolaCierra(k) \/ AtenderConsola(k)
  \/ \E cod \in RespuestasUmc : UmcResponde(cod)
  \/ \E c \in Cpus :
       \/ CpuConecta(c) \/ CpuResponde(c) \/ CpuAvisa(c) \/ CpuPide(c)
       \/ \E op \in Instrucciones : CpuSuelta(c, op) \/ CpuSigusr1SinPcb(c, op)
       \/ CpuSigusr1(c) \/ CpuSigusr1TrasWait(c) \/ CpuMuere(c)
       \/ AtenderCpu(c)
  \/ Responder \/ EliminarCpu \/ LanzarES
  \/ \E h \in Hilos : PasoDeHilo(h)

Spec == Init /\ [][Next]_vars

\* Every thread of the kernel runs, the select loop serves every socket that has
\* something to read, and a thread that wants mutexKernel gets it in the end.
\* The UMC answers, an I/O operation ends, a CPU reads what it is sent, and a
\* program that is given the CPU again and again gets to its end.
TerminaAlgunaVez(p) ==
  \E c \in Cpus : cpu[c].pid = p /\ CpuSuelta(c, "FINALIZA")

Equidad ==
  /\ \A k \in Consolas : SF_vars(AtenderConsola(k))
  /\ \A c \in Cpus : /\ SF_vars(AtenderCpu(c)) /\ WF_vars(CpuResponde(c))
                     /\ WF_vars(CpuConecta(c))
                     /\ WF_vars(\E op \in Instrucciones : CpuSuelta(c, op))
  /\ \A cod \in RespuestasUmc : WF_vars(UmcResponde(cod))
  /\ \A h \in Hilos : WF_vars(PasoDeHilo(h))
  /\ WF_vars(Responder) /\ WF_vars(EliminarCpu) /\ WF_vars(LanzarES)
  /\ \A p \in Pids : SF_vars(TerminaAlgunaVez(p))

SpecVivo == Spec /\ Equidad

-----------------------------------------------------------------------------
(* Properties *)

\* A PCB on its way from Ready to Exec, or from Blocked to Ready, is in the hands
\* of a thread.
EnManoDe(p, pasos) == {h \in Hilos : hilos[h].paso \in pasos /\ hilos[h].pid = p}
EnMano(p) == EnManoDe(p, {"relacionar", "ejecutar", "mover"})

Veces(p, s) == Cardinality({i \in DOMAIN s : s[i] = p})

\* Every variable of the kernel keeps its type: no list, queue or message ever
\* names a pid that was not handed out, nor a CPU or console that is not there.
TypeOK ==
  /\ nucleo \in {"vivo", "muerto"} /\ pidActual \in Pids \union {0}
  /\ colaNew \subseteq Pids /\ colaExec \subseteq Pids
  /\ colaBlocked \subseteq Pids /\ colaExit \subseteq Pids
  /\ colaReady \in Seq(Pids)
  /\ programas \in [Pids -> Consolas \union {"ninguno", "cerrado"}]
  /\ cpus \in Seq(Cpus) /\ corriendo \subseteq Cpus
  /\ relacion \in Seq([cpu : Cpus, pid : Pids])
  /\ valor \in [Semaforos -> Int] /\ cola \in [Semaforos -> Seq(Pids)]
  /\ hilos \in [Hilos -> [paso : {"libre", "buscar", "sacar", "relacionar", "ejecutar",
                                  "enviar", "mover", "responder", "eliminar", "lanzar",
                                  "io", "colgado"},
                          cpu : Cpus \union {Nadie}, pid : Pids \union {0}]]
  /\ pendienteES \in Pids \union {0}
  /\ hiloInit \in [Consolas -> [paso : {"no", "recibiendo", "cargando", "fin"},
                                cod : {"OK", "NO_OK"}, pid : Pids \union {0}]]
  /\ umcPedidos \in Seq(Pids)
  /\ umcRespuestas \in Seq([cod : {"OK", "NO_OK"}, pid : Pids])
  /\ finalizaciones \in [Pids -> 0 .. 2]
  /\ consola \in [Consolas -> {"nueva", "conectada", "muerta", "cerrada"}]
  /\ aviso \in [Consolas -> {"nada", "OK", "NO_OK", "TERMINO_BIEN", "TERMINO_MAL"}]
  /\ duenio \in [Pids -> Consolas \union {Nadie}]
  /\ cpu \in [Cpus -> [est : {"apagada", "libre", "corriendo", "espera", "cerrada",
                              "retirada"}, pid : Pids \union {0}]]

\* No PCB is lost or duplicated: every pid handed out is in exactly one of the
\* five queues, or in the hands of the one thread that is taking it from Ready to
\* Exec (enviar_a_cpu) or from Blocked to Ready (desbloquear_pcb).
CadaPcbEnUnLugar ==
  nucleo = "vivo" =>
    \A p \in 1 .. pidActual :
      Cardinality({q \in {"new", "exec", "blocked", "exit"} :
                     \/ q = "new" /\ p \in colaNew
                     \/ q = "exec" /\ p \in colaExec
                     \/ q = "blocked" /\ p \in colaBlocked
                     \/ q = "exit" /\ p \in colaExit})
        + Veces(p, colaReady) + Cardinality(EnMano(p)) = 1

\* Every ready PCB has its entry in lista_programas_actuales: otherwise
\* enviar_a_cpu() takes it out of Ready and drops it without a word.
ListoTienePrograma ==
  \A p \in Pids :
    p \in EnSecuencia(colaReady) \/ EnManoDe(p, {"relacionar", "mover"}) # {} =>
      programas[p] # "ninguno"

\* Exec, lista_relacion and the flags corriendo tell the same story whenever
\* mutexKernel is free: one relation per executing PCB, one per busy CPU.
RelacionesCoherentes ==
  MutexLibre =>
    /\ colaExec = {r.pid : r \in EnSecuencia(relacion)}
    /\ corriendo = {r.cpu : r \in EnSecuencia(relacion)}
    /\ \A i, j \in DOMAIN relacion :
         i # j => /\ relacion[i].pid # relacion[j].pid
                  /\ relacion[i].cpu # relacion[j].cpu

\* What runs on a CPU is what the kernel thinks runs there; so no process runs
\* on two CPUs, and liberar_una_relacion finds its relation.
CpuDeAcuerdo ==
  nucleo = "vivo" =>
    \A c \in Cpus : cpu[c].est = "corriendo" =>
      [cpu |-> c, pid |-> cpu[c].pid] \in EnSecuencia(relacion)

\* The value of a semaphore counts its queue, and who waits there is blocked
\* there and nowhere else: a SIGNAL always finds a process to wake.
SemaforoContable ==
  \A s \in Semaforos :
    /\ Len(cola[s]) = IF valor[s] < 0 THEN - valor[s] ELSE 0
    /\ \A i \in DOMAIN cola[s] : /\ cola[s][i] \in colaBlocked
                                 /\ Veces(cola[s][i], cola[s]) = 1
    /\ \A t \in Semaforos : s # t =>
         EnSecuencia(cola[s]) \intersect EnSecuencia(cola[t]) = {}

\* The relations hold pointers into lista_programas_actuales: no entry is freed
\* while a relation still points at it.
RelacionSinColgar ==
  nucleo = "vivo" => \A r \in EnSecuencia(relacion) : programas[r.pid] # "ninguno"

\* Work conservation: when nobody is about to call enviar_a_cpu(), a ready PCB
\* and a free CPU never wait for each other.
TrabajoConservado ==
  MutexLibre /\ (\A h \in Hilos : hilos[h].paso \in {"libre", "io"}) =>
    colaReady = <<>> \/ EnSecuencia(cpus) \subseteq corriendo

\* A program the UMC was told to forget never gets the CPU again.
NuncaRevive ==
  nucleo = "vivo" =>
    \A p \in Pids : finalizaciones[p] > 0 =>
      /\ p \notin EnSecuencia(colaReady) /\ p \notin colaExec /\ EnMano(p) = {}
      /\ \A c \in Cpus :
           /\ cpu[c].est = "corriendo" => cpu[c].pid # p
           /\ cpu[c].est \in {"libre", "corriendo", "espera"} =>
                Mensaje("CORRER", p, Nadie) \notin EnSecuencia(aCpu[c])

\* The UMC is told only once: a second FINALIZA_PROGRAMA is for a page table
\* that is not there any more.
FinalizaUnaVez == \A p \in Pids : finalizaciones[p] <= 1

\* No handler dereferences a NULL relation and no thread is stuck in enviar().
NucleoSano == /\ nucleo = "vivo"
              /\ \A h \in Hilos : hilos[h].paso # "colgado"

\* A CPU blocked in wait() reads the answer to its WAIT and nothing else: what it
\* takes for the death of the kernel (primitivas.c:346) is never another packet.
RespuestaDeWait ==
  \A c \in Cpus : cpu[c].est = "espera" /\ aCpu[c] # <<>> =>
    Head(aCpu[c]).op \in {"OK", "NO_OK"}

\* The console that is told that its PCB is in Ready is the one whose program
\* the PCB was made from (nucleo.c:412).
ConsolaCorrecta ==
  \A p \in Pids : programas[p] \in Consolas => programas[p] = duenio[p]

\* A closed console no CPU works for is out of the list (nucleo.c:525).
SinZombis ==
  \A p \in Pids : Muerta(p) => RelacionesDePid(p) # {}

\* TERMINO_MAL_PROGRAMA comes from a CPU the signal caught while it was running
\* the PCB it sends (cpu.c:201): the relation is still there.
SigusrMientrasCorria ==
  \A c \in Cpus : MutexLibre /\ canal[c] # <<>> /\ Head(canal[c]).op = "TERMINO_MAL" =>
    [cpu |-> c, pid |-> Head(canal[c]).pid] \in EnSecuencia(relacion)

\* enviar_a_cpu() takes a CPU that is free (nucleo.c:331).
UnProcesoPorCpu ==
  \A c \in Cpus : Cardinality(RelacionesDeCpu(c)) <= 1

\* Every console that sent its program is told how it ended.
TodoProgramaTermina ==
  \A k \in Consolas : consola[k] = "conectada" ~>
    aviso[k] \in {"NO_OK", "TERMINO_BIEN", "TERMINO_MAL"}
=============================================================================
