----------------------------- MODULE UmcConsola -----------------------------
(***************************************************************************)
(* Who may run in the UMC (umc/src/Consola_Umc.c, ejecutoConsola;          *)
(* umc/src/Conexiones_Umc.c): the semaphore programasquepuedencorrer has   *)
(* one permit per connected program.  The thread of a connection holds a   *)
(* permit while it serves a request; the console takes as many as          *)
(* cant_programas_conectados says, runs its command, and gives them back.  *)
(* Both change at the end of a handshake, in the select loop.              *)
(*                                                                         *)
(* What a request or a command does is in Umc, whose commands assume the   *)
(* exclusion that is the subject here.  The clients appear by what they    *)
(* send: one message at a time, the others wait in the socket.             *)
(***************************************************************************)
EXTENDS Integers, FiniteSets

CONSTANTS Clientes,     \* the kernel and the CPUs
          Nucleo,
          Fallas        \* subset of {"muere", "cierre"}: clients that die after
                        \*   their handshake was sent, connections closed before

ASSUME ClientesAssumption == IsFiniteSet(Clientes) /\ Nucleo \in Clientes
ASSUME FallasAssumption == Fallas \subseteq {"muere", "cierre"}

VARIABLES
  umc,          \* "viva" or "muerta"
  permisos,     \* the value of programasquepuedencorrer
  cant,         \* *cant_programas_conectados
  servidor,     \* where the select loop is: "select", "contar", "permitir"
                \*   (inside a handshake) or "quitar" (inside cerrar_conexion)
  hilo,         \* the thread of each connection: "ninguno", "recibir",
                \*   "esperar", "atender", "soltar", "despedir" or "fin"
  consola,      \* [paso, i]: "menu", "tomar", "esperar", "comando", "soltar"
  conexion,     \* the client's end: "fuera", "abierta", "cerrada", "olvidada"
  buzon,        \* what the client sent and the UMC did not read: "vacio",
                \*   "HS" or "pedido"
  espera,       \* the client waits for an answer
  tomados,      \* history: permits the console took and did not give back
  incidentes    \* history: "saludo", a handshake was counted when the console
                \*   had its permits; "cierre", cerrar_conexion ran

clientes == <<conexion, buzon, espera>>
vars == <<umc, permisos, cant, servidor, hilo, consola, clientes, tomados, incidentes>>

Init ==
  /\ umc = "viva"
  /\ permisos = 0
  /\ cant = 0
  /\ servidor = "select"
  /\ hilo = [c \in Clientes |-> "ninguno"]
  /\ consola = [paso |-> "menu", i |-> 0]
  /\ conexion = [c \in Clientes |-> "fuera"]
  /\ buzon = [c \in Clientes |-> "vacio"]
  /\ espera = [c \in Clientes |-> FALSE]
  /\ tomados = 0
  /\ incidentes = {}

-----------------------------------------------------------------------------
(* The clients *)

Mandar(c, mensaje) == /\ buzon' = [buzon EXCEPT ![c] = mensaje]
                      /\ espera' = [espera EXCEPT ![c] = TRUE]

\* connect(); the select loop accepts.
Conectar(c) ==
  /\ umc = "viva" /\ conexion[c] = "fuera"
  /\ conexion' = [conexion EXCEPT ![c] = "abierta"]
  /\ UNCHANGED <<umc, permisos, cant, servidor, hilo, consola, buzon, espera, tomados,
                 incidentes>>

\* HS_CPU_UMC or HS_NUCLEO_UMC.
Saludar(c) ==
  /\ conexion[c] = "abierta" /\ hilo[c] = "ninguno" /\ ~espera[c]
  /\ Mandar(c, "HS")
  /\ UNCHANGED <<umc, permisos, cant, servidor, hilo, consola, conexion, tomados,
                 incidentes>>

\* Any request of a client that was answered.
Pedir(c) ==
  /\ umc = "viva" /\ conexion[c] = "abierta" /\ hilo[c] # "ninguno" /\ ~espera[c]
  /\ Mandar(c, "pedido")
  /\ UNCHANGED <<umc, permisos, cant, servidor, hilo, consola, conexion, tomados,
                 incidentes>>

\* The client ends; what it sent can still be read.
CerrarCliente(c) ==
  /\ umc = "viva" /\ conexion[c] = "abierta"
  /\ IF hilo[c] = "ninguno" /\ ~espera[c] THEN "cierre" \in Fallas ELSE "muere" \in Fallas
  /\ conexion' = [conexion EXCEPT ![c] = "cerrada"]
  /\ UNCHANGED <<umc, permisos, cant, servidor, hilo, consola, buzon, espera, tomados,
                 incidentes>>

-----------------------------------------------------------------------------
(* The select loop: manejar_paquete and cerrar_conexion *)

\* FD_CLR, the thread and the two answers of the handshake.  The second send()
\* to a client that died raises SIGPIPE.
AtenderSaludo(c) ==
  /\ umc = "viva" /\ servidor = "select" /\ buzon[c] = "HS"
  /\ \/ /\ buzon' = [buzon EXCEPT ![c] = "vacio"]
        /\ espera' = [espera EXCEPT ![c] = FALSE]
        /\ hilo' = [hilo EXCEPT ![c] = "recibir"]
        /\ servidor' = "contar"
        /\ UNCHANGED umc
     \/ /\ conexion[c] = "cerrada"
        /\ umc' = "muerta"
        /\ UNCHANGED <<buzon, espera, hilo, servidor>>
  /\ UNCHANGED <<permisos, cant, consola, conexion, tomados, incidentes>>

\* (*cant_programas_conectados)++, while the thread already listens.
Contar ==
  /\ umc = "viva" /\ servidor = "contar"
  /\ cant' = cant + 1
  /\ servidor' = "permitir"
  /\ incidentes' = IF consola.paso \in {"comando", "soltar"}
                   THEN incidentes \union {"saludo"} ELSE incidentes
  /\ UNCHANGED <<umc, permisos, hilo, consola, clientes, tomados>>

\* Mutation: the handshake gives no permit.
PermitirNada ==
  /\ umc = "viva" /\ servidor = "permitir"
  /\ servidor' = "select"
  /\ UNCHANGED <<umc, permisos, cant, hilo, consola, clientes, tomados, incidentes>>

\* sem_post.
Permitir ==
  /\ umc = "viva" /\ servidor = "permitir"
  /\ permisos' = permisos + 1
  /\ servidor' = "select"
  /\ UNCHANGED <<umc, cant, hilo, consola, clientes, tomados, incidentes>>

\* cerrar_conexion: the select loop has only connections without a thread,
\* which nobody counted.
CerrarConexion(c) ==
  /\ umc = "viva" /\ servidor = "select"
  /\ conexion[c] = "cerrada" /\ hilo[c] = "ninguno" /\ buzon[c] = "vacio"
  /\ cant' = cant - 1
  /\ servidor' = "quitar"
  /\ conexion' = [conexion EXCEPT ![c] = "olvidada"]
  /\ incidentes' = incidentes \union {"cierre"}
  /\ UNCHANGED <<umc, permisos, hilo, consola, buzon, espera, tomados>>

\* Its sem_wait.
Quitar ==
  /\ umc = "viva" /\ servidor = "quitar" /\ permisos > 0
  /\ permisos' = permisos - 1
  /\ servidor' = "select"
  /\ UNCHANGED <<umc, cant, hilo, consola, clientes, tomados, incidentes>>

-----------------------------------------------------------------------------
(* The thread of a connection: atender_conexion *)

\* recibir_paquete: a request, or ERROR_COD_OP when the client is gone.
Recibir(c) ==
  /\ umc = "viva" /\ hilo[c] = "recibir"
  /\ buzon[c] = "pedido" \/ conexion[c] = "cerrada"
  /\ hilo' = [hilo EXCEPT ![c] = "esperar"]
  /\ UNCHANGED <<umc, permisos, cant, servidor, consola, clientes, tomados, incidentes>>

\* Mutation: the thread serves without a permit.
EsperarSinPermiso(c) ==
  /\ umc = "viva" /\ hilo[c] = "esperar"
  /\ hilo' = [hilo EXCEPT ![c] = "atender"]
  /\ UNCHANGED <<umc, permisos, cant, servidor, consola, clientes, tomados, incidentes>>

\* sem_wait.
EsperarPermiso(c) ==
  /\ umc = "viva" /\ hilo[c] = "esperar" /\ permisos > 0
  /\ permisos' = permisos - 1
  /\ hilo' = [hilo EXCEPT ![c] = "atender"]
  /\ UNCHANGED <<umc, cant, servidor, consola, clientes, tomados, incidentes>>

\* The switch: the answer to the request, or the end of the connection.
\* Without the kernel the UMC exits.
Atender(c) ==
  /\ umc = "viva" /\ hilo[c] = "atender"
  /\ \/ /\ buzon[c] = "pedido"
        /\ buzon' = [buzon EXCEPT ![c] = "vacio"]
        /\ espera' = [espera EXCEPT ![c] = FALSE]
        /\ hilo' = [hilo EXCEPT ![c] = "soltar"]
        /\ UNCHANGED umc
     \/ /\ buzon[c] = "vacio" /\ c = Nucleo
        /\ umc' = "muerta"
        /\ UNCHANGED <<buzon, espera, hilo>>
     \/ /\ buzon[c] = "vacio" /\ c # Nucleo
        /\ hilo' = [hilo EXCEPT ![c] = "despedir"]
        /\ UNCHANGED <<umc, buzon, espera>>
  /\ UNCHANGED <<permisos, cant, servidor, consola, conexion, tomados, incidentes>>

\* Mutation: the thread of a CPU that went away ends before its sem_post.
SoltarMenosElUltimo(c) ==
  /\ umc = "viva" /\ hilo[c] \in {"soltar", "despedir"}
  /\ permisos' = IF hilo[c] = "soltar" THEN permisos + 1 ELSE permisos
  /\ hilo' = [hilo EXCEPT ![c] = IF hilo[c] = "soltar" THEN "recibir" ELSE "fin"]
  /\ UNCHANGED <<umc, cant, servidor, consola, clientes, tomados, incidentes>>

\* sem_post, and the next request.  A CPU that left is still counted, and its
\* permit stays.
Soltar(c) ==
  /\ umc = "viva" /\ hilo[c] \in {"soltar", "despedir"}
  /\ permisos' = permisos + 1
  /\ hilo' = [hilo EXCEPT ![c] = IF hilo[c] = "soltar" THEN "recibir" ELSE "fin"]
  /\ UNCHANGED <<umc, cant, servidor, consola, clientes, tomados, incidentes>>

-----------------------------------------------------------------------------
(* The console: ejecutoConsola *)

EnConsola(paso) == umc = "viva" /\ consola.paso = paso
otros == <<umc, cant, servidor, hilo, clientes, incidentes>>

\* Any line but "help".
EscribirComando ==
  /\ EnConsola("menu")
  /\ consola' = [paso |-> "tomar", i |-> 0]
  /\ UNCHANGED <<permisos, tomados, otros>>

\* The test of the first for, which reads the counter again each time.
MirarCuantos ==
  /\ EnConsola("tomar")
  /\ consola' = [consola EXCEPT !.paso = IF consola.i < cant THEN "esperar" ELSE "comando"]
  /\ UNCHANGED <<permisos, tomados, otros>>

\* Its sem_wait.
TomarPermiso ==
  /\ EnConsola("esperar") /\ permisos > 0
  /\ permisos' = permisos - 1
  /\ tomados' = tomados + 1
  /\ consola' = [paso |-> "tomar", i |-> consola.i + 1]
  /\ UNCHANGED otros

\* The command and the Enter of the operator.
TerminarComando ==
  /\ EnConsola("comando")
  /\ consola' = [paso |-> "soltar", i |-> 0]
  /\ UNCHANGED <<permisos, tomados, otros>>

\* The second for: as many permits as the counter says now.
DevolverPermisos ==
  /\ EnConsola("soltar")
  /\ \/ /\ consola.i < cant
        /\ permisos' = permisos + 1
        /\ tomados' = tomados - 1
        /\ consola' = [consola EXCEPT !.i = @ + 1]
     \/ /\ consola.i >= cant
        /\ consola' = [paso |-> "menu", i |-> 0]
        /\ UNCHANGED <<permisos, tomados>>
  /\ UNCHANGED otros

-----------------------------------------------------------------------------
PasoDelHilo(c) == Recibir(c) \/ Atender(c) \/ Soltar(c)
PasoDeConsola == MirarCuantos \/ TerminarComando \/ DevolverPermisos

Next == \/ \E c \in Clientes : \/ Conectar(c) \/ Saludar(c) \/ Pedir(c) \/ CerrarCliente(c)
                               \/ AtenderSaludo(c) \/ CerrarConexion(c)
                               \/ PasoDelHilo(c) \/ EsperarPermiso(c)
        \/ Contar \/ Permitir \/ Quitar
        \/ EscribirComando \/ TomarPermiso \/ PasoDeConsola

Spec == Init /\ [][Next]_vars

\* The threads run, and the operator presses Enter.  A sem_wait that finds a
\* permit again and again gets one: nobody else holds permits for ever, and a
\* thread that gave one back only returns after a whole round trip to its
\* client and the delay (retardo) of the UMC.
Equidad ==
  /\ WF_vars(PasoDeConsola) /\ SF_vars(TomarPermiso)
  /\ WF_vars(Contar) /\ WF_vars(Permitir) /\ SF_vars(Quitar)
  /\ \A c \in Clientes : /\ WF_vars(PasoDelHilo(c)) /\ SF_vars(EsperarPermiso(c))
                         /\ WF_vars(AtenderSaludo(c))

SpecVivo == Spec /\ Equidad

-----------------------------------------------------------------------------
(* Properties *)

\* Types of the semaphore, the counter and the threads of the UMC.
TypeOK ==
  /\ umc \in {"viva", "muerta"}
  /\ permisos \in Nat /\ cant \in Int /\ tomados \in Int
  /\ servidor \in {"select", "contar", "permitir", "quitar"}
  /\ hilo \in [Clientes -> {"ninguno", "recibir", "esperar", "atender", "soltar",
                            "despedir", "fin"}]
  /\ consola \in [paso : {"menu", "tomar", "esperar", "comando", "soltar"}, i : Nat]
  /\ conexion \in [Clientes -> {"fuera", "abierta", "cerrada", "olvidada"}]
  /\ buzon \in [Clientes -> {"vacio", "HS", "pedido"}]
  /\ espera \in [Clientes -> BOOLEAN]
  /\ incidentes \subseteq {"saludo", "cierre"}

\* The threads inside the switch of atender_conexion.
EnUso == {c \in Clientes : hilo[c] \in {"atender", "soltar", "despedir"}}

EnCamino == IF servidor = "permitir" THEN 1 ELSE IF servidor = "quitar" THEN -1 ELSE 0

\* Permits are neither made nor lost: those of the semaphore, of the threads and
\* of the console, and the one a handshake or a close is about to move, add up
\* to cant_programas_conectados, also when a CPU dies in a request.
PermisosCuadran == permisos + Cardinality(EnUso) + tomados + EnCamino = cant

\* A console command runs alone: no thread is inside a request once the console
\* has its permits, as long as no handshake was counted after that and no
\* connection was closed before its handshake ("bloqueo todos los posibles
\* programas", Consola_Umc.c:256).
ComandoExclusivo ==
  consola.paso = "comando" /\ incidentes = {} => EnUso = {}

\* What Consola_Umc.c:256 says, without conditions: "bloqueo todos los posibles
\* programas. o terminan o se quedan trabados antes de empezar".
BloqueoTotal == consola.paso = "comando" => EnUso = {}

\* Every request of a client that stays is answered, also when the operator
\* types commands all the time, unless the UMC ended or a connection was closed
\* before its handshake.
PedidoRespondido ==
  \A c \in Clientes :
    buzon[c] = "pedido" ~> buzon[c] # "pedido" \/ umc = "muerta" \/ "cierre" \in incidentes

\* A command typed at the console gets to run, however many CPUs come, work and
\* die meanwhile: nobody takes a permit to the grave.
ComandoLlega ==
  consola.paso = "tomar" ~> \/ consola.paso = "comando" \/ umc = "muerta"
                            \/ "cierre" \in incidentes

\* A request is answered whatever connections come and go.
PedidoSiempreRespondido ==
  \A c \in Clientes : buzon[c] = "pedido" ~> buzon[c] # "pedido" \/ umc = "muerta"
=============================================================================
