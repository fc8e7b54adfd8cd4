------------------------------ MODULE Sockets -------------------------------
(***************************************************************************)
(* Packets over TCP (sockets/Sockets.c): enviar() cuts a packet into as    *)
(* many pieces as send() takes; recibir_paquete() puts it together again   *)
(* inside the select loop of the kernel and of the UMC                     *)
(* (correr_server_multiconexion), where one thread serves every client.    *)
(* A client may die between any two bytes.                                 *)
(*                                                                         *)
(* A byte is named by its packet and its place in it: the code of the      *)
(* operation first, then the size of the data, then the data.              *)
(***************************************************************************)
EXTENDS Integers, Sequences, FiniteSetsExt

CONSTANTS Clientes,
          TamCodigo, TamTamano,   \* sizeof(cod_op) and sizeof(tamano_datos)
          Tamanos,                \* sizes of data
          MaxPaquetes,            \* bound: packets of all the clients
          Fallas                  \* subset of {"cierre", "reset"}: how a client dies

\* Nobody sends a packet without data: recv() of 0 bytes would return 0, which
\* recibir_paquete takes for a closed connection.
ASSUME TamanosAssumption == /\ TamCodigo \in Nat \ {0} /\ TamTamano \in Nat \ {0}
                            /\ Tamanos \subseteq Nat \ {0}
ASSUME FallasAssumption == Fallas \subseteq {"cierre", "reset"}

SIZE_HEADER == TamCodigo + TamTamano

VARIABLES
  conexion,     \* the client's end: "fuera", "abierta", "cerrada", "reset" (the
                \*   next recv() of the server fails) or "olvidada" (the server
                \*   closed its end too)
  tamanos,      \* the packets a client sent or is sending: their sizes of data
  bloque,       \* what enviar() still has to send
  canal,        \* bytes the server did not read
  fds,          \* clients of the server's fd_set
  set_ite,      \* those select() returned and the for did not reach
  servidor,     \* "select", "for", "codigo", "tamano", "datos" or "manejar";
                \*   "terminado" (the loop returned), "girando" (the do-while of
                \*   the data never ends) or "desfasado" (a field of the header
                \*   was read in part: the rest of it is not initialised)
  socket_ite,   \* client it serves
  tamano, datos,   \* of the packet it receives
  manejados,    \* packets of each client that were handled
  partida       \* history: clients whose send() once ended inside a header

cliente == <<conexion, tamanos, bloque, canal>>
recepcion == <<servidor, socket_ite, tamano, datos>>
vars == <<cliente, fds, set_ite, recepcion, manejados, partida>>

Nadie == "nadie"
Escucha == "escucha"   \* the listening socket

Menor(a, b) == IF a < b THEN a ELSE b

Init ==
  /\ conexion = [c \in Clientes |-> "fuera"]
  /\ tamanos = [c \in Clientes |-> <<>>]
  /\ bloque = [c \in Clientes |-> <<>>]
  /\ canal = [c \in Clientes |-> <<>>]
  /\ fds = {}
  /\ set_ite = {}
  /\ servidor = "select"
  /\ socket_ite = Nadie
  /\ tamano = 0
  /\ datos = <<>>
  /\ manejados = [c \in Clientes |-> 0]
  /\ partida = {}

-----------------------------------------------------------------------------
(* The clients *)

\* The bytes of the packet n, with t bytes of data.
Bytes(n, t) == [i \in 1 .. SIZE_HEADER + t |-> [paquete |-> n, lugar |-> i]]

Muerta(c) == conexion[c] \in {"cerrada", "reset"}

Conectar(c) ==
  /\ conexion[c] = "fuera"
  /\ conexion' = [conexion EXCEPT ![c] = "abierta"]
  /\ UNCHANGED <<tamanos, bloque, canal, fds, set_ite, recepcion, manejados, partida>>

\* Packets of all the clients.
Enviados == MapThenSumSet(LAMBDA c : Len(tamanos[c]), Clientes)

\* enviar(): armar_paquete and paquete_a_stream.
Enviar(c, t) ==
  /\ conexion[c] = "abierta" /\ bloque[c] = <<>> /\ Enviados < MaxPaquetes
  /\ tamanos' = [tamanos EXCEPT ![c] = Append(@, t)]
  /\ bloque' = [bloque EXCEPT ![c] = Bytes(Len(tamanos'[c]), t)]
  /\ UNCHANGED <<conexion, canal, fds, set_ite, recepcion, manejados, partida>>

\* What is left of a packet begins inside its header.
EnCabecera(resto) == resto # <<>> /\ resto[1].lugar \in 2 .. SIZE_HEADER

\* Mutation: after a short send() the rest starts at the beginning.
SendDesdeElPrincipio(c) ==
  /\ conexion[c] = "abierta"
  /\ \E n \in 1 .. Len(bloque[c]) :
       /\ canal' = [canal EXCEPT ![c] = @ \o
            SubSeq(Bytes(Len(tamanos[c]), tamanos[c][Len(tamanos[c])]), 1, n)]
       /\ bloque' = [bloque EXCEPT ![c] = SubSeq(@, n + 1, Len(@))]
       /\ partida' = IF EnCabecera(bloque'[c]) THEN partida \union {c} ELSE partida
  /\ UNCHANGED <<conexion, tamanos, fds, set_ite, recepcion, manejados>>

\* One turn of its do-while: send() takes a part of the rest.
Send(c) ==
  /\ conexion[c] = "abierta"
  /\ \E n \in 1 .. Len(bloque[c]) :
       /\ canal' = [canal EXCEPT ![c] = @ \o SubSeq(bloque[c], 1, n)]
       /\ bloque' = [bloque EXCEPT ![c] = SubSeq(@, n + 1, Len(@))]
       /\ partida' = IF EnCabecera(bloque'[c]) THEN partida \union {c} ELSE partida
  /\ UNCHANGED <<conexion, tamanos, fds, set_ite, recepcion, manejados>>

\* The process ends; what it sent is read before the end of the connection, or
\* before the ECONNRESET.
Morir(c) ==
  /\ conexion[c] = "abierta"
  /\ \/ "cierre" \in Fallas /\ conexion' = [conexion EXCEPT ![c] = "cerrada"]
     \/ "reset" \in Fallas /\ conexion' = [conexion EXCEPT ![c] = "reset"]
  /\ UNCHANGED <<tamanos, bloque, canal, fds, set_ite, recepcion, manejados, partida>>

-----------------------------------------------------------------------------
(* The select loop: correr_server_multiconexion *)

Pendientes == {c \in Clientes \ fds : conexion[c] \notin {"fuera", "olvidada"}}
\* Clients with bytes, or with the end of their connection.
Legibles == {c \in fds : canal[c] # <<>> \/ Muerta(c)}

servir == <<socket_ite, tamano, datos>>

\* select().
Select ==
  /\ servidor = "select" /\ Legibles \union Pendientes # {}
  /\ set_ite' = Legibles \union IF Pendientes = {} THEN {} ELSE {Escucha}
  /\ servidor' = "for"
  /\ UNCHANGED <<cliente, fds, servir, manejados, partida>>

\* The listening socket: accept() and FD_SET.
Aceptar(c) ==
  /\ servidor = "for" /\ Escucha \in set_ite /\ c \in Pendientes
  /\ fds' = fds \union {c}
  /\ set_ite' = set_ite \ {Escucha}
  /\ UNCHANGED <<cliente, recepcion, manejados, partida>>

\* Mutation: the packet is received without recibio_datos.
AtenderSinMirar(c) ==
  /\ servidor = "for" /\ c \in set_ite
  /\ set_ite' = set_ite \ {c}
  /\ servidor' = "codigo" /\ socket_ite' = c
  /\ UNCHANGED <<cliente, fds, tamano, datos, manejados, partida>>

\* Mutation: a client that is gone is forgotten before its last bytes are read.
AtenderSiVive(c) ==
  /\ servidor = "for" /\ c \in set_ite
  /\ set_ite' = set_ite \ {c}
  /\ \/ /\ ~Muerta(c)
        /\ servidor' = "codigo"
        /\ socket_ite' = c
        /\ UNCHANGED <<conexion, fds>>
     \/ /\ Muerta(c)
        /\ fds' = fds \ {c}
        /\ conexion' = [conexion EXCEPT ![c] = "olvidada"]
        /\ UNCHANGED <<servidor, socket_ite>>
  /\ UNCHANGED <<tamanos, bloque, canal, tamano, datos, manejados, partida>>

\* recibio_datos peeks at a byte; without one the client is gone:
\* socket_cerrado, FD_CLR and close().
Atender(c) ==
  /\ servidor = "for" /\ c \in set_ite
  /\ set_ite' = set_ite \ {c}
  /\ \/ /\ canal[c] # <<>>
        /\ servidor' = "codigo"
        /\ socket_ite' = c
        /\ UNCHANGED <<conexion, fds>>
     \/ /\ canal[c] = <<>>
        /\ fds' = fds \ {c}
        /\ conexion' = [conexion EXCEPT ![c] = "olvidada"]
        /\ UNCHANGED <<servidor, socket_ite>>
  /\ UNCHANGED <<tamanos, bloque, canal, tamano, datos, manejados, partida>>

\* The for is over.
OtroSelect ==
  /\ servidor = "for" /\ set_ite = {}
  /\ servidor' = "select"
  /\ UNCHANGED <<cliente, fds, set_ite, servir, manejados, partida>>

-----------------------------------------------------------------------------
(* recibir_paquete *)

Hay == canal[socket_ite]

\* recv() of up to n bytes when there are some: these, and what stays.
Recibidos(n) == SubSeq(Hay, 1, n)
Leer(n) == canal' = [canal EXCEPT ![socket_ite] = SubSeq(@, n + 1, Len(@))]

Recibiendo == servidor \in {"codigo", "tamano", "datos"}

\* The code.
RecibirCodigo ==
  /\ servidor = "codigo" /\ Hay # <<>>
  /\ Leer(TamCodigo)
  /\ servidor' = IF Len(Hay) < TamCodigo THEN "desfasado" ELSE "tamano"
  /\ UNCHANGED <<conexion, tamanos, bloque, fds, set_ite, servir, manejados, partida>>

\* The size: of the packet whose bytes these are.
RecibirTamano ==
  /\ servidor = "tamano" /\ Hay # <<>>
  /\ Leer(TamTamano)
  /\ IF Len(Hay) < TamTamano
     THEN servidor' = "desfasado" /\ UNCHANGED tamano
     ELSE servidor' = "datos" /\ tamano' = tamanos[socket_ite][Hay[1].paquete]
  /\ UNCHANGED <<conexion, tamanos, bloque, fds, set_ite, socket_ite, datos, manejados,
                 partida>>

\* One turn of the do-while of the data.
RecibirDatos ==
  /\ servidor = "datos" /\ Hay # <<>>
  /\ LET n == Menor(tamano - Len(datos), Len(Hay))
     IN  Leer(n) /\ datos' = datos \o Recibidos(n)
  /\ servidor' = IF Len(datos') = tamano THEN "manejar" ELSE "datos"
  /\ UNCHANGED <<conexion, tamanos, bloque, fds, set_ite, socket_ite, tamano, manejados,
                 partida>>

\* recv() returns 0.  In the header and at the start of the data the packet is
\* an error and the whole loop returns; later the sum does not change, and the
\* do-while goes round for ever.
FinDeConexion ==
  /\ Recibiendo /\ Hay = <<>> /\ conexion[socket_ite] = "cerrada"
  /\ servidor' = IF datos = <<>> THEN "terminado" ELSE "girando"
  /\ UNCHANGED <<cliente, fds, set_ite, servir, manejados, partida>>

\* recv() returns -1, once.  In the data it is added to the sum: the last byte
\* is taken back.
ErrorDeConexion ==
  /\ Recibiendo /\ Hay = <<>> /\ conexion[socket_ite] = "reset"
  /\ conexion' = [conexion EXCEPT ![socket_ite] = "cerrada"]
  /\ IF Len(datos) <= 1
     THEN servidor' = "terminado" /\ UNCHANGED datos
     ELSE datos' = SubSeq(datos, 1, Len(datos) - 1) /\ UNCHANGED servidor
  /\ UNCHANGED <<tamanos, bloque, canal, fds, set_ite, socket_ite, tamano, manejados,
                 partida>>

\* manejar_pedido and destruir_paquete.
Manejar ==
  /\ servidor = "manejar"
  /\ servidor' = "for"
  /\ manejados' = [manejados EXCEPT ![socket_ite] = @ + 1]
  /\ socket_ite' = Nadie /\ tamano' = 0 /\ datos' = <<>>
  /\ UNCHANGED <<cliente, fds, set_ite, partida>>

-----------------------------------------------------------------------------
RecibirPaquete == \/ RecibirCodigo \/ RecibirTamano \/ RecibirDatos
                  \/ FinDeConexion \/ ErrorDeConexion \/ Manejar
Servidor == \/ Select \/ OtroSelect \/ RecibirPaquete
            \/ \E c \in Clientes : Aceptar(c) \/ Atender(c)

Next == \/ Servidor
        \/ \E c \in Clientes : \/ Conectar(c) \/ Send(c) \/ Morir(c)
                               \/ \E t \in Tamanos : Enviar(c, t)

\* The server runs, and an enviar() that began goes on unless its process dies.
Spec == Init /\ [][Next]_vars /\ WF_vars(Servidor) /\ \A c \in Clientes : WF_vars(Send(c))

-----------------------------------------------------------------------------
(* Properties *)

\* The bytes of data of the packet n of c.
DatosDe(c, n) == SubSeq(Bytes(n, tamanos[c][n]), SIZE_HEADER + 1,
                        SIZE_HEADER + tamanos[c][n])

\* Whatever pieces it came in, and however many clients the select loop serves
\* in between, a packet is handled as it was sent: in its turn, with its size and
\* its data, and what is left in the channel starts with the next one.
EntregaExacta ==
  servidor = "manejar" =>
    LET c == socket_ite
        n == manejados[c] + 1
    IN  /\ n <= Len(tamanos[c]) /\ tamano = tamanos[c][n]
        /\ datos = DatosDe(c, n)
        /\ canal[c] # <<>> => canal[c][1] = [paquete |-> n + 1, lugar |-> 1]

\* A client that dies in the middle of an enviar().
Cortado(c) == Muerta(c) /\ bloque[c] # <<>> /\ bloque[c][1].lugar > 1

\* What a client may do to the server all the others use: dying between two
\* packets, or with a packet that it did not begin, costs nobody anything.  The
\* loop returns or hangs only because of a packet cut in two by the death of its
\* sender, and loses its place only because that client's header came in pieces.
SoloCaeCortado ==
  /\ servidor \in {"terminado", "girando"} => Cortado(socket_ite)
  /\ servidor = "desfasado" => socket_ite \in partida

Caido == servidor \in {"terminado", "girando", "desfasado"}

\* A packet that was sent whole is handled, also when its sender is gone before
\* the server reads it, unless the server fell.
PaqueteLlega ==
  \A c \in Clientes : \A n \in 1 .. MaxPaquetes :
    Len(tamanos[c]) >= n /\ (n < Len(tamanos[c]) \/ bloque[c] = <<>>)
      ~> manejados[c] >= n \/ Caido

\* The server survives its clients: Sockets.h:79 says "Corre indefinidamente un
\* server multiconexion".
ServidorSobrevive == servidor \notin {"terminado", "girando"}

\* The fields of a header are read whole.
CabeceraEntera == servidor # "desfasado"
=============================================================================
