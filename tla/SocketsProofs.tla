---------------------------- MODULE SocketsProofs ----------------------------
(***************************************************************************)
(* Packets over TCP for every set of clients, every size of the header and *)
(* of the data, and every way to cut them.                                 *)
(*                                                                         *)
(* The bytes of a client that nobody read yet are a train (Tren): each is  *)
(* followed by the next one of its packet, or by the first of the next     *)
(* packet; behind them comes what enviar() still has to send.  The place   *)
(* where the server stands (Lugar) is where the train begins.              *)
(***************************************************************************)
EXTENDS Sockets, SequenceTheorems, WellFoundedInduction, FiniteSetTheorems, TLAPS

Byte == [paquete : Nat \ {0}, lugar : Nat \ {0}]
En(n, l) == [paquete |-> n, lugar |-> l]

\* The byte after x, for a client that sent the packets t.
Sigue(t, x) == IF x.lugar < SIZE_HEADER + t[x.paquete] THEN En(x.paquete, x.lugar + 1)
                                                       ELSE En(x.paquete + 1, 1)

\* The byte that enviar() sends next, and the i-th that the server will read.
Proximo(t, b) == IF b = <<>> THEN En(Len(t) + 1, 1) ELSE b[1]
Vagon(t, s, b, i) == IF i <= Len(s) THEN s[i] ELSE Proximo(t, b)
Tren(t, s, b, x) == /\ Vagon(t, s, b, 1) = x
                    /\ \A i \in 1 .. Len(s) : Vagon(t, s, b, i + 1) = Sigue(t, s[i])

\* What enviar() holds is the end of the last packet.
Resto(t, b) ==
  b # <<>> => /\ Len(t) > 0 /\ Len(b) <= SIZE_HEADER + t[Len(t)]
              /\ \A i \in 1 .. Len(b) :
                   b[i] = En(Len(t), SIZE_HEADER + t[Len(t)] - Len(b) + i)

DelCliente(t, x) == x.paquete <= Len(t) /\ x.lugar <= SIZE_HEADER + t[x.paquete]

-----------------------------------------------------------------------------
(* The inductive invariant *)

Atendiendo == servidor \in {"codigo", "tamano", "datos", "manejar"}

Tipos ==
  /\ conexion \in [Clientes -> {"fuera", "abierta", "cerrada", "reset", "olvidada"}]
  /\ tamanos \in [Clientes -> Seq(Tamanos)]
  /\ bloque \in [Clientes -> Seq(Byte)]
  /\ canal \in [Clientes -> Seq(Byte)]
  /\ servidor \in {"select", "for", "codigo", "tamano", "datos", "manejar",
                   "terminado", "girando", "desfasado"}
  /\ Atendiendo \/ Caido => socket_ite \in Clientes
  /\ tamano \in Nat /\ datos \in Seq(Byte)
  /\ manejados \in [Clientes -> Nat]

\* A header in pieces leaves its mark on the client, and every byte is of a
\* packet that was sent.
Orden == \A c \in Clientes :
  /\ Resto(tamanos[c], bloque[c])
  /\ EnCabecera(bloque[c]) => c \in partida
  /\ \A i \in 1 .. Len(canal[c]) : DelCliente(tamanos[c], canal[c][i])

\* The byte of c that the server reads next.
Lugar(c) ==
  IF c # socket_ite \/ servidor \notin {"tamano", "datos", "manejar"}
  THEN En(manejados[c] + 1, 1)
  ELSE IF servidor = "tamano" THEN En(manejados[c] + 1, TamCodigo + 1)
  ELSE IF servidor = "datos" THEN En(manejados[c] + 1, SIZE_HEADER + Len(datos) + 1)
  ELSE En(manejados[c] + 2, 1)

\* The client died and the reset took a byte of the data back: the server waits
\* for bytes that do not come.
Perdido == servidor = "datos" /\ Hay = <<>> /\ conexion[socket_ite] = "cerrada"
             /\ Cortado(socket_ite)

Trenes ==
  \A c \in Clientes : (c = socket_ite => ~Caido /\ ~Perdido)
    => Tren(tamanos[c], canal[c], bloque[c], Lugar(c))

\* What the server has of the packet it receives.
Recepcion ==
  LET c == socket_ite
      n == manejados[c] + 1
  IN  /\ servidor = "codigo" => Hay # <<>>
      /\ Atendiendo => n <= Len(tamanos[c])
      /\ servidor \in {"datos", "manejar"} /\ ~Perdido =>
           /\ tamano = tamanos[c][n]
           /\ \A i \in 1 .. Len(datos) : datos[i] = En(n, SIZE_HEADER + i)
      /\ servidor = "datos" /\ ~Perdido => Len(datos) < tamano
      /\ servidor = "manejar" => Len(datos) = tamano
      /\ servidor \notin {"datos", "manejar", "terminado", "girando"} => datos = <<>>

IInv == Tipos /\ Orden /\ Trenes /\ Recepcion /\ SoloCaeCortado
-----------------------------------------------------------------------------
(* Trains *)

LEMMA Induccion ==
  ASSUME NEW S \in SUBSET Nat, 0 \in S, \A i \in S : i + 1 \in S
  PROVE  \A i \in Nat : i \in S
<1> SUFFICES ASSUME Nat \ S # {} PROVE FALSE
  OBVIOUS
<1> DEFINE T == {0 .. x : x \in Nat \ S}
<1>1. T \subseteq FiniteSubsetsOf(Nat) /\ T # {}
  <2>1. \A x \in Nat \ S : IsFiniteSet(0 .. x) /\ 0 .. x \in SUBSET Nat
    <3> TAKE x \in Nat \ S
    <3>1. IsFiniteSet(0 .. x)
      BY FS_Interval
    <3> QED BY <3>1
  <2> QED BY <2>1, Zenon DEF FiniteSubsetsOf
<1>2. PICK U \in T : \A V \in T : ~(<<V, U>> \in StrictSubsetOrdering(Nat))
  BY <1>1, FS_StrictSubsetOrderingWellFounded, WFMin, Zenon
<1>3. PICK x \in Nat \ S : U = 0 .. x
  BY <1>2
<1>4. x - 1 \in Nat \ S /\ x - 1 < x
  BY <1>3
<1> DEFINE y == x - 1
<1>5. 0 .. y \in T /\ <<0 .. y, U>> \notin StrictSubsetOrdering(Nat)
  BY <1>2, <1>4
<1>6. (0 .. y) \subseteq (0 .. x) /\ 0 .. y # 0 .. x
  <2>1. x \in 0 .. x /\ x \notin 0 .. y
    BY <1>4
  <2>2. (0 .. y) \subseteq (0 .. x)
    BY <1>4
  <2> QED BY <2>1, <2>2, Zenon
<1>7. 0 .. y \in SUBSET Nat /\ 0 .. x \in SUBSET Nat
  BY <1>4
<1>8. <<0 .. y, 0 .. x>> \in StrictSubsetOrdering(Nat)
  BY <1>6, <1>7, Zenon DEF StrictSubsetOrdering
<1>9. <<0 .. y, 0 .. x>> \notin StrictSubsetOrdering(Nat)
  BY <1>3, <1>5
<1> QED BY <1>8, <1>9

LEMMA Cabecera == SIZE_HEADER \in Nat /\ SIZE_HEADER >= TamCodigo + 1 /\ SIZE_HEADER >= 2
                  /\ TamCodigo \in Nat \ {0} /\ TamTamano \in Nat \ {0}
                  /\ SIZE_HEADER = TamCodigo + TamTamano
BY TamanosAssumption DEF SIZE_HEADER

LEMMA TamanoDe ==
  ASSUME NEW t \in Seq(Tamanos), NEW n \in 1 .. Len(t)
  PROVE  t[n] \in Nat /\ t[n] > 0 /\ t[n] \in Tamanos
<1>1. t[n] \in Tamanos
  OBVIOUS
<1>2. t[n] \in Nat \ {0}
  BY <1>1, TamanosAssumption, Zenon DEF TamanosAssumption
<1> QED BY <1>1, <1>2

LEMMA Final ==
  ASSUME NEW S, NEW s \in Seq(S), NEW k \in Nat
  PROVE  SubSeq(s, k + 1, Len(s)) \in Seq(S)
<1>1. \A i \in k + 1 .. Len(s) : s[i] \in S
  OBVIOUS
<1> QED BY <1>1, SubSeqProperties

LEMMA Concatena ==
  ASSUME NEW S, NEW r \in Seq(S), NEW u \in Seq(S)
  PROVE  /\ r \o u \in Seq(S) /\ Len(r \o u) = Len(r) + Len(u)
         /\ \A i \in 1 .. Len(r) : (r \o u)[i] = r[i]
         /\ \A i \in 1 .. Len(u) : (r \o u)[Len(r) + i] = u[i]
OBVIOUS

\* Inside a packet the bytes come one after another.
LEMMA Corrida ==
  ASSUME NEW t \in Seq(Tamanos), NEW s \in Seq(Byte), NEW b \in Seq(Byte),
         NEW n \in 1 .. Len(t), NEW l \in Nat \ {0}, Tren(t, s, b, En(n, l)),
         NEW k \in Nat, k <= Len(s), l + k <= SIZE_HEADER + t[n]
  PROVE  Vagon(t, s, b, k + 1) = En(n, l + k)
<1> DEFINE S == {i \in Nat : i <= Len(s) /\ l + i <= SIZE_HEADER + t[n]
                               => Vagon(t, s, b, i + 1) = En(n, l + i)}
<1>1. 0 \in S
  BY DEF Tren
<1>2. ASSUME NEW i \in S
      PROVE  i + 1 \in S
  <2>1. SUFFICES ASSUME i + 1 <= Len(s), l + (i + 1) <= SIZE_HEADER + t[n]
                 PROVE  Vagon(t, s, b, (i + 1) + 1) = En(n, l + (i + 1))
    BY <1>2
  <2>2. SIZE_HEADER \in Nat /\ t[n] \in Nat
    BY Cabecera, TamanoDe
  <2>3. Vagon(t, s, b, i + 1) = En(n, l + i)
    BY <1>2, <2>1, <2>2
  <2>4. s[i + 1] = En(n, l + i)
    BY <1>2, <2>1, <2>3 DEF Vagon
  <2>5. Vagon(t, s, b, (i + 1) + 1) = Sigue(t, s[i + 1])
    BY <1>2, <2>1 DEF Tren
  <2> QED BY <1>2, <2>1, <2>2, <2>4, <2>5 DEF Sigue, En
<1>3. \A i \in Nat : i \in S
  <2> HIDE DEF S
  <2> QED BY <1>1, <1>2, Induccion DEF S
<1> QED BY <1>3

LEMMA TrenAvanza ==
  ASSUME NEW t \in Seq(Tamanos), NEW s \in Seq(Byte), NEW b \in Seq(Byte), NEW x,
         Tren(t, s, b, x), NEW k \in 0 .. Len(s)
  PROVE  Tren(t, SubSeq(s, k + 1, Len(s)), b, Vagon(t, s, b, k + 1))
<1> DEFINE u == SubSeq(s, k + 1, Len(s))
<1>1. Len(u) = Len(s) - k /\ \A i \in 1 .. Len(u) : u[i] = s[k + i]
  BY SubSeqProperties
<1>2. \A i \in 1 .. Len(u) + 1 : Vagon(t, u, b, i) = Vagon(t, s, b, k + i)
  BY <1>1 DEF Vagon
<1>3. Vagon(t, u, b, 1) = Vagon(t, s, b, k + 1)
  BY <1>1, <1>2
<1>4. ASSUME NEW i \in 1 .. Len(u)
      PROVE  Vagon(t, u, b, i + 1) = Sigue(t, u[i])
  <2>1. Vagon(t, u, b, i + 1) = Vagon(t, s, b, k + (i + 1))
    BY <1>1, <1>2
  <2>2. k + i \in 1 .. Len(s) /\ k + (i + 1) = (k + i) + 1
    BY <1>1
  <2>3. Vagon(t, s, b, (k + i) + 1) = Sigue(t, s[k + i])
    BY <2>2 DEF Tren
  <2> QED BY <1>1, <2>1, <2>2, <2>3
<1> QED BY <1>3, <1>4 DEF Tren

LEMMA Paquete ==
  ASSUME NEW n \in Nat \ {0}, NEW z \in Tamanos
  PROVE  /\ Bytes(n, z) \in Seq(Byte) /\ Len(Bytes(n, z)) = SIZE_HEADER + z
         /\ z \in Nat /\ z > 0
         /\ \A i \in 1 .. SIZE_HEADER + z : Bytes(n, z)[i] = En(n, i)
<1>1. z \in Nat \ {0}
  BY TamanosAssumption, Zenon DEF TamanosAssumption
<1>2. SIZE_HEADER + z \in Nat
  BY <1>1, Cabecera
<1>3. \A i \in 1 .. SIZE_HEADER + z : Bytes(n, z)[i] = En(n, i) /\ En(n, i) \in Byte
  BY <1>2 DEF Bytes, En, Byte
<1>4. Bytes(n, z) \in [1 .. SIZE_HEADER + z -> Byte]
  BY <1>2, <1>3 DEF Bytes
<1>5. Bytes(n, z) \in Seq(Byte) /\ Len(Bytes(n, z)) = SIZE_HEADER + z
  <2>1. \A m \in Nat : \A f \in [1 .. m -> Byte] : f \in Seq(Byte) /\ Len(f) = m
    OBVIOUS
  <2> QED BY <1>2, <1>4, <2>1, Zenon
<1> QED BY <1>1, <1>3, <1>5

LEMMA DatosDelPaquete ==
  ASSUME NEW n \in Nat \ {0}, NEW z \in Tamanos, NEW d \in Seq(Byte), Len(d) = z,
         \A i \in 1 .. Len(d) : d[i] = En(n, SIZE_HEADER + i)
  PROVE  d = SubSeq(Bytes(n, z), SIZE_HEADER + 1, SIZE_HEADER + z)
<1>1. PICK h \in Nat : h = SIZE_HEADER
  BY Cabecera
<1>2. PICK v \in Seq(Byte) : v = Bytes(n, z)
  BY Paquete
<1>3. z \in Nat /\ Len(v) = h + z /\ \A i \in 1 .. h + z : v[i] = En(n, i)
  BY <1>1, <1>2, Paquete
<1>4. PICK u : u = SubSeq(v, h + 1, Len(v))
  OBVIOUS
<1>5. u \in Seq(Byte) /\ Len(u) = Len(v) - h /\ \A i \in 1 .. Len(u) : u[i] = v[h + i]
  BY <1>3, <1>4, SubSeqProperties
<1>6. \A i \in 1 .. z : d[i] = u[i]
  <2>1. Len(u) = z
    BY <1>3, <1>5
  <2> SUFFICES ASSUME NEW i \in 1 .. z PROVE d[i] = u[i]
    OBVIOUS
  <2>2. u[i] = v[h + i] /\ h + i \in 1 .. h + z
    BY <1>3, <1>5, <2>1
  <2>3. v[h + i] = En(n, h + i)
    BY <1>3, <2>2
  <2>4. i \in 1 .. Len(d)
    OBVIOUS
  <2>5. d[i] = En(n, h + i)
    BY <1>1, <2>4, Zenon
  <2> QED BY <2>2, <2>3, <2>5
<1>7. d = u
  <2>1. Len(d) = Len(u) /\ u \in Seq(Byte) /\ \A i \in 1 .. Len(d) : d[i] = u[i]
    BY <1>3, <1>5, <1>6
  <2> QED BY <2>1, SeqEqual
<1> QED BY <1>1, <1>2, <1>3, <1>4, <1>7

\* enviar() begins: behind the train comes the first byte of the new packet.
LEMMA TrenCrece ==
  ASSUME NEW t \in Seq(Tamanos), NEW s \in Seq(Byte), NEW x, NEW z \in Tamanos,
         \A i \in 1 .. Len(s) : DelCliente(t, s[i])
  PROVE  LET u == Append(t, z)
             b == Bytes(Len(u), z)
         IN  /\ u \in Seq(Tamanos) /\ b \in Seq(Byte)
             /\ Tren(t, s, <<>>, x) => Tren(u, s, b, x)
             /\ Resto(u, b) /\ ~EnCabecera(b)
             /\ \A i \in 1 .. Len(s) : DelCliente(u, s[i])
<1> DEFINE u == Append(t, z)
           b == Bytes(Len(u), z)
<1>1. /\ u \in Seq(Tamanos) /\ Len(u) = Len(t) + 1 /\ u[Len(t) + 1] = z
      /\ \A i \in 1 .. Len(t) : u[i] = t[i]
  OBVIOUS
<1>2. Len(t) \in Nat /\ Len(u) \in Nat \ {0} /\ SIZE_HEADER \in Nat /\ SIZE_HEADER >= 2
  BY <1>1, Cabecera
<1>3. /\ b \in Seq(Byte) /\ Len(b) = SIZE_HEADER + z /\ z \in Nat /\ z > 0
      /\ \A i \in 1 .. SIZE_HEADER + z : b[i] = En(Len(u), i)
  BY <1>2, Paquete
<1>4. b # <<>> /\ b[1] = En(Len(t) + 1, 1)
  BY <1>1, <1>2, <1>3
<1>5. Proximo(u, b) = Proximo(t, <<>>)
  BY <1>4 DEF Proximo
<1>6. \A i \in Nat : Vagon(u, s, b, i) = Vagon(t, s, <<>>, i)
  BY <1>5 DEF Vagon
<1>7. ASSUME NEW i \in 1 .. Len(s)
      PROVE  Sigue(u, s[i]) = Sigue(t, s[i]) /\ DelCliente(u, s[i])
  <2>1. s[i].paquete \in 1 .. Len(t) /\ s[i].lugar <= SIZE_HEADER + t[s[i].paquete]
    <3>1. s[i] \in Byte
      OBVIOUS
    <3> QED BY <3>1 DEF DelCliente, Byte
  <2>2. u[s[i].paquete] = t[s[i].paquete] /\ s[i].paquete <= Len(u)
    BY <1>1, <2>1
  <2> QED BY <2>1, <2>2 DEF Sigue, DelCliente
<1>8. ASSUME Tren(t, s, <<>>, x)
      PROVE  Tren(u, s, b, x)
  <2>1. Vagon(u, s, b, 1) = x
    BY <1>6, <1>8 DEF Tren
  <2>2. ASSUME NEW i \in 1 .. Len(s)
        PROVE  Vagon(u, s, b, i + 1) = Sigue(u, s[i])
    BY <1>6, <1>7, <1>8 DEF Tren
  <2> QED BY <2>1, <2>2 DEF Tren
<1>9. Resto(u, b)
  BY <1>1, <1>2, <1>3 DEF Resto
<1>10. ~EnCabecera(b)
  BY <1>4 DEF EnCabecera, En
<1> QED BY <1>1, <1>3, <1>7, <1>8, <1>9, <1>10

\* A send() moves the first k bytes over.
LEMMA TrenSend ==
  ASSUME NEW t \in Seq(Tamanos), NEW s \in Seq(Byte), NEW b \in Seq(Byte), NEW x,
         Resto(t, b), NEW k \in 1 .. Len(b),
         \A i \in 1 .. Len(s) : DelCliente(t, s[i])
  PROVE  LET r == s \o SubSeq(b, 1, k)
             q == SubSeq(b, k + 1, Len(b))
         IN  /\ r \in Seq(Byte) /\ q \in Seq(Byte)
             /\ Tren(t, s, b, x) => Tren(t, r, q, x)
             /\ Resto(t, q)
             /\ \A i \in 1 .. Len(r) : DelCliente(t, r[i])
<1> DEFINE a == SubSeq(b, 1, k)
           r == s \o a
           q == SubSeq(b, k + 1, Len(b))
<1>0. PICK T : T = SIZE_HEADER + t[Len(t)]
  OBVIOUS
<1>1. a \in Seq(Byte) /\ Len(a) = k /\ \A i \in 1 .. k : a[i] = b[i]
  BY SubSeqProperties
<1>2. q \in Seq(Byte) /\ Len(q) = Len(b) - k /\ \A i \in 1 .. Len(q) : q[i] = b[k + i]
  BY SubSeqProperties
<1>3. /\ r \in Seq(Byte) /\ Len(r) = Len(s) + k
      /\ \A i \in 1 .. Len(s) : r[i] = s[i]
      /\ \A i \in 1 .. k : r[Len(s) + i] = b[i]
  <2> HIDE DEF a
  <2> QED BY <1>1
<1>4. b # <<>>
  OBVIOUS
<1>5. /\ Len(t) \in Nat \ {0} /\ Len(b) <= T /\ T \in Nat
      /\ \A i \in 1 .. Len(b) : b[i] = En(Len(t), T - Len(b) + i)
  <2>1. /\ Len(t) > 0 /\ Len(b) <= SIZE_HEADER + t[Len(t)]
        /\ \A i \in 1 .. Len(b) : b[i] = En(Len(t), SIZE_HEADER + t[Len(t)] - Len(b) + i)
    BY <1>4 DEF Resto
  <2>2. Len(t) \in 1 .. Len(t) /\ Len(t) \in Nat \ {0}
    BY <2>1
  <2>3. t[Len(t)] \in Nat /\ SIZE_HEADER \in Nat
    BY <2>2, Cabecera, TamanoDe
  <2> QED BY <1>0, <2>1, <2>2, <2>3
<1>a. t[Len(t)] \in Nat /\ SIZE_HEADER \in Nat
  BY <1>5, Cabecera, TamanoDe
<1> HIDE DEF a, r, q
<1>6. ASSUME NEW i \in 1 .. Len(r)
      PROVE  DelCliente(t, r[i])
  <2>1. CASE i <= Len(s)
    BY <1>3, <2>1
  <2>2. CASE i > Len(s)
    <3>1. PICK j \in 1 .. k : i = Len(s) + j
      <4>1. i - Len(s) \in 1 .. k
        BY <1>3, <2>2
      <4> QED BY <4>1
    <3>2. r[i] = En(Len(t), T - Len(b) + j)
      BY <1>3, <1>5, <3>1
    <3> QED BY <1>0, <1>5, <3>2 DEF DelCliente, En
  <2> QED BY <1>3, <2>1, <2>2
<1>7. Resto(t, q)
  <2>1. ASSUME NEW i \in 1 .. Len(q)
        PROVE  q[i] = En(Len(t), T - Len(q) + i)
    <3>1. k + i \in 1 .. Len(b) /\ T - Len(b) + (k + i) = T - Len(q) + i
      BY <1>2, <1>5
    <3> QED BY <1>2, <1>5, <3>1
  <2>2. Len(t) > 0 /\ Len(q) <= T
    <3>1. Len(q) <= Len(b) /\ Len(q) \in Nat /\ Len(b) \in Nat
      BY <1>2
    <3> QED BY <1>5, <3>1
  <2>3. /\ Len(t) > 0 /\ Len(q) <= SIZE_HEADER + t[Len(t)]
        /\ \A i \in 1 .. Len(q) : q[i] = En(Len(t), SIZE_HEADER + t[Len(t)] - Len(q) + i)
    BY <1>0, <1>2, <1>5, <1>a, <2>1, <2>2
  <2> QED BY <2>3 DEF Resto
\* Byte k + 1 of b, or what follows the packet, is where the rest begins.
<1>8. Proximo(t, q) = Sigue(t, b[k])
  <2>1. b[k] = En(Len(t), T - Len(b) + k)
    BY <1>5
  <2>2. CASE k = Len(b)
    <3>1. q = <<>>
      BY <1>2, <2>2
    <3>2. b[k] = En(Len(t), T)
      BY <1>5, <2>1, <2>2
    <3> QED BY <1>0, <1>5, <3>1, <3>2 DEF Proximo, Sigue, En
  <2>3. CASE k < Len(b)
    <3>1. q # <<>> /\ q[1] = b[k + 1]
      BY <1>2, <2>3
    <3>2. b[k + 1] = En(Len(t), T - Len(b) + (k + 1))
      BY <1>5, <2>3
    <3>3. T - Len(b) + k < T /\ T - Len(b) + (k + 1) = (T - Len(b) + k) + 1
      BY <1>5, <2>3
    <3> QED BY <1>0, <2>1, <3>1, <3>2, <3>3 DEF Proximo, Sigue, En
  <2> QED BY <2>2, <2>3
<1>9. ASSUME Tren(t, s, b, x)
      PROVE  Tren(t, r, q, x)
  <2>1. Vagon(t, r, q, 1) = x
    <3>1. CASE s = <<>>
      <4>1. x = b[1]
        BY <1>4, <1>9, <3>1 DEF Tren, Vagon, Proximo
      <4>2. r[Len(s) + 1] = b[1] /\ Len(s) = 0 /\ 1 <= Len(r)
        BY <1>3, <3>1
      <4> QED BY <4>1, <4>2 DEF Vagon
    <3>2. CASE s # <<>>
      <4>1. 1 \in 1 .. Len(s) /\ 1 <= Len(r)
        BY <1>3, <3>2
      <4> QED BY <1>3, <1>9, <4>1 DEF Tren, Vagon
    <3> QED BY <3>1, <3>2
  <2>2. ASSUME NEW i \in 1 .. Len(r)
        PROVE  Vagon(t, r, q, i + 1) = Sigue(t, r[i])
    <3>1. CASE i < Len(s)
      <4>1. i \in 1 .. Len(s) /\ i + 1 \in 1 .. Len(s) /\ i + 1 <= Len(r)
        BY <1>3, <3>1
      <4>2. Vagon(t, s, b, i + 1) = Sigue(t, s[i])
        BY <1>9, <4>1 DEF Tren
      <4> QED BY <1>3, <4>1, <4>2 DEF Vagon
    <3>2. CASE i = Len(s)
      <4>1. i \in 1 .. Len(s) /\ i + 1 = Len(s) + 1 /\ ~(i + 1 <= Len(s)) /\ i + 1 <= Len(r)
        BY <1>3, <3>2
      <4>2. Vagon(t, s, b, i + 1) = Sigue(t, s[i])
        BY <1>9, <4>1 DEF Tren
      <4>3. Vagon(t, s, b, i + 1) = b[1]
        BY <1>4, <4>1 DEF Vagon, Proximo
      <4>4. r[i + 1] = b[1] /\ r[i] = s[i]
        BY <1>3, <4>1
      <4> QED BY <4>1, <4>2, <4>3, <4>4 DEF Vagon
    <3>3. CASE i > Len(s) /\ i < Len(r)
      <4>1. PICK j \in 1 .. k : i = Len(s) + j
        <5>1. i - Len(s) \in 1 .. k
          BY <1>3, <3>3
        <5> QED BY <5>1
      <4>2. j + 1 \in 1 .. k /\ i + 1 = Len(s) + (j + 1) /\ i + 1 <= Len(r)
        BY <1>3, <3>3, <4>1
      <4>3. r[i] = b[j] /\ r[i + 1] = b[j + 1]
        BY <1>3, <4>1, <4>2
      <4>4. b[j] = En(Len(t), T - Len(b) + j) /\ b[j + 1] = En(Len(t), T - Len(b) + (j + 1))
        BY <1>5, <4>1, <4>2
      <4>5. T - Len(b) + j < T /\ T - Len(b) + (j + 1) = (T - Len(b) + j) + 1
        BY <1>5, <4>1, <4>2
      <4>6. Sigue(t, b[j]) = b[j + 1]
        BY <1>0, <4>4, <4>5 DEF Sigue, En
      <4> QED BY <4>2, <4>3, <4>6 DEF Vagon
    <3>4. CASE i = Len(r)
      <4>1. r[i] = b[k] /\ ~(i + 1 <= Len(r))
        BY <1>3, <3>4
      <4> QED BY <1>8, <4>1 DEF Vagon
    <3>5. i < Len(s) \/ i = Len(s) \/ (i > Len(s) /\ i < Len(r)) \/ i = Len(r)
      <4>1. i \in Int /\ Len(s) \in Int /\ Len(r) \in Int /\ i <= Len(r)
        BY <1>3
      <4> QED BY <4>1
    <3> QED BY <3>1, <3>2, <3>3, <3>4, <3>5, Zenon
  <2> QED BY <2>1, <2>2 DEF Tren
<1> QED BY <1>2, <1>3, <1>6, <1>7, <1>9 DEF r, q, a

-----------------------------------------------------------------------------
(* The invariant *)

\* What the server knows of each client, unfolded.
LEMMA LoQueSabe ==
  ASSUME IInv, NEW c \in Clientes
  PROVE  /\ tamanos[c] \in Seq(Tamanos) /\ bloque[c] \in Seq(Byte) /\ canal[c] \in Seq(Byte)
         /\ Resto(tamanos[c], bloque[c]) /\ (EnCabecera(bloque[c]) => c \in partida)
         /\ \A i \in 1 .. Len(canal[c]) : DelCliente(tamanos[c], canal[c][i])
         /\ manejados[c] \in Nat /\ Len(tamanos[c]) \in Nat
BY DEF IInv, Tipos, Orden

LEMMA Inicio == Init => IInv
<1> SUFFICES ASSUME Init PROVE IInv
  OBVIOUS
<1>1. Tipos
  BY DEF Init, Tipos, Atendiendo, Caido
<1>2. Orden
  BY DEF Init, Orden, Resto, EnCabecera
<1>3. Trenes
  <2>1. \A c \in Clientes : Lugar(c) = En(1, 1)
    BY DEF Init, Lugar
  <2>2. ASSUME NEW c \in Clientes
        PROVE  Tren(tamanos[c], canal[c], bloque[c], En(1, 1))
    <3>1. tamanos[c] = <<>> /\ canal[c] = <<>> /\ bloque[c] = <<>>
      BY DEF Init
    <3> QED BY <3>1 DEF Tren, Vagon, Proximo
  <2> QED BY <2>1, <2>2 DEF Trenes
<1>4. Recepcion
  BY DEF Init, Recepcion, Atendiendo
<1>5. SoloCaeCortado
  BY DEF Init, SoloCaeCortado
<1> QED BY <1>1, <1>2, <1>3, <1>4, <1>5 DEF IInv

\* A client that is alive acts: the server notices at most that the train is longer.
LEMMA ClienteActua ==
  ASSUME IInv, Tipos', NEW c \in Clientes, conexion[c] \in {"fuera", "abierta"},
         servidor' = servidor, socket_ite' = socket_ite, tamano' = tamano, datos' = datos,
         manejados' = manejados, partida \subseteq partida',
         \A d \in Clientes \ {c} :
           /\ conexion'[d] = conexion[d] /\ tamanos'[d] = tamanos[d]
           /\ bloque'[d] = bloque[d] /\ canal'[d] = canal[d],
         Resto(tamanos'[c], bloque'[c]), EnCabecera(bloque'[c]) => c \in partida',
         \A i \in 1 .. Len(canal'[c]) : DelCliente(tamanos'[c], canal'[c][i]),
         \A x : Tren(tamanos[c], canal[c], bloque[c], x)
                  => Tren(tamanos'[c], canal'[c], bloque'[c], x),
         Len(tamanos[c]) <= Len(tamanos'[c]),
         \A i \in 1 .. Len(tamanos[c]) : tamanos'[c][i] = tamanos[c][i],
         canal[c] # <<>> => canal'[c] # <<>>
  PROVE  IInv'
<1>1. Orden'
  <2>1. ASSUME NEW d \in Clientes \ {c}
        PROVE  /\ Resto(tamanos'[d], bloque'[d])
               /\ EnCabecera(bloque'[d]) => d \in partida'
               /\ \A i \in 1 .. Len(canal'[d]) : DelCliente(tamanos'[d], canal'[d][i])
    BY LoQueSabe
  <2> QED BY <2>1 DEF Orden
<1>2. socket_ite = c => ~Perdido /\ servidor \notin {"terminado", "girando"}
  BY DEF IInv, SoloCaeCortado, Perdido, Cortado, Muerta
<1>3. Perdido => Perdido'
  <2>1. SUFFICES ASSUME Perdido PROVE Perdido'
    OBVIOUS
  <2>2. servidor = "datos" /\ socket_ite \in Clientes \ {c}
    BY <1>2, <2>1 DEF IInv, Tipos, Atendiendo, Perdido
  <2>3. /\ conexion'[socket_ite] = conexion[socket_ite] /\ canal'[socket_ite] = canal[socket_ite]
        /\ bloque'[socket_ite] = bloque[socket_ite]
    BY <2>2
  <2> QED BY <2>1, <2>3 DEF Perdido, Hay, Cortado, Muerta
<1>4. Trenes'
  <2>1. \A d \in Clientes : Lugar(d)' = Lugar(d)
    BY DEF Lugar
  <2>2. SUFFICES ASSUME NEW d \in Clientes, d = socket_ite => ~Caido' /\ ~Perdido'
                 PROVE  Tren(tamanos'[d], canal'[d], bloque'[d], Lugar(d))
    BY <2>1 DEF Trenes
  <2>3. d = socket_ite => ~Caido /\ ~Perdido
    BY <1>3, <2>2 DEF Caido
  <2>4. Tren(tamanos[d], canal[d], bloque[d], Lugar(d))
    BY <2>3 DEF IInv, Trenes
  <2> QED BY <2>4
<1>5. Recepcion'
  <2> DEFINE s == socket_ite
             n == manejados[s] + 1
  <2>1. Recepcion
    BY DEF IInv
  <2>2. ASSUME s \in Clientes
        PROVE  /\ Len(tamanos[s]) <= Len(tamanos'[s]) /\ canal[s] # <<>> => canal'[s] # <<>>
               /\ \A i \in 1 .. Len(tamanos[s]) : tamanos'[s][i] = tamanos[s][i]
               /\ Len(tamanos[s]) \in Nat /\ Len(tamanos'[s]) \in Nat /\ n \in Nat \ {0}
    <3>1. Len(tamanos[s]) \in Nat /\ Len(tamanos'[s]) \in Nat /\ n \in Nat \ {0}
      BY <2>2, LoQueSabe DEF Tipos
    <3>2. CASE s = c
      BY <3>1, <3>2
    <3>3. CASE s # c
      BY <2>2, <3>1, <3>3
    <3> QED BY <3>2, <3>3
  <2>3. Atendiendo' = Atendiendo /\ (Atendiendo => s \in Clientes)
    BY DEF Atendiendo, IInv, Tipos
  <2>4. servidor = "codigo" => canal'[s] # <<>>
    BY <2>1, <2>2, <2>3 DEF Recepcion, Hay, Atendiendo
  <2>5. Atendiendo => n <= Len(tamanos[s]) /\ n <= Len(tamanos'[s])
    BY <2>1, <2>2, <2>3 DEF Recepcion
  <2>6. Atendiendo => tamanos'[s][n] = tamanos[s][n]
    BY <2>2, <2>3, <2>5
  <2>7. servidor \in {"datos", "manejar"} => Atendiendo
    BY DEF Atendiendo
  <2>8. servidor \in {"datos", "manejar"} /\ ~Perdido' =>
           /\ tamano = tamanos'[s][n]
           /\ \A i \in 1 .. Len(datos) : datos[i] = En(n, SIZE_HEADER + i)
    BY <1>3, <2>1, <2>6, <2>7 DEF Recepcion
  <2>9. servidor = "datos" /\ ~Perdido' => Len(datos) < tamano
    BY <1>3, <2>1 DEF Recepcion
  <2>10. /\ servidor = "manejar" => Len(datos) = tamano
         /\ servidor \notin {"datos", "manejar", "terminado", "girando"} => datos = <<>>
    BY <2>1 DEF Recepcion
  <2> QED BY <2>3, <2>4, <2>5, <2>8, <2>9, <2>10 DEF Recepcion, Hay
<1>6. SoloCaeCortado'
  <2>1. servidor \in {"terminado", "girando"} => Cortado(socket_ite)'
    <3>1. SUFFICES ASSUME servidor \in {"terminado", "girando"} PROVE Cortado(socket_ite)'
      OBVIOUS
    <3>2. socket_ite \in Clientes \ {c} /\ Cortado(socket_ite)
      BY <1>2, <3>1 DEF IInv, Tipos, Caido, SoloCaeCortado
    <3> QED BY <3>2 DEF Cortado, Muerta
  <2> QED BY <2>1 DEF IInv, SoloCaeCortado
<1> QED BY <1>1, <1>4, <1>5, <1>6 DEF IInv

LEMMA ClientePaso ==
  ASSUME IInv, NEW c \in Clientes,
         Conectar(c) \/ Send(c) \/ Morir(c) \/ \E t \in Tamanos : Enviar(c, t)
  PROVE  IInv'
<1>1. CASE Conectar(c) \/ Morir(c)
  <2>1. /\ conexion[c] \in {"fuera", "abierta"}
        /\ \E e \in {"abierta", "cerrada", "reset"} : conexion' = [conexion EXCEPT ![c] = e]
        /\ UNCHANGED <<tamanos, bloque, canal, recepcion, manejados, partida>>
    BY <1>1 DEF Conectar, Morir
  <2>2. Tipos'
    BY <2>1 DEF IInv, Tipos, recepcion, Atendiendo, Caido
  <2>3. \A d \in Clientes \ {c} : conexion'[d] = conexion[d]
    BY <2>1 DEF IInv, Tipos
  <2>4. /\ Resto(tamanos'[c], bloque'[c]) /\ (EnCabecera(bloque'[c]) => c \in partida')
        /\ \A i \in 1 .. Len(canal'[c]) : DelCliente(tamanos'[c], canal'[c][i])
        /\ Len(tamanos[c]) <= Len(tamanos'[c])
    BY <2>1, LoQueSabe
  <2>5. \A x : Tren(tamanos[c], canal[c], bloque[c], x)
                 => Tren(tamanos'[c], canal'[c], bloque'[c], x)
    BY <2>1
  <2>6. /\ servidor' = servidor /\ socket_ite' = socket_ite /\ tamano' = tamano
        /\ datos' = datos /\ manejados' = manejados /\ partida' = partida
        /\ tamanos' = tamanos /\ canal' = canal /\ bloque' = bloque
    BY <2>1 DEF recepcion
  <2> QED BY <2>1, <2>2, <2>3, <2>4, <2>5, <2>6, ClienteActua
<1>2. CASE Send(c)
  <2> DEFINE b == bloque[c]
             s == canal[c]
  <2>1. PICK n \in 1 .. Len(b) :
           /\ conexion[c] = "abierta"
           /\ canal' = [canal EXCEPT ![c] = s \o SubSeq(b, 1, n)]
           /\ bloque' = [bloque EXCEPT ![c] = SubSeq(b, n + 1, Len(b))]
           /\ partida' = IF EnCabecera(bloque'[c]) THEN partida \union {c} ELSE partida
    BY <1>2 DEF Send
  <2>2. /\ tamanos' = tamanos /\ conexion' = conexion /\ servidor' = servidor
        /\ socket_ite' = socket_ite /\ tamano' = tamano /\ datos' = datos
        /\ manejados' = manejados
    BY <1>2 DEF Send, recepcion
  <2>3. /\ canal'[c] = s \o SubSeq(b, 1, n) /\ bloque'[c] = SubSeq(b, n + 1, Len(b))
        /\ \A d \in Clientes \ {c} : canal'[d] = canal[d] /\ bloque'[d] = bloque[d]
    BY <2>1 DEF IInv, Tipos
  <2> HIDE DEF b, s
  <2>4. /\ tamanos[c] \in Seq(Tamanos) /\ b \in Seq(Byte) /\ s \in Seq(Byte)
        /\ Resto(tamanos[c], b)
        /\ \A i \in 1 .. Len(s) : DelCliente(tamanos[c], s[i])
    BY LoQueSabe DEF b, s
  <2>5. /\ canal'[c] \in Seq(Byte) /\ bloque'[c] \in Seq(Byte)
        /\ \A x : Tren(tamanos[c], s, b, x) => Tren(tamanos[c], canal'[c], bloque'[c], x)
        /\ Resto(tamanos[c], bloque'[c])
        /\ \A i \in 1 .. Len(canal'[c]) : DelCliente(tamanos[c], canal'[c][i])
    <3>1. \A x : Tren(tamanos[c], s, b, x) => Tren(tamanos[c], canal'[c], bloque'[c], x)
      BY <2>3, <2>4, TrenSend
    <3>2. canal'[c] \in Seq(Byte) /\ bloque'[c] \in Seq(Byte)
      BY <2>3, <2>4
    <3>3. Resto(tamanos[c], bloque'[c])
      BY <2>3, <2>4, TrenSend
    <3>4. \A i \in 1 .. Len(canal'[c]) : DelCliente(tamanos[c], canal'[c][i])
      BY <2>3, <2>4, TrenSend
    <3> QED BY <3>1, <3>2, <3>3, <3>4
  <2>6. Tipos'
    <3>1. canal' \in [Clientes -> Seq(Byte)] /\ bloque' \in [Clientes -> Seq(Byte)]
      BY <2>1, <2>3, <2>5 DEF IInv, Tipos
    <3> QED BY <2>2, <3>1 DEF IInv, Tipos, Atendiendo, Caido
  <2>7. canal[c] # <<>> => canal'[c] # <<>>
    <3>1. SubSeq(b, 1, n) \in Seq(Byte) /\ s = canal[c]
      BY <2>4 DEF s
    <3> QED BY <2>3, <2>4, <3>1
  <2>8. partida \subseteq partida' /\ (EnCabecera(bloque'[c]) => c \in partida')
    BY <2>1
  <2>9. Len(tamanos[c]) <= Len(tamanos'[c])
    BY <2>2, <2>4
  <2>10. \A x : Tren(tamanos[c], canal[c], bloque[c], x)
                  => Tren(tamanos'[c], canal'[c], bloque'[c], x)
    BY <2>2, <2>5 DEF b, s
  <2>11. /\ Resto(tamanos'[c], bloque'[c])
         /\ \A i \in 1 .. Len(canal'[c]) : DelCliente(tamanos'[c], canal'[c][i])
    BY <2>2, <2>5
  <2> QED BY <2>1, <2>2, <2>3, <2>6, <2>7, <2>8, <2>9, <2>10, <2>11, ClienteActua
<1>3. ASSUME NEW z \in Tamanos, Enviar(c, z)
      PROVE  IInv'
  <2> DEFINE t == tamanos[c]
             s == canal[c]
             u == Append(t, z)
  <2>1. /\ conexion[c] = "abierta" /\ bloque[c] = <<>>
        /\ tamanos' = [tamanos EXCEPT ![c] = u]
        /\ bloque' = [bloque EXCEPT ![c] = Bytes(Len(tamanos'[c]), z)]
    BY <1>3 DEF Enviar
  <2>2. /\ conexion' = conexion /\ canal' = canal /\ servidor' = servidor
        /\ socket_ite' = socket_ite /\ tamano' = tamano /\ datos' = datos
        /\ manejados' = manejados /\ partida' = partida
    BY <1>3 DEF Enviar, recepcion
  <2>3. /\ tamanos'[c] = u /\ bloque'[c] = Bytes(Len(u), z)
        /\ \A d \in Clientes \ {c} : tamanos'[d] = tamanos[d] /\ bloque'[d] = bloque[d]
    BY <2>1 DEF IInv, Tipos
  <2>4. /\ t \in Seq(Tamanos) /\ s \in Seq(Byte)
        /\ \A i \in 1 .. Len(s) : DelCliente(t, s[i])
    BY LoQueSabe
  <2>5. /\ Len(t) <= Len(u) /\ \A i \in 1 .. Len(t) : u[i] = t[i]
    BY <2>4
  <2> HIDE DEF t, s, u
  <2>6. /\ u \in Seq(Tamanos) /\ bloque'[c] \in Seq(Byte)
        /\ \A x : Tren(t, s, <<>>, x) => Tren(u, s, bloque'[c], x)
        /\ Resto(u, bloque'[c]) /\ ~EnCabecera(bloque'[c])
        /\ \A i \in 1 .. Len(s) : DelCliente(u, s[i])
    BY <2>3, <2>4, TrenCrece DEF u
  <2>8. Tipos'
    <3>1. tamanos' \in [Clientes -> Seq(Tamanos)] /\ bloque' \in [Clientes -> Seq(Byte)]
      BY <2>1, <2>3, <2>6 DEF IInv, Tipos
    <3> QED BY <2>2, <3>1 DEF IInv, Tipos, Atendiendo, Caido
  <2>9. \A x : Tren(tamanos[c], canal[c], bloque[c], x)
                 => Tren(tamanos'[c], canal'[c], bloque'[c], x)
    BY <2>1, <2>2, <2>3, <2>6 DEF t, s
  <2>10. /\ Len(tamanos[c]) <= Len(tamanos'[c])
         /\ \A i \in 1 .. Len(tamanos[c]) : tamanos'[c][i] = tamanos[c][i]
    BY <2>3, <2>5 DEF t
  <2>11. /\ Resto(tamanos'[c], bloque'[c]) /\ (EnCabecera(bloque'[c]) => c \in partida')
         /\ \A i \in 1 .. Len(canal'[c]) : DelCliente(tamanos'[c], canal'[c][i])
    BY <2>2, <2>3, <2>6 DEF s
  <2> QED BY <2>1, <2>2, <2>3, <2>8, <2>9, <2>10, <2>11, ClienteActua
<1> QED BY <1>1, <1>2, <1>3

-----------------------------------------------------------------------------
(* The server *)

\* The client it serves, as long as the packet is in order.
LEMMA Atendido ==
  ASSUME IInv, Atendiendo, ~Perdido, NEW c, c = socket_ite
  PROVE  /\ c \in Clientes /\ tamanos[c] \in Seq(Tamanos) /\ manejados[c] + 1 \in 1 .. Len(tamanos[c])
         /\ Tren(tamanos[c], canal[c], bloque[c], Lugar(c)) /\ ~Caido
<1>1. c \in Clientes /\ ~Caido
  BY DEF IInv, Tipos, Atendiendo, Caido
<1>2. manejados[c] + 1 <= Len(tamanos[c]) /\ manejados[c] \in Nat /\ Len(tamanos[c]) \in Nat
      /\ tamanos[c] \in Seq(Tamanos)
  BY <1>1, LoQueSabe DEF IInv, Recepcion
<1>3. Tren(tamanos[c], canal[c], bloque[c], Lugar(c))
  BY <1>1 DEF IInv, Trenes
<1> QED BY <1>1, <1>2, <1>3

\* It reads k bytes of c, or the fewer there are.
LEMMA Lectura ==
  ASSUME IInv, NEW c \in Clientes, NEW k \in Nat,
         canal' = [canal EXCEPT ![c] = SubSeq(@, k + 1, Len(@))],
         tamanos' = tamanos, bloque' = bloque, partida' = partida
  PROVE  /\ Orden' /\ canal' \in [Clientes -> Seq(Byte)]
         /\ \A d \in Clientes \ {c} : canal'[d] = canal[d]
         /\ k <= Len(canal[c]) => \A x : Tren(tamanos[c], canal[c], bloque[c], x) =>
              Tren(tamanos[c], canal'[c], bloque[c], Vagon(tamanos[c], canal[c], bloque[c], k + 1))
<1> DEFINE s == canal[c]
<1>1. /\ tamanos[c] \in Seq(Tamanos) /\ s \in Seq(Byte) /\ bloque[c] \in Seq(Byte)
      /\ \A i \in 1 .. Len(s) : DelCliente(tamanos[c], s[i])
  BY LoQueSabe
<1>2. /\ canal'[c] = SubSeq(s, k + 1, Len(s))
      /\ \A d \in Clientes \ {c} : canal'[d] = canal[d]
  BY DEF IInv, Tipos
<1>3. canal'[c] \in Seq(Byte)
  BY <1>1, <1>2, Final
<1> HIDE DEF s
<1>4. canal' \in [Clientes -> Seq(Byte)]
  BY <1>2, <1>3 DEF IInv, Tipos
<1>5. ASSUME NEW i \in 1 .. Len(canal'[c])
      PROVE  DelCliente(tamanos[c], canal'[c][i])
  <2>1. Len(s) \in Nat /\ k < Len(s)
    BY <1>1, <1>2
  <2>2. canal'[c][i] = s[k + i] /\ k + i \in 1 .. Len(s)
    BY <1>1, <1>2, <2>1
  <2> QED BY <1>1, <2>2
<1>6. Orden'
  <2>1. ASSUME NEW d \in Clientes
        PROVE  /\ Resto(tamanos'[d], bloque'[d])
               /\ EnCabecera(bloque'[d]) => d \in partida'
               /\ \A i \in 1 .. Len(canal'[d]) : DelCliente(tamanos'[d], canal'[d][i])
    BY <1>2, <1>5, LoQueSabe
  <2> QED BY <2>1 DEF Orden
<1>7. ASSUME k <= Len(s), NEW x, Tren(tamanos[c], s, bloque[c], x)
      PROVE  Tren(tamanos[c], canal'[c], bloque[c], Vagon(tamanos[c], s, bloque[c], k + 1))
  <2>1. k \in 0 .. Len(s)
    BY <1>1, <1>7
  <2> QED BY <1>1, <1>2, <1>7, <2>1, TrenAvanza
<1> QED BY <1>2, <1>4, <1>6, <1>7 DEF s

LEMMA LecturaConserva ==
  ASSUME IInv, Atendiendo, NEW c \in Clientes, c = socket_ite, NEW k \in Nat,
         canal' = [canal EXCEPT ![c] = SubSeq(@, k + 1, Len(@))],
         UNCHANGED <<conexion, tamanos, bloque, socket_ite, manejados, partida>>,
         servidor' \in {"tamano", "datos", "manejar", "desfasado"},
         tamano' \in Nat, datos' \in Seq(Byte), Recepcion',
         servidor' = "desfasado" => c \in partida,
         servidor' # "desfasado" => Tren(tamanos[c], canal'[c], bloque[c], Lugar(c)')
  PROVE  IInv'
<1>1. /\ Orden' /\ canal' \in [Clientes -> Seq(Byte)]
      /\ \A d \in Clientes \ {c} : canal'[d] = canal[d]
  BY Lectura
<1>2. Tipos'
  BY <1>1 DEF IInv, Tipos
<1>3. Trenes'
  <2>1. SUFFICES ASSUME NEW d \in Clientes, d = socket_ite' => ~Caido' /\ ~Perdido'
                 PROVE  Tren(tamanos'[d], canal'[d], bloque'[d], Lugar(d)')
    BY DEF Trenes
  <2>2. CASE d = c
    BY <2>1, <2>2 DEF Caido
  <2>3. CASE d # c
    <3>1. Lugar(d)' = Lugar(d)
      BY <2>3 DEF Lugar
    <3>2. Tren(tamanos[d], canal[d], bloque[d], Lugar(d))
      BY <2>3 DEF IInv, Trenes
    <3> QED BY <1>1, <2>3, <3>1, <3>2
  <2> QED BY <2>2, <2>3
<1>4. SoloCaeCortado'
  BY DEF SoloCaeCortado
<1> QED BY <1>1, <1>2, <1>3, <1>4 DEF IInv

\* A header that is not there whole: what is missing is still in enviar().
LEMMA Falta ==
  ASSUME IInv, Atendiendo, ~Perdido, NEW c, c = socket_ite,
         NEW l \in Nat \ {0}, Lugar(c) = En(manejados[c] + 1, l),
         l + Len(canal[c]) \in 2 .. SIZE_HEADER
  PROVE  c \in partida
<1> DEFINE t == tamanos[c]
           s == canal[c]
           b == bloque[c]
           n == manejados[c] + 1
           k == Len(s)
<1>1. /\ c \in Clientes /\ t \in Seq(Tamanos) /\ n \in 1 .. Len(t) /\ Tren(t, s, b, En(n, l))
  BY Atendido
<1>2. s \in Seq(Byte) /\ b \in Seq(Byte) /\ k \in Nat /\ (EnCabecera(b) => c \in partida)
  BY <1>1, LoQueSabe
<1>3. l + k <= SIZE_HEADER + t[n]
  <2>1. t[n] \in Nat /\ SIZE_HEADER \in Nat
    BY <1>1, Cabecera, TamanoDe
  <2> QED BY <1>2, <2>1
<1> HIDE DEF t, s, b, n, k
<1>4. Vagon(t, s, b, k + 1) = En(n, l + k)
  BY <1>1, <1>2, <1>3, Corrida DEF k
<1>5. Proximo(t, b) = En(n, l + k)
  BY <1>2, <1>4 DEF Vagon, k
<1>6. l + k # 1 /\ l + k \in 2 .. SIZE_HEADER
  BY <1>2 DEF k, s
<1>7. b # <<>> /\ b[1].lugar \in 2 .. SIZE_HEADER
  BY <1>5, <1>6 DEF Proximo, En
<1> QED BY <1>2, <1>7 DEF EnCabecera

LEMMA RecibirCodigoPaso ==
  ASSUME IInv, RecibirCodigo
  PROVE  IInv'
<1> DEFINE c == socket_ite
           t == tamanos[c]
           s == canal[c]
           n == manejados[c] + 1
<1>1. /\ servidor = "codigo" /\ s # <<>>
      /\ canal' = [canal EXCEPT ![c] = SubSeq(@, TamCodigo + 1, Len(@))]
      /\ servidor' = IF Len(s) < TamCodigo THEN "desfasado" ELSE "tamano"
      /\ UNCHANGED <<conexion, tamanos, bloque, socket_ite, manejados, partida>>
      /\ tamano' = tamano /\ datos' = datos
  BY DEF RecibirCodigo, Leer, Hay, servir
<1>2. Atendiendo /\ ~Perdido /\ Lugar(c) = En(n, 1) /\ datos = <<>>
  BY <1>1 DEF Atendiendo, Perdido, Lugar, IInv, Recepcion
<1>3. /\ c \in Clientes /\ t \in Seq(Tamanos) /\ n \in 1 .. Len(t)
      /\ Tren(t, s, bloque[c], En(n, 1))
  BY <1>2, Atendido
<1>4. s \in Seq(Byte) /\ bloque[c] \in Seq(Byte) /\ Len(s) \in Nat \ {0}
  BY <1>1, <1>3, LoQueSabe
<1>5. TamCodigo \in Nat \ {0} /\ SIZE_HEADER \in Nat /\ TamCodigo < SIZE_HEADER
      /\ t[n] \in Nat
  BY <1>3, Cabecera, TamanoDe
<1>6. Recepcion'
  BY <1>1, <1>2, <1>3 DEF Recepcion, Atendiendo, IInv
<1>7. tamano' \in Nat /\ datos' \in Seq(Byte)
  BY <1>1 DEF IInv, Tipos
<1>8. ASSUME Len(s) < TamCodigo
      PROVE  c \in partida
  <2>1. 1 + Len(s) \in 2 .. SIZE_HEADER
    BY <1>4, <1>5, <1>8
  <2> QED BY <1>2, <2>1, Falta
<1>9. ASSUME servidor' # "desfasado"
      PROVE  Tren(t, canal'[c], bloque[c], Lugar(c)')
  <2>1. TamCodigo <= Len(s) /\ servidor' = "tamano"
    BY <1>1, <1>4, <1>5, <1>9
  <2>2. Lugar(c)' = En(n, 1 + TamCodigo)
    BY <1>1, <1>5, <2>1 DEF Lugar
  <2>3. Vagon(t, s, bloque[c], TamCodigo + 1) = En(n, 1 + TamCodigo)
    <3>1. 1 + TamCodigo <= SIZE_HEADER + t[n]
      BY <1>5
    <3> QED BY <1>3, <1>4, <1>5, <2>1, <3>1, Corrida
  <2>4. Tren(t, canal'[c], bloque[c], Vagon(t, s, bloque[c], TamCodigo + 1))
    BY <1>1, <1>3, <1>5, <2>1, Lectura
  <2> QED BY <2>2, <2>3, <2>4
<1> QED BY <1>1, <1>2, <1>3, <1>5, <1>6, <1>7, <1>8, <1>9, LecturaConserva

LEMMA RecibirTamanoPaso ==
  ASSUME IInv, RecibirTamano
  PROVE  IInv'
<1> DEFINE c == socket_ite
           t == tamanos[c]
           s == canal[c]
           n == manejados[c] + 1
           l == TamCodigo + 1
<1>1. /\ servidor = "tamano" /\ s # <<>>
      /\ canal' = [canal EXCEPT ![c] = SubSeq(@, TamTamano + 1, Len(@))]
      /\ IF Len(s) < TamTamano
         THEN servidor' = "desfasado" /\ tamano' = tamano
         ELSE servidor' = "datos" /\ tamano' = t[s[1].paquete]
      /\ UNCHANGED <<conexion, tamanos, bloque, socket_ite, manejados, partida>>
      /\ datos' = datos
  BY DEF RecibirTamano, Leer, Hay
<1>2. Atendiendo /\ ~Perdido /\ Lugar(c) = En(n, l) /\ datos = <<>>
  BY <1>1 DEF Atendiendo, Perdido, Lugar, IInv, Recepcion
<1>3. /\ c \in Clientes /\ t \in Seq(Tamanos) /\ n \in 1 .. Len(t)
      /\ Tren(t, s, bloque[c], En(n, l))
  BY <1>2, Atendido
<1>4. s \in Seq(Byte) /\ bloque[c] \in Seq(Byte) /\ Len(s) \in Nat \ {0}
  BY <1>1, <1>3, LoQueSabe
<1>5. /\ TamTamano \in Nat \ {0} /\ SIZE_HEADER \in Nat /\ l \in Nat /\ l > 1
      /\ SIZE_HEADER = TamCodigo + TamTamano
      /\ t[n] \in Nat /\ t[n] > 0 /\ l + TamTamano = SIZE_HEADER + 1
  <2>1. t[n] \in Nat /\ t[n] > 0
    BY <1>3, TamanoDe
  <2> QED BY <2>1, Cabecera
<1>6. s[1] = En(n, l)
  BY <1>3, <1>4 DEF Tren, Vagon
<1>7. tamano' \in Nat /\ datos' \in Seq(Byte) /\ (servidor' = "datos" => tamano' = t[n])
  <2>1. s[1].paquete = n
    BY <1>6 DEF En
  <2> QED BY <1>1, <1>5, <2>1 DEF IInv, Tipos
<1>8. Recepcion'
  <2>1. Len(datos') = 0
    BY <1>1, <1>2
  <2> QED BY <1>1, <1>2, <1>3, <1>5, <1>7, <2>1 DEF Recepcion, Atendiendo
<1>9. ASSUME Len(s) < TamTamano
      PROVE  c \in partida
  <2>1. l + Len(s) \in 2 .. SIZE_HEADER
    BY <1>4, <1>5, <1>9
  <2> QED BY <1>2, <1>5, <2>1, Falta
<1>10. ASSUME servidor' # "desfasado"
       PROVE  Tren(t, canal'[c], bloque[c], Lugar(c)')
  <2>1. TamTamano <= Len(s) /\ servidor' = "datos"
    BY <1>1, <1>4, <1>5, <1>10
  <2>2. Lugar(c)' = En(n, l + TamTamano)
    BY <1>1, <1>2, <1>5, <2>1 DEF Lugar
  <2>3. Vagon(t, s, bloque[c], TamTamano + 1) = En(n, l + TamTamano)
    <3>1. l + TamTamano <= SIZE_HEADER + t[n] /\ l \in Nat \ {0}
      BY <1>5
    <3> QED BY <1>3, <1>4, <1>5, <2>1, <3>1, Corrida
  <2>4. Tren(t, canal'[c], bloque[c], Vagon(t, s, bloque[c], TamTamano + 1))
    BY <1>1, <1>3, <1>5, <2>1, Lectura
  <2> QED BY <2>2, <2>3, <2>4
<1>11. servidor' \in {"datos", "desfasado"} /\ (servidor' = "desfasado" => c \in partida)
  BY <1>1, <1>9
<1> QED BY <1>1, <1>2, <1>3, <1>5, <1>7, <1>8, <1>10, <1>11, LecturaConserva

LEMMA RecibirDatosPaso ==
  ASSUME IInv, RecibirDatos
  PROVE  IInv'
<1> DEFINE c == socket_ite
           t == tamanos[c]
           s == canal[c]
           n == manejados[c] + 1
<1>a. PICK l : l = SIZE_HEADER + Len(datos) + 1
  OBVIOUS
<1>b. PICK k : k = Menor(tamano - Len(datos), Len(s))
  OBVIOUS
<1> DEFINE u == SubSeq(s, 1, k)
<1>1. /\ servidor = "datos" /\ s # <<>>
      /\ canal' = [canal EXCEPT ![c] = SubSeq(@, k + 1, Len(@))]
      /\ datos' = datos \o u
      /\ servidor' = IF Len(datos') = tamano THEN "manejar" ELSE "datos"
      /\ UNCHANGED <<conexion, tamanos, bloque, socket_ite, manejados, partida>>
      /\ tamano' = tamano
  BY <1>b DEF RecibirDatos, Leer, Hay, Recibidos
<1>2. Atendiendo /\ ~Perdido /\ Lugar(c) = En(n, l)
  BY <1>1, <1>a DEF Atendiendo, Perdido, Hay, Lugar
<1>3. /\ c \in Clientes /\ t \in Seq(Tamanos) /\ n \in 1 .. Len(t)
      /\ Tren(t, s, bloque[c], En(n, l))
  BY <1>2, Atendido
<1>4. /\ tamano = t[n] /\ tamano \in Nat /\ Len(datos) < tamano /\ datos \in Seq(Byte)
      /\ \A i \in 1 .. Len(datos) : datos[i] = En(n, SIZE_HEADER + i)
  BY <1>1, <1>2 DEF IInv, Recepcion, Tipos
<1>5. /\ s \in Seq(Byte) /\ bloque[c] \in Seq(Byte) /\ Len(s) \in Nat \ {0}
      /\ Len(datos) \in Nat /\ SIZE_HEADER \in Nat
  BY <1>1, <1>3, <1>4, LoQueSabe, Cabecera
<1>6. k \in 1 .. Len(s) /\ k \in Nat /\ Len(datos) + k <= tamano
  <2>1. tamano - Len(datos) \in Nat \ {0} /\ Len(s) \in Nat \ {0}
    BY <1>4, <1>5
  <2>2. \A x, y \in Nat \ {0} : /\ Menor(x, y) \in Nat \ {0}
                               /\ Menor(x, y) <= x /\ Menor(x, y) <= y
    BY DEF Menor
  <2>3. k \in Nat \ {0} /\ k <= Len(s) /\ k <= tamano - Len(datos)
    BY <1>b, <2>1, <2>2
  <2> QED BY <1>4, <1>5, <2>3
<1>7. l \in Nat \ {0} /\ l = SIZE_HEADER + (Len(datos) + 1)
  BY <1>a, <1>5
<1>c. n \in Nat /\ Len(t) \in Nat
  BY <1>3
<1> HIDE DEF s, t, n, c
<1>8. ASSUME NEW i \in 1 .. k
      PROVE  s[i] = En(n, SIZE_HEADER + (Len(datos) + i))
  <2>0. PICK j \in Nat : i = j + 1
    <3>1. i - 1 \in Nat /\ i = (i - 1) + 1
      BY <1>6
    <3> QED BY <3>1
  <2>1. /\ j <= Len(s) /\ j + 1 <= Len(s)
        /\ l + j = SIZE_HEADER + (Len(datos) + i) /\ l + j <= SIZE_HEADER + t[n]
    BY <1>4, <1>5, <1>6, <1>7, <2>0
  <2>2. Vagon(t, s, bloque[c], j + 1) = En(n, l + j)
    BY <1>3, <1>5, <1>7, <2>1, Corrida
  <2> QED BY <2>0, <2>1, <2>2 DEF Vagon
<1>9. u \in Seq(Byte) /\ Len(u) = k /\ \A i \in 1 .. k : u[i] = s[i]
  BY <1>5, <1>6, SubSeqProperties
<1>10. /\ datos' \in Seq(Byte) /\ Len(datos') = Len(datos) + k
       /\ \A i \in 1 .. Len(datos') : datos'[i] = En(n, SIZE_HEADER + i)
  <2> HIDE DEF u
  <2>1. /\ datos' \in Seq(Byte) /\ Len(datos') = Len(datos) + k
        /\ \A i \in 1 .. Len(datos) : datos'[i] = datos[i]
        /\ \A i \in 1 .. k : datos'[Len(datos) + i] = u[i]
    <3>1. PICK r \in Seq(Byte) : r = datos
      BY <1>4
    <3>2. PICK v \in Seq(Byte) : v = u
      BY <1>9
    <3>3. /\ r \o v \in Seq(Byte) /\ Len(r \o v) = Len(r) + Len(v)
          /\ \A i \in 1 .. Len(r) : (r \o v)[i] = r[i]
          /\ \A i \in 1 .. Len(v) : (r \o v)[Len(r) + i] = v[i]
      BY Concatena
    <3>4. datos' = r \o v /\ Len(v) = k
      BY <1>1, <1>9, <3>1, <3>2
    <3> QED BY <3>1, <3>2, <3>3, <3>4, Zenon
  <2>2. ASSUME NEW i \in 1 .. Len(datos')
        PROVE  datos'[i] = En(n, SIZE_HEADER + i)
    <3>1. CASE i <= Len(datos)
      BY <1>4, <1>5, <2>1, <3>1
    <3>2. CASE i > Len(datos)
      <4>1. i - Len(datos) \in 1 .. k
        BY <1>5, <1>6, <2>1, <3>2
      <4>2. PICK j \in 1 .. k : i = Len(datos) + j
        <5>1. i = Len(datos) + (i - Len(datos))
          BY <1>5
        <5> QED BY <4>1, <5>1
      <4>3. datos'[i] = u[j]
        BY <2>1, <4>2
      <4> QED BY <1>8, <1>9, <4>2, <4>3
    <3>3. i <= Len(datos) \/ i > Len(datos)
      BY <1>5
    <3> QED BY <3>1, <3>2, <3>3
  <2> QED BY <2>1, <2>2
<1>11. servidor' = "datos" => Len(datos') < tamano
  <2>1. Len(datos') \in Nat /\ tamano \in Nat /\ Len(datos') <= tamano
    BY <1>4, <1>5, <1>6, <1>10
  <2>2. servidor' = "datos" => Len(datos') # tamano
    BY <1>1
  <2> QED BY <2>1, <2>2
<1>12. Recepcion'
  <2>1. /\ manejados'[socket_ite'] + 1 = n /\ tamanos'[socket_ite'] = t /\ tamano' = tamano
        /\ servidor' \in {"datos", "manejar"} /\ n <= Len(t)
    BY <1>1, <1>3 DEF c, n, t
  <2>2. servidor' = "manejar" => Len(datos') = tamano
    BY <1>1
  <2> QED BY <1>4, <1>10, <1>11, <2>1, <2>2 DEF Recepcion
<1>13. Tren(t, canal'[c], bloque[c], Lugar(c)')
  <2>1. Tren(t, canal'[c], bloque[c], Vagon(t, s, bloque[c], k + 1))
    <3>1. /\ canal' = [canal EXCEPT ![c] = SubSeq(canal[c], k + 1, Len(canal[c]))]
          /\ tamanos' = tamanos /\ bloque' = bloque /\ partida' = partida
      BY <1>1
    <3>2. k <= Len(canal[c]) => \A x : Tren(tamanos[c], canal[c], bloque[c], x) =>
            Tren(tamanos[c], canal'[c], bloque[c], Vagon(tamanos[c], canal[c], bloque[c], k + 1))
      BY <1>3, <1>6, <3>1, Lectura, Zenon
    <3>3. k <= Len(canal[c])
      BY <1>5, <1>6 DEF s
    <3> QED BY <1>3, <3>2, <3>3, Zenon DEF s, t
  <2>2. Vagon(t, s, bloque[c], k + 1) = Sigue(t, s[k])
    BY <1>3, <1>6 DEF Tren
  <2>3. s[k] = En(n, SIZE_HEADER + (Len(datos) + k))
    BY <1>6, <1>8
  <2>4. Sigue(t, s[k]) = IF Len(datos') < tamano THEN En(n, SIZE_HEADER + Len(datos') + 1)
                                                 ELSE En(n + 1, 1)
    <3>1. SIZE_HEADER + (Len(datos) + k) < SIZE_HEADER + t[n] <=> Len(datos') < tamano
      BY <1>4, <1>5, <1>6, <1>10
    <3>2. (SIZE_HEADER + (Len(datos) + k)) + 1 = SIZE_HEADER + Len(datos') + 1
      BY <1>5, <1>6, <1>10
    <3> QED BY <2>3, <3>1, <3>2 DEF Sigue, En
  <2>5. Lugar(c)' = IF Len(datos') < tamano THEN En(n, SIZE_HEADER + Len(datos') + 1)
                                            ELSE En(n + 1, 1)
    <3>1. CASE Len(datos') = tamano
      <4>1. servidor' = "manejar" /\ ~(Len(datos') < tamano)
        <5>1. servidor' = "manejar"
          BY <1>1, <3>1
        <5>2. ~(Len(datos') < tamano)
          BY <1>4, <3>1
        <5> QED BY <5>1, <5>2
      <4>2. Lugar(c)' = En(manejados[c] + 2, 1)
        BY <1>1, <4>1 DEF Lugar, c
      <4>3. manejados[c] + 2 = n + 1
        BY <1>3, LoQueSabe DEF n, c
      <4> QED BY <4>1, <4>2, <4>3
    <3>2. CASE Len(datos') # tamano
      <4>1. servidor' = "datos" /\ Len(datos') < tamano
        BY <1>1, <1>11, <3>2
      <4>2. Lugar(c)' = En(manejados[c] + 1, SIZE_HEADER + Len(datos') + 1)
        BY <1>1, <4>1 DEF Lugar, c
      <4> QED BY <4>1, <4>2 DEF n, c
    <3> QED BY <3>1, <3>2
  <2> QED BY <2>1, <2>2, <2>4, <2>5
<1>14. servidor' \in {"datos", "manejar"} /\ tamano' \in Nat
  BY <1>1, <1>4
<1> QED BY <1>1, <1>2, <1>3, <1>6, <1>10, <1>12, <1>13, <1>14, LecturaConserva DEF c, t

\* recv() finds the end of the connection: the packet it was in is cut.
LEMMA Cortada ==
  ASSUME IInv, Atendiendo, ~Perdido, NEW c, c = socket_ite, canal[c] = <<>>,
         servidor \in {"tamano", "datos"}
  PROVE  bloque[c] # <<>> /\ bloque[c][1].lugar > 1
<1> DEFINE t == tamanos[c]
           b == bloque[c]
<1>1. PICK l \in Nat : l > 1 /\ Lugar(c) = En(manejados[c] + 1, l)
  <2>1. TamCodigo + 1 \in Nat /\ TamCodigo + 1 > 1
    BY Cabecera
  <2>2. SIZE_HEADER + Len(datos) + 1 \in Nat /\ SIZE_HEADER + Len(datos) + 1 > 1
    <3>1. datos \in Seq(Byte)
      BY DEF IInv, Tipos
    <3>2. Len(datos) \in Nat
      BY <3>1
    <3> QED BY <3>2, Cabecera
  <2>3. CASE servidor = "tamano"
    BY <2>1, <2>3 DEF Lugar
  <2>4. CASE servidor = "datos"
    BY <2>2, <2>4 DEF Lugar
  <2> QED BY <2>3, <2>4
<1>2. Tren(t, <<>>, b, Lugar(c))
  BY Atendido
<1>3. Proximo(t, b) = En(manejados[c] + 1, l)
  BY <1>1, <1>2 DEF Tren, Vagon
<1>4. b # <<>>
  BY <1>1, <1>3 DEF Proximo, En
<1> QED BY <1>1, <1>3, <1>4 DEF Proximo, En

LEMMA FinDeConexionPaso ==
  ASSUME IInv, FinDeConexion
  PROVE  IInv'
<1> DEFINE c == socket_ite
<1>1. /\ servidor \in {"codigo", "tamano", "datos"} /\ canal[c] = <<>>
      /\ conexion[c] = "cerrada" /\ servidor' \in {"terminado", "girando"}
      /\ UNCHANGED <<conexion, tamanos, bloque, canal, socket_ite, tamano, datos,
                     manejados, partida>>
  BY DEF FinDeConexion, Recibiendo, Hay, cliente, servir
<1>2. servidor # "codigo" /\ Atendiendo /\ c \in Clientes
  BY <1>1 DEF IInv, Recepcion, Hay, Tipos, Atendiendo
<1>3. Cortado(c)
  <2>1. CASE Perdido
    BY <2>1 DEF Perdido
  <2>2. CASE ~Perdido
    <3>1. bloque[c] # <<>> /\ bloque[c][1].lugar > 1
      BY <1>1, <1>2, <2>2, Cortada
    <3> QED BY <1>1, <3>1 DEF Cortado, Muerta
  <2> QED BY <2>1, <2>2
<1>4. Tipos'
  BY <1>1, <1>2 DEF IInv, Tipos, Atendiendo, Caido
<1>5. Orden'
  BY <1>1 DEF IInv, Orden
<1>6. Trenes'
  <2>1. SUFFICES ASSUME NEW d \in Clientes \ {c}
                 PROVE  Tren(tamanos'[d], canal'[d], bloque'[d], Lugar(d)')
    BY <1>1 DEF Trenes, Caido
  <2>2. Lugar(d)' = Lugar(d)
    BY <1>1 DEF Lugar
  <2> QED BY <1>1, <2>2 DEF IInv, Trenes
<1>7. Recepcion'
  BY <1>1 DEF Recepcion, Atendiendo
<1>8. SoloCaeCortado'
  BY <1>1, <1>3 DEF SoloCaeCortado, Cortado, Muerta
<1> QED BY <1>4, <1>5, <1>6, <1>7, <1>8 DEF IInv

LEMMA ErrorDeConexionPaso ==
  ASSUME IInv, ErrorDeConexion
  PROVE  IInv'
<1> DEFINE c == socket_ite
<1>1. /\ servidor \in {"codigo", "tamano", "datos"} /\ canal[c] = <<>>
      /\ conexion[c] = "reset" /\ conexion' = [conexion EXCEPT ![c] = "cerrada"]
      /\ \/ servidor' = "terminado" /\ datos' = datos
         \/ Len(datos) > 1 /\ datos' = SubSeq(datos, 1, Len(datos) - 1) /\ servidor' = servidor
      /\ UNCHANGED <<tamanos, bloque, canal, socket_ite, tamano, manejados, partida>>
  <2>1. datos \in Seq(Byte)
    BY DEF IInv, Tipos
  <2>2. ~(Len(datos) <= 1) => Len(datos) > 1
    BY <2>1
  <2> QED BY <2>2 DEF ErrorDeConexion, Recibiendo, Hay
<1>2. servidor # "codigo" /\ Atendiendo /\ c \in Clientes /\ ~Perdido
  BY <1>1 DEF IInv, Recepcion, Hay, Tipos, Atendiendo, Perdido
<1>3. /\ conexion'[c] = "cerrada" /\ \A d \in Clientes \ {c} : conexion'[d] = conexion[d]
      /\ conexion' \in [Clientes -> {"fuera", "abierta", "cerrada", "reset", "olvidada"}]
  BY <1>1, <1>2 DEF IInv, Tipos
<1>4. Cortado(c)'
  <2>1. bloque[c] # <<>> /\ bloque[c][1].lugar > 1
    BY <1>1, <1>2, Cortada
  <2> QED BY <1>1, <1>3, <2>1 DEF Cortado, Muerta
<1>5. servidor' \in {"terminado", "datos"}
  <2>1. CASE servidor' = "terminado"
    BY <2>1
  <2>2. CASE Len(datos) > 1 /\ servidor' = servidor
    <3>1. datos # <<>>
      BY <2>2
    <3> QED BY <1>1, <2>2, <3>1 DEF IInv, Recepcion
  <2> QED BY <1>1, <2>1, <2>2
<1>6. servidor' = "datos" => Perdido'
  BY <1>1, <1>3, <1>4 DEF Perdido, Hay
<1>7. datos' \in Seq(Byte)
  <2>1. datos \in Seq(Byte)
    BY DEF IInv, Tipos
  <2>2. SubSeq(datos, 1, Len(datos) - 1) \in Seq(Byte)
    <3>1. 1 \in Int /\ Len(datos) - 1 \in Int /\ \A i \in 1 .. Len(datos) - 1 : datos[i] \in Byte
      BY <2>1
    <3> QED BY <3>1, SubSeqProperties
  <2> QED BY <1>1, <2>1, <2>2
<1>8. Tipos'
  BY <1>1, <1>2, <1>3, <1>5, <1>7 DEF IInv, Tipos
<1>9. Orden'
  BY <1>1 DEF IInv, Orden
<1>10. Trenes'
  <2>1. SUFFICES ASSUME NEW d \in Clientes \ {c}
                 PROVE  Tren(tamanos'[d], canal'[d], bloque'[d], Lugar(d)')
    BY <1>1, <1>5, <1>6 DEF Trenes, Caido
  <2>2. Lugar(d)' = Lugar(d)
    BY <1>1 DEF Lugar
  <2> QED BY <1>1, <2>2 DEF IInv, Trenes
<1>11. Recepcion'
  BY <1>1, <1>2, <1>5, <1>6 DEF IInv, Recepcion, Atendiendo
<1>12. SoloCaeCortado'
  BY <1>1, <1>4, <1>5 DEF SoloCaeCortado
<1> QED BY <1>8, <1>9, <1>10, <1>11, <1>12 DEF IInv

LEMMA ManejarPaso ==
  ASSUME IInv, Manejar
  PROVE  IInv'
<1> DEFINE c == socket_ite
<1>1. /\ servidor = "manejar" /\ servidor' = "for"
      /\ manejados' = [manejados EXCEPT ![c] = @ + 1]
      /\ tamano' = 0 /\ datos' = <<>>
      /\ UNCHANGED <<conexion, tamanos, bloque, canal, partida>>
  BY DEF Manejar, cliente
<1>2. c \in Clientes /\ Atendiendo /\ ~Perdido /\ ~Caido /\ manejados[c] \in Nat
  BY <1>1 DEF IInv, Tipos, Atendiendo, Perdido, Caido
<1>3. /\ manejados'[c] = manejados[c] + 1
      /\ \A d \in Clientes \ {c} : manejados'[d] = manejados[d]
      /\ manejados' \in [Clientes -> Nat]
  BY <1>1, <1>2 DEF IInv, Tipos
<1>4. Tipos'
  BY <1>1, <1>3 DEF IInv, Tipos, Atendiendo, Caido
<1>5. Orden'
  BY <1>1 DEF IInv, Orden
<1>6. Trenes'
  <2>1. SUFFICES ASSUME NEW d \in Clientes
                 PROVE  Tren(tamanos[d], canal[d], bloque[d], Lugar(d)')
    BY <1>1 DEF Trenes
  <2>2. Tren(tamanos[d], canal[d], bloque[d], Lugar(d))
    BY <1>2 DEF IInv, Trenes
  <2>3. Lugar(d)' = En(manejados'[d] + 1, 1)
    BY <1>1 DEF Lugar
  <2>4. CASE d = c
    <3>1. Lugar(d) = En(manejados[c] + 2, 1)
      BY <1>1, <2>4 DEF Lugar
    <3>2. manejados'[d] + 1 = manejados[c] + 2
      BY <1>2, <1>3, <2>4
    <3> QED BY <2>2, <2>3, <3>1, <3>2
  <2>5. CASE d # c
    BY <1>3, <2>2, <2>3, <2>5 DEF Lugar
  <2> QED BY <2>4, <2>5
<1>7. Recepcion'
  BY <1>1 DEF Recepcion, Atendiendo
<1>8. SoloCaeCortado'
  BY <1>1 DEF SoloCaeCortado
<1> QED BY <1>4, <1>5, <1>6, <1>7, <1>8 DEF IInv

\* select() and its for: no byte is read.
LEMMA BuclePaso ==
  ASSUME IInv, Select \/ OtroSelect \/ \E c \in Clientes : Aceptar(c) \/ Atender(c)
  PROVE  IInv'
<1>1. /\ servidor \in {"select", "for"} /\ servidor' \in {"select", "for", "codigo"}
      /\ UNCHANGED <<tamanos, bloque, canal, tamano, datos, manejados, partida>>
      /\ servidor' = "codigo" => socket_ite' \in Clientes /\ canal[socket_ite'] # <<>>
      /\ conexion' \in [Clientes -> {"fuera", "abierta", "cerrada", "reset", "olvidada"}]
  <2>1. CASE Select \/ OtroSelect
    BY <2>1 DEF Select, OtroSelect, cliente, servir, IInv, Tipos
  <2>2. ASSUME NEW c \in Clientes, Aceptar(c)
        PROVE  /\ servidor = "for" /\ servidor' = "for"
               /\ UNCHANGED <<conexion, tamanos, bloque, canal, tamano, datos, manejados, partida>>
    BY <2>2 DEF Aceptar, cliente, recepcion
  <2>3. ASSUME NEW c \in Clientes, Atender(c)
        PROVE  /\ servidor = "for"
               /\ \/ canal[c] # <<>> /\ servidor' = "codigo" /\ socket_ite' = c /\ conexion' = conexion
                  \/ servidor' = "for" /\ conexion' = [conexion EXCEPT ![c] = "olvidada"]
               /\ UNCHANGED <<tamanos, bloque, canal, tamano, datos, manejados, partida>>
    BY <2>3 DEF Atender
  <2>4. ASSUME NEW c \in Clientes, Aceptar(c) \/ Atender(c)
        PROVE  <1>1!:
    BY <2>2, <2>3, <2>4 DEF IInv, Tipos
  <2> QED BY <2>1, <2>4
<1>2. datos = <<>>
  BY <1>1 DEF IInv, Recepcion
<1>3. \A d \in Clientes : Lugar(d) = En(manejados[d] + 1, 1) /\ Lugar(d)' = En(manejados[d] + 1, 1)
  BY <1>1 DEF Lugar
<1>4. \A d \in Clientes : Tren(tamanos[d], canal[d], bloque[d], En(manejados[d] + 1, 1))
  BY <1>1, <1>3 DEF IInv, Trenes, Caido, Perdido
<1>5. ASSUME servidor' = "codigo"
      PROVE  manejados[socket_ite'] + 1 <= Len(tamanos[socket_ite'])
  <2>1. PICK c \in Clientes : c = socket_ite' /\ canal[c] # <<>>
    BY <1>1, <1>5
  <2>2. canal[c] \in Seq(Byte) /\ DelCliente(tamanos[c], canal[c][1])
    BY <2>1, LoQueSabe
  <2>3. canal[c][1] = En(manejados[c] + 1, 1)
    BY <1>4, <2>1, <2>2 DEF Tren, Vagon
  <2> QED BY <2>1, <2>2, <2>3 DEF DelCliente, En
<1>6. Tipos'
  BY <1>1 DEF IInv, Tipos, Atendiendo, Caido
<1>7. Orden'
  BY <1>1 DEF IInv, Orden
<1>8. Trenes'
  BY <1>1, <1>3, <1>4 DEF Trenes
<1>9. Recepcion'
  BY <1>1, <1>2, <1>5 DEF Recepcion, Atendiendo, Hay
<1>10. SoloCaeCortado'
  BY <1>1 DEF SoloCaeCortado
<1> QED BY <1>6, <1>7, <1>8, <1>9, <1>10 DEF IInv

LEMMA Paso ==
  ASSUME IInv, [Next]_vars
  PROVE  IInv'
<1>1. CASE UNCHANGED vars
  <2>1. /\ UNCHANGED <<conexion, tamanos, bloque, canal, servidor, socket_ite, tamano, datos,
                       manejados, partida>>
    BY <1>1 DEF vars, cliente, recepcion
  <2>2. \A c \in Clientes : Lugar(c)' = Lugar(c)
    BY <2>1 DEF Lugar
  <2>3. Tipos' /\ Orden' /\ Recepcion' /\ SoloCaeCortado'
    BY <2>1 DEF IInv, Tipos, Orden, Recepcion, SoloCaeCortado, Atendiendo, Caido, Perdido, Hay,
                Cortado, Muerta
  <2>4. Trenes'
    BY <2>1, <2>2 DEF IInv, Trenes, Caido, Perdido, Hay, Cortado, Muerta
  <2> QED BY <2>3, <2>4 DEF IInv
<1>2. CASE RecibirPaquete
  BY <1>2, RecibirCodigoPaso, RecibirTamanoPaso, RecibirDatosPaso, FinDeConexionPaso,
     ErrorDeConexionPaso, ManejarPaso DEF RecibirPaquete
<1>3. CASE Select \/ OtroSelect \/ \E c \in Clientes : Aceptar(c) \/ Atender(c)
  BY <1>3, BuclePaso
<1>4. ASSUME NEW c \in Clientes,
             Conectar(c) \/ Send(c) \/ Morir(c) \/ \E t \in Tamanos : Enviar(c, t)
      PROVE  IInv'
  BY <1>4, ClientePaso
<1> QED BY <1>1, <1>2, <1>3, <1>4 DEF Next, Servidor

-----------------------------------------------------------------------------
(* What is proved of the packets *)

\* The inductive invariant: what is between enviar() and the callback is a train
\* of whole packets, whoever dies and wherever recv() and send() cut them.
THEOREM Invariante == Spec => []IInv
<1>1. Init => IInv
  BY Inicio
<1>2. IInv /\ [Next]_vars => IInv'
  BY Paso
<1> QED BY <1>1, <1>2, PTL DEF Spec

\* A packet is handled as it was sent, in its turn: its size and its data, and the
\* channel goes on with the next one (recibir_paquete, Sockets.c).
THEOREM Exacta == Spec => []EntregaExacta
<1>1. ASSUME IInv PROVE EntregaExacta
  <2> DEFINE c == socket_ite
             t == tamanos[c]
             n == manejados[c] + 1
  <2>1. SUFFICES ASSUME servidor = "manejar"
                 PROVE  /\ n <= Len(t) /\ tamano = t[n] /\ datos = DatosDe(c, n)
                        /\ canal[c] # <<>> => canal[c][1] = En(n + 1, 1)
    BY DEF EntregaExacta, En
  <2>2. Atendiendo /\ ~Perdido
    BY <2>1 DEF Atendiendo, Perdido
  <2>3. /\ c \in Clientes /\ t \in Seq(Tamanos) /\ n \in 1 .. Len(t)
        /\ Tren(t, canal[c], bloque[c], Lugar(c))
    BY <1>1, <2>2, Atendido
  <2>4. /\ tamano = t[n] /\ Len(datos) = tamano /\ datos \in Seq(Byte)
        /\ \A i \in 1 .. Len(datos) : datos[i] = En(n, SIZE_HEADER + i)
    BY <1>1, <2>1, <2>2 DEF IInv, Recepcion, Tipos
  <2>5. n \in Nat \ {0} /\ t[n] \in Tamanos
    BY <2>3, TamanoDe
  <2>6. datos = DatosDe(c, n)
    <3>1. datos = SubSeq(Bytes(n, t[n]), SIZE_HEADER + 1, SIZE_HEADER + t[n])
      BY <2>4, <2>5, DatosDelPaquete
    <3> QED BY <3>1 DEF DatosDe
  <2>7. canal[c] # <<>> => canal[c][1] = En(n + 1, 1)
    <3>1. Lugar(c) = En(manejados[c] + 2, 1)
      BY <2>1 DEF Lugar
    <3>2. manejados[c] + 2 = n + 1 /\ canal[c] \in Seq(Byte)
      BY <1>1, <2>3, LoQueSabe
    <3> QED BY <2>3, <3>1, <3>2 DEF Tren, Vagon
  <2> QED BY <2>3, <2>4, <2>6, <2>7
<1> QED BY <1>1, Invariante, PTL

\* The server falls only with a packet that the death of its sender cut in two, or
\* with a header that came in pieces; whoever dies between packets costs nothing.
THEOREM CaeSoloCortado == Spec => []SoloCaeCortado
<1>1. IInv => SoloCaeCortado
  BY DEF IInv
<1> QED BY <1>1, Invariante, PTL

=============================================================================
