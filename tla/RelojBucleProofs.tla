-------------------------- MODULE RelojBucleProofs ---------------------------
(***************************************************************************)
(* The loops of both clocks compute what Reloj says, for every number of   *)
(* pages, every table and every hand.                                      *)
(*                                                                         *)
(* The argument is how far the hand is from where it stood at the call     *)
(* (Pasada), and in which turn: each turn rules out one class of pages,    *)
(* and the last one would rule out a page that is in memory.               *)
(***************************************************************************)
EXTENDS RelojBucle, FiniteSetTheorems, TLAPS

T == alEntrar.tabla
m0 == alEntrar.manecilla

\* The hand went past the page p in this turn.
Pasada(p) == Antes(m0, p, manecilla)

Despejada == [p \in Paginas |-> [T[p] EXCEPT !.uso = FALSE]]
HastaAca == [p \in Paginas |-> IF Pasada(p) THEN Despejada[p] ELSE T[p]]

\* CLOCK, first turn and second.
PrimeraVuelta == /\ \A p \in Paginas : Pasada(p) /\ T[p].presencia => T[p].uso
                 /\ tabla = HastaAca
SegundaVuelta == /\ SinUso(T) = {} /\ tabla = Despejada
                 /\ \A p \in Paginas : Pasada(p) => ~T[p].presencia

\* CLOCK-M: its two for loops, and the same two again.
BuscaLimpia == /\ tabla = T
               /\ \A p \in Paginas : Pasada(p) => p \notin SinUso(T) \intersect Limpias(T)
BuscaSinUso == SinUso(T) \intersect Limpias(T) = {} /\ PrimeraVuelta
OtraVezLimpia == /\ SinUso(T) = {} /\ tabla = Despejada
                 /\ \A p \in Paginas : Pasada(p) => p \notin Limpias(T)
OtraVezCualquiera == Limpias(T) = {} /\ SegundaVuelta

\* The counter of the for loops is the distance of the hand.
Distancia == manecilla = IF m0 + cantidad_entradas < N THEN m0 + cantidad_entradas
                                                       ELSE m0 + cantidad_entradas - N

Tipos ==
  /\ esClockM \in BOOLEAN /\ bucle \in {"uno", "dos", "fin"}
  /\ tabla \in [Paginas -> Entradas] /\ T \in [Paginas -> Entradas]
  /\ manecilla \in Paginas /\ m0 \in Paginas /\ cantidad_entradas \in Paginas
  /\ \A p \in Paginas : T[p].uso => T[p].presencia
  /\ Presentes(T) # {}

Clock == ~esClockM /\ bucle # "fin" =>
           bucle = "uno" /\ (PrimeraVuelta \/ SegundaVuelta)
ClockM == /\ esClockM /\ bucle # "fin" => Distancia
          /\ esClockM /\ bucle = "uno" => BuscaLimpia \/ OtraVezLimpia
          /\ esClockM /\ bucle = "dos" => BuscaSinUso \/ OtraVezCualquiera

IInv == Tipos /\ Clock /\ ClockM /\ EligeLaDelReloj /\ RespetaLasClases

-----------------------------------------------------------------------------
(* The hand *)

LEMMA Tamano == N \in Nat \ {0} /\ Cardinality(Paginas) = N /\ 0 \in Paginas
<1>1. N \in Nat \ {0}
  BY NAssumption
<1>2. Cardinality(0 .. N - 1) = N
  <2>1. 0 \in Int /\ N - 1 \in Int /\ N = (N - 1) - 0 + 1 /\ 0 <= N - 1
    BY <1>1
  <2> QED BY <2>1, FS_Interval
<1> QED BY <1>1, <1>2 DEF Paginas

\* The next page: within the turn the pages passed grow by one, at its end all
\* were passed and none is.
LEMMA Turno ==
  ASSUME NEW m \in Paginas, NEW h \in Paginas, NEW g, g = IF h + 1 = N THEN 0 ELSE h + 1
  PROVE  /\ g \in Paginas /\ ~Antes(m, h, h)
         /\ g # m => \A p \in Paginas : Antes(m, p, g) <=> Antes(m, p, h) \/ p = h
         /\ g = m => \A p \in Paginas : (Antes(m, p, h) \/ p = h) /\ ~Antes(m, p, g)
BY NAssumption DEF Paginas, Antes

LEMMA NadaPasado ==
  ASSUME NEW m \in Paginas, NEW p \in Paginas
  PROVE  ~Antes(m, p, m)
BY NAssumption DEF Paginas, Antes

\* The page that the hand meets first is the one with no other of the set before.
LEMMA PrimeraEs ==
  ASSUME NEW S \in SUBSET Paginas, NEW m \in Paginas, NEW h \in S,
         \A p \in S : ~Antes(m, p, h)
  PROVE  Primera(S, m) = h
<1>1. \A p \in S \ {h} : Antes(m, h, p)
  BY NAssumption DEF Paginas, Antes
<1>2. ASSUME NEW q \in S, \A p \in S \ {q} : Antes(m, q, p)
      PROVE  q = h
  BY <1>2
<1> QED BY <1>1, <1>2 DEF Primera

LEMMA Avanza ==
  ASSUME Tipos
  PROVE  /\ Avanzar(tabla, manecilla) = IF manecilla + 1 = N THEN 0 ELSE manecilla + 1
         /\ Avanzar(T, manecilla) = Avanzar(tabla, manecilla)
         /\ Avanzar(tabla, manecilla) \in Paginas
<1>1. DOMAIN tabla = Paginas /\ DOMAIN T = Paginas
  BY DEF Tipos
<1>2. manecilla \in Paginas
  BY DEF Tipos
<1> QED BY <1>1, <1>2, Tamano, Turno DEF Avanzar

LEMMA Conjuntos ==
  ASSUME Tipos
  PROVE  /\ Presentes(T) = {p \in Paginas : T[p].presencia}
         /\ SinUso(T) = {p \in Paginas : T[p].presencia /\ ~T[p].uso}
         /\ Limpias(T) = {p \in Paginas : T[p].presencia /\ ~T[p].modificado}
BY DEF Tipos, Presentes, SinUso, Limpias

\* What the entries of a table are after the bit of use is cleared.
LEMMA Bit ==
  ASSUME NEW e \in Entradas
  PROVE  /\ [e EXCEPT !.uso = FALSE] \in Entradas
         /\ [e EXCEPT !.uso = FALSE].uso = FALSE
         /\ [e EXCEPT !.uso = FALSE].presencia = e.presencia
         /\ [e EXCEPT !.uso = FALSE].modificado = e.modificado
         /\ ~e.uso => [e EXCEPT !.uso = FALSE] = e
         /\ [[e EXCEPT !.uso = FALSE] EXCEPT !.uso = FALSE] = [e EXCEPT !.uso = FALSE]
         /\ e.presencia \in BOOLEAN /\ e.uso \in BOOLEAN /\ e.modificado \in BOOLEAN
BY DEF Entradas

LEMMA Campos ==
  ASSUME Tipos, NEW p \in Paginas
  PROVE  /\ T[p] \in Entradas /\ Despejada[p] \in Entradas
         /\ Despejada[p] = [T[p] EXCEPT !.uso = FALSE]
         /\ [Despejada[p] EXCEPT !.uso = FALSE] = Despejada[p]
         /\ Despejada[p].presencia = T[p].presencia /\ Despejada[p].uso = FALSE
         /\ Despejada[p].modificado = T[p].modificado
         /\ T[p].presencia \in BOOLEAN /\ T[p].uso \in BOOLEAN /\ T[p].modificado \in BOOLEAN
         /\ ~T[p].uso => Despejada[p] = T[p]
<1>1. T[p] \in Entradas
  BY DEF Tipos
<1>2. Despejada[p] = [T[p] EXCEPT !.uso = FALSE]
  BY DEF Despejada
<1>3. PICK e \in Entradas : e = T[p]
  BY <1>1
<1>4. PICK d : d = Despejada[p]
  OBVIOUS
<1>5. d = [e EXCEPT !.uso = FALSE]
  BY <1>2, <1>3, <1>4
<1>6. /\ e \in Entradas /\ d \in Entradas /\ [d EXCEPT !.uso = FALSE] = d
      /\ d.presencia = e.presencia /\ d.uso = FALSE /\ d.modificado = e.modificado
      /\ e.presencia \in BOOLEAN /\ e.uso \in BOOLEAN /\ e.modificado \in BOOLEAN
      /\ ~e.uso => d = e
  BY <1>5, Bit
<1> QED BY <1>2, <1>3, <1>4, <1>6

-----------------------------------------------------------------------------
(* One page is passed *)

\* The tables before and after, as records.
LEMMA Tablas ==
  ASSUME Tipos
  PROVE  /\ HastaAca \in [Paginas -> Entradas] /\ Despejada \in [Paginas -> Entradas]
         /\ \A p \in Paginas : HastaAca[p] = IF Pasada(p) THEN Despejada[p] ELSE T[p]
         /\ \A p \in Paginas : ~T[p].presencia => Despejada[p] = T[p]
<1>1. ASSUME NEW p \in Paginas
      PROVE  Despejada[p] \in Entradas /\ T[p] \in Entradas
    BY <1>1, Campos
<1>2. ASSUME NEW p \in Paginas, ~T[p].presencia
      PROVE  Despejada[p] = T[p]
  <2>1. ~T[p].uso
    BY <1>2 DEF Tipos
  <2> QED BY <1>2, <2>1, Campos
<1>3. Despejada = [p \in Paginas |-> Despejada[p]]
  BY DEF Despejada
<1> QED BY <1>1, <1>2, <1>3 DEF HastaAca

LEMMA CambiaUna ==
  ASSUME Tipos, tabla[manecilla].presencia = T[manecilla].presencia,
         tabla[manecilla] = T[manecilla] \/ tabla[manecilla] = Despejada[manecilla],
         tabla' = IF tabla[manecilla].presencia THEN [tabla EXCEPT ![manecilla].uso = FALSE]
                                                ELSE tabla
  PROVE  /\ tabla' \in [Paginas -> Entradas] /\ tabla'[manecilla] = Despejada[manecilla]
         /\ \A p \in Paginas \ {manecilla} : tabla'[p] = tabla[p]
<1> DEFINE h == manecilla
<1>1. h \in Paginas /\ tabla \in [Paginas -> Entradas]
  BY DEF Tipos
<1>2. CASE tabla[h].presencia
  <2>1. tabla' = [tabla EXCEPT ![h] = [tabla[h] EXCEPT !.uso = FALSE]]
    BY <1>2
  <2>2. [tabla[h] EXCEPT !.uso = FALSE] = Despejada[h]
    <3>1. CASE tabla[h] = T[h]
      BY <1>1, <3>1, Campos
    <3>2. CASE tabla[h] = Despejada[h]
      BY <1>1, <3>2, Campos
    <3> QED BY <3>1, <3>2
  <2>3. Despejada[h] \in Entradas
    BY <1>1, Tablas
  <2> QED BY <1>1, <2>1, <2>2, <2>3
<1>3. CASE ~tabla[h].presencia
  <2>1. tabla' = tabla /\ Despejada[h] = T[h]
    BY <1>1, <1>3, Tablas
  <2> QED BY <1>1, <2>1
<1> QED BY <1>2, <1>3

\* The first turn that clears bits of use.
LEMMA SiguePrimera ==
  ASSUME Tipos, PrimeraVuelta, T[manecilla].presencia => T[manecilla].uso,
         tabla' = IF tabla[manecilla].presencia THEN [tabla EXCEPT ![manecilla].uso = FALSE]
                                                ELSE tabla,
         manecilla' = Avanzar(tabla, manecilla), alEntrar' = alEntrar
  PROVE  /\ tabla' \in [Paginas -> Entradas]
         /\ manecilla' # m0 => PrimeraVuelta'
         /\ manecilla' = m0 => SinUso(T) = {} /\ tabla' = Despejada
                               /\ \A p \in Paginas : ~Pasada(p)'
<1> DEFINE h == manecilla
<1>1. h \in Paginas /\ m0 \in Paginas /\ T' = T /\ m0' = m0 /\ Despejada' = Despejada
      /\ manecilla' = IF h + 1 = N THEN 0 ELSE h + 1
  BY Avanza DEF Tipos, T, m0, Despejada
<1>2. ~Pasada(h)
  BY <1>1, Turno DEF Pasada
<1>3. tabla[h] = T[h] /\ \A p \in Paginas : tabla[p] = IF Pasada(p) THEN Despejada[p] ELSE T[p]
  BY <1>1, <1>2, Tablas DEF PrimeraVuelta
<1>4. /\ tabla' \in [Paginas -> Entradas] /\ tabla'[h] = Despejada[h]
      /\ \A p \in Paginas \ {h} : tabla'[p] = tabla[p]
  BY <1>3, CambiaUna
<1>5. ASSUME manecilla' # m0
      PROVE  PrimeraVuelta'
  <2>1. \A p \in Paginas : Pasada(p)' <=> Pasada(p) \/ p = h
    BY <1>1, <1>5, Turno DEF Pasada
  <2>2. \A p \in Paginas : Pasada(p)' /\ T[p].presencia => T[p].uso
    BY <2>1 DEF PrimeraVuelta
  <2>3. \A p \in Paginas : tabla'[p] = IF Pasada(p)' THEN Despejada[p] ELSE T[p]
    BY <1>3, <1>4, <2>1
  <2>4. tabla' = HastaAca'
    BY <1>1, <1>4, <2>3 DEF HastaAca
  <2> QED BY <1>1, <2>2, <2>4 DEF PrimeraVuelta
<1>6. ASSUME manecilla' = m0
      PROVE  SinUso(T) = {} /\ tabla' = Despejada /\ \A p \in Paginas : ~Pasada(p)'
  <2>1. \A p \in Paginas : (Pasada(p) \/ p = h) /\ ~Pasada(p)'
    BY <1>1, <1>6, Turno DEF Pasada
  <2>2. SinUso(T) = {}
    BY <2>1, Conjuntos DEF PrimeraVuelta
  <2>3. \A p \in Paginas : tabla'[p] = Despejada[p]
    BY <1>3, <1>4, <2>1
  <2>4. tabla' = Despejada
    BY <1>4, <2>3, Tablas
  <2> QED BY <2>1, <2>2, <2>4
<1> QED BY <1>4, <1>5, <1>6

\* The turns that only look: S is the class they rule out.
LEMMA SigueMirando ==
  ASSUME Tipos, NEW S \in SUBSET Paginas, \A p \in Paginas : Pasada(p) => p \notin S,
         manecilla \notin S, manecilla' = Avanzar(tabla, manecilla), alEntrar' = alEntrar
  PROVE  /\ manecilla' # m0 => \A p \in Paginas : Pasada(p)' => p \notin S
         /\ manecilla' = m0 => S = {} /\ \A p \in Paginas : ~Pasada(p)'
<1> DEFINE h == manecilla
<1>1. h \in Paginas /\ m0 \in Paginas /\ m0' = m0
      /\ manecilla' = IF h + 1 = N THEN 0 ELSE h + 1
  BY Avanza DEF Tipos, m0
<1>2. ASSUME manecilla' # m0
      PROVE  \A p \in Paginas : Pasada(p)' <=> Pasada(p) \/ p = h
  BY <1>1, <1>2, Turno DEF Pasada
<1>3. ASSUME manecilla' = m0
      PROVE  \A p \in Paginas : (Pasada(p) \/ p = h) /\ ~Pasada(p)'
  BY <1>1, <1>3, Turno DEF Pasada
<1>4. manecilla' = m0 => S = {}
  BY <1>3
<1> QED BY <1>2, <1>3, <1>4

LEMMA Cuenta ==
  ASSUME Tipos, Distancia, manecilla' = Avanzar(tabla, manecilla), alEntrar' = alEntrar
  PROVE  /\ cantidad_entradas + 1 < N /\ cantidad_entradas' = cantidad_entradas + 1
              => cantidad_entradas' \in Paginas /\ Distancia' /\ manecilla' # m0
         /\ cantidad_entradas + 1 = N /\ cantidad_entradas' = 0
              => cantidad_entradas' \in Paginas /\ Distancia' /\ manecilla' = m0
<1> DEFINE h == manecilla
           k == cantidad_entradas
<1>1. /\ h \in Paginas /\ m0 \in Paginas /\ k \in Paginas /\ m0' = m0
      /\ manecilla' = IF h + 1 = N THEN 0 ELSE h + 1
  BY Avanza DEF Tipos, m0
<1>2. h = IF m0 + k < N THEN m0 + k ELSE m0 + k - N
  BY DEF Distancia
<1>3. N \in Nat \ {0}
  BY NAssumption
<1>4. ASSUME k + 1 < N, cantidad_entradas' = k + 1
      PROVE  cantidad_entradas' \in Paginas /\ manecilla' # m0
             /\ manecilla' = IF m0 + (k + 1) < N THEN m0 + (k + 1) ELSE m0 + (k + 1) - N
  BY <1>1, <1>2, <1>3, <1>4 DEF Paginas
<1>5. ASSUME k + 1 = N, cantidad_entradas' = 0
      PROVE  cantidad_entradas' \in Paginas /\ manecilla' = m0
             /\ manecilla' = IF m0 + 0 < N THEN m0 + 0 ELSE m0 + 0 - N
  BY <1>1, <1>2, <1>3, <1>5 DEF Paginas
<1> QED BY <1>1, <1>4, <1>5 DEF Distancia

-----------------------------------------------------------------------------
(* The choice *)

\* What Reloj says in each of the cases that the turns tell apart.
LEMMA LosCasos ==
  ASSUME Tipos
  PROVE  /\ SinUso(T) # {} /\ (esClockM => SinUso(T) \intersect Limpias(T) = {})
              => /\ Victima(T, m0, esClockM) = Primera(SinUso(T), m0)
                 /\ Pasadas(T, m0, esClockM)
                    = {p \in Presentes(T) : Antes(m0, p, Primera(SinUso(T), m0))}
         /\ SinUso(T) = {} /\ (esClockM => Limpias(T) = {})
              => /\ Victima(T, m0, esClockM) = Primera(Presentes(T), m0)
                 /\ Pasadas(T, m0, esClockM) = Presentes(T)
         /\ esClockM /\ SinUso(T) \intersect Limpias(T) # {}
              => /\ Victima(T, m0, esClockM) = Primera(SinUso(T) \intersect Limpias(T), m0)
                 /\ Pasadas(T, m0, esClockM) = {}
         /\ esClockM /\ SinUso(T) = {} /\ Limpias(T) # {}
              => /\ Victima(T, m0, esClockM) = Primera(Limpias(T), m0)
                 /\ Pasadas(T, m0, esClockM) = Presentes(T)
<1> DEFINE S == SinUso(T)
           L == Limpias(T)
           P == Presentes(T)
<1>1. esClockM \in BOOLEAN /\ P \intersect L = L /\ S \intersect L \subseteq S
  BY Conjuntos DEF Tipos
<1> HIDE DEF S, L, P
<1>2. Victima(T, m0, esClockM)
      = IF esClockM
        THEN LET cs == IF S # {} THEN S ELSE P
             IN  Primera(IF cs \intersect L # {} THEN cs \intersect L ELSE cs, m0)
        ELSE Primera(IF S # {} THEN S ELSE P, m0)
  BY DEF Victima, VictimaClock, VictimaClockM, S, L, P
<1>3. Pasadas(T, m0, esClockM)
      = IF S = {} THEN P
        ELSE IF esClockM /\ S \intersect L # {} THEN {}
        ELSE {p \in P : Antes(m0, p, Victima(T, m0, esClockM))}
  BY DEF Victima, Pasadas, S, L, P
<1>4. S # {} /\ (esClockM => S \intersect L = {})
        => /\ Victima(T, m0, esClockM) = Primera(S, m0)
           /\ Pasadas(T, m0, esClockM) = {p \in P : Antes(m0, p, Primera(S, m0))}
  <2> SUFFICES ASSUME S # {}, esClockM => S \intersect L = {}
               PROVE  /\ Victima(T, m0, esClockM) = Primera(S, m0)
                      /\ Pasadas(T, m0, esClockM) = {p \in P : Antes(m0, p, Primera(S, m0))}
    OBVIOUS
  <2>1. Victima(T, m0, esClockM) = Primera(S, m0)
    BY <1>1, <1>2
  <2> QED BY <1>3, <2>1
<1>5. S = {} /\ (esClockM => L = {})
        => Victima(T, m0, esClockM) = Primera(P, m0) /\ Pasadas(T, m0, esClockM) = P
  BY <1>1, <1>2, <1>3
<1>6. esClockM /\ S \intersect L # {}
        => Victima(T, m0, esClockM) = Primera(S \intersect L, m0) /\ Pasadas(T, m0, esClockM) = {}
  BY <1>1, <1>2, <1>3
<1>7. esClockM /\ S = {} /\ L # {}
        => Victima(T, m0, esClockM) = Primera(L, m0) /\ Pasadas(T, m0, esClockM) = P
  BY <1>1, <1>2, <1>3
<1> QED BY <1>4, <1>5, <1>6, <1>7 DEF S, L, P

\* Once the victim is the one under the hand and the pages of Pasadas are the
\* ones that were cleared, the call leaves what Reloj says.
LEMMA Acierta ==
  ASSUME Tipos, Elegir, Victima(T, m0, esClockM) = manecilla,
         \A p \in Paginas : tabla[p] = IF p \in Pasadas(T, m0, esClockM)
                                       THEN Despejada[p] ELSE T[p]
  PROVE  EligeLaDelReloj'
<1>1. T' = T /\ m0' = m0 /\ esClockM' = esClockM /\ tabla' = tabla /\ victima' = manecilla
      /\ manecilla' = Avanzar(T, manecilla)
  BY Avanza DEF Elegir, T, m0
<1>2. tabla = TrasElegir(T, m0, esClockM)
  <2>1. ASSUME NEW p \in Paginas
        PROVE  tabla[p] = [T[p] EXCEPT !.uso = @ /\ p \notin Pasadas(T, m0, esClockM)]
    <3>1. PICK e \in Entradas : e = T[p]
      BY Campos
    <3>2. PICK b \in BOOLEAN : b = (p \notin Pasadas(T, m0, esClockM))
      OBVIOUS
    <3>3. tabla[p] = IF b THEN e ELSE [e EXCEPT !.uso = FALSE]
      BY <3>1, <3>2, Campos
    <3>4. [e EXCEPT !.uso = e.uso /\ b] = IF b THEN e ELSE [e EXCEPT !.uso = FALSE]
      BY DEF Entradas
    <3> QED BY <3>1, <3>2, <3>3, <3>4
  <2>2. DOMAIN T = Paginas /\ tabla = [p \in Paginas |-> tabla[p]]
    BY DEF Tipos
  <2> QED BY <2>1, <2>2 DEF TrasElegir
<1> QED BY <1>1, <1>2 DEF EligeLaDelReloj, ManecillaTrasElegir, T, m0

LEMMA Respeta ==
  ASSUME Tipos, Elegir, T[manecilla].presencia,
         T[manecilla].uso => SinUso(T) = {},
         esClockM /\ T[manecilla].modificado
           => \A p \in Limpias(T) : T[p].uso /\ ~T[manecilla].uso
  PROVE  RespetaLasClases'
BY DEF Elegir, RespetaLasClases, T

\* The two turns in which the first page of a class is searched, having cleared
\* the bits of the pages before it or those of all of them.
LEMMA EnPrimera ==
  ASSUME Tipos, PrimeraVuelta, Elegir, tabla[manecilla].presencia, ~tabla[manecilla].uso,
         esClockM => SinUso(T) \intersect Limpias(T) = {}
  PROVE  EligeLaDelReloj' /\ RespetaLasClases'
<1> DEFINE h == manecilla
<1>1. h \in Paginas /\ m0 \in Paginas
  BY DEF Tipos
<1>2. ~Pasada(h) /\ \A p \in Paginas : tabla[p] = IF Pasada(p) THEN Despejada[p] ELSE T[p]
  BY <1>1, Turno, Tablas DEF Pasada, PrimeraVuelta
<1>3. T[h].presencia /\ ~T[h].uso /\ h \in SinUso(T) /\ SinUso(T) \in SUBSET Paginas
  BY <1>1, <1>2, Conjuntos
<1>4. \A p \in SinUso(T) : ~Antes(m0, p, h)
  BY Conjuntos DEF PrimeraVuelta, Pasada
<1>5. Primera(SinUso(T), m0) = h
  BY <1>1, <1>3, <1>4, PrimeraEs
<1>6. /\ Victima(T, m0, esClockM) = h
      /\ Pasadas(T, m0, esClockM) = {p \in Presentes(T) : Pasada(p)}
  BY <1>3, <1>5, LosCasos DEF Pasada
<1>7. \A p \in Paginas : tabla[p] = IF p \in Pasadas(T, m0, esClockM) THEN Despejada[p] ELSE T[p]
  BY <1>2, <1>6, Tablas, Conjuntos
<1>8. esClockM /\ T[h].modificado => \A p \in Limpias(T) : T[p].uso /\ ~T[h].uso
  BY <1>3, Conjuntos
<1> QED BY <1>3, <1>6, <1>7, <1>8, Acierta, Respeta

LEMMA EnSegunda ==
  ASSUME Tipos, SegundaVuelta, Elegir, tabla[manecilla].presencia,
         esClockM => Limpias(T) = {}
  PROVE  EligeLaDelReloj' /\ RespetaLasClases'
<1> DEFINE h == manecilla
<1>1. h \in Paginas /\ m0 \in Paginas
  BY DEF Tipos
<1>2. T[h].presencia /\ h \in Presentes(T) /\ Presentes(T) \in SUBSET Paginas
  BY <1>1, Campos, Conjuntos DEF SegundaVuelta
<1>3. \A p \in Presentes(T) : ~Antes(m0, p, h)
  BY Conjuntos DEF SegundaVuelta, Pasada
<1>4. Primera(Presentes(T), m0) = h
  BY <1>1, <1>2, <1>3, PrimeraEs
<1>5. Victima(T, m0, esClockM) = h /\ Pasadas(T, m0, esClockM) = Presentes(T)
  BY <1>4, LosCasos DEF SegundaVuelta
<1>6. \A p \in Paginas : tabla[p] = IF p \in Pasadas(T, m0, esClockM) THEN Despejada[p] ELSE T[p]
  BY <1>5, Tablas, Conjuntos DEF SegundaVuelta
<1>7. T[h].uso => SinUso(T) = {}
  BY DEF SegundaVuelta
<1>8. esClockM /\ T[h].modificado => \A p \in Limpias(T) : T[p].uso /\ ~T[h].uso
  OBVIOUS
<1> QED BY <1>2, <1>5, <1>6, <1>7, <1>8, Acierta, Respeta

\* The first for of CLOCK-M, the first time and after a turn of the second.
LEMMA EnLimpia ==
  ASSUME Tipos, BuscaLimpia \/ OtraVezLimpia, esClockM, Elegir, tabla[manecilla].presencia,
         ~tabla[manecilla].uso, ~tabla[manecilla].modificado
  PROVE  EligeLaDelReloj' /\ RespetaLasClases'
<1> DEFINE h == manecilla
<1>1. h \in Paginas /\ m0 \in Paginas
  BY DEF Tipos
<1>2. T[h].presencia /\ ~T[h].modificado /\ h \in Limpias(T)
  BY <1>1, Campos, Conjuntos DEF BuscaLimpia, OtraVezLimpia
<1>3. T[h].uso => SinUso(T) = {}
  BY DEF BuscaLimpia, OtraVezLimpia
<1>4. RespetaLasClases'
  BY <1>2, <1>3, Respeta
<1>5. CASE BuscaLimpia
  <2> DEFINE S == SinUso(T) \intersect Limpias(T)
  <2>1. h \in S /\ S \in SUBSET Paginas
    BY <1>1, <1>2, <1>5, Conjuntos DEF BuscaLimpia
  <2>2. \A p \in S : ~Antes(m0, p, h)
    BY <1>5, <2>1 DEF BuscaLimpia, Pasada
  <2>3. Primera(S, m0) = h
    <3> HIDE DEF S
    <3> QED BY <1>1, <2>1, <2>2, PrimeraEs
  <2>4. Victima(T, m0, esClockM) = h /\ Pasadas(T, m0, esClockM) = {}
    BY <2>1, <2>3, LosCasos
  <2> QED BY <1>4, <1>5, <2>4, Acierta DEF BuscaLimpia
<1>6. CASE OtraVezLimpia
  <2>1. Limpias(T) \in SUBSET Paginas /\ \A p \in Limpias(T) : ~Antes(m0, p, h)
    BY <1>6, Conjuntos DEF OtraVezLimpia, Pasada
  <2>2. Primera(Limpias(T), m0) = h
    BY <1>1, <1>2, <2>1, PrimeraEs
  <2>3. Victima(T, m0, esClockM) = h /\ Pasadas(T, m0, esClockM) = Presentes(T)
    BY <1>2, <1>6, <2>2, LosCasos DEF OtraVezLimpia
  <2>4. \A p \in Paginas : tabla[p] = IF p \in Pasadas(T, m0, esClockM) THEN Despejada[p] ELSE T[p]
    BY <1>6, <2>3, Tablas, Conjuntos DEF OtraVezLimpia
  <2> QED BY <1>4, <2>3, <2>4, Acierta
<1> QED BY <1>5, <1>6

-----------------------------------------------------------------------------
(* The invariant *)

LEMMA AlElegir ==
  ASSUME Tipos, Elegir
  PROVE  (Tipos /\ Clock /\ ClockM)'
<1>1. Avanzar(tabla, manecilla) \in Paginas
  BY Avanza
<1>2. T' = T
  BY DEF Elegir, T
<1>3. m0' = m0
  BY DEF Elegir, m0
<1>4. Tipos'
  BY <1>1, <1>2, <1>3 DEF Tipos, Elegir
<1>5. bucle' = "fin"
  BY DEF Elegir
<1> QED BY <1>4, <1>5 DEF Clock, ClockM

\* A turn of the loops ends without a victim only when the class it searches
\* is empty; no page in memory survives the last one.
LEMMA AlSeguir ==
  ASSUME Tipos, tabla' \in [Paginas -> Entradas], cantidad_entradas' \in Paginas,
         manecilla' = Avanzar(tabla, manecilla), bucle' \in {"uno", "dos"},
         UNCHANGED <<esClockM, alEntrar>>
  PROVE  /\ Tipos' /\ EligeLaDelReloj' /\ RespetaLasClases'
         /\ T' = T /\ m0' = m0 /\ Despejada' = Despejada
<1>1. T' = T
  BY DEF T
<1>2. m0' = m0
  BY DEF m0
<1>3. Avanzar(tabla, manecilla) \in Paginas
  BY Avanza
<1>4. Tipos'
  BY <1>1, <1>2, <1>3 DEF Tipos
<1>5. bucle' # "fin"
  OBVIOUS
<1>6. Despejada' = Despejada
  BY <1>1 DEF Despejada
<1> QED BY <1>1, <1>2, <1>4, <1>5, <1>6 DEF EligeLaDelReloj, RespetaLasClases

\* In the second turn the table is cleared, and clearing it again is no change.
LEMMA SigueDespejada ==
  ASSUME Tipos, tabla = Despejada, NEW d \in BOOLEAN,
         tabla' = IF d THEN [tabla EXCEPT ![manecilla].uso = FALSE] ELSE tabla
  PROVE  tabla' = Despejada /\ tabla' \in [Paginas -> Entradas]
<1>1. manecilla \in Paginas /\ Despejada \in [Paginas -> Entradas]
  BY Tablas DEF Tipos
<1>2. [Despejada[manecilla] EXCEPT !.uso = FALSE] = Despejada[manecilla]
  BY <1>1, Campos
<1>3. [Despejada EXCEPT ![manecilla] = Despejada[manecilla]] = Despejada
  BY <1>1
<1>4. [tabla EXCEPT ![manecilla].uso = FALSE]
      = [tabla EXCEPT ![manecilla] = [tabla[manecilla] EXCEPT !.uso = FALSE]]
  OBVIOUS
<1> QED BY <1>1, <1>2, <1>3, <1>4

LEMMA ConClock ==
  ASSUME IInv, IterarClock
  PROVE  IInv'
<1> DEFINE h == manecilla
<1>1. Tipos /\ ~esClockM /\ bucle = "uno" /\ (PrimeraVuelta \/ SegundaVuelta)
  BY DEF IInv, Clock, IterarClock
<1>2. CASE actual.presencia /\ ~actual.uso /\ Elegir
  <2>1. tabla[h].presencia /\ ~tabla[h].uso
    BY <1>2 DEF actual
  <2>2. EligeLaDelReloj' /\ RespetaLasClases'
    BY <1>1, <1>2, <2>1, EnPrimera, EnSegunda
  <2> QED BY <1>1, <1>2, <2>2, AlElegir DEF IInv
<1>3. CASE ~(actual.presencia /\ ~actual.uso) /\ Seguir(actual.presencia, 0, "uno")
  <2>1. /\ tabla' = IF tabla[h].presencia THEN [tabla EXCEPT ![h].uso = FALSE] ELSE tabla
        /\ manecilla' = Avanzar(tabla, manecilla) /\ bucle' = "uno" /\ cantidad_entradas' = 0
        /\ esClockM' = esClockM /\ alEntrar' = alEntrar
        /\ tabla[h].presencia => tabla[h].uso
    BY <1>3 DEF Seguir, actual
  <2>2. h \in Paginas /\ m0 \in Paginas
    BY <1>1 DEF Tipos
  <2>3. tabla' \in [Paginas -> Entradas] /\ (PrimeraVuelta' \/ SegundaVuelta')
    <3>1. CASE PrimeraVuelta
      <4>1. tabla[h] = T[h]
        BY <1>1, <2>2, <3>1, Turno, Tablas DEF Pasada, PrimeraVuelta
      <4>2. /\ tabla' \in [Paginas -> Entradas]
            /\ manecilla' # m0 => PrimeraVuelta'
            /\ manecilla' = m0 => SinUso(T) = {} /\ tabla' = Despejada
                                  /\ \A p \in Paginas : ~Pasada(p)'
        BY <1>1, <2>1, <3>1, <4>1, SiguePrimera
      <4>3. T' = T /\ Despejada' = Despejada
        BY <1>1, <2>1, <2>2, <4>2, Tamano, AlSeguir
      <4> QED BY <4>2, <4>3 DEF SegundaVuelta
    <3>2. CASE SegundaVuelta
      <4>1. tabla = Despejada /\ SinUso(T) = {} /\ ~tabla[h].presencia
        BY <1>1, <2>1, <2>2, <3>2, Campos DEF SegundaVuelta
      <4>2. tabla' = Despejada /\ tabla' \in [Paginas -> Entradas]
        BY <1>1, <2>1, <4>1, Tablas
      <4>3. h \notin Presentes(T) /\ Presentes(T) \in SUBSET Paginas
            /\ \A p \in Paginas : Pasada(p) => p \notin Presentes(T)
        BY <1>1, <2>2, <3>2, <4>1, Campos, Conjuntos DEF SegundaVuelta
      <4>4. /\ manecilla' # m0 => \A p \in Paginas : Pasada(p)' => p \notin Presentes(T)
            /\ manecilla' # m0
        BY <1>1, <2>1, <4>3, SigueMirando DEF Tipos
      <4>5. T' = T /\ Despejada' = Despejada
        BY <1>1, <2>1, <4>2, Tamano, AlSeguir
      <4>6. \A p \in Paginas : Pasada(p)' => ~T[p].presencia
        BY <1>1, <4>4, Conjuntos
      <4> QED BY <4>1, <4>2, <4>5, <4>6 DEF SegundaVuelta
    <3> QED BY <1>1, <3>1, <3>2
  <2>4. Tipos' /\ EligeLaDelReloj' /\ RespetaLasClases'
    BY <1>1, <2>1, <2>3, Tamano, AlSeguir
  <2> QED BY <1>1, <2>1, <2>3, <2>4 DEF IInv, Clock, ClockM
<1> QED BY <1>2, <1>3 DEF IterarClock

LEMMA ConPrimerFor ==
  ASSUME IInv, PrimerFor
  PROVE  IInv'
<1> DEFINE h == manecilla
           elegible == tabla[h].presencia /\ ~tabla[h].uso /\ ~tabla[h].modificado
<1>1. Tipos /\ esClockM /\ bucle = "uno" /\ Distancia /\ (BuscaLimpia \/ OtraVezLimpia)
      /\ h \in Paginas /\ m0 \in Paginas
  BY DEF IInv, Tipos, ClockM, PrimerFor
<1>2. CASE elegible /\ Elegir
  <2>1. EligeLaDelReloj' /\ RespetaLasClases'
    BY <1>1, <1>2, EnLimpia
  <2> QED BY <1>1, <1>2, <2>1, AlElegir DEF IInv
<1>3. ASSUME ~elegible, NEW cantidad \in {cantidad_entradas + 1, 0}, NEW siguiente \in {"uno", "dos"},
             Seguir(FALSE, cantidad, siguiente),
             \/ cantidad_entradas + 1 < N /\ cantidad = cantidad_entradas + 1 /\ siguiente = "uno"
             \/ cantidad_entradas + 1 = N /\ cantidad = 0 /\ siguiente = "dos"
      PROVE  IInv'
  <2>1. /\ tabla' = tabla /\ manecilla' = Avanzar(tabla, manecilla) /\ bucle' = siguiente
        /\ cantidad_entradas' = cantidad /\ esClockM' = esClockM /\ alEntrar' = alEntrar
    BY <1>3 DEF Seguir
  <2>2. /\ cantidad_entradas' \in Paginas /\ Distancia'
        /\ siguiente = "uno" <=> manecilla' # m0
    BY <1>1, <1>3, <2>1, Cuenta
  <2>3. /\ Tipos' /\ EligeLaDelReloj' /\ RespetaLasClases'
        /\ T' = T /\ m0' = m0 /\ Despejada' = Despejada
    BY <1>1, <2>1, <2>2, AlSeguir DEF Tipos
  <2>4. CASE BuscaLimpia
    <3>1. PICK S \in SUBSET Paginas : S = SinUso(T) \intersect Limpias(T)
      BY <1>1, Conjuntos
    <3>2. h \notin S /\ \A p \in Paginas : Pasada(p) => p \notin S
      BY <1>1, <1>3, <2>4, <3>1, Conjuntos DEF BuscaLimpia
    <3>3. /\ manecilla' # m0 => \A p \in Paginas : Pasada(p)' => p \notin S
          /\ manecilla' = m0 => S = {} /\ \A p \in Paginas : ~Pasada(p)'
      BY <1>1, <2>1, <3>2, SigueMirando
    <3>4. siguiente = "uno" => BuscaLimpia'
      BY <2>1, <2>2, <2>3, <2>4, <3>1, <3>3 DEF BuscaLimpia
    <3>5. siguiente = "dos" => BuscaSinUso'
      <4> SUFFICES ASSUME siguiente = "dos"
                   PROVE  BuscaSinUso'
        OBVIOUS
      <4>1. S = {} /\ \A p \in Paginas : ~Pasada(p)'
        BY <2>2, <3>3
      <4>2. tabla' = HastaAca'
        <5>1. HastaAca' = [p \in Paginas |-> T[p]]
          BY <2>3, <4>1 DEF HastaAca
        <5> QED BY <1>1, <2>1, <2>4, <5>1 DEF BuscaLimpia, Tipos
      <4> QED BY <2>3, <3>1, <4>1, <4>2 DEF BuscaSinUso, PrimeraVuelta
    <3> QED BY <1>1, <2>1, <2>2, <2>3, <3>4, <3>5 DEF IInv, Clock, ClockM
  <2>5. CASE OtraVezLimpia
    <3>1. PICK S \in SUBSET Paginas : S = Limpias(T)
      BY <1>1, Conjuntos
    <3>2. h \notin S /\ \A p \in Paginas : Pasada(p) => p \notin S
      BY <1>1, <1>3, <2>5, <3>1, Campos, Conjuntos DEF OtraVezLimpia
    <3>3. /\ manecilla' # m0 => \A p \in Paginas : Pasada(p)' => p \notin S
          /\ manecilla' = m0 => S = {} /\ \A p \in Paginas : ~Pasada(p)'
      BY <1>1, <2>1, <3>2, SigueMirando
    <3>4. siguiente = "uno" => OtraVezLimpia'
      BY <2>1, <2>2, <2>3, <2>5, <3>1, <3>3 DEF OtraVezLimpia
    <3>5. siguiente = "dos" => OtraVezCualquiera'
      BY <2>1, <2>2, <2>3, <2>5, <3>1, <3>3 DEF OtraVezLimpia, OtraVezCualquiera, SegundaVuelta
    <3> QED BY <1>1, <2>1, <2>2, <2>3, <3>4, <3>5 DEF IInv, Clock, ClockM
  <2> QED BY <1>1, <2>4, <2>5
<1>4. \/ elegible /\ Elegir
      \/ ~elegible /\ cantidad_entradas + 1 < N /\ Seguir(FALSE, cantidad_entradas + 1, "uno")
      \/ ~elegible /\ cantidad_entradas + 1 = N /\ Seguir(FALSE, 0, "dos")
  BY DEF PrimerFor, actual
<1> QED BY <1>2, <1>3, <1>4

LEMMA ConSegundoFor ==
  ASSUME IInv, SegundoFor
  PROVE  IInv'
<1> DEFINE h == manecilla
           elegible == tabla[h].presencia /\ ~tabla[h].uso /\ tabla[h].modificado
<1>1. Tipos /\ esClockM /\ bucle = "dos" /\ Distancia /\ (BuscaSinUso \/ OtraVezCualquiera)
      /\ h \in Paginas /\ m0 \in Paginas
  BY DEF IInv, Tipos, ClockM, SegundoFor
<1>2. CASE elegible /\ Elegir
  <2>1. EligeLaDelReloj' /\ RespetaLasClases'
    BY <1>1, <1>2, EnPrimera, EnSegunda DEF BuscaSinUso, OtraVezCualquiera
  <2> QED BY <1>1, <1>2, <2>1, AlElegir DEF IInv
<1>3. ASSUME ~elegible, NEW cantidad \in {cantidad_entradas + 1, 0}, NEW siguiente \in {"uno", "dos"},
             Seguir(tabla[h].presencia, cantidad, siguiente),
             \/ cantidad_entradas + 1 < N /\ cantidad = cantidad_entradas + 1 /\ siguiente = "dos"
             \/ cantidad_entradas + 1 = N /\ cantidad = 0 /\ siguiente = "uno"
      PROVE  IInv'
  <2>1. /\ tabla' = IF tabla[h].presencia THEN [tabla EXCEPT ![h].uso = FALSE] ELSE tabla
        /\ manecilla' = Avanzar(tabla, manecilla) /\ bucle' = siguiente
        /\ cantidad_entradas' = cantidad /\ esClockM' = esClockM /\ alEntrar' = alEntrar
    BY <1>3 DEF Seguir
  <2>2. /\ cantidad_entradas' \in Paginas /\ Distancia'
        /\ siguiente = "dos" <=> manecilla' # m0
    BY <1>1, <1>3, <2>1, Cuenta
  <2>3. CASE BuscaSinUso
    <3>1. SinUso(T) \intersect Limpias(T) = {} /\ PrimeraVuelta
      BY <2>3 DEF BuscaSinUso
    <3>2. tabla[h] = T[h]
      BY <1>1, <3>1, Turno, Tablas DEF Pasada, PrimeraVuelta
    <3>3. T[h].presencia => T[h].uso
      BY <1>1, <1>3, <3>1, <3>2, Conjuntos
    <3>4. /\ tabla' \in [Paginas -> Entradas]
          /\ manecilla' # m0 => PrimeraVuelta'
          /\ manecilla' = m0 => SinUso(T) = {} /\ tabla' = Despejada
                                /\ \A p \in Paginas : ~Pasada(p)'
      BY <1>1, <2>1, <3>1, <3>3, SiguePrimera
    <3>5. /\ Tipos' /\ EligeLaDelReloj' /\ RespetaLasClases'
          /\ T' = T /\ m0' = m0 /\ Despejada' = Despejada
      BY <1>1, <2>1, <2>2, <3>4, AlSeguir
    <3>6. siguiente = "dos" => BuscaSinUso'
      BY <2>2, <3>1, <3>4, <3>5 DEF BuscaSinUso
    <3>7. siguiente = "uno" => OtraVezLimpia'
      BY <2>2, <3>4, <3>5 DEF OtraVezLimpia
    <3> QED BY <1>1, <2>1, <2>2, <3>5, <3>6, <3>7 DEF IInv, Clock, ClockM
  <2>4. CASE OtraVezCualquiera
    <3>1. Limpias(T) = {} /\ SegundaVuelta
      BY <2>4 DEF OtraVezCualquiera
    <3>2. tabla = Despejada /\ tabla[h].presencia \in BOOLEAN
      BY <1>1, <3>1, Campos DEF SegundaVuelta
    <3>3. tabla' = Despejada /\ tabla' \in [Paginas -> Entradas]
      BY <1>1, <2>1, <3>2, SigueDespejada
    <3>4. h \notin Presentes(T) /\ Presentes(T) \in SUBSET Paginas
          /\ \A p \in Paginas : Pasada(p) => p \notin Presentes(T)
      BY <1>1, <1>3, <3>1, <3>2, Campos, Conjuntos DEF SegundaVuelta
    <3>5. /\ manecilla' # m0 => \A p \in Paginas : Pasada(p)' => p \notin Presentes(T)
          /\ manecilla' # m0
      BY <1>1, <2>1, <3>4, SigueMirando DEF Tipos
    <3>6. /\ Tipos' /\ EligeLaDelReloj' /\ RespetaLasClases'
          /\ T' = T /\ m0' = m0 /\ Despejada' = Despejada
      BY <1>1, <2>1, <2>2, <3>3, AlSeguir
    <3>7. \A p \in Paginas : Pasada(p)' => ~T[p].presencia
      BY <1>1, <3>5, Conjuntos
    <3>8. OtraVezCualquiera'
      BY <3>1, <3>3, <3>6, <3>7 DEF OtraVezCualquiera, SegundaVuelta
    <3> QED BY <1>1, <2>1, <2>2, <3>5, <3>6, <3>8 DEF IInv, Clock, ClockM
  <2> QED BY <1>1, <2>3, <2>4
<1>4. \/ elegible /\ Elegir
      \/ ~elegible /\ cantidad_entradas + 1 < N
         /\ Seguir(tabla[h].presencia, cantidad_entradas + 1, "dos")
      \/ ~elegible /\ cantidad_entradas + 1 = N /\ Seguir(tabla[h].presencia, 0, "uno")
  BY DEF SegundoFor, actual
<1> QED BY <1>2, <1>3, <1>4

LEMMA Inicial == Init => IInv
<1> SUFFICES ASSUME Init
             PROVE  IInv
  OBVIOUS
<1>1. T = tabla /\ m0 = manecilla
  BY DEF Init, T, m0
<1>2. tabla \in [Paginas -> Entradas] /\ \A p \in Paginas : tabla[p].uso => tabla[p].presencia
  BY DEF Init
<1>3. Tipos
  BY <1>1, <1>2, Tamano DEF Init, Tipos
<1>4. \A p \in Paginas : ~Pasada(p)
  BY <1>1, NadaPasado DEF Init, Pasada
<1>5. HastaAca = tabla
  <2>1. HastaAca = [p \in Paginas |-> T[p]]
    BY <1>4 DEF HastaAca
  <2> QED BY <1>1, <1>2, <2>1
<1>6. PrimeraVuelta
  BY <1>4, <1>5 DEF PrimeraVuelta
<1>7. BuscaLimpia
  BY <1>1, <1>4 DEF BuscaLimpia
<1>8. Distancia
  <2>1. m0 \in Int /\ N \in Nat /\ m0 < N /\ cantidad_entradas = 0 /\ manecilla = m0
    BY <1>1, NAssumption DEF Init, Paginas
  <2> QED BY <2>1 DEF Distancia
<1>9. bucle = "uno"
  BY DEF Init
<1> QED BY <1>3, <1>6, <1>7, <1>8, <1>9
        DEF IInv, Clock, ClockM, EligeLaDelReloj, RespetaLasClases

LEMMA Quieta == IInv /\ UNCHANGED vars => IInv'
<1> SUFFICES ASSUME IInv, UNCHANGED vars
             PROVE  IInv'
  OBVIOUS
<1>1. /\ esClockM' = esClockM /\ tabla' = tabla /\ manecilla' = manecilla /\ bucle' = bucle
      /\ cantidad_entradas' = cantidad_entradas /\ victima' = victima /\ alEntrar' = alEntrar
  BY DEF vars
<1>2. T' = T /\ m0' = m0 /\ Despejada' = Despejada
  BY <1>1 DEF T, m0, Despejada
<1>3. \A p \in Paginas : Pasada(p)' <=> Pasada(p)
  BY <1>1, <1>2 DEF Pasada
<1>4. HastaAca' = HastaAca
  BY <1>2, <1>3 DEF HastaAca
<1>5. /\ PrimeraVuelta' = PrimeraVuelta /\ SegundaVuelta' = SegundaVuelta
      /\ BuscaLimpia' = BuscaLimpia /\ OtraVezLimpia' = OtraVezLimpia
  BY <1>1, <1>2, <1>3, <1>4
     DEF PrimeraVuelta, SegundaVuelta, BuscaLimpia, OtraVezLimpia
<1>6. BuscaSinUso' = BuscaSinUso /\ OtraVezCualquiera' = OtraVezCualquiera
  BY <1>2, <1>5 DEF BuscaSinUso, OtraVezCualquiera
<1>7. Tipos' /\ Clock' /\ ClockM'
  BY <1>1, <1>2, <1>5, <1>6 DEF IInv, Tipos, Clock, ClockM, Distancia
<1>8. EligeLaDelReloj' /\ RespetaLasClases'
  BY <1>1 DEF IInv, EligeLaDelReloj, RespetaLasClases
<1> QED BY <1>7, <1>8 DEF IInv

\* The hand, the turn and the table between two iterations of either clock are
\* those the loops of estructuras_umc.c:276-418 leave after that many entries.
THEOREM Invariante == Spec => []IInv
<1>1. Init => IInv
  BY Inicial
<1>2. IInv /\ [Next]_vars => IInv'
  BY ConClock, ConPrimerFor, ConSegundoFor, Quieta DEF Next
<1> QED BY <1>1, <1>2, PTL DEF Spec

\* The loops of both clocks choose the victim, and leave the bits of use and
\* the hand, that Reloj says: what the model of the UMC takes as one step is
\* what elegir_victima_clock and elegir_victima_clock_m do, for every table.
THEOREM BucleEsReloj == Spec => []EligeLaDelReloj
<1>1. IInv => EligeLaDelReloj
  BY DEF IInv
<1> QED BY <1>1, Invariante, PTL

\* A page that was used leaves memory only when every page in memory was, and
\* CLOCK-M takes a modified one only when its class of use has no clean page.
THEOREM VictimaPorClases == Spec => []RespetaLasClases
<1>1. IInv => RespetaLasClases
  BY DEF IInv
<1> QED BY <1>1, Invariante, PTL

=============================================================================
