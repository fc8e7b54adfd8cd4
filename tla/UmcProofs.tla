------------------------------ MODULE UmcProofs ------------------------------
(***************************************************************************)
(* Proofs about Umc for every number of CPUs, frames, pages and entries of *)
(* the TLB.                                                                *)
(***************************************************************************)
EXTENDS Umc, FiniteSetTheorems, SequenceTheorems,
        WellFoundedInduction, TLAPS

-----------------------------------------------------------------------------
(* The inductive invariant *)

EntradaTipo == [nro_marco : Marcos \union {-1}, presencia : BOOLEAN,
                modificado : BOOLEAN, uso : BOOLEAN]
Pasos == {"espera", "tabla", "marco", "primerMarco", "victima", "leer",
          "instalar", "pisar", "sacarTlb", "cargarTlb", "acceder"}
HiloTipo == [paso : Pasos, op : {"NINGUNO", "LECTURA_PAGINA", "ESCRITURA_PAGINA"},
             pag : Nat, dato : Datos \union {SinDato}, marco : Marcos \union {-1},
             victima : Nat \union {-1}, leido : Datos \union {SinDato}]
FinalizadorTipo == [paso : {"espera", "quitar", "mirar", "liberar"},
                    pid : Pids \union {SinProceso}, pag : Nat,
                    marco : Marcos \union {-1}]

TiposDeTablas ==
  /\ tabla = [p \in Pids |-> tabla[p]]
  /\ \A p \in Pids : tabla[p] \in [Pags(p) -> EntradaTipo]
  /\ manecilla = [p \in Pids |-> manecilla[p]]
  /\ \A p \in Pids : manecilla[p] \in Pags(p)
  /\ tablasDePagina \subseteq Pids

TiposDeMarcos ==
  /\ bitmap_frames \subseteq Marcos
  /\ memoria_principal \in [Marcos -> Datos]
  /\ memoriaposta \in Cpus \union {Nadie}

TiposDeSwap ==
  /\ enSwap = [p \in Pids |-> enSwap[p]]
  /\ \A p \in Pids : enSwap[p] \in [Pags(p) -> Datos]
  /\ procesosEnSwap \subseteq Pids

TiposDeHilos ==
  /\ umc \in {"viva", "muerta", "indefinida"}
  /\ hilos \in [Cpus -> HiloTipo]
  /\ proceso_activo \in [Cpus -> Pids \union {SinProceso}]
  /\ finalizador \in FinalizadorTipo
  /\ programa \in [Pids -> {"nuevo", "admitido", "abortado", "final"}]
  /\ corre \in [Cpus -> Pids \union {SinProceso}]
  /\ conectada \subseteq Cpus
  /\ respuesta \in [Cpus -> Datos \union {SinDato, "OK", "NO_OK"}]
  /\ \A c \in Cpus : hilos[c].op = "ESCRITURA_PAGINA" => hilos[c].dato \in Datos
  /\ \A c \in Cpus : hilos[c].paso \in {"instalar", "pisar"} => hilos[c].leido \in Datos

TiposDeTlb ==
  /\ tlb \in Seq([pid : Pids, nroPagina : Nat])
  /\ \A i \in 1 .. Len(tlb) : tlb[i].nroPagina \in Pags(tlb[i].pid)

Tipos == TiposDeTablas /\ TiposDeMarcos /\ TiposDeSwap /\ TiposDeHilos /\ TiposDeTlb

\* The kernel's thread, and which programs the UMC and the swap keep.
Programas ==
  /\ procesosEnSwap = {p \in Pids : programa[p] \in {"admitido", "abortado"}}
  /\ \A p \in tablasDePagina :
       \/ programa[p] \in {"admitido", "abortado"}
       \/ finalizador.paso = "quitar" /\ finalizador.pid = p
  /\ IF finalizador.paso = "espera" THEN finalizador.pid = SinProceso
     ELSE /\ finalizador.pid \in Pids
          /\ programa[finalizador.pid] = "final"
          /\ finalizador.pag \in Pags(finalizador.pid)
  /\ finalizador.paso = "quitar" => finalizador.pag = 0

\* A process is in one CPU, and in the request of one thread, also when that
\* CPU died.
UnHiloPorProceso ==
  /\ \A c \in Cpus : corre[c] # SinProceso =>
       /\ corre[c] = Activo(c) /\ corre[c] \in Pids
       /\ programa[corre[c]] = "admitido" /\ c \in conectada
  /\ \A c, k \in Cpus : corre[c] # SinProceso /\ corre[c] = corre[k] => c = k
  /\ \A c \in Cpus : ~EnEspera(c) =>
       /\ Activo(c) \in Pids /\ Pagina(c) \in Pags(Activo(c))
       /\ \/ corre[c] = Activo(c)
          \/ c \notin conectada /\ programa[Activo(c)] \in {"abortado", "final"}
  /\ \A c, k \in Cpus : ~EnEspera(c) /\ ~EnEspera(k) /\ Activo(c) = Activo(k) => c = k

Presencia ==
  \A p \in Pids : \A g \in Pags(p) : tabla[p][g].presencia <=> tabla[p][g].nro_marco # -1

\* What a thread knows of the page table between two of its steps.
Falta(c) == ~Entrada(c).presencia
HayLugar(c) == Cardinality(Presentes(tabla[Activo(c)])) < MARCO_X_PROC
Reserva(c) == hilos[c].paso \in {"leer", "instalar"} /\ hilos[c].victima = -1
TieneOLiberada(p, g) == tabla[p][g].presencia \/ Liberada(p, g)

PasoCoherente(c) ==
  /\ hilos[c].paso \in {"tabla", "marco", "primerMarco", "victima"} => hilos[c].victima = -1
  /\ hilos[c].paso = "instalar" => hilos[c].victima = -1
  /\ hilos[c].paso = "pisar" => hilos[c].victima # -1
  /\ hilos[c].paso \in {"marco", "primerMarco", "victima", "leer", "instalar", "pisar"}
       => Falta(c)
  /\ hilos[c].paso \in {"marco", "primerMarco"} \/ Reserva(c) => HayLugar(c)
  /\ hilos[c].paso = "primerMarco" => Presentes(tabla[Activo(c)]) = {}
  /\ hilos[c].paso \in {"marco", "victima"}
       => Presentes(tabla[Activo(c)]) # {} \/ Liberada(Activo(c), 0)
  /\ hilos[c].paso \in {"leer", "pisar"} /\ hilos[c].victima # -1
       => /\ hilos[c].victima \in Pags(Activo(c)) \ {Pagina(c)}
          /\ TieneOLiberada(Activo(c), hilos[c].victima)
          /\ ~tabla[Activo(c)][hilos[c].victima].uso
  /\ hilos[c].paso \in {"sacarTlb", "cargarTlb", "acceder"}
       => TieneOLiberada(Activo(c), Pagina(c))
  /\ hilos[c].paso \in {"sacarTlb", "cargarTlb"} => ENTRADAS_TLB > 0
PasosCoherentes == \A c \in Cpus : PasoCoherente(c)

Uso == \A p \in Pids : \A g \in Pags(p) : tabla[p][g].uso => tabla[p][g].presencia

Reservas == \A c \in Cpus : /\ memoriaposta = c <=> Reserva(c)
                            /\ Reserva(c) => hilos[c].marco \in Marcos \ bitmap_frames

EsperaEnTlb(c) == hilos[c].paso \notin {"espera", "acceder"}
Tlb ==
  /\ Len(tlb) <= ENTRADAS_TLB
  /\ \A i, j \in 1 .. Len(tlb) : tlb[i] = tlb[j] => i = j
  /\ \A i \in 1 .. Len(tlb) :
       /\ programa[tlb[i].pid] # "nuevo"
       /\ \/ tlb[i].pid \notin procesosEnSwap
          \/ tabla[tlb[i].pid][tlb[i].nroPagina].presencia
          \/ \E c \in Cpus : /\ hilos[c].paso = "sacarTlb" /\ Activo(c) = tlb[i].pid
                             /\ hilos[c].victima = tlb[i].nroPagina
       /\ \A c \in Cpus : EsperaEnTlb(c) => tlb[i] # EnTlb(Activo(c), Pagina(c))

IInv == /\ Tipos /\ Programas /\ UnHiloPorProceso /\ Presencia /\ PasosCoherentes /\ Uso
        /\ Reservas /\ LimiteDeMarcos /\ Tlb

\* Without failures: which frames are taken.
SinFallas == Fallas = {}
Vivas == conectada = Cpus
MarcosDistintos ==
  \A p, q \in Pids : \A g \in Pags(p), h \in Pags(q) :
    tabla[p][g].presencia /\ tabla[q][h].presencia
      /\ tabla[p][g].nro_marco = tabla[q][h].nro_marco => p = q /\ g = h
BitmapJusto ==
  \A m \in Marcos : m \in bitmap_frames <=>
    \E p \in Pids : \E g \in Pags(p) : tabla[p][g].presencia /\ tabla[p][g].nro_marco = m
MarcoMirado ==
  finalizador.paso = "liberar" =>
    finalizador.marco = tabla[finalizador.pid][finalizador.pag].nro_marco
JInv == Vivas /\ MarcosDistintos /\ BitmapJusto /\ MarcoMirado

-----------------------------------------------------------------------------
(* The operators: minima, Reloj, sequences *)

\* A nonempty set of naturals has a least element (their initial segments are
\* finite sets, and inclusion is well-founded on those).
LEMMA MinExiste ==
  ASSUME NEW S \in SUBSET Nat, S # {}
  PROVE  \E x \in S : \A y \in S : x <= y
<1> DEFINE T == {0 .. x : x \in S}
<1>1. T \subseteq FiniteSubsetsOf(Nat)
  <2>1. \A x \in S : IsFiniteSet(0 .. x) /\ 0 .. x \in SUBSET Nat
    <3> TAKE x \in S
    <3>1. IsFiniteSet(0 .. x)
      BY FS_Interval
    <3> QED BY <3>1
  <2> QED BY <2>1, Zenon DEF FiniteSubsetsOf
<1>2. T # {}
  OBVIOUS
<1>3. PICK U \in T : \A V \in T : ~(<<V, U>> \in StrictSubsetOrdering(Nat))
  BY <1>1, <1>2, FS_StrictSubsetOrderingWellFounded, WFMin, Zenon
<1>4. PICK x \in S : U = 0 .. x
  BY <1>3
<1>5. ASSUME NEW y \in S, y < x
      PROVE  FALSE
  <2>1. 0 .. y \in T /\ <<0 .. y, U>> \notin StrictSubsetOrdering(Nat)
    BY <1>3
  <2>2. /\ (0 .. y) \subseteq (0 .. x) /\ 0 .. y # 0 .. x
    <3>1. x \in 0 .. x /\ x \notin 0 .. y
      BY <1>5
    <3>2. (0 .. y) \subseteq (0 .. x)
      BY <1>5
    <3> QED BY <3>1, <3>2, Zenon
  <2>3. 0 .. y \in SUBSET Nat /\ 0 .. x \in SUBSET Nat
    OBVIOUS
  <2>4. <<0 .. y, 0 .. x>> \in StrictSubsetOrdering(Nat)
    BY <2>2, <2>3 DEF StrictSubsetOrdering
  <2> QED BY <1>4, <2>1, <2>4
<1> QED BY <1>5

LEMMA MinEn ==
  ASSUME NEW S \in SUBSET Nat, S # {}
  PROVE  Min(S) \in S
BY MinExiste DEF Min

LEMMA PrimeraEn ==
  ASSUME NEW S \in SUBSET Nat, S # {}, NEW m \in Nat
  PROVE  Primera(S, m) \in S
<1> DEFINE D == {p \in S : p >= m}
<1>1. \E p \in S : \A q \in S \ {p} : Antes(m, p, q)
  <2>1. CASE D # {}
    <3>1. PICK p \in D : \A q \in D : p <= q
      BY <2>1, MinExiste
    <3> QED BY <3>1 DEF Antes
  <2>2. CASE D = {}
    <3>1. PICK p \in S : \A q \in S : p <= q
      BY MinExiste
    <3> QED BY <2>2, <3>1 DEF Antes
  <2> QED BY <2>1, <2>2
<1> QED BY <1>1 DEF Primera

\* The two clocks choose a present page, and leave everything but bits of use
\* as it was; the one chosen has none.
LEMMA VictimaEn ==
  ASSUME NEW n \in Nat, NEW t \in [0 .. n - 1 -> EntradaTipo], NEW m \in Nat,
         NEW e \in BOOLEAN, Presentes(t) # {}
  PROVE  /\ Victima(t, m, e) \in Presentes(t)
         /\ ~TrasElegir(t, m, e)[Victima(t, m, e)].uso
<1> DEFINE C == IF SinUso(t) # {} THEN SinUso(t) ELSE Presentes(t)
           L == C \intersect Limpias(t)
<1>1. /\ C # {} /\ C \subseteq Presentes(t) /\ Presentes(t) \in SUBSET Nat
      /\ C \in SUBSET Nat /\ L \in SUBSET Nat /\ L \subseteq C
  BY DEF SinUso, Presentes
<1>2. VictimaClock(t, m) \in C
  BY <1>1, PrimeraEn DEF VictimaClock
<1>3. VictimaClockM(t, m) \in C
  <2>1. Primera(IF L # {} THEN L ELSE C, m) \in IF L # {} THEN L ELSE C
    BY <1>1, PrimeraEn
  <2> QED BY <1>1, <2>1 DEF VictimaClockM
<1>4. Victima(t, m, e) \in C
  BY <1>2, <1>3 DEF Victima
<1>5. Victima(t, m, e) \in 0 .. n - 1
  BY <1>1, <1>4 DEF Presentes
<1>6. TrasElegir(t, m, e)[Victima(t, m, e)].uso =
        (t[Victima(t, m, e)].uso /\ Victima(t, m, e) \notin Pasadas(t, m, e))
  BY <1>5 DEF TrasElegir, EntradaTipo
<1>7. CASE SinUso(t) # {}
  BY <1>4, <1>6, <1>7 DEF SinUso
<1>8. CASE SinUso(t) = {}
  BY <1>1, <1>4, <1>6, <1>8 DEF Pasadas
<1> QED BY <1>1, <1>4, <1>7, <1>8

LEMMA TrasElegirEs ==
  ASSUME NEW n \in Nat, NEW t \in [0 .. n - 1 -> EntradaTipo], NEW m, NEW e
  PROVE  /\ TrasElegir(t, m, e) \in [0 .. n - 1 -> EntradaTipo]
         /\ \A g \in 0 .. n - 1 :
              /\ TrasElegir(t, m, e)[g].presencia = t[g].presencia
              /\ TrasElegir(t, m, e)[g].nro_marco = t[g].nro_marco
              /\ TrasElegir(t, m, e)[g].modificado = t[g].modificado
              /\ TrasElegir(t, m, e)[g].uso => t[g].uso
<1> DEFINE P == Pasadas(t, m, e)
           r == TrasElegir(t, m, e)
<1>1. r = [g \in 0 .. n - 1 |-> [t[g] EXCEPT !.uso = @ /\ g \notin P]]
  BY DEF TrasElegir
<1> HIDE DEF P, r
<1>2. ASSUME NEW g \in 0 .. n - 1
      PROVE  /\ r[g] \in EntradaTipo
             /\ r[g].presencia = t[g].presencia /\ r[g].nro_marco = t[g].nro_marco
             /\ r[g].modificado = t[g].modificado
             /\ r[g].uso => t[g].uso
  BY <1>1 DEF EntradaTipo
<1>3. r \in [0 .. n - 1 -> EntradaTipo]
  BY <1>1, <1>2
<1> QED BY <1>2, <1>3 DEF r

LEMMA ManecillaEn ==
  ASSUME NEW n \in Nat \ {0}, NEW t, DOMAIN t = 0 .. n - 1, NEW v \in 0 .. n - 1
  PROVE  Avanzar(t, v) \in 0 .. n - 1
<1>1. Cardinality(DOMAIN t) = n
  BY FS_Interval
<1> QED BY <1>1 DEF Avanzar

LEMMA RemoveAtEs ==
  ASSUME NEW S, NEW s \in Seq(S), NEW i \in 1 .. Len(s)
  PROVE  /\ RemoveAt(s, i) \in Seq(S)
         /\ Len(RemoveAt(s, i)) = Len(s) - 1
         /\ \A j \in 1 .. Len(s) - 1 :
              RemoveAt(s, i)[j] = IF j < i THEN s[j] ELSE s[j + 1]
<1> DEFINE a == SubSeq(s, 1, i - 1)
           b == SubSeq(s, i + 1, Len(s))
<1>1. a \in Seq(S) /\ Len(a) = i - 1 /\ \A j \in 1 .. i - 1 : a[j] = s[j]
  OBVIOUS
<1>2. b \in Seq(S) /\ Len(b) = Len(s) - i /\ \A j \in 1 .. Len(s) - i : b[j] = s[i + j]
  OBVIOUS
<1>3. RemoveAt(s, i) = a \o b
  BY DEF RemoveAt
<1>4. /\ a \o b \in Seq(S)
      /\ Len(a \o b) = Len(a) + Len(b)
      /\ \A j \in 1 .. Len(a) + Len(b) :
           (a \o b)[j] = IF j <= Len(a) THEN a[j] ELSE b[j - Len(a)]
  BY <1>1, <1>2, ConcatProperties, Zenon
<1> HIDE DEF a, b
<1>5. Len(s) \in Nat /\ i \in 1 .. Len(s)
  OBVIOUS
<1>6. ASSUME NEW j \in 1 .. Len(s) - 1
      PROVE  (a \o b)[j] = IF j < i THEN s[j] ELSE s[j + 1]
  <2>1. CASE j < i
    BY <1>1, <1>2, <1>4, <1>5, <2>1
  <2>2. CASE ~(j < i)
    <3>1. (a \o b)[j] = b[j - (i - 1)]
      BY <1>1, <1>2, <1>4, <1>5, <2>2
    <3>2. j - (i - 1) \in 1 .. Len(s) - i
      BY <1>5, <2>2
    <3>3. b[j - (i - 1)] = s[i + (j - (i - 1))]
      BY <1>2, <3>2
    <3>4. i + (j - (i - 1)) = j + 1
      BY <1>5
    <3> QED BY <2>2, <3>1, <3>3, <3>4
  <2> QED BY <2>1, <2>2
<1> QED BY <1>1, <1>2, <1>3, <1>4, <1>5, <1>6

\* The first match goes, when there is one.
LEMMA RemoveFirstEs ==
  ASSUME NEW S, NEW s \in Seq(S), NEW e
  PROVE  \/ RemoveFirst(s, e) = s /\ ~\E i \in 1 .. Len(s) : s[i] = e
         \/ \E i \in 1 .. Len(s) : s[i] = e /\ RemoveFirst(s, e) = RemoveAt(s, i)
<1> DEFINE I == {i \in 1 .. Len(s) : s[i] = e}
<1>1. CASE I = {}
  BY <1>1 DEF RemoveFirst
<1>2. CASE I # {}
  <2>1. I \in SUBSET Nat
    OBVIOUS
  <2>2. Min(I) \in I
    BY <1>2, <2>1, MinEn
  <2>3. RemoveFirst(s, e) = RemoveAt(s, Min(I))
    BY <1>2 DEF RemoveFirst, SelectInSeq
  <2> QED BY <2>2, <2>3
<1> QED BY <1>1, <1>2

LEMMA QuitarPrimeraEs ==
  ASSUME NEW S, tlb \in Seq(S), NEW p
  PROVE  \/ QuitarPrimera(p) = tlb
         \/ \E i \in 1 .. Len(tlb) : QuitarPrimera(p) = RemoveAt(tlb, i)
<1> DEFINE I == {i \in 1 .. Len(tlb) : tlb[i].pid = p}
<1>1. CASE I = {}
  BY <1>1 DEF QuitarPrimera, RemoveFirstMatch
<1>2. CASE I # {}
  <2>1. I \in SUBSET Nat
    OBVIOUS
  <2>2. Min(I) \in I
    BY <1>2, <2>1, MinEn
  <2>3. QuitarPrimera(p) = RemoveAt(tlb, Min(I))
    BY <1>2 DEF QuitarPrimera, RemoveFirstMatch, SelectInSeq
  <2> QED BY <2>2, <2>3
<1> QED BY <1>1, <1>2

SinRepetir(s) == \A i, j \in 1 .. Len(s) : s[i] = s[j] => i = j
DeLaTlb(s) == /\ s \in Seq([pid : Pids, nroPagina : Nat])
              /\ Len(s) <= Len(tlb) /\ SinRepetir(s)
              /\ \A j \in 1 .. Len(s) : \E i \in 1 .. Len(tlb) : s[j] = tlb[i]

\* What is left after taking an entry out: without repetitions, the entry is gone.
LEMMA QuitarDeTlb ==
  ASSUME TiposDeTlb, SinRepetir(tlb), NEW i \in 1 .. Len(tlb)
  PROVE  /\ DeLaTlb(RemoveAt(tlb, i))
         /\ Len(RemoveAt(tlb, i)) = Len(tlb) - 1
         /\ \A j \in 1 .. Len(RemoveAt(tlb, i)) : RemoveAt(tlb, i)[j] # tlb[i]
<1> DEFINE r == RemoveAt(tlb, i)
           k(j) == IF j < i THEN j ELSE j + 1
<1>1. /\ r \in Seq([pid : Pids, nroPagina : Nat]) /\ Len(r) = Len(tlb) - 1
      /\ \A j \in 1 .. Len(tlb) - 1 : r[j] = IF j < i THEN tlb[j] ELSE tlb[j + 1]
  BY RemoveAtEs DEF TiposDeTlb
<1>2. Len(tlb) \in Nat
  BY DEF TiposDeTlb
<1> HIDE DEF r
<1>3. \A j \in 1 .. Len(r) : k(j) \in 1 .. Len(tlb) /\ k(j) # i /\ r[j] = tlb[k(j)]
  BY <1>1, <1>2
<1>4. SinRepetir(r)
  <2>1. SUFFICES ASSUME NEW j \in 1 .. Len(r), NEW h \in 1 .. Len(r), r[j] = r[h]
                 PROVE  j = h
    BY DEF SinRepetir
  <2>2. k(j) = k(h)
    BY <1>3, <2>1 DEF SinRepetir
  <2> QED BY <2>2, <1>1, <1>2
<1>5. \A j \in 1 .. Len(r) : r[j] # tlb[i]
  BY <1>3 DEF SinRepetir
<1>6. Len(r) <= Len(tlb)
  BY <1>1, <1>2
<1> QED BY <1>1, <1>3, <1>4, <1>5, <1>6 DEF DeLaTlb, r

-----------------------------------------------------------------------------
(* What holds of every step *)

LEMMA PagsEs ==
  ASSUME NEW p \in Pids
  PROVE  /\ CantPaginas[p] \in Nat \ {0} /\ Pags(p) = 0 .. CantPaginas[p] - 1
         /\ Pags(p) \in SUBSET Nat /\ 0 \in Pags(p) /\ IsFiniteSet(Pags(p))
<1>1. CantPaginas[p] \in Nat \ {0}
  BY PaginasAssumption
<1>2. IsFiniteSet(0 .. CantPaginas[p] - 1)
  BY <1>1, FS_Interval
<1> QED BY <1>1, <1>2 DEF Pags

LEMMA PresentesFinitas ==
  ASSUME TiposDeTablas, NEW p \in Pids
  PROVE  /\ Presentes(tabla[p]) = {g \in Pags(p) : tabla[p][g].presencia}
         /\ IsFiniteSet(Presentes(tabla[p]))
         /\ Cardinality(Presentes(tabla[p])) \in Nat
<1>1. Presentes(tabla[p]) = {g \in Pags(p) : tabla[p][g].presencia}
  BY DEF TiposDeTablas, Presentes
<1>2. IsFiniteSet(Presentes(tabla[p]))
  BY <1>1, PagsEs, FS_Subset
<1> QED BY <1>1, <1>2, FS_CardinalityType

\* A step that changes at most bits of use and of modification.
MismaPresencia ==
  \A p \in Pids : \A g \in Pags(p) :
    /\ tabla'[p][g].presencia = tabla[p][g].presencia
    /\ tabla'[p][g].nro_marco = tabla[p][g].nro_marco

\* What the steps do to the frames.  All but three leave them as they were.
MarcosQuietos == MismaPresencia /\ bitmap_frames' = bitmap_frames
CambiaSolo(p, G) == /\ \A h \in Pags(p) \ G : tabla'[p][h] = tabla[p][h]
                    /\ \A q \in Pids \ {p} : tabla'[q] = tabla[q]
Ocupa(p, g, m) == /\ ~tabla[p][g].presencia /\ m \in Marcos
                  /\ tabla'[p][g].presencia /\ tabla'[p][g].nro_marco = m
SeInstala(c) ==
  /\ ~EnEspera(c) /\ Ocupa(Activo(c), Pagina(c), hilos[c].marco)
  /\ hilos[c].marco \notin bitmap_frames
  /\ CambiaSolo(Activo(c), {Pagina(c)})
  /\ bitmap_frames' = bitmap_frames \union {hilos[c].marco}
  /\ finalizador' = finalizador
SePisa(c) ==
  LET p == Activo(c)
      v == hilos[c].victima
  IN  /\ ~EnEspera(c) /\ v \in Pags(p) \ {Pagina(c)}
      /\ tabla[p][v].presencia /\ ~tabla'[p][v].presencia
      /\ Ocupa(p, Pagina(c), tabla[p][v].nro_marco)
      /\ CambiaSolo(p, {Pagina(c), v})
      /\ bitmap_frames' = bitmap_frames /\ finalizador' = finalizador
SeDevuelve ==
  LET p == finalizador.pid
      g == finalizador.pag
  IN  /\ p \in Pids /\ g \in Pags(p) /\ programa[p] = "final"
      /\ ~tabla'[p][g].presencia /\ CambiaSolo(p, {g})
      /\ bitmap_frames' = bitmap_frames \ {finalizador.marco}
      /\ finalizador.paso = "liberar" /\ finalizador'.paso # "liberar"

LEMMA PresentesIguales ==
  ASSUME TiposDeTablas, TiposDeTablas', NEW p \in Pids,
         \A g \in Pags(p) : tabla'[p][g].presencia = tabla[p][g].presencia
  PROVE  Presentes(tabla'[p]) = Presentes(tabla[p])
BY DEF TiposDeTablas, Presentes

LEMMA MismaTabla ==
  ASSUME TiposDeTablas, TiposDeTablas', MismaPresencia, Presencia, LimiteDeMarcos
  PROVE  Presencia' /\ LimiteDeMarcos'
<1>1. \A p \in Pids : Presentes(tabla'[p]) = Presentes(tabla[p])
  BY PresentesIguales DEF MismaPresencia
<1> QED BY <1>1 DEF MismaPresencia, Presencia, LimiteDeMarcos

\* A thread keeps what it knows while the others leave its process alone.
LEMMA PasoEstable ==
  ASSUME Tipos, TiposDeTablas', UnHiloPorProceso, NEW c \in Cpus, PasoCoherente(c),
         hilos'[c] = hilos[c], proceso_activo'[c] = proceso_activo[c],
         \A p \in Pids : \A g \in Pags(p) : Liberada(p, g) => Liberada(p, g)',
         ~EnEspera(c) => \A g \in Pags(Activo(c)) :
           /\ tabla'[Activo(c)][g].presencia = tabla[Activo(c)][g].presencia
           /\ tabla'[Activo(c)][g].uso => tabla[Activo(c)][g].uso
  PROVE  PasoCoherente(c)'
<1>1. CASE EnEspera(c)
  BY <1>1 DEF EnEspera, PasoCoherente, Reserva
<1>2. CASE ~EnEspera(c)
  <2>1. /\ Activo(c) \in Pids /\ Pagina(c) \in Pags(Activo(c)) /\ 0 \in Pags(Activo(c))
        /\ Activo(c)' = Activo(c) /\ Pagina(c)' = Pagina(c)
    BY <1>2, PagsEs DEF UnHiloPorProceso, Activo, Pagina
  <2>2. Presentes(tabla'[Activo(c)]) = Presentes(tabla[Activo(c)])
    BY <1>2, <2>1, PresentesIguales DEF Tipos
  <2>3. Falta(c)' = Falta(c) /\ HayLugar(c)' = HayLugar(c) /\ Reserva(c)' = Reserva(c)
    BY <1>2, <2>1, <2>2 DEF Falta, HayLugar, Reserva, Entrada
  <2>4. \A g \in Pags(Activo(c)) :
          TieneOLiberada(Activo(c), g) => TieneOLiberada(Activo(c), g)'
    BY <1>2, <2>1 DEF TieneOLiberada
  <2>5. TieneOLiberada(Activo(c), Pagina(c)) => TieneOLiberada(Activo(c), Pagina(c))'
    BY <2>1, <2>4
  <2>6. Liberada(Activo(c), 0) => Liberada(Activo(c), 0)'
    BY <2>1
  <2>7. ASSUME NEW v \in Pags(Activo(c)), ~tabla[Activo(c)][v].uso
        PROVE  ~tabla'[Activo(c)][v].uso
    BY <1>2, <2>7
  <2>8. ASSUME hilos[c].victima \in Pags(Activo(c)),
               TieneOLiberada(Activo(c), hilos[c].victima)
        PROVE  TieneOLiberada(Activo(c), hilos[c].victima)'
    BY <2>1, <2>4, <2>8
  <2> QED BY <2>1, <2>2, <2>3, <2>5, <2>6, <2>7, <2>8 DEF PasoCoherente
<1> QED BY <1>1, <1>2

LEMMA EntradaDeTlb ==
  ASSUME TiposDeTlb, NEW i \in 1 .. Len(tlb)
  PROVE  /\ tlb[i] \in [pid : Pids, nroPagina : Nat]
         /\ tlb[i].pid \in Pids /\ tlb[i].nroPagina \in Pags(tlb[i].pid)
<1>1. tlb[i] \in [pid : Pids, nroPagina : Nat]
  BY ElementOfSeq DEF TiposDeTlb
<1> QED BY <1>1 DEF TiposDeTlb

\* A new entry at the end.
LEMMA AgregarSinRepetir ==
  ASSUME NEW S, NEW r \in Seq(S), NEW e \in S, SinRepetir(r),
         \A j \in 1 .. Len(r) : r[j] # e
  PROVE  SinRepetir(Append(r, e))
<1> DEFINE a == Append(r, e)
<1>1. /\ Len(a) = Len(r) + 1 /\ Len(r) \in Nat
      /\ \A j \in 1 .. Len(r) : a[j] = r[j]
      /\ a[Len(r) + 1] = e
  BY AppendProperties
<1> HIDE DEF a
<1>2. ASSUME NEW i \in 1 .. Len(a), NEW j \in 1 .. Len(a), a[i] = a[j]
      PROVE  i = j
  <2>1. /\ i \in 1 .. Len(r) \/ i = Len(r) + 1
        /\ j \in 1 .. Len(r) \/ j = Len(r) + 1
    BY <1>1
  <2>2. CASE i \in 1 .. Len(r) /\ j \in 1 .. Len(r)
    BY <1>1, <1>2, <2>2 DEF SinRepetir
  <2>3. CASE i \in 1 .. Len(r) /\ j = Len(r) + 1
    BY <1>1, <1>2, <2>3
  <2>4. CASE i = Len(r) + 1 /\ j \in 1 .. Len(r)
    BY <1>1, <1>2, <2>4
  <2> QED BY <2>1, <2>2, <2>3, <2>4
<1> QED BY <1>2 DEF SinRepetir, a

\* A hit moves the entry to the end.
LEMMA AlFinal ==
  ASSUME TiposDeTlb, SinRepetir(tlb), NEW i \in 1 .. Len(tlb)
  PROVE  DeLaTlb(Append(RemoveAt(tlb, i), tlb[i]))
<1> DEFINE r == RemoveAt(tlb, i)
           S == [pid : Pids, nroPagina : Nat]
<1>1. /\ DeLaTlb(r) /\ Len(r) = Len(tlb) - 1 /\ \A j \in 1 .. Len(r) : r[j] # tlb[i]
  BY QuitarDeTlb
<1>2. tlb[i] \in S /\ Len(tlb) \in Nat
  <2>1. Len(tlb) \in Nat
    BY DEF TiposDeTlb
  <2> QED BY <2>1, EntradaDeTlb
<1> HIDE DEF r
<1>3. /\ Append(r, tlb[i]) \in Seq(S) /\ Len(r) \in Nat
      /\ Len(Append(r, tlb[i])) = Len(r) + 1
      /\ \A j \in 1 .. Len(r) : Append(r, tlb[i])[j] = r[j]
      /\ Append(r, tlb[i])[Len(r) + 1] = tlb[i]
  BY <1>1, <1>2, AppendProperties DEF DeLaTlb
<1>4. SinRepetir(Append(r, tlb[i]))
  BY <1>1, <1>2, <1>3, AgregarSinRepetir DEF DeLaTlb
<1>5. Len(Append(r, tlb[i])) <= Len(tlb)
  BY <1>1, <1>2, <1>3
<1>6. \A j \in 1 .. Len(Append(r, tlb[i])) : \E k \in 1 .. Len(tlb) : Append(r, tlb[i])[j] = tlb[k]
  BY <1>1, <1>3 DEF DeLaTlb
<1> QED BY <1>3, <1>4, <1>5, <1>6 DEF DeLaTlb, r

LEMMA LiberadaQuieta ==
  ASSUME programa' = programa, finalizador' = finalizador
  PROVE  \A p \in Pids : \A g \in Pags(p) : Liberada(p, g) => Liberada(p, g)'
BY DEF Liberada

\* The steps that leave the page tables alone.
LEMMA TablaQuieta ==
  ASSUME IInv, tabla' = tabla, manecilla' = manecilla, tablasDePagina' \subseteq Pids
  PROVE  TiposDeTablas' /\ Presencia' /\ Uso' /\ LimiteDeMarcos'
BY DEF IInv, Tipos, TiposDeTablas, Presencia, Uso, LimiteDeMarcos

\* The entries that are left in the TLB stay good.
LEMMA TlbEstable ==
  ASSUME IInv, DeLaTlb(tlb'), procesosEnSwap' \subseteq procesosEnSwap,
         \A p \in Pids : programa'[p] = "nuevo" => programa[p] = "nuevo",
         \A i \in 1 .. Len(tlb') :
           \/ tlb'[i].pid \notin procesosEnSwap
           \/ tabla[tlb'[i].pid][tlb'[i].nroPagina].presencia =>
                tabla'[tlb'[i].pid][tlb'[i].nroPagina].presencia
           \/ \E c \in Cpus : /\ hilos'[c].paso = "sacarTlb" /\ Activo(c)' = tlb'[i].pid
                              /\ hilos'[c].victima = tlb'[i].nroPagina,
         \A c \in Cpus : /\ hilos[c].paso = "sacarTlb" =>
                              \/ hilos'[c] = hilos[c]
                              \/ \A i \in 1 .. Len(tlb') :
                                   tlb'[i] # EnTlb(Activo(c), hilos[c].victima)
                         /\ ~EnEspera(c) => proceso_activo'[c] = proceso_activo[c]
                         /\ EsperaEnTlb(c)' =>
                              \/ EsperaEnTlb(c) /\ Pagina(c)' = Pagina(c)
                              \/ \A i \in 1 .. Len(tlb) : tlb[i] # EnTlb(Activo(c), Pagina(c))'
  PROVE  Tlb' /\ TiposDeTlb'
<1>1. /\ tlb' \in Seq([pid : Pids, nroPagina : Nat])
      /\ Len(tlb') \in Nat /\ Len(tlb') <= Len(tlb) /\ Len(tlb) \in Nat /\ Len(tlb) <= ENTRADAS_TLB
  BY DEF IInv, Tipos, TiposDeTlb, Tlb, DeLaTlb
<1>2. Len(tlb') <= ENTRADAS_TLB
  BY <1>1, TlbAssumption
<1>3. SinRepetir(tlb)'
  BY DEF DeLaTlb, SinRepetir
<1>4. ASSUME NEW j \in 1 .. Len(tlb')
      PROVE  /\ tlb'[j].nroPagina \in Pags(tlb'[j].pid)
             /\ programa'[tlb'[j].pid] # "nuevo"
             /\ \/ tlb'[j].pid \notin procesosEnSwap'
                \/ tabla'[tlb'[j].pid][tlb'[j].nroPagina].presencia
                \/ \E c \in Cpus : /\ hilos'[c].paso = "sacarTlb"
                                   /\ Activo(c)' = tlb'[j].pid
                                   /\ hilos'[c].victima = tlb'[j].nroPagina
             /\ \A c \in Cpus : EsperaEnTlb(c)' => tlb'[j] # EnTlb(Activo(c)', Pagina(c)')
  <2>1. PICK i \in 1 .. Len(tlb) : tlb'[j] = tlb[i]
    BY DEF DeLaTlb
  <2>2. tlb[i].pid \in Pids /\ tlb[i].nroPagina \in Pags(tlb[i].pid)
    BY EntradaDeTlb DEF IInv, Tipos
  <2>3. programa'[tlb'[j].pid] # "nuevo"
    BY <2>1, <2>2 DEF IInv, Tlb
  <2>4. \/ tlb'[j].pid \notin procesosEnSwap'
        \/ tabla'[tlb'[j].pid][tlb'[j].nroPagina].presencia
        \/ \E c \in Cpus : /\ hilos'[c].paso = "sacarTlb"
                           /\ Activo(c)' = tlb'[j].pid
                           /\ hilos'[c].victima = tlb'[j].nroPagina
    <3>1. ASSUME NEW c \in Cpus, hilos[c].paso = "sacarTlb", Activo(c) = tlb[i].pid,
                 hilos[c].victima = tlb[i].nroPagina
          PROVE  \E k \in Cpus : /\ hilos'[k].paso = "sacarTlb"
                                 /\ Activo(k)' = tlb'[j].pid
                                 /\ hilos'[k].victima = tlb'[j].nroPagina
      <4>1. tlb[i] = EnTlb(Activo(c), hilos[c].victima)
        BY <3>1, EntradaDeTlb DEF EnTlb, IInv, Tipos
      <4> QED BY <2>1, <3>1, <4>1 DEF Activo, EnEspera
    <3>2. CASE tlb[i].pid \notin procesosEnSwap
      BY <2>1, <3>2
    <3>3. CASE tabla[tlb[i].pid][tlb[i].nroPagina].presencia
      BY <2>1, <3>3
    <3> QED BY <3>1, <3>2, <3>3 DEF IInv, Tlb
  <2>5. ASSUME NEW c \in Cpus, EsperaEnTlb(c)'
        PROVE  tlb'[j] # EnTlb(Activo(c)', Pagina(c)')
    <3>1. CASE EsperaEnTlb(c) /\ Pagina(c)' = Pagina(c)
      <4>1. Activo(c)' = Activo(c)
        BY <3>1 DEF EsperaEnTlb, EnEspera, Activo
      <4> QED BY <2>1, <3>1, <4>1 DEF IInv, Tlb
    <3>2. CASE \A h \in 1 .. Len(tlb) : tlb[h] # EnTlb(Activo(c), Pagina(c))'
      BY <2>1, <3>2 DEF EnTlb
    <3> QED BY <2>5, <3>1, <3>2
  <2> QED BY <2>1, <2>2, <2>3, <2>4, <2>5
<1>5. TiposDeTlb'
  BY <1>1, <1>4 DEF TiposDeTlb
<1> QED BY <1>2, <1>3, <1>4, <1>5 DEF Tlb, SinRepetir

LEMMA TlbIgual ==
  ASSUME IInv
  PROVE  DeLaTlb(tlb) /\ SinRepetir(tlb)
BY DEF IInv, Tipos, TiposDeTlb, Tlb, DeLaTlb, SinRepetir

-----------------------------------------------------------------------------
(* One lemma per operation *)

LEMMA NuevoProgramaPreserva ==
  ASSUME IInv, NEW p \in Pids, NuevoPrograma(p)
  PROVE  IInv'
<1> USE DEF NuevoPrograma
<1>1. \A q \in Pids : \A g \in Pags(q) : Liberada(q, g) => Liberada(q, g)'
  BY DEF Liberada, IInv, Tipos, TiposDeHilos
<1>2. /\ tabla' = tabla /\ manecilla' = manecilla /\ tablasDePagina' \subseteq Pids
      /\ hilos' = hilos /\ proceso_activo' = proceso_activo
  BY DEF paginacion, cpus, IInv, Tipos, TiposDeTablas
<1>3. TiposDeTablas' /\ Presencia' /\ Uso' /\ LimiteDeMarcos'
  BY <1>2, TablaQuieta
<1>4. TiposDeMarcos' /\ TiposDeSwap' /\ TiposDeHilos' /\ TiposDeTlb'
  BY DEF IInv, Tipos, TiposDeMarcos, TiposDeSwap, TiposDeHilos, TiposDeTlb, marcos, cpus
<1>5. Programas'
  <2>1. /\ finalizador' = finalizador /\ programa \in [Pids -> {"nuevo", "admitido", "abortado", "final"}]
        /\ finalizador.paso = "espera" /\ finalizador.pid = SinProceso /\ Programas
    BY DEF IInv, Programas, Tipos, TiposDeHilos
  <2>2. CASE programa' = [programa EXCEPT ![p] = "admitido"]
    <3>1. /\ procesosEnSwap' = procesosEnSwap \union {p}
          /\ tablasDePagina' = tablasDePagina \union {p}
      BY <2>1, <2>2
    <3> QED BY <2>1, <2>2, <3>1 DEF Programas
  <2>3. CASE programa' = [programa EXCEPT ![p] = "final"]
    <3>1. procesosEnSwap' = procesosEnSwap /\ tablasDePagina' = tablasDePagina
      BY <2>1, <2>3 DEF paginacion
    <3> QED BY <2>1, <2>3, <3>1 DEF Programas
  <2> QED BY <2>2, <2>3
<1>6. UnHiloPorProceso'
  BY DEF UnHiloPorProceso, IInv, Tipos, TiposDeHilos, cpus, EnEspera, Activo, Pagina
<1>7. PasosCoherentes'
  BY <1>1, <1>2, <1>3, PasoEstable DEF IInv, PasosCoherentes
<1>8. Reservas'
  BY DEF Reservas, IInv, Reserva, marcos
<1>9. Tlb'
  <2>1. tlb' = tlb /\ \A i \in 1 .. Len(tlb) : tlb[i].pid \in Pids /\ tlb[i].pid # p
    BY EntradaDeTlb DEF IInv, Tipos, Tlb
  <2> QED BY <1>2, <2>1 DEF IInv, Tlb, Tipos, TiposDeHilos, EsperaEnTlb, Activo, Pagina
<1> QED BY <1>3, <1>4, <1>5, <1>6, <1>7, <1>8, <1>9 DEF IInv, Tipos

LEMMA CambioProcesoActivoPreserva ==
  ASSUME IInv, NEW p \in Pids, NEW c \in Cpus, CambioProcesoActivo(c, p)
  PROVE  IInv'
<1> USE DEF CambioProcesoActivo
<1>1. /\ tabla' = tabla /\ manecilla' = manecilla /\ tablasDePagina' \subseteq Pids
      /\ hilos' = hilos /\ programa' = programa /\ finalizador' = finalizador
      /\ procesosEnSwap' = procesosEnSwap
      /\ \A k \in Cpus \ {c} : proceso_activo'[k] = proceso_activo[k]
  BY DEF paginacion, nucleo, swap, IInv, Tipos, TiposDeTablas, TiposDeHilos
<1>2. TiposDeTablas' /\ Presencia' /\ Uso' /\ LimiteDeMarcos'
  BY <1>1, TablaQuieta
<1>3. DeLaTlb(tlb')
  BY TlbIgual, QuitarPrimeraEs, QuitarDeTlb DEF IInv, Tipos, TiposDeTlb
<1>4. TiposDeTlb' /\ Tlb'
  BY <1>1, <1>3, TlbEstable DEF EnEspera, EsperaEnTlb, Pagina
<1>5. TiposDeMarcos' /\ TiposDeSwap' /\ TiposDeHilos'
  BY DEF IInv, Tipos, TiposDeMarcos, TiposDeSwap, TiposDeHilos, marcos, swap, nucleo
<1>6. Programas'
  BY <1>1 DEF Programas, IInv, paginacion
<1>7. UnHiloPorProceso'
  BY NombresAssumption
     DEF UnHiloPorProceso, IInv, Tipos, TiposDeHilos, nucleo, EnEspera, Activo, Pagina
<1>8. PasosCoherentes'
  <2>1. PasoCoherente(c)'
    BY DEF EnEspera, PasoCoherente, Reserva
  <2>2. \A k \in Cpus \ {c} : PasoCoherente(k)'
    BY <1>1, <1>2, PasoEstable, LiberadaQuieta DEF IInv, PasosCoherentes
  <2> QED BY <2>1, <2>2 DEF PasosCoherentes
<1>9. Reservas'
  BY DEF Reservas, IInv, Reserva, marcos
<1> QED BY <1>2, <1>4, <1>5, <1>6, <1>7, <1>8, <1>9 DEF IInv, Tipos

LEMMA DevolverPreserva ==
  ASSUME IInv, NEW c \in Cpus, Devolver(c)
  PROVE  IInv'
<1> USE DEF Devolver
<1>1. /\ tabla' = tabla /\ manecilla' = manecilla /\ tablasDePagina' \subseteq Pids
      /\ hilos' = hilos /\ finalizador' = finalizador /\ tlb' = tlb
      /\ procesosEnSwap' = procesosEnSwap /\ proceso_activo' = proceso_activo
      /\ tablasDePagina' = tablasDePagina
  BY DEF paginacion, swap, IInv, Tipos, TiposDeTablas
<1>2. /\ corre[c] \in Pids /\ programa[corre[c]] = "admitido"
      /\ programa' \in [Pids -> {"nuevo", "admitido", "abortado", "final"}]
      /\ \A q \in Pids : programa'[q] = IF q = corre[c] /\ respuesta[c] = "NO_OK"
                                         THEN "abortado" ELSE programa[q]
  BY DEF IInv, UnHiloPorProceso, Tipos, TiposDeHilos
<1>3. \A q \in Pids : \A g \in Pags(q) : Liberada(q, g) => Liberada(q, g)'
  BY <1>1, <1>2 DEF Liberada
<1>4. TiposDeTablas' /\ Presencia' /\ Uso' /\ LimiteDeMarcos'
  BY <1>1, TablaQuieta
<1>5. TiposDeTlb' /\ Tlb'
  BY <1>1, <1>2, TlbIgual, TlbEstable DEF EsperaEnTlb, Pagina
<1>6. TiposDeMarcos' /\ TiposDeSwap' /\ TiposDeHilos'
  BY <1>2 DEF IInv, Tipos, TiposDeMarcos, TiposDeSwap, TiposDeHilos, marcos, swap
<1>7. Programas'
  BY <1>1, <1>2 DEF Programas, IInv, Tipos, TiposDeHilos, FinalizadorTipo
<1>8. UnHiloPorProceso'
  BY <1>1, <1>2, NombresAssumption
     DEF UnHiloPorProceso, IInv, Tipos, TiposDeHilos, EnEspera, Activo, Pagina
<1>9. PasosCoherentes'
  BY <1>1, <1>3, <1>4, PasoEstable DEF IInv, PasosCoherentes
<1>10. Reservas'
  BY DEF Reservas, IInv, Reserva, marcos
<1> QED BY <1>4, <1>5, <1>6, <1>7, <1>8, <1>9, <1>10 DEF IInv, Tipos

LEMMA CpuMuerePreserva ==
  ASSUME IInv, NEW c \in Cpus, CpuMuere(c)
  PROVE  IInv'
<1> USE DEF CpuMuere
<1>1. /\ tabla' = tabla /\ manecilla' = manecilla /\ tablasDePagina' \subseteq Pids
      /\ hilos' = hilos /\ finalizador' = finalizador /\ tlb' = tlb
      /\ procesosEnSwap' = procesosEnSwap /\ proceso_activo' = proceso_activo
      /\ tablasDePagina' = tablasDePagina
  BY DEF paginacion, swap, IInv, Tipos, TiposDeTablas
<1>2. /\ programa' \in [Pids -> {"nuevo", "admitido", "abortado", "final"}]
      /\ corre[c] # SinProceso => corre[c] \in Pids /\ programa[corre[c]] = "admitido"
      /\ \A q \in Pids : programa'[q] = IF q = corre[c] THEN "abortado" ELSE programa[q]
  BY NombresAssumption DEF IInv, UnHiloPorProceso, Tipos, TiposDeHilos
<1>3. \A q \in Pids : \A g \in Pags(q) : Liberada(q, g) => Liberada(q, g)'
  BY <1>1, <1>2, NombresAssumption DEF Liberada
<1>4. TiposDeTablas' /\ Presencia' /\ Uso' /\ LimiteDeMarcos'
  BY <1>1, TablaQuieta
<1>5. TiposDeTlb' /\ Tlb'
  BY <1>1, <1>2, TlbIgual, TlbEstable DEF EsperaEnTlb, Pagina
<1>6. TiposDeMarcos' /\ TiposDeSwap' /\ TiposDeHilos'
  BY <1>2 DEF IInv, Tipos, TiposDeMarcos, TiposDeSwap, TiposDeHilos, marcos, swap
<1>7. Programas'
  BY <1>1, <1>2, NombresAssumption DEF Programas, IInv, Tipos, TiposDeHilos, FinalizadorTipo
<1>8. UnHiloPorProceso'
  BY <1>1, <1>2, NombresAssumption
     DEF UnHiloPorProceso, IInv, Tipos, TiposDeHilos, EnEspera, Activo, Pagina
<1>9. PasosCoherentes'
  BY <1>1, <1>3, <1>4, PasoEstable DEF IInv, PasosCoherentes
<1>10. Reservas'
  BY DEF Reservas, IInv, Reserva, marcos
<1> QED BY <1>4, <1>5, <1>6, <1>7, <1>8, <1>9, <1>10 DEF IInv, Tipos

LEMMA PedirPreserva ==
  ASSUME IInv, NEW c \in Cpus, corre[c] # SinProceso, NEW g \in Pags(corre[c]),
         NEW op \in {"LECTURA_PAGINA", "ESCRITURA_PAGINA"}, NEW d \in Datos \union {SinDato},
         op = "ESCRITURA_PAGINA" => d \in Datos, Pedir(c, op, g, d)
  PROVE  IInv'
<1> DEFINE e == EnTlb(Activo(c), g)
           p == corre[c]
<1>1. /\ tabla' = tabla /\ manecilla' = manecilla /\ tablasDePagina' \subseteq Pids
      /\ programa' = programa /\ finalizador' = finalizador /\ corre' = corre
      /\ procesosEnSwap' = procesosEnSwap /\ proceso_activo' = proceso_activo
      /\ \A k \in Cpus \ {c} : hilos'[k] = hilos[k]
      /\ hilos[c].paso = "espera"
  BY DEF Pedir, paginacion, nucleo, swap, cpus, IInv, Tipos, TiposDeTablas, TiposDeHilos, EnEspera
<1>2. /\ p \in Pids /\ Activo(c) = p /\ programa[p] = "admitido" /\ p \in procesosEnSwap
      /\ g \in Nat /\ c \in conectada
  BY PagsEs DEF IInv, UnHiloPorProceso, Programas
<1>3. /\ hilos'[c] \in HiloTipo /\ hilos'[c].pag = g /\ hilos'[c].victima = -1
      /\ hilos'[c].op = op /\ hilos'[c].dato = d
      /\ hilos' = [hilos EXCEPT ![c] = hilos'[c]]
      /\ \/ /\ hilos'[c].paso = "acceder" /\ Contains(tlb, e)
            /\ tlb' = Append(RemoveFirst(tlb, e), e)
         \/ hilos'[c].paso = "tabla" /\ ~Contains(tlb, e) /\ tlb' = tlb
  <2> DEFINE r(paso) == [paso |-> paso, op |-> op, pag |-> g, dato |-> d, marco |-> -1,
                         victima |-> -1, leido |-> SinDato]
  <2>1. \A paso \in Pasos : r(paso) \in HiloTipo
    BY <1>2 DEF HiloTipo
  <2>2. \/ /\ hilos' = [hilos EXCEPT ![c] = r("acceder")] /\ Contains(tlb, e)
           /\ tlb' = Append(RemoveFirst(tlb, e), e)
        \/ hilos' = [hilos EXCEPT ![c] = r("tabla")] /\ ~Contains(tlb, e) /\ tlb' = tlb
    BY DEF Pedir, HiloEnEspera
  <2>3. c \in DOMAIN hilos
    BY DEF IInv, Tipos, TiposDeHilos
  <2> QED BY <2>1, <2>2, <2>3 DEF Pasos
<1>4. TiposDeTablas' /\ Presencia' /\ Uso' /\ LimiteDeMarcos'
  BY <1>1, TablaQuieta
<1>5. DeLaTlb(tlb')
  <2>1. CASE Contains(tlb, e)
    <3>1. PICK i \in 1 .. Len(tlb) : tlb[i] = e /\ RemoveFirst(tlb, e) = RemoveAt(tlb, i)
      BY <2>1, RemoveFirstEs DEF Contains, IInv, Tipos, TiposDeTlb
    <3> QED BY <1>3, <2>1, <3>1, AlFinal, TlbIgual DEF IInv, Tipos
  <2>2. CASE ~Contains(tlb, e)
    BY <1>3, <2>2, TlbIgual
  <2> QED BY <2>1, <2>2
<1>6. Tlb' /\ TiposDeTlb'
  <2>1. \A k \in Cpus : /\ hilos[k].paso = "sacarTlb" => hilos'[k] = hilos[k]
                        /\ ~EnEspera(k) => proceso_activo'[k] = proceso_activo[k]
    BY <1>1
  <2>2. ASSUME NEW k \in Cpus, EsperaEnTlb(k)'
        PROVE  \/ EsperaEnTlb(k) /\ Pagina(k)' = Pagina(k)
               \/ \A i \in 1 .. Len(tlb) : tlb[i] # EnTlb(Activo(k), Pagina(k))'
    <3>1. CASE k = c
      <4>1. ~Contains(tlb, e) /\ EnTlb(Activo(c), Pagina(c))' = e
        BY <1>1, <1>3, <2>2, <3>1 DEF EsperaEnTlb, Activo, Pagina, EnTlb
      <4> QED BY <3>1, <4>1 DEF Contains
    <3>2. CASE k # c
      BY <1>1, <2>2, <3>2 DEF EsperaEnTlb, Pagina
    <3> QED BY <3>1, <3>2
  <2> QED BY <1>1, <1>5, <2>1, <2>2, TlbEstable
<1>7. TiposDeMarcos' /\ TiposDeSwap' /\ TiposDeHilos'
  <2>1. TiposDeMarcos' /\ TiposDeSwap'
    BY DEF Pedir, IInv, Tipos, TiposDeMarcos, TiposDeSwap, marcos, swap
  <2>2. respuesta' \in [Cpus -> Datos \union {SinDato, "OK", "NO_OK"}]
    BY DEF Pedir, IInv, Tipos, TiposDeHilos
  <2>3. hilos' \in [Cpus -> HiloTipo]
    BY <1>3 DEF IInv, Tipos, TiposDeHilos
  <2>4. \A k \in Cpus : /\ hilos'[k].op = "ESCRITURA_PAGINA" => hilos'[k].dato \in Datos
                        /\ hilos'[k].paso \in {"instalar", "pisar"} => hilos'[k].leido \in Datos
    BY <1>1, <1>3 DEF IInv, Tipos, TiposDeHilos
  <2> QED BY <2>1, <2>2, <2>3, <2>4 DEF TiposDeHilos, Pedir, IInv, Tipos, cpus, nucleo
<1>8. Programas'
  BY <1>1 DEF Programas, IInv, Pedir, paginacion
<1>9. UnHiloPorProceso'
  <2>1. \A k \in Cpus : ~EnEspera(k)' =>
          /\ Activo(k)' \in Pids /\ Pagina(k)' \in Pags(Activo(k)')
          /\ \/ corre'[k] = Activo(k)'
             \/ k \notin conectada' /\ programa'[Activo(k)'] \in {"abortado", "final"}
    BY <1>1, <1>2, <1>3 DEF IInv, UnHiloPorProceso, EnEspera, Activo, Pagina, Pedir, cpus
  <2>2. ASSUME NEW k \in Cpus, NEW h \in Cpus, ~EnEspera(k)', ~EnEspera(h)',
               Activo(k)' = Activo(h)'
        PROVE  k = h
    BY <1>1, <1>2, <1>3, <2>1, <2>2 DEF IInv, UnHiloPorProceso, EnEspera, Activo
  <2> QED BY <1>1, <2>1, <2>2 DEF IInv, UnHiloPorProceso, Pedir, cpus, Activo
<1>10. PasosCoherentes'
  <2>1. \A k \in Cpus \ {c} : PasoCoherente(k)'
    BY <1>1, <1>4, PasoEstable, LiberadaQuieta DEF IInv, PasosCoherentes
  <2>2. hilos'[c].paso = "acceder" => tabla[p][g].presencia
    <3>1. SUFFICES ASSUME hilos'[c].paso = "acceder"
                   PROVE  tabla[p][g].presencia
      OBVIOUS
    <3>2. PICK i \in 1 .. Len(tlb) : tlb[i] = e
      BY <1>3, <3>1 DEF Contains
    <3>3. ASSUME NEW k \in Cpus, hilos[k].paso = "sacarTlb", Activo(k) = p
          PROVE  FALSE
      BY <1>1, <1>2, <3>3 DEF IInv, UnHiloPorProceso, EnEspera
    <3> QED BY <1>2, <3>2, <3>3 DEF IInv, Tlb, EnTlb
  <2>3. PasoCoherente(c)'
    BY <1>1, <1>2, <1>3, <2>2
       DEF PasoCoherente, TieneOLiberada, Reserva, Activo, Pagina
  <2> QED BY <2>1, <2>3 DEF PasosCoherentes
<1>11. Reservas'
  BY <1>1, <1>3 DEF Reservas, IInv, Reserva, Pedir, marcos
<1> QED BY <1>4, <1>6, <1>7, <1>8, <1>9, <1>10, <1>11 DEF IInv, Tipos

LEMMA SoloUmcPreserva ==
  ASSUME IInv, umc' \in {"viva", "muerta", "indefinida"}, UNCHANGED resto
  PROVE  IInv'
<1> USE DEF resto, paginacion, marcos, swap, nucleo, cpus
<1>1. /\ tabla' = tabla /\ manecilla' = manecilla /\ tablasDePagina' \subseteq Pids
      /\ hilos' = hilos /\ proceso_activo' = proceso_activo
      /\ programa' = programa /\ finalizador' = finalizador
      /\ procesosEnSwap' = procesosEnSwap /\ tlb' = tlb
  BY DEF IInv, Tipos, TiposDeTablas
<1>2. TiposDeTablas' /\ Presencia' /\ Uso' /\ LimiteDeMarcos'
  BY <1>1, TablaQuieta
<1>3. TiposDeTlb' /\ Tlb'
  BY <1>1, TlbIgual, TlbEstable DEF EsperaEnTlb, Pagina
<1>4. TiposDeMarcos' /\ TiposDeSwap' /\ TiposDeHilos'
  BY DEF IInv, Tipos, TiposDeMarcos, TiposDeSwap, TiposDeHilos
<1>5. Programas' /\ UnHiloPorProceso' /\ Reservas'
  BY DEF Programas, UnHiloPorProceso, Reservas, Reserva, IInv, EnEspera, Activo, Pagina
<1>6. PasosCoherentes'
  BY <1>1, <1>2, PasoEstable, LiberadaQuieta DEF IInv, PasosCoherentes
<1> QED BY <1>2, <1>3, <1>4, <1>5, <1>6 DEF IInv, Tipos

LEMMA VaEs ==
  ASSUME TiposDeHilos, NEW c \in Cpus, NEW paso \in Pasos, Va(c, paso)
  PROVE  /\ hilos' \in [Cpus -> HiloTipo]
         /\ hilos'[c].paso = paso /\ hilos'[c].op = hilos[c].op
         /\ hilos'[c].pag = hilos[c].pag /\ hilos'[c].dato = hilos[c].dato
         /\ hilos'[c].marco = hilos[c].marco /\ hilos'[c].victima = hilos[c].victima
         /\ hilos'[c].leido = hilos[c].leido
         /\ \A k \in Cpus \ {c} : hilos'[k] = hilos[k]
BY DEF TiposDeHilos, Va, HiloTipo

\* One entry of a page table changes.
LEMMA CambiaEntrada ==
  ASSUME TiposDeTablas, NEW p \in Pids, NEW g \in Pags(p), NEW e \in EntradaTipo,
         tabla' = [tabla EXCEPT ![p][g] = e],
         \A q \in Pids : manecilla'[q] \in Pags(q), manecilla' = [q \in Pids |-> manecilla'[q]],
         tablasDePagina' = tablasDePagina
  PROVE  /\ TiposDeTablas' /\ tabla'[p][g] = e
         /\ \A h \in Pags(p) \ {g} : tabla'[p][h] = tabla[p][h]
         /\ \A q \in Pids \ {p} : tabla'[q] = tabla[q]
<1>1. tabla[p] \in [Pags(p) -> EntradaTipo] /\ DOMAIN tabla = Pids
  BY DEF TiposDeTablas
<1>2. tabla'[p] = [tabla[p] EXCEPT ![g] = e] /\ \A q \in Pids \ {p} : tabla'[q] = tabla[q]
  BY <1>1
<1>3. tabla' = [q \in Pids |-> tabla'[q]]
  BY <1>1
<1>4. \A q \in Pids : tabla'[q] \in [Pags(q) -> EntradaTipo]
  BY <1>1, <1>2 DEF TiposDeTablas
<1>5. tabla'[p][g] = e /\ \A h \in Pags(p) \ {g} : tabla'[p][h] = tabla[p][h]
  BY <1>1, <1>2
<1> QED BY <1>2, <1>3, <1>4, <1>5 DEF TiposDeTablas

\* What a busy thread works on.
LEMMA HiloOcupado ==
  ASSUME IInv, NEW c \in Cpus, ~EnEspera(c)
  PROVE  /\ Activo(c) \in Pids /\ Pagina(c) \in Pags(Activo(c))
         /\ \A k \in Cpus \ {c} : ~EnEspera(k) => Activo(k) # Activo(c)
         /\ tabla[Activo(c)] \in [Pags(Activo(c)) -> EntradaTipo]
         /\ Entrada(c) \in EntradaTipo
<1>1. /\ Activo(c) \in Pids /\ Pagina(c) \in Pags(Activo(c))
      /\ \A k \in Cpus \ {c} : ~EnEspera(k) => Activo(k) # Activo(c)
  BY DEF IInv, UnHiloPorProceso
<1> QED BY <1>1 DEF IInv, Tipos, TiposDeTablas, Entrada

LEMMA BuscarPaginaPreserva ==
  ASSUME IInv, NEW c \in Cpus, BuscarPaginaEnTabla(c)
  PROVE  IInv' /\ MarcosQuietos
<1> DEFINE p == Activo(c)
           g == Pagina(c)
<1>1. CASE Morir
  BY <1>1, SoloUmcPreserva DEF Morir, MarcosQuietos, MismaPresencia, resto, paginacion, marcos
<1>2. SUFFICES ASSUME ~Morir
               PROVE  IInv' /\ MarcosQuietos
  BY <1>1
<1>3. /\ hilos[c].paso = "tabla" /\ ~EnEspera(c)
      /\ programa' = programa /\ finalizador' = finalizador /\ corre' = corre
      /\ procesosEnSwap' = procesosEnSwap /\ proceso_activo' = proceso_activo
      /\ conectada' = conectada /\ umc' = umc /\ respuesta' = respuesta
      /\ manecilla' = manecilla /\ tablasDePagina' = tablasDePagina
      /\ UNCHANGED <<marcos, tlb, swap>>
  BY <1>2 DEF BuscarPaginaEnTabla, nucleo, cpus, swap, EnPaso, EnEspera
<1>4. /\ p \in Pids /\ g \in Pags(p) /\ Entrada(c) = tabla[p][g] /\ tabla[p][g] \in EntradaTipo
      /\ tabla[p] \in [Pags(p) -> EntradaTipo]
      /\ \A k \in Cpus \ {c} : ~EnEspera(k) => Activo(k) # p
      /\ hilos[c].victima = -1
  BY <1>3, HiloOcupado DEF Entrada, IInv, PasosCoherentes, PasoCoherente
<1>5. PICK paso \in {"cargarTlb", "acceder", "marco", "primerMarco", "victima"} :
        /\ Va(c, paso)
        /\ \/ /\ tabla[p][g].presencia /\ paso \in {"cargarTlb", "acceder"}
              /\ paso = "cargarTlb" => ENTRADAS_TLB > 0
              /\ tabla' = [tabla EXCEPT ![p][g].uso = TRUE]
           \/ /\ ~tabla[p][g].presencia /\ tabla' = tabla
              /\ LET usadas == Cardinality(Presentes(tabla[p]))
                 IN  paso = IF usadas = MARCO_X_PROC THEN "victima"
                            ELSE IF usadas > 0 THEN "marco" ELSE "primerMarco"
  BY <1>2, <1>4 DEF BuscarPaginaEnTabla, ConPagina
<1>6. /\ hilos' \in [Cpus -> HiloTipo] /\ hilos'[c].paso = paso
      /\ hilos'[c].op = hilos[c].op /\ hilos'[c].pag = hilos[c].pag
      /\ hilos'[c].dato = hilos[c].dato /\ hilos'[c].victima = -1
      /\ \A k \in Cpus \ {c} : hilos'[k] = hilos[k]
  BY <1>4, <1>5, VaEs DEF IInv, Tipos, Pasos
<1>7. /\ TiposDeTablas' /\ MismaPresencia
      /\ \A q \in Pids : \A h \in Pags(q) :
           tabla'[q][h].uso => tabla[q][h].uso \/ tabla[q][h].presencia
      /\ \A q \in Pids \ {p} : tabla'[q] = tabla[q]
  <2>1. CASE tabla' = tabla
    BY <1>3, <2>1 DEF IInv, Tipos, TiposDeTablas, MismaPresencia
  <2>2. CASE tabla[p][g].presencia /\ tabla' = [tabla EXCEPT ![p][g].uso = TRUE]
    <3> DEFINE e == [tabla[p][g] EXCEPT !.uso = TRUE]
    <3>1. /\ e \in EntradaTipo /\ e.presencia = tabla[p][g].presencia
          /\ e.nro_marco = tabla[p][g].nro_marco
      BY <1>4 DEF EntradaTipo
    <3>2. tabla' = [tabla EXCEPT ![p][g] = e]
      BY <2>2
    <3>3. \A q \in Pids : manecilla'[q] \in Pags(q)
      BY <1>3 DEF IInv, Tipos, TiposDeTablas
    <3>4. manecilla' = [q \in Pids |-> manecilla'[q]]
      BY <1>3 DEF IInv, Tipos, TiposDeTablas
    <3> HIDE DEF e
    <3>5. /\ TiposDeTablas' /\ tabla'[p][g] = e
          /\ \A h \in Pags(p) \ {g} : tabla'[p][h] = tabla[p][h]
          /\ \A q \in Pids \ {p} : tabla'[q] = tabla[q]
      BY <1>3, <1>4, <3>1, <3>2, <3>3, <3>4, CambiaEntrada DEF IInv, Tipos
    <3> QED BY <2>2, <3>1, <3>5 DEF MismaPresencia
  <2> QED BY <1>5, <2>1, <2>2
<1>8. Presencia' /\ LimiteDeMarcos' /\ Uso'
  BY <1>7, MismaTabla DEF IInv, Tipos, Uso, MismaPresencia
<1>9. TiposDeMarcos' /\ TiposDeSwap' /\ TiposDeHilos'
  BY <1>3, <1>5, <1>6 DEF IInv, Tipos, TiposDeMarcos, TiposDeSwap, TiposDeHilos, marcos, swap
<1>10. TiposDeTlb' /\ Tlb'
  <2>1. DeLaTlb(tlb')
    BY <1>3, TlbIgual
  <2>2. \A k \in Cpus : /\ hilos[k].paso = "sacarTlb" => hilos'[k] = hilos[k]
                        /\ EsperaEnTlb(k)' => EsperaEnTlb(k) /\ Pagina(k)' = Pagina(k)
    BY <1>3, <1>6 DEF EsperaEnTlb, Pagina
  <2>3. \A i \in 1 .. Len(tlb') : tabla[tlb'[i].pid][tlb'[i].nroPagina].presencia =>
                                   tabla'[tlb'[i].pid][tlb'[i].nroPagina].presencia
    BY <1>3, <1>7, EntradaDeTlb DEF IInv, Tipos, MismaPresencia
  <2> QED BY <1>3, <2>1, <2>2, <2>3, TlbEstable
<1>11. Programas' /\ Reservas'
  BY <1>3, <1>5, <1>6 DEF Programas, Reservas, Reserva, IInv, marcos
<1>12. UnHiloPorProceso'
  BY <1>3, <1>5, <1>6 DEF IInv, UnHiloPorProceso, EnEspera, Activo, Pagina
<1>13. PasosCoherentes'
  <2>1. ASSUME NEW k \in Cpus \ {c}
        PROVE  PasoCoherente(k)'
    <3>1. ~EnEspera(k) => Activo(k) \in Pids \ {p}
      BY <1>4 DEF IInv, UnHiloPorProceso
    <3> QED BY <1>3, <1>6, <1>7, <3>1, PasoEstable, LiberadaQuieta DEF IInv, PasosCoherentes
  <2>2. CASE tabla[p][g].presencia
    <3>1. tabla'[p][g].presencia
      BY <1>4, <1>7, <2>2 DEF MismaPresencia
    <3> QED BY <1>3, <1>5, <1>6, <2>1, <2>2, <3>1
            DEF PasosCoherentes, PasoCoherente, TieneOLiberada, Reserva, Activo, Pagina
  <2>3. CASE ~tabla[p][g].presencia
    <3>1. /\ Cardinality(Presentes(tabla[p])) \in Nat
          /\ Cardinality(Presentes(tabla[p])) <= MARCO_X_PROC
          /\ Cardinality(Presentes(tabla[p])) = 0 <=> Presentes(tabla[p]) = {}
      BY <1>4, PresentesFinitas, FS_EmptySet DEF IInv, Tipos, LimiteDeMarcos
    <3>2. /\ tabla' = tabla /\ Activo(c)' = p /\ Pagina(c)' = g
          /\ paso = IF Cardinality(Presentes(tabla[p])) = MARCO_X_PROC THEN "victima"
                    ELSE IF Cardinality(Presentes(tabla[p])) > 0 THEN "marco" ELSE "primerMarco"
      BY <1>3, <1>5, <1>6, <2>3 DEF Activo, Pagina
    <3>3. /\ paso # "victima" => Cardinality(Presentes(tabla[p])) < MARCO_X_PROC
          /\ paso \in {"marco", "victima"} => Presentes(tabla[p]) # {}
          /\ paso = "primerMarco" => Presentes(tabla[p]) = {}
      BY <3>1, <3>2, MarcoXProcAssumption
    <3>4. PasoCoherente(c)'
      BY <1>5, <1>6, <2>3, <3>2, <3>3
         DEF PasoCoherente, Falta, HayLugar, Entrada, Reserva
    <3> QED BY <2>1, <3>4 DEF PasosCoherentes
  <2> QED BY <2>2, <2>3
<1>14. IInv'
  BY <1>7, <1>8, <1>9, <1>10, <1>11, <1>12, <1>13 DEF IInv, Tipos
<1>15. MarcosQuietos
  BY <1>3, <1>7 DEF MarcosQuietos, marcos
<1> QED BY <1>14, <1>15

\* A thread goes on with its request, or ends it.
LEMMA HiloSigue ==
  ASSUME IInv, NEW c \in Cpus, ~EnEspera(c), UNCHANGED <<nucleo, cpus>>,
         \A k \in Cpus \ {c} : hilos'[k] = hilos[k],
         hilos'[c].paso = "espera" \/ hilos'[c].pag = hilos[c].pag
  PROVE  UnHiloPorProceso'
BY DEF IInv, UnHiloPorProceso, EnEspera, Activo, Pagina, nucleo, cpus

\* A step of a thread in its request that touches no page table.
LEMMA SoloHilo ==
  ASSUME IInv, NEW c \in Cpus, ~EnEspera(c),
         UNCHANGED <<paginacion, nucleo, cpus, procesosEnSwap>>,
         hilos' \in [Cpus -> HiloTipo], \A k \in Cpus \ {c} : hilos'[k] = hilos[k],
         hilos'[c].paso = "espera" \/ hilos'[c].pag = hilos[c].pag
  PROVE  /\ TiposDeTablas' /\ Presencia' /\ Uso' /\ LimiteDeMarcos'
         /\ Programas' /\ UnHiloPorProceso'
         /\ \A k \in Cpus \ {c} : PasoCoherente(k)'
<1> USE DEF paginacion, nucleo, cpus
<1>1. TiposDeTablas' /\ Presencia' /\ Uso' /\ LimiteDeMarcos'
  BY TablaQuieta DEF IInv, Tipos, TiposDeTablas
<1>2. Programas'
  BY DEF IInv, Programas
<1>3. UnHiloPorProceso'
  BY HiloSigue
<1>4. \A k \in Cpus \ {c} : PasoCoherente(k)'
  BY <1>1, PasoEstable, LiberadaQuieta DEF IInv, PasosCoherentes
<1> QED BY <1>1, <1>2, <1>3, <1>4

\* The threads and the answers keep their types.
LEMMA HilosBien ==
  ASSUME IInv, NEW c \in Cpus, UNCHANGED <<umc, nucleo, cpus>>,
         hilos' \in [Cpus -> HiloTipo], \A k \in Cpus \ {c} : hilos'[k] = hilos[k],
         \/ hilos'[c] = HiloEnEspera
         \/ /\ hilos'[c].op = hilos[c].op /\ hilos'[c].dato = hilos[c].dato
            /\ hilos'[c].paso \in {"instalar", "pisar"} => hilos'[c].leido \in Datos,
         respuesta' \in [Cpus -> Datos \union {SinDato, "OK", "NO_OK"}]
  PROVE  TiposDeHilos'
BY DEF IInv, Tipos, TiposDeHilos, nucleo, cpus, HiloEnEspera

LEMMA ResponderEs ==
  ASSUME Tipos, NEW c \in Cpus, NEW r \in Datos \union {SinDato, "OK", "NO_OK"},
         Responder(c, r)
  PROVE  /\ hilos' \in [Cpus -> HiloTipo] /\ hilos'[c] = HiloEnEspera
         /\ hilos'[c].paso = "espera"
         /\ \A k \in Cpus \ {c} : hilos'[k] = hilos[k]
         /\ respuesta' \in [Cpus -> Datos \union {SinDato, "OK", "NO_OK"}]
         /\ PasoCoherente(c)'
<1>1. HiloEnEspera \in HiloTipo /\ HiloEnEspera.paso = "espera"
  BY DEF HiloEnEspera, HiloTipo, Pasos
<1>2. /\ hilos' = [hilos EXCEPT ![c] = HiloEnEspera]
      /\ respuesta' = [respuesta EXCEPT ![c] = r]
  BY DEF Responder
<1>3. /\ hilos' \in [Cpus -> HiloTipo] /\ hilos'[c] = HiloEnEspera
      /\ \A k \in Cpus \ {c} : hilos'[k] = hilos[k]
      /\ respuesta' \in [Cpus -> Datos \union {SinDato, "OK", "NO_OK"}]
  BY <1>1, <1>2 DEF Tipos, TiposDeHilos
<1>4. PasoCoherente(c)'
  BY <1>1, <1>3 DEF PasoCoherente, Reserva
<1> QED BY <1>1, <1>3, <1>4

LEMMA ElegirMarcoPreserva ==
  ASSUME IInv, NEW c \in Cpus, ElegirMarco(c)
  PROVE  IInv'
<1> DEFINE libres == Marcos \ bitmap_frames
<1>1. /\ hilos[c].paso \in {"marco", "primerMarco"} /\ ~EnEspera(c) /\ memoriaposta = Nadie
      /\ UNCHANGED <<umc, paginacion, bitmap_frames, memoria_principal, tlb, swap,
                     nucleo, cpus>>
      /\ hilos[c].victima = -1 /\ Falta(c) /\ HayLugar(c)
      /\ hilos[c].paso = "marco" => Presentes(tabla[Activo(c)]) # {} \/ Liberada(Activo(c), 0)
  BY DEF ElegirMarco, PideMarco, EnPaso, EnEspera, IInv, PasosCoherentes, PasoCoherente
<1>2. TiposDeSwap' /\ (\A k \in Cpus : ~Reserva(k))
  BY <1>1, NombresAssumption DEF IInv, Tipos, TiposDeSwap, swap, Reservas
<1>3. DeLaTlb(tlb') /\ procesosEnSwap' = procesosEnSwap
  BY <1>1, TlbIgual DEF swap
<1>4. CASE libres # {}
  <2>1. /\ memoriaposta' = c /\ respuesta' = respuesta
        /\ hilos' = [hilos EXCEPT ![c].paso = "leer", ![c].marco = Min(libres)]
    BY <1>4 DEF ElegirMarco
  <2>2. Min(libres) \in libres
    BY <1>4, MinEn, MarcosAssumption DEF Marcos
  <2>3. /\ hilos' \in [Cpus -> HiloTipo] /\ hilos'[c].paso = "leer"
        /\ hilos'[c].marco = Min(libres) /\ hilos'[c].victima = -1
        /\ hilos'[c].op = hilos[c].op /\ hilos'[c].dato = hilos[c].dato
        /\ hilos'[c].pag = hilos[c].pag
        /\ \A k \in Cpus \ {c} : hilos'[k] = hilos[k]
    <3>1. hilos \in [Cpus -> HiloTipo] /\ Min(libres) \in Marcos
      BY <2>2 DEF IInv, Tipos, TiposDeHilos
    <3>2. [hilos[c] EXCEPT !.paso = "leer", !.marco = Min(libres)] \in HiloTipo
      BY <3>1 DEF HiloTipo, Pasos
    <3>3. hilos' = [hilos EXCEPT ![c] = [hilos[c] EXCEPT !.paso = "leer",
                                                         !.marco = Min(libres)]]
      BY <2>1, <3>1
    <3>4. hilos[c] \in HiloTipo
      BY <3>1
    <3>5. hilos'[c] = [hilos[c] EXCEPT !.paso = "leer", !.marco = Min(libres)]
      BY <3>1, <3>3
    <3>6. hilos' \in [Cpus -> HiloTipo] /\ \A k \in Cpus \ {c} : hilos'[k] = hilos[k]
      BY <3>1, <3>2, <3>3
    <3> QED BY <1>1, <3>4, <3>5, <3>6 DEF HiloTipo
  <2>4. /\ TiposDeTablas' /\ Presencia' /\ Uso' /\ LimiteDeMarcos'
        /\ Programas' /\ UnHiloPorProceso'
        /\ \A k \in Cpus \ {c} : PasoCoherente(k)'
    BY <1>1, <2>3, SoloHilo DEF swap
  <2>5. TiposDeMarcos' /\ TiposDeHilos'
    <3>1. TiposDeMarcos'
      BY <1>1, <2>1 DEF IInv, Tipos, TiposDeMarcos
    <3> QED BY <1>1, <2>1, <2>3, <3>1, HilosBien DEF IInv, Tipos, TiposDeHilos
  <2>6. TiposDeTlb' /\ Tlb'
    BY <1>1, <1>3, <2>3, TlbEstable DEF EsperaEnTlb, Pagina, nucleo, cpus, paginacion
  <2>7. PasoCoherente(c)'
    BY <1>1, <2>3 DEF PasoCoherente, Falta, HayLugar, Entrada, Activo, Pagina,
                      paginacion, cpus
  <2>8. Reservas'
    BY <1>1, <1>2, <2>1, <2>2, <2>3 DEF Reservas, Reserva
  <2> QED BY <1>2, <2>4, <2>5, <2>6, <2>7, <2>8 DEF IInv, Tipos, PasosCoherentes
<1>5. CASE libres = {} /\ hilos[c].paso = "marco"
  <2>1. memoriaposta' = memoriaposta /\ respuesta' = respuesta /\ Va(c, "victima")
    BY <1>5 DEF ElegirMarco, EnPaso
  <2>2. /\ hilos' \in [Cpus -> HiloTipo] /\ hilos'[c].paso = "victima"
        /\ hilos'[c].victima = -1
        /\ hilos'[c].op = hilos[c].op /\ hilos'[c].dato = hilos[c].dato
        /\ hilos'[c].pag = hilos[c].pag
        /\ \A k \in Cpus \ {c} : hilos'[k] = hilos[k]
    BY <1>1, <2>1, VaEs DEF IInv, Tipos, Pasos
  <2>3. /\ TiposDeTablas' /\ Presencia' /\ Uso' /\ LimiteDeMarcos'
        /\ Programas' /\ UnHiloPorProceso'
        /\ \A k \in Cpus \ {c} : PasoCoherente(k)'
    BY <1>1, <2>2, SoloHilo DEF swap
  <2>4. TiposDeMarcos' /\ TiposDeHilos'
    <3>1. TiposDeMarcos'
      BY <1>1, <2>1 DEF IInv, Tipos, TiposDeMarcos
    <3> QED BY <1>1, <2>1, <2>2, <3>1, HilosBien DEF IInv, Tipos, TiposDeHilos
  <2>5. TiposDeTlb' /\ Tlb'
    BY <1>1, <1>3, <2>2, TlbEstable DEF EsperaEnTlb, Pagina, nucleo, cpus, paginacion
  <2>6. PasoCoherente(c)'
    BY <1>1, <1>5, <2>2 DEF PasoCoherente, Falta, Entrada, Activo, Pagina, Reserva,
                            paginacion, cpus, nucleo, Liberada
  <2>7. Reservas'
    BY <1>1, <1>2, <2>1, <2>2, NombresAssumption DEF Reservas, Reserva
  <2> QED BY <1>2, <2>3, <2>4, <2>5, <2>6, <2>7 DEF IInv, Tipos, PasosCoherentes
<1>6. CASE libres = {} /\ hilos[c].paso = "primerMarco"
  <2>1. memoriaposta' = memoriaposta /\ Responder(c, "NO_OK")
    BY <1>6 DEF ElegirMarco, EnPaso
  <2>2. /\ hilos' \in [Cpus -> HiloTipo] /\ hilos'[c] = HiloEnEspera
        /\ hilos'[c].paso = "espera"
        /\ \A k \in Cpus \ {c} : hilos'[k] = hilos[k]
        /\ respuesta' \in [Cpus -> Datos \union {SinDato, "OK", "NO_OK"}]
        /\ PasoCoherente(c)'
    BY <2>1, ResponderEs DEF IInv
  <2>3. /\ TiposDeTablas' /\ Presencia' /\ Uso' /\ LimiteDeMarcos'
        /\ Programas' /\ UnHiloPorProceso'
        /\ \A k \in Cpus \ {c} : PasoCoherente(k)'
    BY <1>1, <2>2, SoloHilo DEF swap
  <2>4. TiposDeMarcos' /\ TiposDeHilos'
    <3>1. TiposDeMarcos'
      BY <1>1, <2>1 DEF IInv, Tipos, TiposDeMarcos
    <3> QED BY <1>1, <2>1, <2>2, <3>1, HilosBien
  <2>5. TiposDeTlb' /\ Tlb'
    BY <1>1, <1>3, <2>2, TlbEstable DEF EsperaEnTlb, Pagina, nucleo, cpus, paginacion
  <2>6. Reservas'
    BY <1>1, <1>2, <2>1, <2>2, NombresAssumption DEF Reservas, Reserva
  <2> QED BY <1>2, <2>2, <2>3, <2>4, <2>5, <2>6 DEF IInv, Tipos, PasosCoherentes
<1> QED BY <1>1, <1>4, <1>5, <1>6

LEMMA TrasEscribirEs ==
  ASSUME TiposDeSwap, NEW p \in Pids, NEW g \in Pags(p), NEW d \in Datos,
         enSwap' \in TrasEscribir(p, g, d), procesosEnSwap' = procesosEnSwap
  PROVE  TiposDeSwap'
<1>1. \/ enSwap' = enSwap
      \/ \E q \in Pids : \E h \in Pags(q) : enSwap' = [enSwap EXCEPT ![q][h] = d]
  <2>1. CASE p \in procesosEnSwap
    <3>1. enSwap' = [enSwap EXCEPT ![p][g] = d]
      BY <2>1 DEF TrasEscribir
    <3> QED BY <3>1
  <2>2. CASE p \notin procesosEnSwap
    <3> DEFINE De(q) == {[enSwap EXCEPT ![q][h] = d] : h \in Pags(q)}
    <3>1. enSwap' = enSwap \/ \E q \in procesosEnSwap : enSwap' \in De(q)
      BY <2>2 DEF TrasEscribir
    <3>2. ASSUME NEW q \in procesosEnSwap, enSwap' \in De(q)
          PROVE  q \in Pids /\ \E h \in Pags(q) : enSwap' = [enSwap EXCEPT ![q][h] = d]
      BY <3>2 DEF TiposDeSwap
    <3> QED BY <3>1, <3>2
  <2> QED BY <2>1, <2>2
<1>2. ASSUME NEW q \in Pids, NEW h \in Pags(q), enSwap' = [enSwap EXCEPT ![q][h] = d]
      PROVE  TiposDeSwap'
  <2>1. enSwap[q] \in [Pags(q) -> Datos] /\ DOMAIN enSwap = Pids
    BY DEF TiposDeSwap
  <2>2. enSwap'[q] = [enSwap[q] EXCEPT ![h] = d] /\ \A r \in Pids \ {q} : enSwap'[r] = enSwap[r]
    BY <1>2, <2>1
  <2>3. enSwap' = [r \in Pids |-> enSwap'[r]]
    BY <1>2, <2>1
  <2>4. ASSUME NEW r \in Pids
        PROVE  enSwap'[r] \in [Pags(r) -> Datos]
    <3>1. CASE r = q
      BY <2>1, <2>2, <3>1
    <3>2. CASE r # q
      BY <2>2, <3>2 DEF TiposDeSwap
    <3> QED BY <3>1, <3>2
  <2> QED BY <2>3, <2>4 DEF TiposDeSwap
<1> QED BY <1>1, <1>2 DEF TiposDeSwap

LEMMA ElegirVictimaPreserva ==
  ASSUME IInv, NEW c \in Cpus, ElegirVictima(c)
  PROVE  IInv' /\ MarcosQuietos
<1> DEFINE p == Activo(c)
           g == Pagina(c)
           v == Victima(tabla[p], manecilla[p], ES_CLOCKM)
           t == TrasElegir(tabla[p], manecilla[p], ES_CLOCKM)
<1>1. CASE umc' = "indefinida" /\ UNCHANGED resto
  BY <1>1, SoloUmcPreserva DEF MarcosQuietos, MismaPresencia, resto, paginacion, marcos
<1>2. SUFFICES ASSUME ~(umc' = "indefinida" /\ UNCHANGED resto)
               PROVE  IInv' /\ MarcosQuietos
  BY <1>1
<1>3. /\ hilos[c].paso = "victima" /\ ~EnEspera(c) /\ ~Liberada(p, 0)
      /\ hilos' = [hilos EXCEPT ![c].paso = "leer", ![c].victima = v]
      /\ tabla' = [tabla EXCEPT ![p] = t]
      /\ manecilla' = [manecilla EXCEPT ![p] = ManecillaTrasElegir(tabla[p], @, ES_CLOCKM)]
      /\ enSwap' \in IF tabla[p][v].modificado
                     THEN TrasEscribir(p, v, memoria_principal[tabla[p][v].nro_marco])
                     ELSE {enSwap}
      /\ UNCHANGED <<umc, tablasDePagina, marcos, tlb, procesosEnSwap, nucleo, cpus,
                     respuesta>>
  BY <1>2 DEF ElegirVictima, EnPaso, EnEspera
<1>4. /\ p \in Pids /\ g \in Pags(p) /\ tabla[p] \in [Pags(p) -> EntradaTipo]
      /\ \A k \in Cpus \ {c} : ~EnEspera(k) => Activo(k) # p
      /\ ~tabla[p][g].presencia /\ Presentes(tabla[p]) # {}
  BY <1>3, HiloOcupado DEF Entrada, IInv, PasosCoherentes, PasoCoherente, Falta
<1>5. /\ CantPaginas[p] \in Nat \ {0} /\ Pags(p) = 0 .. CantPaginas[p] - 1
      /\ manecilla[p] \in Nat /\ DOMAIN tabla[p] = Pags(p) /\ ES_CLOCKM \in BOOLEAN
  BY <1>4, PagsEs, TlbAssumption DEF IInv, Tipos, TiposDeTablas
<1>6. v \in Presentes(tabla[p]) /\ ~t[v].uso
  BY <1>4, <1>5, VictimaEn
<1>7. v \in Pags(p) /\ v # g /\ tabla[p][v].presencia /\ v \in Nat
  BY <1>4, <1>5, <1>6 DEF Presentes
<1>8. /\ t \in [Pags(p) -> EntradaTipo]
      /\ \A h \in Pags(p) : /\ t[h].presencia = tabla[p][h].presencia
                            /\ t[h].nro_marco = tabla[p][h].nro_marco
                            /\ t[h].uso => tabla[p][h].uso
  BY <1>4, <1>5, TrasElegirEs
<1>9. Avanzar(tabla[p], v) \in Pags(p)
  BY <1>5, <1>7, ManecillaEn
<1> HIDE DEF t, v
<1>10. tabla'[p] = t /\ (\A q \in Pids \ {p} : tabla'[q] = tabla[q]) /\ DOMAIN tabla' = Pids
  BY <1>3, <1>4 DEF IInv, Tipos, TiposDeTablas
<1>11. TiposDeTablas'
  <2>1. tabla' = [q \in Pids |-> tabla'[q]] /\ \A q \in Pids : tabla'[q] \in [Pags(q) -> EntradaTipo]
    BY <1>3, <1>4, <1>8, <1>10 DEF IInv, Tipos, TiposDeTablas
  <2>2. /\ manecilla' = [q \in Pids |-> manecilla'[q]]
        /\ \A q \in Pids : manecilla'[q] \in Pags(q)
    BY <1>3, <1>4, <1>9 DEF IInv, Tipos, TiposDeTablas, ManecillaTrasElegir, v
  <2> QED BY <1>3, <2>1, <2>2 DEF IInv, Tipos, TiposDeTablas
<1>12. MismaPresencia /\ (\A q \in Pids : \A h \in Pags(q) : tabla'[q][h].uso => tabla[q][h].uso)
  BY <1>8, <1>10 DEF MismaPresencia
<1>13. Presencia' /\ LimiteDeMarcos' /\ Uso'
  BY <1>11, <1>12, MismaTabla DEF IInv, Tipos, Uso, MismaPresencia
<1>14. /\ hilos' \in [Cpus -> HiloTipo] /\ hilos'[c].paso = "leer" /\ hilos'[c].victima = v
       /\ hilos'[c].op = hilos[c].op /\ hilos'[c].dato = hilos[c].dato
       /\ hilos'[c].pag = hilos[c].pag
       /\ \A k \in Cpus \ {c} : hilos'[k] = hilos[k]
  <2>1. hilos[c] \in HiloTipo /\ hilos \in [Cpus -> HiloTipo]
    BY DEF IInv, Tipos, TiposDeHilos
  <2>2. hilos' = [hilos EXCEPT ![c] = [hilos[c] EXCEPT !.paso = "leer", !.victima = v]]
    BY <1>3
  <2>3. v \in Nat \union {-1}
    BY <1>7
  <2>4. [hilos[c] EXCEPT !.paso = "leer", !.victima = v] \in HiloTipo
    BY <2>1, <2>3 DEF HiloTipo, Pasos
  <2> QED BY <2>1, <2>2, <2>4 DEF HiloTipo
<1>15. TiposDeMarcos' /\ TiposDeHilos' /\ TiposDeSwap'
  <2>1. TiposDeMarcos'
    BY <1>3 DEF IInv, Tipos, TiposDeMarcos, marcos
  <2>2. TiposDeHilos'
    BY <1>3, <1>14, HilosBien DEF IInv, Tipos, TiposDeHilos
  <2>3. tabla[p][v].nro_marco \in Marcos
    BY <1>4, <1>7 DEF IInv, Presencia, EntradaTipo
  <2>4. memoria_principal[tabla[p][v].nro_marco] \in Datos
    BY <2>3 DEF IInv, Tipos, TiposDeMarcos
  <2> DEFINE d == memoria_principal[tabla[p][v].nro_marco]
  <2>7. enSwap' = enSwap \/ enSwap' \in TrasEscribir(p, v, d)
    BY <1>3
  <2> HIDE DEF d
  <2>5. TiposDeSwap'
    <3>1. d \in Datos /\ TiposDeSwap /\ procesosEnSwap' = procesosEnSwap
      BY <1>3, <2>4 DEF d, IInv, Tipos
    <3>2. CASE enSwap' = enSwap
      BY <3>1, <3>2 DEF TiposDeSwap
    <3>3. CASE enSwap' \in TrasEscribir(p, v, d)
      BY <1>4, <1>7, <3>1, <3>3, TrasEscribirEs
    <3> QED BY <2>7, <3>2, <3>3
  <2> QED BY <2>1, <2>2, <2>5
<1>16. TiposDeTlb' /\ Tlb'
  <2>1. DeLaTlb(tlb')
    BY <1>3, TlbIgual
  <2>2. \A k \in Cpus : /\ hilos[k].paso = "sacarTlb" => hilos'[k] = hilos[k]
                        /\ EsperaEnTlb(k)' => EsperaEnTlb(k) /\ Pagina(k)' = Pagina(k)
    BY <1>3, <1>14 DEF EsperaEnTlb, Pagina
  <2>3. \A i \in 1 .. Len(tlb') : tabla[tlb'[i].pid][tlb'[i].nroPagina].presencia =>
                                   tabla'[tlb'[i].pid][tlb'[i].nroPagina].presencia
    BY <1>3, <1>12, EntradaDeTlb DEF IInv, Tipos, MismaPresencia
  <2> QED BY <1>3, <2>1, <2>2, <2>3, TlbEstable DEF nucleo, cpus
<1>17. Programas' /\ UnHiloPorProceso'
  BY <1>3, <1>14 DEF IInv, Programas, UnHiloPorProceso, EnEspera, Activo, Pagina, nucleo, cpus
<1>18. Reservas'
  BY <1>3, <1>7, <1>14 DEF IInv, Reservas, Reserva, marcos
<1>19. PasosCoherentes'
  <2>1. ASSUME NEW k \in Cpus \ {c}
        PROVE  PasoCoherente(k)'
    <3>1. ~EnEspera(k) => Activo(k) \in Pids \ {p}
      BY <1>4 DEF IInv, UnHiloPorProceso
    <3> QED BY <1>3, <1>11, <1>14, <1>10, <3>1, PasoEstable, LiberadaQuieta
            DEF IInv, PasosCoherentes, cpus, nucleo
  <2>2. Activo(c)' = p /\ Pagina(c)' = g
    BY <1>3, <1>14 DEF Activo, Pagina, cpus
  <2>3. ~tabla'[p][g].presencia /\ tabla'[p][v].presencia /\ ~tabla'[p][v].uso
    BY <1>4, <1>6, <1>7, <1>8, <1>10
  <2>4. Falta(c)' /\ TieneOLiberada(Activo(c), hilos[c].victima)'
    BY <1>14, <2>2, <2>3 DEF Falta, Entrada, TieneOLiberada
  <2>5. ~Reserva(c)' /\ v \in Pags(p) \ {g}
    BY <1>7, <1>14 DEF Reserva
  <2>6. PasoCoherente(c)'
    BY <1>7, <1>14, <2>2, <2>3, <2>4, <2>5 DEF PasoCoherente
  <2> QED BY <2>1, <2>6 DEF PasosCoherentes
<1>20. IInv'
  BY <1>11, <1>13, <1>15, <1>16, <1>17, <1>18, <1>19 DEF IInv, Tipos
<1>21. MarcosQuietos
  BY <1>3, <1>12 DEF MarcosQuietos, marcos
<1> QED BY <1>20, <1>21

LEMMA LeerDeSwapPreserva ==
  ASSUME IInv, NEW c \in Cpus, LeerDeSwap(c)
  PROVE  IInv'
<1>1. CASE Morir
  BY <1>1, SoloUmcPreserva DEF Morir
<1>2. SUFFICES ASSUME ~Morir
               PROVE  IInv'
  BY <1>1
<1> DEFINE paso == IF hilos[c].victima = -1 THEN "instalar" ELSE "pisar"
           d == enSwap[Activo(c)][Pagina(c)]
<1>3. /\ hilos[c].paso = "leer" /\ ~EnEspera(c)
      /\ hilos' = [hilos EXCEPT ![c].leido = d, ![c].paso = paso]
      /\ UNCHANGED <<umc, paginacion, marcos, tlb, swap, nucleo, cpus, respuesta>>
  BY <1>2 DEF LeerDeSwap, EnPaso, EnEspera
<1>4. d \in Datos
  BY <1>3, HiloOcupado DEF IInv, Tipos, TiposDeSwap
<1>5. /\ hilos' \in [Cpus -> HiloTipo] /\ hilos'[c].paso = paso /\ hilos'[c].leido = d
      /\ hilos'[c].op = hilos[c].op /\ hilos'[c].dato = hilos[c].dato
      /\ hilos'[c].pag = hilos[c].pag /\ hilos'[c].victima = hilos[c].victima
      /\ hilos'[c].marco = hilos[c].marco
      /\ \A k \in Cpus \ {c} : hilos'[k] = hilos[k]
  BY <1>3, <1>4 DEF IInv, Tipos, TiposDeHilos, HiloTipo, Pasos
<1> HIDE DEF d
<1>6. /\ TiposDeTablas' /\ Presencia' /\ Uso' /\ LimiteDeMarcos'
      /\ Programas' /\ UnHiloPorProceso'
      /\ \A k \in Cpus \ {c} : PasoCoherente(k)'
  BY <1>3, <1>5, SoloHilo DEF swap
<1>7. TiposDeMarcos' /\ TiposDeHilos' /\ TiposDeSwap'
  <2>1. TiposDeMarcos' /\ TiposDeSwap'
    BY <1>3 DEF IInv, Tipos, TiposDeMarcos, TiposDeSwap, marcos, swap
  <2> QED BY <1>3, <1>4, <1>5, <2>1, HilosBien DEF IInv, Tipos, TiposDeHilos
<1>8. TiposDeTlb' /\ Tlb'
  <2>1. DeLaTlb(tlb')
    BY <1>3, TlbIgual
  <2> QED BY <1>3, <1>5, <2>1, TlbEstable DEF EsperaEnTlb, Pagina, nucleo, cpus, paginacion, swap
<1>9. PasoCoherente(c)'
  BY <1>3, <1>5 DEF IInv, PasosCoherentes, PasoCoherente, Falta, Entrada, Activo, Pagina,
                    HayLugar, TieneOLiberada, Liberada, Reserva, paginacion, cpus, nucleo
<1>10. Reservas'
  BY <1>3, <1>5 DEF IInv, Reservas, Reserva, marcos, PasosCoherentes, PasoCoherente
<1> QED BY <1>6, <1>7, <1>8, <1>9, <1>10 DEF IInv, Tipos, PasosCoherentes

LEMMA InstalarEnMarcoPreserva ==
  ASSUME IInv, NEW c \in Cpus, InstalarEnMarco(c)
  PROVE  IInv' /\ SeInstala(c)
<1> DEFINE p == Activo(c)
           g == Pagina(c)
           m == hilos[c].marco
           e == [tabla[p][g] EXCEPT !.nro_marco = m, !.presencia = TRUE, !.uso = TRUE]
<1>1. /\ hilos[c].paso = "instalar" /\ ~EnEspera(c) /\ Va(c, ConPagina)
      /\ memoria_principal' = [memoria_principal EXCEPT ![m] = hilos[c].leido]
      /\ tabla' = [tabla EXCEPT ![p][g] = e]
      /\ bitmap_frames' = bitmap_frames \union {m} /\ memoriaposta' = Nadie
      /\ UNCHANGED <<umc, tablasDePagina, manecilla, tlb, swap, nucleo, cpus, respuesta>>
  BY DEF InstalarEnMarco, EnPaso, EnEspera
<1>2. /\ hilos[c].victima = -1 /\ Reserva(c) /\ ~tabla[p][g].presencia
      /\ Cardinality(Presentes(tabla[p])) < MARCO_X_PROC
      /\ m \in Marcos \ bitmap_frames /\ memoriaposta = c /\ hilos[c].leido \in Datos
  BY <1>1 DEF IInv, PasosCoherentes, PasoCoherente, Falta, HayLugar, Entrada, Reserva,
              Reservas, Tipos, TiposDeHilos
<1>3. /\ p \in Pids /\ g \in Pags(p) /\ tabla[p][g] \in EntradaTipo
      /\ \A k \in Cpus \ {c} : ~EnEspera(k) => Activo(k) # p
  BY <1>1, HiloOcupado DEF Entrada
<1>4. e \in EntradaTipo /\ e.presencia /\ e.nro_marco = m /\ e.uso /\ m # -1
  <2>1. m \in Marcos /\ m # -1
    BY <1>2, MarcosAssumption DEF Marcos
  <2>2. e \in EntradaTipo /\ e.presencia /\ e.nro_marco = m /\ e.uso
    BY <1>3, <2>1 DEF EntradaTipo
  <2> QED BY <2>1, <2>2
<1> HIDE DEF e
<1>5. /\ TiposDeTablas' /\ tabla'[p][g] = e
      /\ \A h \in Pags(p) \ {g} : tabla'[p][h] = tabla[p][h]
      /\ \A q \in Pids \ {p} : tabla'[q] = tabla[q]
  <2>1. (\A q \in Pids : manecilla'[q] \in Pags(q)) /\ manecilla' = [q \in Pids |-> manecilla'[q]]
    BY <1>1 DEF IInv, Tipos, TiposDeTablas
  <2> QED BY <1>1, <1>3, <1>4, <2>1, CambiaEntrada DEF IInv, Tipos
<1>6. Presencia' /\ Uso'
  BY <1>4, <1>5 DEF IInv, Presencia, Uso, Marcos
<1>7. LimiteDeMarcos'
  <2>1. ASSUME NEW q \in Pids \ {p}
        PROVE  Cardinality(Presentes(tabla'[q])) <= MARCO_X_PROC
    BY <1>5 DEF IInv, LimiteDeMarcos
  <2>2. Presentes(tabla'[p]) = Presentes(tabla[p]) \union {g}
    BY <1>3, <1>4, <1>5 DEF IInv, Tipos, TiposDeTablas, Presentes
  <2>3. /\ IsFiniteSet(Presentes(tabla[p])) /\ Cardinality(Presentes(tabla[p])) \in Nat
        /\ g \notin Presentes(tabla[p])
    BY <1>2, <1>3, PresentesFinitas DEF IInv, Tipos
  <2>4. Cardinality(Presentes(tabla'[p])) = Cardinality(Presentes(tabla[p])) + 1
    BY <2>2, <2>3, FS_AddElement
  <2>5. Cardinality(Presentes(tabla'[p])) <= MARCO_X_PROC
    BY <1>2, <2>3, <2>4, MarcoXProcAssumption
  <2> QED BY <2>1, <2>5 DEF LimiteDeMarcos
<1>8. PICK paso \in {"cargarTlb", "acceder"} :
        Va(c, paso) /\ (paso = "cargarTlb" => ENTRADAS_TLB > 0)
  BY <1>1 DEF ConPagina
<1>9. /\ hilos' \in [Cpus -> HiloTipo] /\ hilos'[c].paso = paso
      /\ hilos'[c].op = hilos[c].op /\ hilos'[c].pag = hilos[c].pag
      /\ hilos'[c].dato = hilos[c].dato /\ hilos'[c].victima = -1
      /\ \A k \in Cpus \ {c} : hilos'[k] = hilos[k]
  BY <1>2, <1>8, VaEs DEF IInv, Tipos, Pasos
<1>10. TiposDeMarcos' /\ TiposDeHilos' /\ TiposDeSwap'
  <2>1. TiposDeMarcos' /\ TiposDeSwap'
    BY <1>1, <1>2 DEF IInv, Tipos, TiposDeMarcos, TiposDeSwap, swap
  <2> QED BY <1>1, <1>9, <2>1, HilosBien DEF IInv, Tipos, TiposDeHilos
<1>11. TiposDeTlb' /\ Tlb'
  <2>1. DeLaTlb(tlb')
    BY <1>1, TlbIgual
  <2>2. \A k \in Cpus : /\ hilos[k].paso = "sacarTlb" => hilos'[k] = hilos[k]
                        /\ EsperaEnTlb(k)' => EsperaEnTlb(k) /\ Pagina(k)' = Pagina(k)
    BY <1>1, <1>9 DEF EsperaEnTlb, Pagina
  <2>3. \A i \in 1 .. Len(tlb') : tabla[tlb'[i].pid][tlb'[i].nroPagina].presencia =>
                                   tabla'[tlb'[i].pid][tlb'[i].nroPagina].presencia
    BY <1>1, <1>4, <1>5, EntradaDeTlb DEF IInv, Tipos
  <2> QED BY <1>1, <2>1, <2>2, <2>3, TlbEstable DEF nucleo, cpus, swap
<1>12. Programas' /\ UnHiloPorProceso'
  BY <1>1, <1>9 DEF IInv, Programas, UnHiloPorProceso, EnEspera, Activo, Pagina, nucleo, cpus, swap
<1>13. Reservas'
  <2>1. \A k \in Cpus : ~Reserva(k)'
    BY <1>2, <1>9 DEF IInv, Reservas, Reserva
  <2> QED BY <1>1, <2>1, NombresAssumption DEF Reservas
<1>14. PasosCoherentes'
  <2>1. ASSUME NEW k \in Cpus \ {c}
        PROVE  PasoCoherente(k)'
    <3>1. ~EnEspera(k) => Activo(k) \in Pids \ {p}
      BY <1>3 DEF IInv, UnHiloPorProceso
    <3> QED BY <1>1, <1>5, <1>9, <3>1, PasoEstable, LiberadaQuieta
            DEF IInv, PasosCoherentes, cpus, nucleo
  <2>2. Activo(c)' = p /\ Pagina(c)' = g
    BY <1>1, <1>9 DEF Activo, Pagina, cpus
  <2>3. TieneOLiberada(Activo(c), Pagina(c))'
    BY <1>4, <1>5, <2>2 DEF TieneOLiberada
  <2>4. PasoCoherente(c)'
    BY <1>8, <1>9, <2>3 DEF PasoCoherente, Reserva
  <2> QED BY <2>1, <2>4 DEF PasosCoherentes
<1>15. IInv'
  BY <1>5, <1>6, <1>7, <1>10, <1>11, <1>12, <1>13, <1>14 DEF IInv, Tipos
<1>16. SeInstala(c)
  BY <1>1, <1>2, <1>4, <1>5 DEF SeInstala, Ocupa, CambiaSolo, nucleo
<1> QED BY <1>15, <1>16

LEMMA PisarVictimaPreserva ==
  ASSUME IInv, NEW c \in Cpus, PisarVictima(c)
  PROVE  IInv' /\ (UNCHANGED resto \/ SePisa(c))
<1> DEFINE p == Activo(c)
           g == Pagina(c)
           v == hilos[c].victima
           m == tabla[p][v].nro_marco
<1>1. CASE umc' = "indefinida" /\ UNCHANGED resto
  BY <1>1, SoloUmcPreserva
<1>2. SUFFICES ASSUME ~(umc' = "indefinida" /\ UNCHANGED resto)
               PROVE  IInv' /\ (UNCHANGED resto \/ SePisa(c))
  BY <1>1
<1>3. /\ hilos[c].paso = "pisar" /\ ~EnEspera(c) /\ ~Liberada(p, v)
      /\ memoria_principal' = [memoria_principal EXCEPT ![m] = hilos[c].leido]
      /\ tabla' = [tabla EXCEPT
                     ![p][g] = [nro_marco |-> m, presencia |-> TRUE,
                                modificado |-> FALSE, uso |-> TRUE],
                     ![p][v].presencia = FALSE, ![p][v].nro_marco = -1]
      /\ Va(c, IF ENTRADAS_TLB > 0 THEN "sacarTlb" ELSE "acceder")
      /\ UNCHANGED <<umc, tablasDePagina, manecilla, bitmap_frames, memoriaposta, tlb, swap,
                     nucleo, cpus, respuesta>>
  BY <1>2 DEF PisarVictima, EnPaso, EnEspera
<1>4. /\ p \in Pids /\ g \in Pags(p) /\ tabla[p] \in [Pags(p) -> EntradaTipo]
      /\ \A k \in Cpus \ {c} : ~EnEspera(k) => Activo(k) # p
      /\ ~tabla[p][g].presencia /\ v \in Pags(p) \ {g} /\ tabla[p][v].presencia
      /\ ~tabla[p][v].uso /\ hilos[c].leido \in Datos
  BY <1>3, HiloOcupado
     DEF Entrada, IInv, PasosCoherentes, PasoCoherente, Falta, TieneOLiberada, Tipos, TiposDeHilos
<1>5. m \in Marcos /\ m # -1
  BY <1>4 DEF IInv, Presencia, EntradaTipo
<1>6. /\ tabla'[p] \in [Pags(p) -> EntradaTipo]
      /\ tabla'[p][g].presencia /\ tabla'[p][g].nro_marco = m
      /\ ~tabla'[p][v].presencia /\ tabla'[p][v].nro_marco = -1 /\ ~tabla'[p][v].uso
      /\ \A h \in Pags(p) \ {g, v} : tabla'[p][h] = tabla[p][h]
      /\ \A q \in Pids \ {p} : tabla'[q] = tabla[q]
      /\ tabla' = [q \in Pids |-> tabla'[q]]
  <2> DEFINE en == [nro_marco |-> m, presencia |-> TRUE, modificado |-> FALSE, uso |-> TRUE]
             ev == [tabla[p][v] EXCEPT !.presencia = FALSE, !.nro_marco = -1]
  <2>1. tabla' = [tabla EXCEPT ![p] = [tabla[p] EXCEPT ![g] = en, ![v] = ev]]
    <3>1. DOMAIN tabla = Pids /\ DOMAIN tabla[p] = Pags(p)
      BY <1>4 DEF IInv, Tipos, TiposDeTablas
    <3> QED BY <1>3, <1>4, <3>1
  <2>2. en \in EntradaTipo /\ ev \in EntradaTipo
    BY <1>4, <1>5 DEF EntradaTipo
  <2>3. /\ en.presencia /\ en.nro_marco = m
        /\ ~ev.presencia /\ ev.nro_marco = -1 /\ ~ev.uso
    BY <1>4 DEF EntradaTipo
  <2> HIDE DEF en, ev
  <2>4. tabla'[p] = [tabla[p] EXCEPT ![g] = en, ![v] = ev]
    BY <1>4, <2>1 DEF IInv, Tipos, TiposDeTablas
  <2>5. (\A q \in Pids \ {p} : tabla'[q] = tabla[q]) /\ tabla' = [q \in Pids |-> tabla'[q]]
    BY <1>4, <2>1 DEF IInv, Tipos, TiposDeTablas
  <2>6. /\ tabla'[p] \in [Pags(p) -> EntradaTipo] /\ tabla'[p][g] = en /\ tabla'[p][v] = ev
        /\ \A h \in Pags(p) \ {g, v} : tabla'[p][h] = tabla[p][h]
    BY <1>4, <2>2, <2>4
  <2> QED BY <2>3, <2>5, <2>6
<1>7. TiposDeTablas'
  <2>1. tabla' = [q \in Pids |-> tabla'[q]]
    BY <1>3, <1>6
  <2>2. \A q \in Pids : tabla'[q] \in [Pags(q) -> EntradaTipo]
    BY <1>6 DEF IInv, Tipos, TiposDeTablas
  <2> QED BY <1>3, <2>1, <2>2 DEF IInv, Tipos, TiposDeTablas
<1>8. Presencia' /\ Uso'
  BY <1>5, <1>6 DEF IInv, Presencia, Uso
<1>9. LimiteDeMarcos'
  <2>1. ASSUME NEW q \in Pids \ {p}
        PROVE  Cardinality(Presentes(tabla'[q])) <= MARCO_X_PROC
    BY <1>6 DEF IInv, LimiteDeMarcos
  <2>2. Presentes(tabla'[p]) = (Presentes(tabla[p]) \union {g}) \ {v}
    BY <1>4, <1>6 DEF Presentes
  <2>3. /\ IsFiniteSet(Presentes(tabla[p])) /\ Cardinality(Presentes(tabla[p])) \in Nat
        /\ g \notin Presentes(tabla[p]) /\ v \in Presentes(tabla[p])
    BY <1>4, PresentesFinitas DEF IInv, Tipos
  <2>4. /\ IsFiniteSet(Presentes(tabla[p]) \union {g})
        /\ Cardinality(Presentes(tabla[p]) \union {g}) = Cardinality(Presentes(tabla[p])) + 1
    BY <2>3, FS_AddElement
  <2>5. Cardinality(Presentes(tabla'[p])) = Cardinality(Presentes(tabla[p]))
    <3> DEFINE S == Presentes(tabla[p]) \union {g}
    <3>1. v \in S /\ IsFiniteSet(S)
      BY <2>3, <2>4
    <3>2. Cardinality(S \ {v}) = Cardinality(S) - 1
      BY <3>1, FS_RemoveElement
    <3> QED BY <2>2, <2>3, <2>4, <3>2
  <2> QED BY <1>4, <2>1, <2>5 DEF IInv, LimiteDeMarcos
<1>10. PICK paso \in {"sacarTlb", "acceder"} :
         Va(c, paso) /\ paso = IF ENTRADAS_TLB > 0 THEN "sacarTlb" ELSE "acceder"
  BY <1>3
<1>11. /\ hilos' \in [Cpus -> HiloTipo] /\ hilos'[c].paso = paso
       /\ hilos'[c].op = hilos[c].op /\ hilos'[c].pag = hilos[c].pag
       /\ hilos'[c].dato = hilos[c].dato /\ hilos'[c].victima = v
       /\ \A k \in Cpus \ {c} : hilos'[k] = hilos[k]
  BY <1>10, VaEs DEF IInv, Tipos, Pasos
<1>12. TiposDeMarcos' /\ TiposDeHilos' /\ TiposDeSwap'
  <2>1. TiposDeMarcos' /\ TiposDeSwap'
    BY <1>3, <1>4, <1>5 DEF IInv, Tipos, TiposDeMarcos, TiposDeSwap, swap
  <2> QED BY <1>3, <1>10, <1>11, <2>1, HilosBien DEF IInv, Tipos, TiposDeHilos
<1>13. TiposDeTlb' /\ Tlb'
  <2>1. DeLaTlb(tlb')
    BY <1>3, TlbIgual
  <2>2. \A k \in Cpus : /\ hilos[k].paso = "sacarTlb" => hilos'[k] = hilos[k]
                        /\ EsperaEnTlb(k)' => EsperaEnTlb(k) /\ Pagina(k)' = Pagina(k)
    BY <1>3, <1>10, <1>11 DEF EsperaEnTlb, Pagina
  <2>3. ASSUME NEW i \in 1 .. Len(tlb')
        PROVE  \/ tabla[tlb'[i].pid][tlb'[i].nroPagina].presencia =>
                    tabla'[tlb'[i].pid][tlb'[i].nroPagina].presencia
               \/ \E k \in Cpus : /\ hilos'[k].paso = "sacarTlb" /\ Activo(k)' = tlb'[i].pid
                                  /\ hilos'[k].victima = tlb'[i].nroPagina
    <3>1. tlb'[i].pid \in Pids /\ tlb'[i].nroPagina \in Pags(tlb'[i].pid) /\ ENTRADAS_TLB > 0
      <4>1. i \in 1 .. Len(tlb) /\ Len(tlb) <= ENTRADAS_TLB /\ Len(tlb) \in Nat
        <5>1. tlb' = tlb
          BY <1>3
        <5>2. Len(tlb) <= ENTRADAS_TLB
          BY DEF IInv, Tlb
        <5>3. Len(tlb) \in Nat
          BY DEF IInv, Tipos, TiposDeTlb
        <5> QED BY <5>1, <5>2, <5>3, Zenon
      <4>2. TiposDeTlb /\ tlb' = tlb
        BY <1>3 DEF IInv, Tipos
      <4>3. ENTRADAS_TLB > 0
        BY <4>1, TlbAssumption
      <4> QED BY <4>1, <4>2, <4>3, EntradaDeTlb
    <3>2. CASE tlb'[i].pid = p /\ tlb'[i].nroPagina = v
      BY <1>3, <1>10, <1>11, <3>1, <3>2 DEF Activo, cpus
    <3>3. CASE ~(tlb'[i].pid = p /\ tlb'[i].nroPagina = v)
      BY <1>6, <3>1, <3>3
    <3> QED BY <3>2, <3>3
  <2> QED BY <1>3, <2>1, <2>2, <2>3, TlbEstable DEF nucleo, cpus, swap
<1>14. Programas' /\ UnHiloPorProceso'
  <2>1. Programas'
    BY <1>3 DEF IInv, Programas, nucleo, swap
  <2>2. UnHiloPorProceso'
    BY <1>3, <1>11, HiloSigue
  <2> QED BY <2>1, <2>2
<1>15. Reservas'
  BY <1>3, <1>10, <1>11 DEF IInv, Reservas, Reserva
<1>16. PasosCoherentes'
  <2>1. ASSUME NEW k \in Cpus \ {c}
        PROVE  PasoCoherente(k)'
    <3>1. ~EnEspera(k) => Activo(k) \in Pids \ {p}
      BY <1>4 DEF IInv, UnHiloPorProceso
    <3> QED BY <1>3, <1>6, <1>7, <1>11, <3>1, PasoEstable, LiberadaQuieta
            DEF IInv, PasosCoherentes, cpus, nucleo
  <2>2. Activo(c)' = p /\ Pagina(c)' = g
    BY <1>3, <1>11 DEF Activo, Pagina, cpus
  <2>3. TieneOLiberada(Activo(c), Pagina(c))'
    BY <1>6, <2>2 DEF TieneOLiberada
  <2>4. PasoCoherente(c)'
    BY <1>10, <1>11, <2>3 DEF PasoCoherente, Reserva
  <2> QED BY <2>1, <2>4 DEF PasosCoherentes
<1>17. IInv'
  BY <1>7, <1>8, <1>9, <1>12, <1>13, <1>14, <1>15, <1>16 DEF IInv, Tipos
<1>18. SePisa(c)
  BY <1>3, <1>4, <1>5, <1>6 DEF SePisa, Ocupa, CambiaSolo, nucleo
<1> QED BY <1>17, <1>18

LEMMA EliminarPaginaTLBPreserva ==
  ASSUME IInv, NEW c \in Cpus, EliminarPaginaTLB(c)
  PROVE  IInv'
<1> DEFINE e == EnTlb(Activo(c), hilos[c].victima)
<1>1. /\ hilos[c].paso = "sacarTlb" /\ ~EnEspera(c) /\ Va(c, "cargarTlb")
      /\ tlb' = RemoveFirst(tlb, e)
      /\ UNCHANGED <<umc, paginacion, marcos, swap, nucleo, cpus, respuesta>>
  BY DEF EliminarPaginaTLB, EnPaso, EnEspera
<1>2. /\ hilos' \in [Cpus -> HiloTipo] /\ hilos'[c].paso = "cargarTlb"
      /\ hilos'[c].op = hilos[c].op /\ hilos'[c].dato = hilos[c].dato
      /\ hilos'[c].pag = hilos[c].pag
      /\ \A k \in Cpus \ {c} : hilos'[k] = hilos[k]
  BY <1>1, VaEs DEF IInv, Tipos, Pasos
<1>3. /\ TiposDeTablas' /\ Presencia' /\ Uso' /\ LimiteDeMarcos'
      /\ Programas' /\ UnHiloPorProceso'
      /\ \A k \in Cpus \ {c} : PasoCoherente(k)'
  BY <1>1, <1>2, SoloHilo DEF swap
<1>4. TiposDeMarcos' /\ TiposDeHilos' /\ TiposDeSwap'
  <2>1. TiposDeMarcos' /\ TiposDeSwap'
    BY <1>1 DEF IInv, Tipos, TiposDeMarcos, TiposDeSwap, marcos, swap
  <2> QED BY <1>1, <1>2, <2>1, HilosBien DEF IInv, Tipos, TiposDeHilos
<1>5. DeLaTlb(tlb') /\ \A i \in 1 .. Len(tlb') : tlb'[i] # e
  <2>1. CASE tlb' = tlb /\ ~\E i \in 1 .. Len(tlb) : tlb[i] = e
    BY <2>1, TlbIgual
  <2>2. ASSUME NEW i \in 1 .. Len(tlb), tlb[i] = e, tlb' = RemoveAt(tlb, i)
        PROVE  DeLaTlb(tlb') /\ \A j \in 1 .. Len(tlb') : tlb'[j] # e
    BY <2>2, QuitarDeTlb, TlbIgual DEF IInv, Tipos
  <2> QED BY <1>1, <2>1, <2>2, RemoveFirstEs DEF IInv, Tipos, TiposDeTlb
<1>6. TiposDeTlb' /\ Tlb'
  BY <1>1, <1>2, <1>5, TlbEstable DEF EsperaEnTlb, Pagina, nucleo, cpus, paginacion, swap
<1>7. PasoCoherente(c)'
  BY <1>1, <1>2 DEF IInv, PasosCoherentes, PasoCoherente, TieneOLiberada, Liberada, Reserva,
                    Activo, Pagina, paginacion, nucleo, cpus
<1>8. Reservas'
  BY <1>1, <1>2 DEF IInv, Reservas, Reserva, marcos
<1> QED BY <1>3, <1>4, <1>6, <1>7, <1>8 DEF IInv, Tipos, PasosCoherentes

\* The oldest entry makes room for the new one.
LEMMA CargarEs ==
  ASSUME TiposDeTlb, SinRepetir(tlb), Len(tlb) <= ENTRADAS_TLB, ENTRADAS_TLB > 0,
         NEW e \in [pid : Pids, nroPagina : Nat], \A i \in 1 .. Len(tlb) : tlb[i] # e,
         tlb' = Append(IF Len(tlb) = ENTRADAS_TLB THEN Tail(tlb) ELSE tlb, e)
  PROVE  /\ tlb' \in Seq([pid : Pids, nroPagina : Nat]) /\ SinRepetir(tlb')
         /\ Len(tlb') <= ENTRADAS_TLB
         /\ \A j \in 1 .. Len(tlb') : tlb'[j] = e \/ \E i \in 1 .. Len(tlb) : tlb'[j] = tlb[i]
<1> DEFINE S == [pid : Pids, nroPagina : Nat]
           r == IF Len(tlb) = ENTRADAS_TLB THEN Tail(tlb) ELSE tlb
<1>1. tlb \in Seq(S) /\ Len(tlb) \in Nat /\ ENTRADAS_TLB \in Nat
  BY TlbAssumption DEF TiposDeTlb
<1>2. /\ r \in Seq(S) /\ Len(r) \in Nat /\ Len(r) < ENTRADAS_TLB /\ SinRepetir(r)
      /\ \A j \in 1 .. Len(r) : \E i \in 1 .. Len(tlb) : r[j] = tlb[i]
  <2>1. CASE Len(tlb) = ENTRADAS_TLB
    <3>1. tlb # <<>> /\ r = Tail(tlb)
      BY <1>1, <2>1
    <3> HIDE DEF r
    <3>2. /\ r \in Seq(S) /\ Len(r) = Len(tlb) - 1
          /\ \A j \in 1 .. Len(r) : r[j] = tlb[j + 1]
      BY <1>1, <3>1, HeadTailProperties
    <3>3. \A j \in 1 .. Len(r) : j + 1 \in 1 .. Len(tlb)
      BY <1>1, <3>2
    <3>4. SinRepetir(r)
      BY <3>2, <3>3 DEF SinRepetir
    <3>5. \A j \in 1 .. Len(r) : \E i \in 1 .. Len(tlb) : r[j] = tlb[i]
      BY <3>2, <3>3
    <3>6. Len(r) \in Nat /\ Len(r) < ENTRADAS_TLB
      BY <1>1, <2>1, <3>2
    <3> QED BY <3>2, <3>4, <3>5, <3>6
  <2>2. CASE Len(tlb) # ENTRADAS_TLB
    BY <1>1, <2>2
  <2> QED BY <2>1, <2>2
<1> HIDE DEF r
<1>3. /\ tlb' \in Seq(S) /\ Len(tlb') = Len(r) + 1
      /\ \A j \in 1 .. Len(r) : tlb'[j] = r[j]
      /\ tlb'[Len(r) + 1] = e
  BY <1>2, AppendProperties DEF r
<1>4. \A j \in 1 .. Len(r) : r[j] # e
  BY <1>2
<1>5. SinRepetir(tlb')
  <2>1. tlb' = Append(r, e) /\ r \in Seq(S) /\ e \in S /\ SinRepetir(r)
    BY <1>2 DEF r
  <2> QED BY <1>4, <2>1, AgregarSinRepetir
<1>6. Len(tlb') <= ENTRADAS_TLB
  BY <1>1, <1>2, <1>3
<1>7. ASSUME NEW j \in 1 .. Len(tlb')
      PROVE  tlb'[j] = e \/ \E i \in 1 .. Len(tlb) : tlb'[j] = tlb[i]
  <2>1. j \in 1 .. Len(r) \/ j = Len(r) + 1
    BY <1>2, <1>3
  <2> QED BY <1>2, <1>3, <2>1
<1> QED BY <1>3, <1>5, <1>6, <1>7

LEMMA CargarEnTLBPreserva ==
  ASSUME IInv, NEW c \in Cpus, CargarEnTLB(c)
  PROVE  IInv'
<1> DEFINE p == Activo(c)
           g == Pagina(c)
           e == EnTlb(p, g)
<1>1. /\ hilos[c].paso = "cargarTlb" /\ ~EnEspera(c) /\ Va(c, "acceder")
      /\ tlb' = Append(IF Len(tlb) = ENTRADAS_TLB THEN Tail(tlb) ELSE tlb, e)
      /\ UNCHANGED <<umc, paginacion, marcos, swap, nucleo, cpus, respuesta>>
  BY DEF CargarEnTLB, EnPaso, EnEspera
<1>2. /\ hilos' \in [Cpus -> HiloTipo] /\ hilos'[c].paso = "acceder"
      /\ hilos'[c].op = hilos[c].op /\ hilos'[c].dato = hilos[c].dato
      /\ hilos'[c].pag = hilos[c].pag
      /\ \A k \in Cpus \ {c} : hilos'[k] = hilos[k]
  BY <1>1, VaEs DEF IInv, Tipos, Pasos
<1>3. /\ TiposDeTablas' /\ Presencia' /\ Uso' /\ LimiteDeMarcos'
      /\ Programas' /\ UnHiloPorProceso'
      /\ \A k \in Cpus \ {c} : PasoCoherente(k)'
  BY <1>1, <1>2, SoloHilo DEF swap
<1>4. TiposDeMarcos' /\ TiposDeHilos' /\ TiposDeSwap'
  <2>1. TiposDeMarcos' /\ TiposDeSwap'
    BY <1>1 DEF IInv, Tipos, TiposDeMarcos, TiposDeSwap, marcos, swap
  <2> QED BY <1>1, <1>2, <2>1, HilosBien DEF IInv, Tipos, TiposDeHilos
<1>5. /\ p \in Pids /\ g \in Pags(p) /\ g \in Nat /\ e \in [pid : Pids, nroPagina : Nat]
      /\ \A k \in Cpus \ {c} : ~EnEspera(k) => Activo(k) # p
      /\ tabla[p][g].presencia \/ Liberada(p, g)
      /\ ENTRADAS_TLB > 0
      /\ \A i \in 1 .. Len(tlb) : tlb[i] # e
  BY <1>1, HiloOcupado, PagsEs
     DEF EnTlb, IInv, PasosCoherentes, PasoCoherente, TieneOLiberada, Tlb, EsperaEnTlb
<1>6. /\ tlb' \in Seq([pid : Pids, nroPagina : Nat]) /\ SinRepetir(tlb')
      /\ Len(tlb') <= ENTRADAS_TLB
      /\ \A j \in 1 .. Len(tlb') : tlb'[j] = e \/ \E i \in 1 .. Len(tlb) : tlb'[j] = tlb[i]
  BY <1>1, <1>5, TlbIgual, CargarEs DEF IInv, Tipos, Tlb
<1>7. ASSUME NEW j \in 1 .. Len(tlb')
      PROVE  /\ tlb'[j].nroPagina \in Pags(tlb'[j].pid)
             /\ programa[tlb'[j].pid] # "nuevo"
             /\ \/ tlb'[j].pid \notin procesosEnSwap
                \/ tabla[tlb'[j].pid][tlb'[j].nroPagina].presencia
                \/ \E k \in Cpus : /\ hilos'[k].paso = "sacarTlb"
                                   /\ Activo(k) = tlb'[j].pid
                                   /\ hilos'[k].victima = tlb'[j].nroPagina
             /\ \A k \in Cpus : EsperaEnTlb(k)' => tlb'[j] # EnTlb(Activo(k), Pagina(k)')
  <2>1. CASE tlb'[j] = e
    <3>1. tlb'[j].pid = p /\ tlb'[j].nroPagina = g
      BY <2>1 DEF EnTlb
    <3>2. programa[p] \in {"admitido", "abortado", "final"}
      BY <1>1, <1>5, NombresAssumption DEF IInv, UnHiloPorProceso
    <3>3. p \notin procesosEnSwap \/ tabla[p][g].presencia
      BY <1>5 DEF IInv, Programas, Liberada
    <3>4. ASSUME NEW k \in Cpus, EsperaEnTlb(k)'
          PROVE  Activo(k) # p
      BY <1>2, <1>5, <3>4 DEF EsperaEnTlb, EnEspera
    <3> QED BY <1>5, <2>1, <3>1, <3>2, <3>3, <3>4 DEF EnTlb
  <2>2. ASSUME NEW i \in 1 .. Len(tlb), tlb'[j] = tlb[i]
        PROVE  /\ tlb'[j].nroPagina \in Pags(tlb'[j].pid)
               /\ programa[tlb'[j].pid] # "nuevo"
               /\ \/ tlb'[j].pid \notin procesosEnSwap
                  \/ tabla[tlb'[j].pid][tlb'[j].nroPagina].presencia
                  \/ \E k \in Cpus : /\ hilos'[k].paso = "sacarTlb"
                                     /\ Activo(k) = tlb'[j].pid
                                     /\ hilos'[k].victima = tlb'[j].nroPagina
               /\ \A k \in Cpus : EsperaEnTlb(k)' => tlb'[j] # EnTlb(Activo(k), Pagina(k)')
    <3>1. tlb[i].nroPagina \in Pags(tlb[i].pid)
      BY EntradaDeTlb DEF IInv, Tipos
    <3>2. \A k \in Cpus : /\ hilos[k].paso = "sacarTlb" => hilos'[k] = hilos[k]
                          /\ EsperaEnTlb(k)' => EsperaEnTlb(k) /\ Pagina(k)' = Pagina(k)
      BY <1>1, <1>2 DEF EsperaEnTlb, Pagina
    <3> QED BY <2>2, <3>1, <3>2 DEF IInv, Tlb
  <2> QED BY <1>6, <2>1, <2>2
<1>8. TiposDeTlb' /\ Tlb'
  <2>1. TiposDeTlb'
    BY <1>6, <1>7 DEF TiposDeTlb
  <2>2. /\ programa' = programa /\ procesosEnSwap' = procesosEnSwap /\ tabla' = tabla
        /\ \A k \in Cpus : Activo(k)' = Activo(k)
    BY <1>1 DEF nucleo, swap, paginacion, cpus, Activo
  <2> QED BY <1>6, <1>7, <2>1, <2>2 DEF Tlb, SinRepetir
<1>9. PasoCoherente(c)'
  BY <1>1, <1>2 DEF IInv, PasosCoherentes, PasoCoherente, TieneOLiberada, Liberada, Reserva,
                    Activo, Pagina, paginacion, nucleo, cpus
<1>10. Reservas'
  BY <1>1, <1>2 DEF IInv, Reservas, Reserva, marcos
<1> QED BY <1>3, <1>4, <1>8, <1>9, <1>10 DEF IInv, Tipos, PasosCoherentes

LEMMA AccederPreserva ==
  ASSUME IInv, NEW c \in Cpus, Acceder(c)
  PROVE  IInv' /\ MarcosQuietos
<1> DEFINE p == Activo(c)
           g == Pagina(c)
           m == Entrada(c).nro_marco
<1>1. CASE umc' = "indefinida" /\ UNCHANGED resto
  BY <1>1, SoloUmcPreserva DEF MarcosQuietos, MismaPresencia, resto, paginacion, marcos
<1>2. SUFFICES ASSUME ~(umc' = "indefinida" /\ UNCHANGED resto)
               PROVE  IInv' /\ MarcosQuietos
  BY <1>1
<1>3. /\ hilos[c].paso = "acceder" /\ ~EnEspera(c) /\ ~Liberada(p, g)
      /\ \/ /\ Responder(c, memoria_principal[m])
            /\ UNCHANGED <<umc, paginacion, marcos, tlb, swap, nucleo, cpus>>
         \/ /\ hilos[c].op = "ESCRITURA_PAGINA"
            /\ memoria_principal' = [memoria_principal EXCEPT ![m] = hilos[c].dato]
            /\ tabla' = [tabla EXCEPT ![p][g].modificado = TRUE]
            /\ Responder(c, "OK")
            /\ UNCHANGED <<umc, tablasDePagina, manecilla, bitmap_frames, memoriaposta,
                           tlb, swap, nucleo, cpus>>
  BY <1>2 DEF Acceder, EnPaso, EnEspera
<1>4. /\ p \in Pids /\ g \in Pags(p) /\ tabla[p][g] \in EntradaTipo /\ m = tabla[p][g].nro_marco
      /\ tabla[p][g].presencia
      /\ \A k \in Cpus \ {c} : ~EnEspera(k) => Activo(k) # p
  BY <1>3, HiloOcupado DEF Entrada, IInv, PasosCoherentes, PasoCoherente, TieneOLiberada
<1>5. m \in Marcos /\ memoria_principal[m] \in Datos
  <2>1. m \in Marcos
    BY <1>4 DEF IInv, Presencia, EntradaTipo
  <2> QED BY <2>1 DEF IInv, Tipos, TiposDeMarcos
<1>6. /\ hilos' \in [Cpus -> HiloTipo] /\ hilos'[c] = HiloEnEspera /\ hilos'[c].paso = "espera"
      /\ \A k \in Cpus \ {c} : hilos'[k] = hilos[k]
      /\ respuesta' \in [Cpus -> Datos \union {SinDato, "OK", "NO_OK"}]
      /\ PasoCoherente(c)'
  <2>1. CASE Responder(c, memoria_principal[m])
    BY <1>5, <2>1, ResponderEs DEF IInv
  <2>2. CASE Responder(c, "OK")
    BY <2>2, ResponderEs DEF IInv
  <2> QED BY <1>3, <2>1, <2>2
<1>7. /\ UNCHANGED <<umc, swap, nucleo, cpus, tlb, bitmap_frames, memoriaposta, manecilla,
                     tablasDePagina>>
      /\ \/ memoria_principal' = memoria_principal
         \/ /\ memoria_principal' = [memoria_principal EXCEPT ![m] = hilos[c].dato]
            /\ hilos[c].dato \in Datos
      /\ \/ tabla' = tabla
         \/ tabla' = [tabla EXCEPT ![p][g].modificado = TRUE]
  BY <1>3 DEF paginacion, marcos, IInv, Tipos, TiposDeHilos
<1>8. /\ TiposDeTablas' /\ MismaPresencia
      /\ \A q \in Pids : \A h \in Pags(q) : tabla'[q][h].uso = tabla[q][h].uso
  <2>1. CASE tabla' = tabla
    BY <1>7, <2>1 DEF IInv, Tipos, TiposDeTablas, MismaPresencia
  <2>2. CASE tabla' = [tabla EXCEPT ![p][g].modificado = TRUE]
    <3> DEFINE e == [tabla[p][g] EXCEPT !.modificado = TRUE]
    <3>1. /\ e \in EntradaTipo /\ e.presencia = tabla[p][g].presencia
          /\ e.nro_marco = tabla[p][g].nro_marco /\ e.uso = tabla[p][g].uso
      BY <1>4 DEF EntradaTipo
    <3>2. tabla' = [tabla EXCEPT ![p][g] = e]
      BY <2>2
    <3>3. (\A q \in Pids : manecilla'[q] \in Pags(q)) /\ manecilla' = [q \in Pids |-> manecilla'[q]]
      BY <1>7 DEF IInv, Tipos, TiposDeTablas
    <3> HIDE DEF e
    <3>4. /\ TiposDeTablas' /\ tabla'[p][g] = e
          /\ \A h \in Pags(p) \ {g} : tabla'[p][h] = tabla[p][h]
          /\ \A q \in Pids \ {p} : tabla'[q] = tabla[q]
      BY <1>4, <1>7, <3>1, <3>2, <3>3, CambiaEntrada DEF IInv, Tipos
    <3> QED BY <3>1, <3>4 DEF MismaPresencia
  <2> QED BY <1>7, <2>1, <2>2
<1>9. Presencia' /\ LimiteDeMarcos' /\ Uso'
  BY <1>8, MismaTabla DEF IInv, Tipos, Uso, MismaPresencia
<1>10. TiposDeMarcos' /\ TiposDeHilos' /\ TiposDeSwap'
  <2>1. TiposDeMarcos' /\ TiposDeSwap'
    BY <1>5, <1>7 DEF IInv, Tipos, TiposDeMarcos, TiposDeSwap, swap
  <2> QED BY <1>6, <1>7, <2>1, HilosBien
<1>11. TiposDeTlb' /\ Tlb'
  <2>1. DeLaTlb(tlb')
    BY <1>7, TlbIgual
  <2>2. \A k \in Cpus : /\ hilos[k].paso = "sacarTlb" => hilos'[k] = hilos[k]
                        /\ EsperaEnTlb(k)' => EsperaEnTlb(k) /\ Pagina(k)' = Pagina(k)
    BY <1>3, <1>6 DEF EsperaEnTlb, Pagina
  <2>3. \A i \in 1 .. Len(tlb') : tabla[tlb'[i].pid][tlb'[i].nroPagina].presencia =>
                                   tabla'[tlb'[i].pid][tlb'[i].nroPagina].presencia
    BY <1>7, <1>8, EntradaDeTlb DEF IInv, Tipos, MismaPresencia
  <2> QED BY <1>7, <2>1, <2>2, <2>3, TlbEstable DEF nucleo, cpus, swap
<1>12. Programas' /\ UnHiloPorProceso' /\ Reservas'
  <2>1. Programas'
    BY <1>7 DEF IInv, Programas, nucleo, swap
  <2>2. UnHiloPorProceso'
    BY <1>3, <1>6, <1>7, HiloSigue
  <2>3. Reservas'
    BY <1>3, <1>6, <1>7 DEF IInv, Reservas, Reserva
  <2> QED BY <2>1, <2>2, <2>3
<1>13. PasosCoherentes'
  <2>1. ASSUME NEW k \in Cpus \ {c}
        PROVE  PasoCoherente(k)'
    <3>1. ~EnEspera(k) => Activo(k) \in Pids
      BY DEF IInv, UnHiloPorProceso
    <3> QED BY <1>6, <1>7, <1>8, <3>1, PasoEstable, LiberadaQuieta
            DEF IInv, PasosCoherentes, cpus, nucleo, MismaPresencia
  <2> QED BY <1>6, <2>1 DEF PasosCoherentes
<1>14. IInv'
  BY <1>8, <1>9, <1>10, <1>11, <1>12, <1>13 DEF IInv, Tipos
<1>15. MarcosQuietos
  BY <1>7, <1>8 DEF MarcosQuietos
<1> QED BY <1>14, <1>15

\* A step of the kernel's thread or of the console that leaves the threads alone.
LEMMA HilosQuietos ==
  ASSUME IInv, UNCHANGED <<umc, hilos, proceso_activo, respuesta, corre, conectada, memoriaposta>>,
         bitmap_frames' \subseteq bitmap_frames
  PROVE  /\ Reservas'
         /\ programa' = programa /\ finalizador' \in FinalizadorTipo => TiposDeHilos'
         /\ programa' = programa => UnHiloPorProceso'
         /\ \A k \in Cpus : EsperaEnTlb(k)' => EsperaEnTlb(k) /\ Pagina(k)' = Pagina(k)
BY DEF IInv, Reservas, Reserva, Tipos, TiposDeHilos, UnHiloPorProceso, EnEspera, Activo,
       Pagina, EsperaEnTlb

LEMMA FinalizaProgramaPreserva ==
  ASSUME IInv, NEW p \in Pids, FinalizaPrograma(p)
  PROVE  IInv'
<1> USE DEF FinalizaPrograma
<1>1. /\ tabla' = tabla /\ manecilla' = manecilla /\ tablasDePagina' = tablasDePagina
      /\ UNCHANGED <<umc, hilos, proceso_activo, respuesta, corre, conectada, memoriaposta>>
      /\ bitmap_frames' = bitmap_frames /\ memoria_principal' = memoria_principal /\ tlb' = tlb
      /\ finalizador.pid = SinProceso /\ tablasDePagina \subseteq Pids
  BY DEF paginacion, marcos, cpus, IInv, Programas, Tipos, TiposDeTablas
<1>2. /\ programa' \in [Pids -> {"nuevo", "admitido", "abortado", "final"}]
      /\ \A q \in Pids : programa'[q] = IF q = p THEN "final" ELSE programa[q]
      /\ programa[p] \in {"admitido", "abortado"}
  BY DEF IInv, Tipos, TiposDeHilos
<1>3. /\ finalizador' \in FinalizadorTipo /\ finalizador'.paso = "quitar"
      /\ finalizador'.pid = p /\ finalizador'.pag = 0
  BY DEF FinalizadorLibre, FinalizadorTipo
<1>4. \A q \in Pids : \A g \in Pags(q) : Liberada(q, g) => Liberada(q, g)'
  BY <1>2, <1>3 DEF Liberada
<1>5. TiposDeTablas' /\ Presencia' /\ Uso' /\ LimiteDeMarcos'
  BY <1>1, TablaQuieta
<1>6. TiposDeMarcos' /\ TiposDeHilos' /\ TiposDeSwap'
  <2>1. TiposDeMarcos'
    BY <1>1 DEF IInv, Tipos, TiposDeMarcos
  <2>2. TiposDeHilos'
    BY <1>1, <1>2, <1>3 DEF IInv, Tipos, TiposDeHilos
  <2>3. EnBlanco(p) \in [Pags(p) -> Datos]
    BY NombresAssumption DEF EnBlanco
  <2>4. TiposDeSwap'
    BY <2>3 DEF IInv, Tipos, TiposDeSwap
  <2> QED BY <2>1, <2>2, <2>4
<1>7. Programas'
  <2>1. procesosEnSwap' = {q \in Pids : programa'[q] \in {"admitido", "abortado"}}
    BY <1>2 DEF IInv, Programas
  <2>2. 0 \in Pags(p)
    BY PagsEs
  <2> QED BY <1>1, <1>2, <1>3, <2>1, <2>2 DEF IInv, Programas
<1>8. UnHiloPorProceso'
  BY <1>1, <1>2, NombresAssumption
     DEF IInv, UnHiloPorProceso, EnEspera, Activo, Pagina, Tipos, TiposDeHilos
<1>9. TiposDeTlb' /\ Tlb'
  <2>1. DeLaTlb(tlb') /\ procesosEnSwap' \subseteq procesosEnSwap
    BY <1>1, TlbIgual
  <2> QED BY <1>1, <1>2, <2>1, HilosQuietos, TlbEstable
<1>10. PasosCoherentes'
  BY <1>1, <1>4, <1>5, PasoEstable DEF IInv, PasosCoherentes
<1>11. Reservas'
  BY <1>1, HilosQuietos
<1> QED BY <1>5, <1>6, <1>7, <1>8, <1>9, <1>10, <1>11 DEF IInv, Tipos

LEMMA QuitarTablaPreserva ==
  ASSUME IInv, QuitarTabla
  PROVE  IInv'
<1> USE DEF QuitarTabla
<1>1. /\ tabla' = tabla /\ manecilla' = manecilla /\ tablasDePagina' \subseteq Pids
      /\ UNCHANGED <<umc, hilos, proceso_activo, respuesta, corre, conectada, memoriaposta>>
      /\ bitmap_frames' = bitmap_frames /\ memoria_principal' = memoria_principal
      /\ programa' = programa /\ enSwap' = enSwap /\ procesosEnSwap' = procesosEnSwap
  BY DEF paginacion, marcos, cpus, swap, IInv, Tipos, TiposDeTablas
<1>2. /\ finalizador' \in FinalizadorTipo /\ finalizador'.paso = "mirar"
      /\ finalizador'.pid = finalizador.pid /\ finalizador'.pag = finalizador.pag
  BY DEF IInv, Tipos, TiposDeHilos, FinalizadorTipo
<1>3. \A q \in Pids : \A g \in Pags(q) : Liberada(q, g) => Liberada(q, g)'
  BY <1>1, <1>2 DEF Liberada
<1>4. TiposDeTablas' /\ Presencia' /\ Uso' /\ LimiteDeMarcos'
  BY <1>1, TablaQuieta
<1>5. TiposDeMarcos' /\ TiposDeHilos' /\ TiposDeSwap'
  <2>1. TiposDeMarcos' /\ TiposDeSwap'
    BY <1>1 DEF IInv, Tipos, TiposDeMarcos, TiposDeSwap
  <2> QED BY <1>1, <1>2, <2>1, HilosQuietos
<1>6. Programas'
  BY <1>1, <1>2 DEF IInv, Programas
<1>7. UnHiloPorProceso' /\ Reservas'
  BY <1>1, HilosQuietos
<1>8. TiposDeTlb' /\ Tlb'
  <2>1. DeLaTlb(tlb')
    BY TlbIgual, QuitarPrimeraEs, QuitarDeTlb DEF IInv, Tipos, TiposDeTlb
  <2> QED BY <1>1, <2>1, HilosQuietos, TlbEstable
<1>9. PasosCoherentes'
  BY <1>1, <1>3, <1>4, PasoEstable DEF IInv, PasosCoherentes
<1> QED BY <1>4, <1>5, <1>6, <1>7, <1>8, <1>9 DEF IInv, Tipos

LEMMA MirarMarcoPreserva ==
  ASSUME IInv, MirarMarco
  PROVE  IInv'
<1> USE DEF MirarMarco
<1> DEFINE m == tabla[finalizador.pid][finalizador.pag].nro_marco
<1>1. /\ tabla' = tabla /\ manecilla' = manecilla /\ tablasDePagina' = tablasDePagina
      /\ tablasDePagina \subseteq Pids
      /\ UNCHANGED <<umc, hilos, proceso_activo, respuesta, corre, conectada, memoriaposta>>
      /\ bitmap_frames' = bitmap_frames /\ memoria_principal' = memoria_principal
      /\ programa' = programa /\ enSwap' = enSwap /\ procesosEnSwap' = procesosEnSwap
      /\ tlb' = tlb
  BY DEF paginacion, marcos, cpus, swap, IInv, Tipos, TiposDeTablas
<1>2. m \in Marcos \union {-1}
  <2>1. finalizador.pid \in Pids /\ finalizador.pag \in Pags(finalizador.pid)
    BY DEF IInv, Programas
  <2>2. tabla[finalizador.pid][finalizador.pag] \in EntradaTipo
    BY <2>1 DEF IInv, Tipos, TiposDeTablas
  <2> QED BY <2>2 DEF EntradaTipo
<1>3. /\ finalizador' \in FinalizadorTipo /\ finalizador'.paso = "liberar"
      /\ finalizador'.pid = finalizador.pid /\ finalizador'.pag = finalizador.pag
  BY <1>2 DEF IInv, Tipos, TiposDeHilos, FinalizadorTipo
<1>4. \A q \in Pids : \A g \in Pags(q) : Liberada(q, g) => Liberada(q, g)'
  BY <1>1, <1>3 DEF Liberada
<1>5. TiposDeTablas' /\ Presencia' /\ Uso' /\ LimiteDeMarcos'
  BY <1>1, TablaQuieta
<1>6. TiposDeMarcos' /\ TiposDeHilos' /\ TiposDeSwap'
  <2>1. TiposDeMarcos' /\ TiposDeSwap'
    BY <1>1 DEF IInv, Tipos, TiposDeMarcos, TiposDeSwap
  <2> QED BY <1>1, <1>3, <2>1, HilosQuietos
<1>7. Programas'
  BY <1>1, <1>3 DEF IInv, Programas
<1>8. UnHiloPorProceso' /\ Reservas'
  BY <1>1, HilosQuietos
<1>9. TiposDeTlb' /\ Tlb'
  <2>1. DeLaTlb(tlb')
    BY <1>1, TlbIgual
  <2> QED BY <1>1, <2>1, HilosQuietos, TlbEstable
<1>10. PasosCoherentes'
  BY <1>1, <1>4, <1>5, PasoEstable DEF IInv, PasosCoherentes
<1> QED BY <1>5, <1>6, <1>7, <1>8, <1>9, <1>10 DEF IInv, Tipos

LEMMA EliminarPaginasPreserva ==
  ASSUME IInv, EliminarPaginas
  PROVE  IInv' /\ SeDevuelve
<1> DEFINE p == finalizador.pid
           g == finalizador.pag
           e == TablaNueva(p)[g]
<1>1. /\ tabla' = [tabla EXCEPT ![p][g] = e] /\ manecilla' = [manecilla EXCEPT ![p] = 0]
      /\ bitmap_frames' = bitmap_frames \ {finalizador.marco} /\ memoriaposta = Nadie
      /\ finalizador' = IF g + 1 = CantPaginas[p] THEN FinalizadorLibre
                        ELSE [finalizador EXCEPT !.paso = "mirar", !.pag = g + 1]
      /\ tablasDePagina' = tablasDePagina /\ programa' = programa
      /\ UNCHANGED <<umc, hilos, proceso_activo, respuesta, corre, conectada, memoriaposta,
                     memoria_principal, tlb, enSwap, procesosEnSwap>>
      /\ finalizador.paso = "liberar"
  BY DEF EliminarPaginas, cpus, swap
<1>2. p \in Pids /\ g \in Pags(p) /\ programa[p] = "final"
  BY <1>1 DEF IInv, Programas
<1>3. /\ CantPaginas[p] \in Nat \ {0} /\ g \in 0 .. CantPaginas[p] - 1
      /\ Pags(p) = 0 .. CantPaginas[p] - 1 /\ 0 \in Pags(p)
  BY <1>2, PagsEs
<1>4. e = [nro_marco |-> -1, presencia |-> FALSE, modificado |-> FALSE, uso |-> FALSE]
  BY <1>2 DEF TablaNueva
<1>5. e \in EntradaTipo /\ e.nro_marco = -1 /\ ~e.presencia /\ ~e.uso
  BY <1>4 DEF EntradaTipo
<1>6. /\ finalizador' \in FinalizadorTipo
      /\ \/ finalizador'.paso = "espera" /\ finalizador'.pid = SinProceso
         \/ /\ finalizador'.paso = "mirar" /\ finalizador'.pid = p
            /\ finalizador'.pag = g + 1 /\ g + 1 \in Pags(p)
  <2>1. finalizador \in FinalizadorTipo /\ p \in Pids /\ g \in Nat /\ g + 1 \in Nat
    BY <1>2, <1>3 DEF IInv, Tipos, TiposDeHilos
  <2>2. CASE g + 1 = CantPaginas[p]
    <3>1. finalizador' = FinalizadorLibre
      BY <1>1, <2>2
    <3> QED BY <3>1 DEF FinalizadorLibre, FinalizadorTipo
  <2>3. CASE g + 1 # CantPaginas[p]
    <3>1. finalizador' = [finalizador EXCEPT !.paso = "mirar", !.pag = g + 1]
      BY <1>1, <2>3
    <3>2. /\ finalizador' \in FinalizadorTipo /\ finalizador'.paso = "mirar"
          /\ finalizador'.pid = p /\ finalizador'.pag = g + 1
      BY <2>1, <3>1 DEF FinalizadorTipo
    <3>3. g + 1 \in Pags(p)
      BY <1>3, <2>3
    <3> QED BY <3>2, <3>3
  <2> QED BY <2>2, <2>3
<1> HIDE DEF e
<1>7. /\ TiposDeTablas' /\ tabla'[p][g] = e
      /\ \A h \in Pags(p) \ {g} : tabla'[p][h] = tabla[p][h]
      /\ \A q \in Pids \ {p} : tabla'[q] = tabla[q]
  <2>1. (\A q \in Pids : manecilla'[q] \in Pags(q)) /\ manecilla' = [q \in Pids |-> manecilla'[q]]
    BY <1>1, <1>2, <1>3 DEF IInv, Tipos, TiposDeTablas
  <2> QED BY <1>1, <1>2, <1>5, <2>1, CambiaEntrada DEF IInv, Tipos
<1>8. Presencia' /\ Uso'
  BY <1>5, <1>7 DEF IInv, Presencia, Uso
<1>9. /\ Presentes(tabla'[p]) \subseteq Presentes(tabla[p])
      /\ IsFiniteSet(Presentes(tabla[p]))
      /\ Cardinality(Presentes(tabla'[p])) <= Cardinality(Presentes(tabla[p]))
      /\ Cardinality(Presentes(tabla[p])) \in Nat /\ Cardinality(Presentes(tabla'[p])) \in Nat
  <2>1. Presentes(tabla'[p]) \subseteq Presentes(tabla[p])
    BY <1>2, <1>5, <1>7 DEF Presentes, IInv, Tipos, TiposDeTablas
  <2>2. IsFiniteSet(Presentes(tabla[p])) /\ Cardinality(Presentes(tabla[p])) \in Nat
    BY <1>2, PresentesFinitas DEF IInv, Tipos
  <2> QED BY <2>1, <2>2, FS_Subset, FS_CardinalityType
<1>10. LimiteDeMarcos'
  BY <1>2, <1>7, <1>9, MarcoXProcAssumption DEF IInv, LimiteDeMarcos
<1>11. TiposDeMarcos' /\ TiposDeHilos' /\ TiposDeSwap'
  <2>1. TiposDeMarcos' /\ TiposDeSwap'
    BY <1>1 DEF IInv, Tipos, TiposDeMarcos, TiposDeSwap
  <2> QED BY <1>1, <1>6, <2>1, HilosQuietos
<1>12. Programas'
  BY <1>1, <1>2, <1>6 DEF IInv, Programas
<1>13. UnHiloPorProceso' /\ Reservas'
  BY <1>1, HilosQuietos
<1>14. TiposDeTlb' /\ Tlb'
  <2>1. DeLaTlb(tlb')
    BY <1>1, TlbIgual
  <2>2. \A i \in 1 .. Len(tlb') : \/ tlb'[i].pid \notin procesosEnSwap
                                  \/ tabla'[tlb'[i].pid] = tabla[tlb'[i].pid]
    BY <1>1, <1>2, <1>7, EntradaDeTlb DEF IInv, Tipos, Programas
  <2> QED BY <1>1, <2>1, <2>2, HilosQuietos, TlbEstable
<1>15. ASSUME NEW q \in Pids, NEW h \in Pags(q), Liberada(q, h)
       PROVE  Liberada(q, h)'
  <2>1. h \in Nat /\ g \in Nat
    BY <1>2, PagsEs
  <2> QED BY <1>1, <1>2, <1>6, <1>15, <2>1, NombresAssumption DEF Liberada
<1>16. ASSUME NEW h \in {0, g}
       PROVE  /\ programa'[p] = "final"
              /\ finalizador'.pid = p => h < finalizador'.pag
  BY <1>1, <1>2, <1>3, <1>6, NombresAssumption
<1>17. ASSUME NEW k \in Cpus, ~EnEspera(k), Activo(k) = p
       PROVE  PasoCoherente(k)'
  <2>1. /\ Activo(k)' = p /\ Pagina(k)' = Pagina(k) /\ hilos'[k] = hilos[k]
        /\ Pagina(k) \in Pags(p) /\ EnEspera(k)' = EnEspera(k)
    BY <1>1, <1>17 DEF Activo, Pagina, EnEspera, IInv, UnHiloPorProceso
  <2>2. Liberada(Activo(k), 0)'
    BY <1>16, <2>1 DEF Liberada
  <2>3. ASSUME NEW h \in Pags(p), tabla[p][h].presencia \/ Liberada(p, h)
        PROVE  /\ \/ tabla'[p][h].presencia
                  \/ /\ programa'[p] = "final"
                     /\ finalizador'.pid = p => h < finalizador'.pag
               /\ tabla'[p][h].uso => tabla[p][h].uso
    <3>1. tabla'[p][h].uso => tabla[p][h].uso
      BY <1>5, <1>7
    <3>2. CASE h = g
      BY <1>16, <2>1, <3>1, <3>2 DEF Liberada
    <3>3. CASE h # g
      BY <1>2, <1>7, <1>15, <2>1, <2>3, <3>1, <3>3 DEF Liberada
    <3> QED BY <3>2, <3>3
  <2>4. Falta(k) => Falta(k)'
    BY <1>5, <1>7, <1>17, <2>1 DEF Falta, Entrada
  <2>5. HayLugar(k) => HayLugar(k)'
    BY <1>9, <1>17, <2>1, MarcoXProcAssumption DEF HayLugar
  <2>6. Presentes(tabla[Activo(k)]) = {} => Presentes(tabla'[Activo(k)']) = {}
    BY <1>9, <1>17, <2>1
  <2>7. TieneOLiberada(Activo(k), Pagina(k)) => TieneOLiberada(Activo(k), Pagina(k))'
    BY <1>17, <2>1, <2>3 DEF TieneOLiberada, Liberada
  <2>8. hilos[k].victima \in Pags(p) /\ TieneOLiberada(Activo(k), hilos[k].victima)
          => TieneOLiberada(Activo(k), hilos[k].victima)'
    BY <1>17, <2>1, <2>3 DEF TieneOLiberada, Liberada
  <2>9. hilos[k].victima \in Pags(p) /\ ~tabla[p][hilos[k].victima].uso
          => ~tabla'[p][hilos[k].victima].uso
    BY <1>5, <1>7
  <2>10. Reserva(k)' = Reserva(k)
    BY <2>1 DEF Reserva
  <2> QED BY <1>17, <2>1, <2>2, <2>4, <2>5, <2>6, <2>7, <2>8, <2>9, <2>10
          DEF IInv, PasosCoherentes, PasoCoherente
<1>18. ASSUME NEW k \in Cpus, EnEspera(k) \/ Activo(k) # p
       PROVE  PasoCoherente(k)'
  <2>1. ~EnEspera(k) => tabla'[Activo(k)] = tabla[Activo(k)]
    BY <1>7, <1>18 DEF IInv, UnHiloPorProceso
  <2> QED BY <1>1, <1>7, <1>15, <2>1, PasoEstable DEF IInv, PasosCoherentes
<1>19. PasosCoherentes'
  BY <1>17, <1>18 DEF PasosCoherentes
<1>20. IInv'
  BY <1>7, <1>8, <1>10, <1>11, <1>12, <1>13, <1>14, <1>19 DEF IInv, Tipos
<1>21. SeDevuelve
  BY <1>1, <1>2, <1>5, <1>6, <1>7 DEF SeDevuelve, CambiaSolo
<1> QED BY <1>20, <1>21

LEMMA SecuenciaVacia ==
  ASSUME NEW S
  PROVE  /\ <<>> \in Seq(S) /\ Len(<<>>) = 0
         /\ 1 .. 0 = {} /\ 0 <= ENTRADAS_TLB
<1>1. <<>> \in Seq(S) /\ Len(<<>>) = 0
  BY EmptySeq
<1>2. 1 .. 0 = {}
  OBVIOUS
<1> QED BY <1>1, <1>2, TlbAssumption

LEMMA LimpiarTLBPreserva ==
  ASSUME IInv, LimpiarTLB
  PROVE  IInv'
<1> USE DEF LimpiarTLB, paginacion, marcos, swap, nucleo, cpus
<1>1. /\ tabla' = tabla /\ manecilla' = manecilla /\ tablasDePagina' = tablasDePagina
      /\ UNCHANGED <<umc, hilos, proceso_activo, respuesta, corre, conectada, memoriaposta,
                     programa, finalizador, procesosEnSwap>>
      /\ bitmap_frames' = bitmap_frames /\ tablasDePagina' \subseteq Pids
  BY DEF IInv, Tipos, TiposDeTablas
<1>2. TiposDeTablas' /\ Presencia' /\ Uso' /\ LimiteDeMarcos'
  BY <1>1, TablaQuieta
<1>3. TiposDeMarcos' /\ TiposDeHilos' /\ TiposDeSwap'
  BY DEF IInv, Tipos, TiposDeMarcos, TiposDeHilos, TiposDeSwap
<1>4. Programas' /\ UnHiloPorProceso' /\ Reservas'
  BY <1>1, HilosQuietos DEF IInv, Programas
<1>5. TiposDeTlb' /\ Tlb'
  <2>1. tlb' = <<>>
    OBVIOUS
  <2>2. Len(tlb') = 0 /\ 1 .. Len(tlb') = {} /\ 0 <= ENTRADAS_TLB
    BY <2>1, SecuenciaVacia, Zenon
  <2>3. tlb' \in Seq([pid : Pids, nroPagina : Nat])
    BY <2>1, SecuenciaVacia, Zenon
  <2>4. TiposDeTlb'
    BY <2>2, <2>3 DEF TiposDeTlb
  <2>5. Tlb'
    BY <2>2, Zenon DEF Tlb
  <2> QED BY <2>4, <2>5
<1>6. PasosCoherentes'
  BY <1>1, <1>2, PasoEstable, LiberadaQuieta DEF IInv, PasosCoherentes
<1> QED BY <1>2, <1>3, <1>4, <1>5, <1>6 DEF IInv, Tipos

LEMMA MarcarPaginasPreserva ==
  ASSUME IInv, NEW p \in Pids, MarcarPaginas(p)
  PROVE  IInv' /\ MarcosQuietos
<1> DEFINE r == [g \in Pags(p) |-> [tabla[p][g] EXCEPT !.modificado =
                 tabla[p][g].modificado \/ tabla[p][g].nro_marco # -1]]
<1>1. /\ tabla' = [tabla EXCEPT ![p] = r] /\ manecilla' = manecilla
      /\ tablasDePagina' = tablasDePagina
      /\ UNCHANGED <<umc, hilos, proceso_activo, respuesta, corre, conectada, memoriaposta,
                     programa, finalizador, procesosEnSwap, enSwap, tlb, bitmap_frames,
                     memoria_principal>>
  <2>1. tabla' = [tabla EXCEPT ![p] = r]
    BY DEF MarcarPaginas
  <2>2. UNCHANGED <<umc, tablasDePagina, manecilla, marcos, tlb, hilos, swap, nucleo, cpus,
                    respuesta>>
    BY DEF MarcarPaginas
  <2> HIDE DEF r
  <2> QED BY <2>1, <2>2 DEF marcos, swap, nucleo, cpus
<1>2. tabla[p] \in [Pags(p) -> EntradaTipo]
  BY DEF IInv, Tipos, TiposDeTablas
<1>3. ASSUME NEW g \in Pags(p)
      PROVE  /\ r[g] \in EntradaTipo /\ r[g].presencia = tabla[p][g].presencia
             /\ r[g].nro_marco = tabla[p][g].nro_marco /\ r[g].uso = tabla[p][g].uso
  BY <1>2 DEF EntradaTipo
<1>4. r \in [Pags(p) -> EntradaTipo]
  BY <1>3
<1> HIDE DEF r
<1>5. /\ TiposDeTablas' /\ MismaPresencia
      /\ \A q \in Pids : \A g \in Pags(q) : tabla'[q][g].uso = tabla[q][g].uso
  <2>1. tabla'[p] = r /\ (\A q \in Pids \ {p} : tabla'[q] = tabla[q])
        /\ tabla' = [q \in Pids |-> tabla'[q]]
    BY <1>1 DEF IInv, Tipos, TiposDeTablas
  <2>2. TiposDeTablas'
    BY <1>1, <1>4, <2>1 DEF IInv, Tipos, TiposDeTablas
  <2> QED BY <1>3, <2>1, <2>2 DEF MismaPresencia
<1>6. Presencia' /\ LimiteDeMarcos' /\ Uso'
  BY <1>5, MismaTabla DEF IInv, Tipos, Uso, MismaPresencia
<1>7. TiposDeMarcos' /\ TiposDeHilos' /\ TiposDeSwap'
  BY <1>1 DEF IInv, Tipos, TiposDeMarcos, TiposDeHilos, TiposDeSwap
<1>8. Programas' /\ UnHiloPorProceso' /\ Reservas'
  BY <1>1, HilosQuietos DEF IInv, Programas
<1>9. TiposDeTlb' /\ Tlb'
  <2>1. DeLaTlb(tlb')
    BY <1>1, TlbIgual
  <2>2. \A i \in 1 .. Len(tlb') : tabla[tlb'[i].pid][tlb'[i].nroPagina].presencia =>
                                   tabla'[tlb'[i].pid][tlb'[i].nroPagina].presencia
    BY <1>1, <1>5, EntradaDeTlb DEF IInv, Tipos, MismaPresencia
  <2> QED BY <1>1, <2>1, <2>2, HilosQuietos, TlbEstable
<1>10. ASSUME NEW k \in Cpus
       PROVE  PasoCoherente(k)'
  <2>1. ~EnEspera(k) => Activo(k) \in Pids
    BY DEF IInv, UnHiloPorProceso
  <2> QED BY <1>1, <1>5, <2>1, PasoEstable, LiberadaQuieta DEF IInv, PasosCoherentes, MismaPresencia
<1>11. PasosCoherentes'
  BY <1>10 DEF PasosCoherentes
<1>12. IInv'
  BY <1>5, <1>6, <1>7, <1>8, <1>9, <1>11 DEF IInv, Tipos
<1>13. MarcosQuietos
  BY <1>1, <1>5 DEF MarcosQuietos
<1> QED BY <1>12, <1>13

-----------------------------------------------------------------------------
(* The invariant *)

LEMMA InicioCumple == Init => IInv
<1> SUFFICES ASSUME Init PROVE IInv
  OBVIOUS
<1> USE DEF Init
<1>1. \A p \in Pids : Pags(p) \in SUBSET Nat /\ 0 \in Pags(p)
  BY PagsEs
<1>2. ASSUME NEW p \in Pids
      PROVE  /\ tabla[p] \in [Pags(p) -> EntradaTipo]
             /\ \A g \in Pags(p) : /\ tabla[p][g].nro_marco = -1
                                   /\ ~tabla[p][g].presencia /\ ~tabla[p][g].uso
             /\ enSwap[p] \in [Pags(p) -> Datos]
  <2>1. tabla[p] = [g \in Pags(p) |-> [nro_marco |-> -1, presencia |-> FALSE,
                                       modificado |-> FALSE, uso |-> FALSE]]
    BY DEF TablaNueva
  <2>2. enSwap[p] \in [Pags(p) -> Datos]
    BY NombresAssumption DEF EnBlanco
  <2>3. [nro_marco |-> -1, presencia |-> FALSE, modificado |-> FALSE, uso |-> FALSE]
          \in EntradaTipo
    BY DEF EntradaTipo
  <2>4. tabla[p] \in [Pags(p) -> EntradaTipo]
    BY <2>1, <2>3, Zenon
  <2>5. \A g \in Pags(p) : /\ tabla[p][g].nro_marco = -1
                           /\ ~tabla[p][g].presencia /\ ~tabla[p][g].uso
    BY <2>1
  <2> QED BY <2>2, <2>4, <2>5
<1>3. TiposDeTablas
  BY <1>1, <1>2 DEF TiposDeTablas
<1>4. TiposDeMarcos /\ TiposDeSwap
  BY <1>2, NombresAssumption DEF TiposDeMarcos, TiposDeSwap
<1>5. \A c \in Cpus : EnEspera(c) /\ hilos[c].victima = -1
  BY DEF HiloEnEspera, EnEspera
<1>6. TiposDeHilos
  <2>1. HiloEnEspera \in HiloTipo /\ FinalizadorLibre \in FinalizadorTipo
    BY DEF HiloEnEspera, HiloTipo, Pasos, FinalizadorLibre, FinalizadorTipo
  <2>2. \A c \in Cpus : /\ hilos[c].op = "NINGUNO" /\ hilos[c].paso = "espera"
    BY DEF HiloEnEspera
  <2> QED BY <2>1, <2>2 DEF TiposDeHilos
<1>7. TiposDeTlb /\ Tlb
  <2>1. /\ tlb \in Seq([pid : Pids, nroPagina : Nat])
        /\ Len(tlb) = 0 /\ 1 .. Len(tlb) = {} /\ 0 <= ENTRADAS_TLB
    BY SecuenciaVacia, Zenon
  <2> QED BY <2>1, Zenon DEF TiposDeTlb, Tlb
<1>8. Programas
  BY DEF Programas, FinalizadorLibre
<1>9. UnHiloPorProceso
  BY <1>5 DEF UnHiloPorProceso
<1>10. Presencia /\ Uso
  BY <1>2 DEF Presencia, Uso
<1>11. PasosCoherentes /\ Reservas
  BY <1>5, NombresAssumption DEF PasosCoherentes, PasoCoherente, Reservas, Reserva, EnEspera
<1>12. LimiteDeMarcos
  <2>1. \A p \in Pids : Presentes(tabla[p]) = {}
    BY <1>2 DEF Presentes
  <2>2. Cardinality({}) = 0
    BY FS_EmptySet
  <2>3. \A p \in Pids : Cardinality(Presentes(tabla[p])) = 0
    BY <2>1, <2>2, Zenon
  <2>4. 0 <= MARCO_X_PROC
    BY MarcoXProcAssumption
  <2> QED BY <2>3, <2>4 DEF LimiteDeMarcos
<1> QED BY <1>3, <1>4, <1>6, <1>7, <1>8, <1>9, <1>10, <1>11, <1>12 DEF IInv, Tipos

LEMMA PidePreserva ==
  ASSUME IInv, NEW c \in Cpus, corre[c] # SinProceso, Pide(c)
  PROVE  IInv'
<1>1. PICK g \in Pags(corre[c]) :
        \/ Pedir(c, "LECTURA_PAGINA", g, SinDato)
        \/ \E d \in Datos : Pedir(c, "ESCRITURA_PAGINA", g, d)
  BY DEF Pide
<1>2. CASE Pedir(c, "LECTURA_PAGINA", g, SinDato)
  BY <1>2, PedirPreserva
<1>3. ASSUME NEW d \in Datos, Pedir(c, "ESCRITURA_PAGINA", g, d)
      PROVE  IInv'
  BY <1>3, PedirPreserva
<1> QED BY <1>1, <1>2, <1>3

LEMMA HiloPreserva ==
  ASSUME IInv, NEW c \in Cpus, PasoDelHilo(c)
  PROVE  IInv'
BY BuscarPaginaPreserva, ElegirMarcoPreserva, ElegirVictimaPreserva, LeerDeSwapPreserva,
   InstalarEnMarcoPreserva, PisarVictimaPreserva, EliminarPaginaTLBPreserva,
   CargarEnTLBPreserva, AccederPreserva DEF PasoDelHilo

LEMMA PasoPreserva == IInv /\ [Next]_vars => IInv'
<1> SUFFICES ASSUME IInv, [Next]_vars
             PROVE  IInv'
  OBVIOUS
<1>1. ASSUME NEW p \in Pids,
             \/ NuevoPrograma(p) \/ FinalizaPrograma(p) \/ MarcarPaginas(p)
             \/ \E c \in Cpus : CambioProcesoActivo(c, p)
      PROVE  IInv'
  BY <1>1, NuevoProgramaPreserva, FinalizaProgramaPreserva, MarcarPaginasPreserva,
     CambioProcesoActivoPreserva
<1>2. ASSUME NEW c \in Cpus,
             \/ corre[c] # SinProceso /\ Pide(c)
             \/ Devolver(c) \/ CpuMuere(c) \/ PasoDelHilo(c)
      PROVE  IInv'
  BY <1>2, PidePreserva, DevolverPreserva, CpuMuerePreserva, HiloPreserva
<1>3. CASE Finalizar
  BY <1>3, QuitarTablaPreserva, MirarMarcoPreserva, EliminarPaginasPreserva DEF Finalizar
<1>4. CASE LimpiarTLB
  BY <1>4, LimpiarTLBPreserva
<1>5. CASE UNCHANGED vars
  <2>1. UNCHANGED resto /\ umc' = umc
    BY <1>5 DEF vars, resto
  <2> QED BY <2>1, SoloUmcPreserva DEF IInv, Tipos, TiposDeHilos
<1> QED BY <1>1, <1>2, <1>3, <1>4, <1>5 DEF Next

\* The invariant above holds in every reachable state, with and without failures
\* of CPUs, whatever the kernel and the console do.
THEOREM Invariante == Spec => []IInv
BY InicioCumple, PasoPreserva, PTL DEF Spec

\* Every state is well typed, a page is present exactly when it names a frame,
\* and one that left memory lost its bit of use.
THEOREM TipoCorrecto == Spec => []TypeOK
<1>1. IInv => TypeOK
  <2> SUFFICES ASSUME IInv PROVE TypeOK
    OBVIOUS
  <2>1. ASSUME NEW p \in Pids
        PROVE  /\ TablaOK(p) /\ enSwap[p] \in [Pags(p) -> Datos]
               /\ \A g \in Pags(p) : /\ tabla[p][g].presencia <=> tabla[p][g].nro_marco # -1
                                     /\ tabla[p][g].uso => tabla[p][g].presencia
    <3>1. tabla[p] \in [Pags(p) -> EntradaTipo] /\ manecilla[p] \in Pags(p)
      BY DEF IInv, Tipos, TiposDeTablas
    <3>2. TablaOK(p)
      BY <3>1 DEF TablaOK, EntradaTipo
    <3> QED BY <3>2 DEF IInv, Tipos, TiposDeSwap, Presencia, Uso
  <2>2. ASSUME NEW c \in Cpus
        PROVE  /\ hilos[c].paso \in Pasos /\ hilos[c].dato \in Datos \union {SinDato}
               /\ respuesta[c] \in Datos \union {SinDato, "OK", "NO_OK"}
    <3>1. hilos[c] \in HiloTipo /\ respuesta[c] \in Datos \union {SinDato, "OK", "NO_OK"}
      BY DEF IInv, Tipos, TiposDeHilos
    <3> QED BY <3>1 DEF HiloTipo
  <2> QED BY <2>1, <2>2 DEF TypeOK, Pasos, IInv, Tipos, TiposDeTablas, TiposDeMarcos, TiposDeSwap,
             TiposDeHilos
<1> QED BY <1>1, Invariante, PTL

\* No process ever holds more than MARCO_X_PROC frames, although the count that
\* buscar_pagina_en_tabla takes is old when the frame is chosen and installed.
THEOREM LimiteRespetado == Spec => []LimiteDeMarcos
<1>1. IInv => LimiteDeMarcos
  BY DEF IInv
<1> QED BY <1>1, Invariante, PTL

\* The frame chosen under memoriaposta is still free when it is installed, and
\* nobody keeps memoriaposta without a frame in hand.
THEOREM MarcoSiempreReservado == Spec => []MarcoReservado
<1>1. IInv => MarcoReservado
  BY DEF IInv, Reservas, Reserva, MarcoReservado
<1> QED BY <1>1, Invariante, PTL

\* The TLB agrees with the page tables of the processes that live, has no page
\* twice, and never outgrows ENTRADAS_TLB.
THEOREM TlbSiempreCoherente == Spec => []TlbCoherente
<1>1. IInv => TlbCoherente
  <2> SUFFICES ASSUME IInv PROVE TlbCoherente
    OBVIOUS
  <2>1. DOMAIN tlb = 1 .. Len(tlb)
    BY DEF IInv, Tipos, TiposDeTlb
  <2> QED BY <2>1 DEF IInv, Tlb, TlbCoherente
<1> QED BY <1>1, Invariante, PTL

-----------------------------------------------------------------------------
(* Who answers NO_OK, and to whom *)

\* A step moves frames only in InstalarEnMarco, PisarVictima and EliminarPaginas.
LEMMA QuienMueveMarcos ==
  ASSUME IInv, [Next]_vars
  PROVE  \/ MarcosQuietos \/ SeDevuelve
         \/ \E c \in Cpus : SeInstala(c) \/ SePisa(c)
<1>1. CASE tabla' = tabla /\ bitmap_frames' = bitmap_frames
  BY <1>1 DEF MarcosQuietos, MismaPresencia
<1>2. ASSUME NEW p \in Pids,
             \/ NuevoPrograma(p) \/ FinalizaPrograma(p)
             \/ \E c \in Cpus : CambioProcesoActivo(c, p)
      PROVE  tabla' = tabla /\ bitmap_frames' = bitmap_frames
  BY <1>2 DEF NuevoPrograma, FinalizaPrograma, CambioProcesoActivo, paginacion, marcos
<1>3. ASSUME NEW p \in Pids, MarcarPaginas(p)
      PROVE  MarcosQuietos
  BY <1>3, MarcarPaginasPreserva
<1>4. ASSUME NEW c \in Cpus,
             \/ corre[c] # SinProceso /\ Pide(c)
             \/ Devolver(c) \/ CpuMuere(c)
      PROVE  tabla' = tabla /\ bitmap_frames' = bitmap_frames
  BY <1>4 DEF Pide, Pedir, Devolver, CpuMuere, paginacion, marcos
<1>5. ASSUME NEW c \in Cpus, PasoDelHilo(c)
      PROVE  \/ MarcosQuietos \/ SeInstala(c) \/ SePisa(c)
             \/ tabla' = tabla /\ bitmap_frames' = bitmap_frames
  <2>1. CASE BuscarPaginaEnTabla(c) \/ ElegirVictima(c) \/ Acceder(c)
    BY <2>1, BuscarPaginaPreserva, ElegirVictimaPreserva, AccederPreserva
  <2>2. CASE InstalarEnMarco(c) \/ PisarVictima(c)
    BY <2>2, InstalarEnMarcoPreserva, PisarVictimaPreserva DEF resto, paginacion, marcos
  <2>3. CASE ElegirMarco(c)
    BY <2>3 DEF ElegirMarco, paginacion
  <2>4. CASE LeerDeSwap(c)
    BY <2>4 DEF LeerDeSwap, Morir, resto, paginacion, marcos
  <2>5. CASE EliminarPaginaTLB(c) \/ CargarEnTLB(c)
    BY <2>5 DEF EliminarPaginaTLB, CargarEnTLB, paginacion, marcos
  <2> QED BY <1>5, <2>1, <2>2, <2>3, <2>4, <2>5 DEF PasoDelHilo
<1>6. CASE Finalizar
  <2>1. CASE EliminarPaginas
    BY <2>1, EliminarPaginasPreserva
  <2>2. CASE QuitarTabla \/ MirarMarco
    BY <1>1, <2>2 DEF QuitarTabla, MirarMarco, paginacion, marcos
  <2> QED BY <1>6, <2>1, <2>2 DEF Finalizar
<1>7. CASE LimpiarTLB
  BY <1>1, <1>7 DEF LimpiarTLB, paginacion, marcos
<1>8. CASE UNCHANGED vars
  BY <1>1, <1>8 DEF vars, paginacion, marcos
<1> QED BY <1>1, <1>2, <1>3, <1>4, <1>5, <1>6, <1>7, <1>8 DEF Next

LEMMA QuienSeNiega ==
  ASSUME IInv, [Next]_vars, NEW c \in Cpus, respuesta'[c] = "NO_OK", respuesta[c] # "NO_OK"
  PROVE  Presentes(tabla[Activo(c)]) = {}
<1> USE NombresAssumption
<1>1. respuesta' # respuesta /\ respuesta \in [Cpus -> Datos \union {SinDato, "OK", "NO_OK"}]
  BY DEF IInv, Tipos, TiposDeHilos
<1>2. ASSUME NEW p \in Pids,
             \/ NuevoPrograma(p) \/ FinalizaPrograma(p) \/ MarcarPaginas(p)
             \/ \E k \in Cpus : CambioProcesoActivo(k, p)
      PROVE  respuesta' = respuesta
  BY <1>2 DEF NuevoPrograma, FinalizaPrograma, MarcarPaginas, CambioProcesoActivo
<1>3. ASSUME NEW k \in Cpus,
             \/ corre[k] # SinProceso /\ Pide(k)
             \/ Devolver(k) \/ CpuMuere(k)
      PROVE  respuesta' = respuesta \/ respuesta' = [respuesta EXCEPT ![k] = SinDato]
  BY <1>3 DEF Pide, Pedir, Devolver, CpuMuere
<1>4. ASSUME NEW k \in Cpus, PasoDelHilo(k)
      PROVE  \/ respuesta' = respuesta
             \/ \E r \in Datos \union {"OK"} : respuesta' = [respuesta EXCEPT ![k] = r]
             \/ /\ respuesta' = [respuesta EXCEPT ![k] = "NO_OK"]
                /\ Presentes(tabla[Activo(k)]) = {}
  <2>1. CASE Acceder(k)
    <3>1. CASE umc' = "indefinida" /\ UNCHANGED resto
      BY <3>1 DEF resto
    <3>2. CASE ~(umc' = "indefinida" /\ UNCHANGED resto)
      <4>1. CASE Responder(k, "OK")
        BY <4>1 DEF Responder
      <4>2. CASE Responder(k, memoria_principal[Entrada(k).nro_marco])
                 /\ ~Liberada(Activo(k), Pagina(k))
        <5>1. /\ ~EnEspera(k) /\ TieneOLiberada(Activo(k), Pagina(k))
          BY <2>1 DEF Acceder, EnPaso, EnEspera, IInv, PasosCoherentes, PasoCoherente
        <5>2. /\ Activo(k) \in Pids /\ Pagina(k) \in Pags(Activo(k))
              /\ tabla[Activo(k)][Pagina(k)] \in EntradaTipo
              /\ tabla[Activo(k)][Pagina(k)].presencia
          BY <4>2, <5>1, HiloOcupado DEF TieneOLiberada
        <5>3. Entrada(k).nro_marco \in Marcos
          BY <5>2 DEF IInv, Presencia, EntradaTipo, Entrada
        <5>4. memoria_principal[Entrada(k).nro_marco] \in Datos
          BY <5>3 DEF IInv, Tipos, TiposDeMarcos
        <5> QED BY <4>2, <5>4 DEF Responder
      <4> QED BY <2>1, <3>2, <4>1, <4>2 DEF Acceder
    <3> QED BY <3>1, <3>2
  <2>2. CASE ElegirMarco(k)
    <3>1. CASE respuesta' = respuesta
      BY <3>1
    <3>2. CASE EnPaso(k, "primerMarco") /\ Responder(k, "NO_OK")
      BY <3>2 DEF Responder, EnPaso, IInv, PasosCoherentes, PasoCoherente
    <3> QED BY <2>2, <3>1, <3>2 DEF ElegirMarco
  <2>3. CASE BuscarPaginaEnTabla(k) \/ ElegirVictima(k) \/ LeerDeSwap(k)
    BY <2>3 DEF BuscarPaginaEnTabla, ElegirVictima, LeerDeSwap, Morir, resto
  <2>4. CASE InstalarEnMarco(k) \/ PisarVictima(k) \/ EliminarPaginaTLB(k) \/ CargarEnTLB(k)
    BY <2>4 DEF InstalarEnMarco, PisarVictima, EliminarPaginaTLB, CargarEnTLB, resto
  <2> QED BY <1>4, <2>1, <2>2, <2>3, <2>4 DEF PasoDelHilo
<1>5. CASE Finalizar \/ LimpiarTLB \/ UNCHANGED vars
  BY <1>1, <1>5 DEF Finalizar, QuitarTabla, MirarMarco, EliminarPaginas, LimpiarTLB, vars
<1>6. ASSUME NEW k \in Cpus, \/ corre[k] # SinProceso /\ Pide(k)
                             \/ Devolver(k) \/ CpuMuere(k) \/ PasoDelHilo(k)
      PROVE  Presentes(tabla[Activo(c)]) = {}
  BY <1>1, <1>3, <1>4, <1>6
<1> QED BY <1>1, <1>2, <1>5, <1>6 DEF Next

LEMMA NadieSeQuedaSinPaginas ==
  ASSUME IInv, [Next]_vars, NEW p \in Pids, Presentes(tabla[p]) # {}, programa[p] # "final"
  PROVE  Presentes(tabla'[p]) # {}
<1>1. IInv'
  BY PasoPreserva
<1>2. /\ Presentes(tabla[p]) = {g \in Pags(p) : tabla[p][g].presencia}
      /\ Presentes(tabla'[p]) = {g \in Pags(p) : tabla'[p][g].presencia}
  BY <1>1 DEF IInv, Tipos, TiposDeTablas, Presentes
<1>3. CASE MarcosQuietos
  BY <1>2, <1>3 DEF MarcosQuietos, MismaPresencia
<1>4. ASSUME NEW c \in Cpus, SeInstala(c) \/ SePisa(c)
      PROVE  Presentes(tabla'[p]) # {}
  <2>1. Activo(c) \in Pids /\ Pagina(c) \in Pags(Activo(c)) /\ tabla'[Activo(c)][Pagina(c)].presencia
    BY <1>4 DEF SeInstala, SePisa, Ocupa, IInv, UnHiloPorProceso
  <2>2. Activo(c) # p => tabla'[p] = tabla[p]
    BY <1>4 DEF SeInstala, SePisa, CambiaSolo
  <2> QED BY <1>2, <2>1, <2>2
<1>5. CASE SeDevuelve
  BY <1>5 DEF SeDevuelve, CambiaSolo
<1> QED BY <1>3, <1>4, <1>5, QuienMueveMarcos

\* NO_OK only answers the request of a process without a page in memory, and a
\* process keeps a page from its first one until it is finished: this is what
\* the CPU counts on when it does not test the answers after the first.
THEOREM NoOkSoloAlPrincipio == Spec => NoOkSoloAlEmpezar
<1>1. IInv /\ [Next]_vars =>
        [/\ \A c \in Cpus : respuesta'[c] = "NO_OK" /\ respuesta[c] # "NO_OK"
                            => Presentes(tabla[Activo(c)]) = {}
         /\ \A p \in Pids : Presentes(tabla[p]) # {} /\ programa[p] # "final"
                            => Presentes(tabla'[p]) # {}]_vars
  BY QuienSeNiega, NadieSeQuedaSinPaginas
<1> QED BY <1>1, Invariante, PTL DEF Spec, NoOkSoloAlEmpezar

-----------------------------------------------------------------------------
(* Without failures of CPUs: every frame belongs to one page *)

LEMMA InicioJInv == Init => JInv
<1> SUFFICES ASSUME Init PROVE JInv
  OBVIOUS
<1> USE DEF Init
<1>1. ASSUME NEW p \in Pids, NEW g \in Pags(p)
      PROVE  ~tabla[p][g].presencia
  <2>1. tabla[p] = [h \in Pags(p) |-> [nro_marco |-> -1, presencia |-> FALSE,
                                       modificado |-> FALSE, uso |-> FALSE]]
    BY DEF TablaNueva
  <2> QED BY <2>1
<1>2. MarcosDistintos
  BY <1>1 DEF MarcosDistintos
<1>3. BitmapJusto
  BY <1>1 DEF BitmapJusto
<1> QED BY <1>2, <1>3 DEF JInv, Vivas, MarcoMirado, FinalizadorLibre

\* A thread in a request serves a process the kernel is not finishing.
LEMMA PideUnVivo ==
  ASSUME IInv, Vivas, NEW c \in Cpus, ~EnEspera(c)
  PROVE  /\ Activo(c) \in Pids /\ Pagina(c) \in Pags(Activo(c))
         /\ programa[Activo(c)] = "admitido"
         /\ finalizador.paso # "espera" => finalizador.pid # Activo(c)
<1>1. corre[c] = Activo(c) /\ Activo(c) \in Pids /\ Pagina(c) \in Pags(Activo(c))
  BY DEF IInv, UnHiloPorProceso, Vivas
<1>2. programa[Activo(c)] = "admitido"
  BY <1>1, NombresAssumption DEF IInv, UnHiloPorProceso
<1> QED BY <1>1, <1>2 DEF IInv, Programas

LEMMA SiguenVivas ==
  ASSUME SinFallas, IInv, Vivas, [Next]_vars
  PROVE  Vivas'
<1>1. ASSUME NEW c \in Cpus PROVE ~CpuMuere(c)
  BY DEF CpuMuere, SinFallas
<1>2. ASSUME NEW p \in Pids,
             \/ NuevoPrograma(p) \/ FinalizaPrograma(p) \/ MarcarPaginas(p)
             \/ \E c \in Cpus : CambioProcesoActivo(c, p)
      PROVE  conectada' = conectada
  BY <1>2 DEF NuevoPrograma, FinalizaPrograma, MarcarPaginas, CambioProcesoActivo, cpus
<1>3. ASSUME NEW c \in Cpus, (corre[c] # SinProceso /\ Pide(c)) \/ Devolver(c)
      PROVE  conectada' = conectada
  BY <1>3 DEF Pide, Pedir, Devolver, cpus
<1>4. ASSUME NEW c \in Cpus, PasoDelHilo(c)
      PROVE  conectada' = conectada
  <2>1. CASE BuscarPaginaEnTabla(c) \/ ElegirMarco(c) \/ ElegirVictima(c) \/ LeerDeSwap(c)
    BY <2>1 DEF BuscarPaginaEnTabla, ElegirMarco, ElegirVictima, LeerDeSwap, Morir, resto, cpus
  <2>2. CASE InstalarEnMarco(c) \/ PisarVictima(c) \/ EliminarPaginaTLB(c) \/ CargarEnTLB(c)
             \/ Acceder(c)
    BY <2>2 DEF InstalarEnMarco, PisarVictima, EliminarPaginaTLB, CargarEnTLB, Acceder, resto,
                cpus
  <2> QED BY <1>4, <2>1, <2>2 DEF PasoDelHilo
<1>5. CASE Finalizar
  <2>1. UNCHANGED cpus
    BY <1>5 DEF Finalizar, QuitarTabla, MirarMarco, EliminarPaginas
  <2> QED BY <2>1 DEF cpus, Vivas
<1>6. CASE LimpiarTLB \/ UNCHANGED vars
  <2>1. UNCHANGED cpus
    BY <1>6 DEF LimpiarTLB, vars
  <2> QED BY <2>1 DEF cpus, Vivas
<1> QED BY <1>1, <1>2, <1>3, <1>4, <1>5, <1>6 DEF Next, Vivas

\* What eliminarPaginas read of the entry is there until it frees the frame.
LEMMA MarcoMiradoSigue ==
  ASSUME IInv, Vivas, MarcoMirado, [Next]_vars
  PROVE  MarcoMirado'
<1> SUFFICES ASSUME finalizador'.paso = "liberar"
             PROVE  finalizador'.marco = tabla'[finalizador'.pid][finalizador'.pag].nro_marco
  BY DEF MarcoMirado
<1>1. CASE finalizador' = finalizador
  <2>1. /\ finalizador.pid \in Pids /\ finalizador.pag \in Pags(finalizador.pid)
        /\ finalizador.marco = tabla[finalizador.pid][finalizador.pag].nro_marco
    BY <1>1 DEF MarcoMirado, IInv, Programas
  <2>2. CASE MarcosQuietos
    BY <1>1, <2>1, <2>2 DEF MarcosQuietos, MismaPresencia
  <2>3. ASSUME NEW c \in Cpus, SeInstala(c) \/ SePisa(c)
        PROVE  tabla'[finalizador.pid] = tabla[finalizador.pid]
    <3>1. ~EnEspera(c) /\ \A q \in Pids \ {Activo(c)} : tabla'[q] = tabla[q]
      BY <2>3 DEF SeInstala, SePisa, CambiaSolo
    <3>2. finalizador.pid # Activo(c)
      BY <1>1, <3>1, PideUnVivo
    <3> QED BY <2>1, <3>1, <3>2
  <2>4. ~SeDevuelve
    BY <1>1 DEF SeDevuelve
  <2> QED BY <1>1, <2>1, <2>2, <2>3, <2>4, QuienMueveMarcos
<1>2. CASE MirarMarco
  BY <1>2 DEF MirarMarco, paginacion, IInv, Tipos, TiposDeHilos, FinalizadorTipo
<1>3. CASE EliminarPaginas
  BY <1>3, EliminarPaginasPreserva DEF SeDevuelve
<1>4. CASE QuitarTabla
  BY <1>4 DEF QuitarTabla, IInv, Tipos, TiposDeHilos, FinalizadorTipo
<1>5. ASSUME NEW p \in Pids, FinalizaPrograma(p)
      PROVE  FALSE
  BY <1>5 DEF FinalizaPrograma, FinalizadorLibre
<1>6. ASSUME NEW p \in Pids,
             \/ NuevoPrograma(p) \/ MarcarPaginas(p)
             \/ \E c \in Cpus : CambioProcesoActivo(c, p)
      PROVE  finalizador' = finalizador
  BY <1>6 DEF NuevoPrograma, MarcarPaginas, CambioProcesoActivo, nucleo
<1>7. ASSUME NEW c \in Cpus, (corre[c] # SinProceso /\ Pide(c)) \/ Devolver(c) \/ CpuMuere(c)
      PROVE  finalizador' = finalizador
  BY <1>7 DEF Pide, Pedir, Devolver, CpuMuere, nucleo
<1>8. ASSUME NEW c \in Cpus, PasoDelHilo(c)
      PROVE  finalizador' = finalizador
  <2>1. CASE BuscarPaginaEnTabla(c) \/ ElegirMarco(c) \/ ElegirVictima(c) \/ LeerDeSwap(c)
    BY <2>1 DEF BuscarPaginaEnTabla, ElegirMarco, ElegirVictima, LeerDeSwap, Morir, resto, nucleo
  <2>2. CASE InstalarEnMarco(c) \/ PisarVictima(c) \/ EliminarPaginaTLB(c) \/ CargarEnTLB(c)
             \/ Acceder(c)
    BY <2>2 DEF InstalarEnMarco, PisarVictima, EliminarPaginaTLB, CargarEnTLB, Acceder, resto,
                nucleo
  <2> QED BY <1>8, <2>1, <2>2 DEF PasoDelHilo
<1>9. CASE LimpiarTLB \/ UNCHANGED vars
  BY <1>1, <1>9 DEF LimpiarTLB, vars, nucleo
<1> QED BY <1>1, <1>2, <1>3, <1>4, <1>5, <1>6, <1>7, <1>8, <1>9 DEF Next, Finalizar

\* A page takes a frame nobody has: it has it alone.
LEMMA SeInstalaJusto ==
  ASSUME IInv, MarcosDistintos, BitmapJusto, NEW c \in Cpus, SeInstala(c)
  PROVE  MarcosDistintos' /\ BitmapJusto'
<1> DEFINE p == Activo(c)
           g == Pagina(c)
           m == hilos[c].marco
<1>1. /\ p \in Pids /\ g \in Pags(p) /\ m \in Marcos \ bitmap_frames
      /\ ~tabla[p][g].presencia /\ tabla'[p][g].presencia /\ tabla'[p][g].nro_marco = m
      /\ \A h \in Pags(p) \ {g} : tabla'[p][h] = tabla[p][h]
      /\ \A q \in Pids \ {p} : tabla'[q] = tabla[q]
      /\ bitmap_frames' = bitmap_frames \union {m}
  BY DEF SeInstala, Ocupa, CambiaSolo, IInv, UnHiloPorProceso
<1> HIDE DEF p, g, m
<1>2. ASSUME NEW q \in Pids, NEW h \in Pags(q), tabla[q][h].presencia
      PROVE  tabla[q][h].nro_marco # m
  <2>1. tabla[q][h] \in EntradaTipo /\ tabla[q][h].nro_marco # -1
    BY <1>2 DEF IInv, Tipos, TiposDeTablas, Presencia
  <2>2. tabla[q][h].nro_marco \in Marcos
    BY <2>1 DEF EntradaTipo
  <2>3. tabla[q][h].nro_marco \in bitmap_frames
    BY <1>2, <2>2 DEF BitmapJusto
  <2> QED BY <1>1, <2>3
<1>3. ASSUME NEW q \in Pids, NEW h \in Pags(q)
      PROVE  \/ q = p /\ h = g
             \/ tabla'[q][h] = tabla[q][h]
  BY <1>1
<1>4. MarcosDistintos'
  BY <1>1, <1>2, <1>3 DEF MarcosDistintos
<1>5. ASSUME NEW n \in Marcos
      PROVE  n \in bitmap_frames' <=>
               \E q \in Pids : \E h \in Pags(q) :
                 tabla'[q][h].presencia /\ tabla'[q][h].nro_marco = n
  <2>1. CASE n = m
    BY <1>1, <2>1
  <2>2. CASE n # m
    <3>1. n \in bitmap_frames' <=> n \in bitmap_frames
      BY <1>1, <2>2
    <3>2. ASSUME NEW q \in Pids, NEW h \in Pags(q)
          PROVE  tabla'[q][h].presencia /\ tabla'[q][h].nro_marco = n
                   <=> tabla[q][h].presencia /\ tabla[q][h].nro_marco = n
      BY <1>1, <1>3, <2>2
    <3> QED BY <3>1, <3>2 DEF BitmapJusto
  <2> QED BY <2>1, <2>2
<1> QED BY <1>4, <1>5 DEF BitmapJusto

\* A page takes the frame of another of its process, which is left without one.
LEMMA SePisaJusto ==
  ASSUME IInv, MarcosDistintos, BitmapJusto, NEW c \in Cpus, SePisa(c)
  PROVE  MarcosDistintos' /\ BitmapJusto'
<1> DEFINE p == Activo(c)
           g == Pagina(c)
           v == hilos[c].victima
           m == tabla[p][v].nro_marco
<1>1. /\ p \in Pids /\ g \in Pags(p) /\ v \in Pags(p) \ {g}
      /\ ~tabla[p][g].presencia /\ tabla'[p][g].presencia /\ tabla'[p][g].nro_marco = m
      /\ tabla[p][v].presencia /\ ~tabla'[p][v].presencia
      /\ \A h \in Pags(p) \ {g, v} : tabla'[p][h] = tabla[p][h]
      /\ \A q \in Pids \ {p} : tabla'[q] = tabla[q]
      /\ bitmap_frames' = bitmap_frames
  BY DEF SePisa, Ocupa, CambiaSolo, IInv, UnHiloPorProceso
<1>2. tabla[p][v].nro_marco = m
  OBVIOUS
<1> HIDE DEF p, g, v, m
<1>3. ASSUME NEW q \in Pids, NEW h \in Pags(q), tabla[q][h].presencia, tabla[q][h].nro_marco = m
      PROVE  q = p /\ h = v
  BY <1>1, <1>2, <1>3 DEF MarcosDistintos
<1>4. ASSUME NEW q \in Pids, NEW h \in Pags(q)
      PROVE  \/ q = p /\ h = g
             \/ q = p /\ h = v
             \/ tabla'[q][h] = tabla[q][h]
  BY <1>1
<1>5. MarcosDistintos'
  <2> SUFFICES ASSUME NEW q \in Pids, NEW r \in Pids, NEW h \in Pags(q), NEW k \in Pags(r),
                      tabla'[q][h].presencia, tabla'[r][k].presencia,
                      tabla'[q][h].nro_marco = tabla'[r][k].nro_marco
               PROVE  q = r /\ h = k
    BY DEF MarcosDistintos
  <2>1. /\ (q = p /\ h = g) \/ tabla'[q][h] = tabla[q][h]
        /\ (r = p /\ k = g) \/ tabla'[r][k] = tabla[r][k]
    BY <1>1, <1>4
  <2>2. (q = p /\ h = v) \/ (r = p /\ k = v) => FALSE
    BY <1>1
  <2>3. CASE tabla'[q][h] = tabla[q][h] /\ tabla'[r][k] = tabla[r][k]
    BY <2>3 DEF MarcosDistintos
  <2>4. CASE q = p /\ h = g
    BY <1>1, <1>3, <2>1, <2>2, <2>4
  <2>5. CASE r = p /\ k = g
    BY <1>1, <1>3, <2>1, <2>2, <2>5
  <2> QED BY <2>1, <2>3, <2>4, <2>5
<1>6. ASSUME NEW n \in Marcos
      PROVE  n \in bitmap_frames' <=>
               \E q \in Pids : \E h \in Pags(q) :
                 tabla'[q][h].presencia /\ tabla'[q][h].nro_marco = n
  <2>1. CASE n = m
    <3>1. n \in bitmap_frames
      BY <1>1, <1>2, <2>1 DEF BitmapJusto
    <3> QED BY <1>1, <2>1, <3>1
  <2>2. CASE n # m
    <3>1. ASSUME NEW q \in Pids, NEW h \in Pags(q)
          PROVE  tabla'[q][h].presencia /\ tabla'[q][h].nro_marco = n
                   <=> tabla[q][h].presencia /\ tabla[q][h].nro_marco = n
      BY <1>1, <1>2, <1>4, <2>2
    <3> QED BY <1>1, <3>1 DEF BitmapJusto
  <2> QED BY <2>1, <2>2
<1> QED BY <1>5, <1>6 DEF BitmapJusto

\* A page of a program that ends gives back the frame it had, if it had one.
LEMMA SeDevuelveJusto ==
  ASSUME IInv, MarcosDistintos, BitmapJusto, MarcoMirado, SeDevuelve
  PROVE  MarcosDistintos' /\ BitmapJusto'
<1> DEFINE p == finalizador.pid
           g == finalizador.pag
           m == finalizador.marco
<1>1. /\ p \in Pids /\ g \in Pags(p) /\ ~tabla'[p][g].presencia
      /\ \A h \in Pags(p) \ {g} : tabla'[p][h] = tabla[p][h]
      /\ \A q \in Pids \ {p} : tabla'[q] = tabla[q]
      /\ bitmap_frames' = bitmap_frames \ {m} /\ m = tabla[p][g].nro_marco
  BY DEF SeDevuelve, CambiaSolo, MarcoMirado
<1> HIDE DEF p, g, m
<1>2. ASSUME NEW q \in Pids, NEW h \in Pags(q)
      PROVE  \/ q = p /\ h = g
             \/ tabla'[q][h] = tabla[q][h]
  BY <1>1
<1>3. MarcosDistintos'
  BY <1>1, <1>2 DEF MarcosDistintos
<1>4. ASSUME NEW n \in Marcos
      PROVE  n \in bitmap_frames' <=>
               \E q \in Pids : \E h \in Pags(q) :
                 tabla'[q][h].presencia /\ tabla'[q][h].nro_marco = n
  <2>1. CASE n = m
    <3>1. n # -1
      BY MarcosAssumption DEF Marcos
    <3>2. tabla[p][g].presencia
      BY <1>1, <2>1, <3>1 DEF IInv, Presencia
    <3>3. ASSUME NEW q \in Pids, NEW h \in Pags(q), tabla'[q][h].presencia
          PROVE  tabla'[q][h].nro_marco # n
      <4>1. tabla'[q][h] = tabla[q][h] /\ ~(q = p /\ h = g)
        BY <1>1, <1>2, <3>3
      <4> QED BY <1>1, <2>1, <3>2, <3>3, <4>1 DEF MarcosDistintos
    <3> QED BY <1>1, <2>1, <3>3
  <2>2. CASE n # m
    <3>1. ASSUME NEW q \in Pids, NEW h \in Pags(q)
          PROVE  tabla'[q][h].presencia /\ tabla'[q][h].nro_marco = n
                   <=> tabla[q][h].presencia /\ tabla[q][h].nro_marco = n
      BY <1>1, <1>2, <2>2
    <3>2. n \in bitmap_frames' <=> n \in bitmap_frames
      BY <1>1, <2>2
    <3> QED BY <3>1, <3>2 DEF BitmapJusto
  <2> QED BY <2>1, <2>2
<1> QED BY <1>3, <1>4 DEF BitmapJusto

LEMMA PasoJInv ==
  ASSUME SinFallas
  PROVE  IInv /\ JInv /\ [Next]_vars => JInv'
<1> SUFFICES ASSUME IInv, JInv, [Next]_vars
             PROVE  JInv'
  OBVIOUS
<1>1. Vivas' /\ MarcoMirado'
  BY SiguenVivas, MarcoMiradoSigue DEF JInv
<1>2. MarcosDistintos' /\ BitmapJusto'
  <2>1. CASE MarcosQuietos
    BY <2>1 DEF JInv, MarcosQuietos, MismaPresencia, MarcosDistintos, BitmapJusto
  <2> QED BY <2>1, QuienMueveMarcos, SeInstalaJusto, SePisaJusto, SeDevuelveJusto DEF JInv
<1> QED BY <1>1, <1>2 DEF JInv

\* While no CPU dies, no two pages share a frame and the bitmap marks exactly the
\* frames of the pages in memory, whatever faults, replacements and ends of
\* programs do at the same time.
THEOREM SinFallasMarcosExclusivos ==
  ASSUME SinFallas
  PROVE  Spec => []MarcosExclusivos
<1>1. IInv /\ JInv => MarcosExclusivos
  <2> SUFFICES ASSUME IInv, JInv PROVE MarcosExclusivos
    OBVIOUS
  <2>1. ASSUME NEW x
        PROVE  x \in EnMemoria <=>
                 \E p \in Pids : \E g \in Pags(p) : x = <<p, g>> /\ tabla[p][g].presencia
    BY DEF EnMemoria, Presentes, IInv, Tipos, TiposDeTablas
  <2>2. ASSUME NEW x \in EnMemoria, NEW y \in EnMemoria, MarcoDe(x) = MarcoDe(y)
        PROVE  x = y
    <3>1. PICK p \in Pids : \E g \in Pags(p) : x = <<p, g>> /\ tabla[p][g].presencia
      BY <2>1
    <3>2. PICK g \in Pags(p) : x = <<p, g>> /\ tabla[p][g].presencia
      BY <3>1
    <3>3. PICK q \in Pids : \E h \in Pags(q) : y = <<q, h>> /\ tabla[q][h].presencia
      BY <2>1
    <3>4. PICK h \in Pags(q) : y = <<q, h>> /\ tabla[q][h].presencia
      BY <3>3
    <3>5. tabla[p][g].nro_marco = tabla[q][h].nro_marco
      BY <2>2, <3>2, <3>4 DEF MarcoDe
    <3> QED BY <3>2, <3>4, <3>5 DEF JInv, MarcosDistintos
  <2>3. ASSUME NEW m
        PROVE  m \in bitmap_frames <=> \E x \in EnMemoria : MarcoDe(x) = m
    <3>1. ASSUME m \in bitmap_frames
          PROVE  \E x \in EnMemoria : MarcoDe(x) = m
      <4>1. PICK p \in Pids : \E g \in Pags(p) : tabla[p][g].presencia /\ tabla[p][g].nro_marco = m
        BY <3>1 DEF JInv, BitmapJusto, IInv, Tipos, TiposDeMarcos
      <4>2. PICK g \in Pags(p) : tabla[p][g].presencia /\ tabla[p][g].nro_marco = m
        BY <4>1
      <4>3. <<p, g>> \in EnMemoria /\ MarcoDe(<<p, g>>) = m
        BY <2>1, <4>2 DEF MarcoDe
      <4> QED BY <4>3
    <3>2. ASSUME NEW x \in EnMemoria, MarcoDe(x) = m
          PROVE  m \in bitmap_frames
      <4>1. PICK p \in Pids : \E g \in Pags(p) : x = <<p, g>> /\ tabla[p][g].presencia
        BY <2>1
      <4>2. PICK g \in Pags(p) : x = <<p, g>> /\ tabla[p][g].presencia
        BY <4>1
      <4>3. m = tabla[p][g].nro_marco /\ tabla[p][g] \in EntradaTipo /\ m # -1
        BY <3>2, <4>2 DEF MarcoDe, IInv, Tipos, TiposDeTablas, Presencia
      <4>4. m \in Marcos
        BY <4>3 DEF EntradaTipo
      <4> QED BY <4>2, <4>3, <4>4 DEF JInv, BitmapJusto
    <3> QED BY <3>1, <3>2
  <2>4. bitmap_frames = {MarcoDe(x) : x \in EnMemoria}
    BY <2>3
  <2> QED BY <2>2, <2>4 DEF MarcosExclusivos
<1>2. IInv /\ JInv /\ [Next]_vars => JInv'
  BY PasoJInv
<1> QED BY <1>1, <1>2, InicioJInv, Invariante, PTL DEF Spec

-----------------------------------------------------------------------------
(***************************************************************************)
(* The paging is a memory (MemoriaAbs) for every number of CPUs, frames,   *)
(* pages and entries of the TLB, as long as no CPU dies: faults,           *)
(* replacements, write-backs, the TLB and the frames given back are        *)
(* stutters.                                                               *)
(***************************************************************************)

\* A page in memory that is not marked as modified is what the swap has.
Fiel(p, g) ==
  tabla[p][g].presencia /\ ~tabla[p][g].modificado
    => memoria_principal[tabla[p][g].nro_marco] = enSwap[p][g]

\* What leerDeSwap returned is still what the swap has, and the frame of the
\* victim holds what was saved of it.
LeidoFiel(c) ==
  hilos[c].paso \in {"instalar", "pisar"} => hilos[c].leido = enSwap[Activo(c)][Pagina(c)]
VictimaFiel(c) ==
  hilos[c].paso \in {"leer", "pisar"} /\ hilos[c].victima # -1
    => enSwap[Activo(c)][hilos[c].victima]
         = memoria_principal[tabla[Activo(c)][hilos[c].victima].nro_marco]

CopiasFieles == \A p \in procesosEnSwap : \A g \in Pags(p) : Fiel(p, g)
NuevosEnBlanco ==
  \A p \in Pids : programa[p] = "nuevo" =>
    enSwap[p] = EnBlanco(p) /\ \A g \in Pags(p) : ~tabla[p][g].presencia
HilosFieles == \A c \in Cpus : LeidoFiel(c) /\ VictimaFiel(c)
KInv == CopiasFieles /\ NuevosEnBlanco /\ HilosFieles

-----------------------------------------------------------------------------
(* What a step leaves alone *)

\* Process q keeps its pages, wherever they are; they may become modified.
Quieto(q) ==
  /\ enSwap'[q] = enSwap[q]
  /\ \A h \in Pags(q) :
       /\ tabla'[q][h].presencia = tabla[q][h].presencia
       /\ tabla'[q][h].nro_marco = tabla[q][h].nro_marco
       /\ tabla[q][h].modificado => tabla'[q][h].modificado
       /\ tabla[q][h].presencia =>
            memoria_principal'[tabla[q][h].nro_marco] = memoria_principal[tabla[q][h].nro_marco]

LEMMA VisibleQuieto ==
  ASSUME NEW q, Quieto(q)
  PROVE  Visible(q)' = Visible(q)
BY DEF Quieto, Visible

\* A thread in its request serves a process that lives, and only that thread.
LEMMA SirveUnVivo ==
  ASSUME IInv, Vivas, NEW c \in Cpus, ~EnEspera(c)
  PROVE  /\ Activo(c) \in Pids /\ Pagina(c) \in Pags(Activo(c))
         /\ corre[c] = Activo(c) /\ programa[Activo(c)] = "admitido"
         /\ Activo(c) \in procesosEnSwap
         /\ \A g \in Pags(Activo(c)) : ~Liberada(Activo(c), g)
         /\ \A k \in Cpus \ {c} : ~EnEspera(k) => Activo(k) # Activo(c)
<1>1. corre[c] = Activo(c) /\ Activo(c) \in Pids /\ Pagina(c) \in Pags(Activo(c))
  BY DEF IInv, UnHiloPorProceso, Vivas
<1>2. programa[Activo(c)] = "admitido"
  BY <1>1, NombresAssumption DEF IInv, UnHiloPorProceso
<1>3. Activo(c) \in procesosEnSwap
  BY <1>1, <1>2 DEF IInv, Programas
<1>4. \A g \in Pags(Activo(c)) : ~Liberada(Activo(c), g)
  BY <1>2 DEF Liberada
<1> QED BY <1>1, <1>2, <1>3, <1>4, HiloOcupado

\* The victim of a thread is in memory until it is replaced.
LEMMA VictimaPresente ==
  ASSUME IInv, Vivas, NEW c \in Cpus, hilos[c].paso \in {"leer", "pisar"},
         hilos[c].victima # -1
  PROVE  /\ ~EnEspera(c) /\ hilos[c].victima \in Pags(Activo(c)) \ {Pagina(c)}
         /\ tabla[Activo(c)][hilos[c].victima].presencia
<1>1. ~EnEspera(c)
  BY DEF EnEspera
<1>2. /\ hilos[c].victima \in Pags(Activo(c)) \ {Pagina(c)}
      /\ TieneOLiberada(Activo(c), hilos[c].victima)
  BY DEF IInv, PasosCoherentes, PasoCoherente
<1> QED BY <1>1, <1>2, SirveUnVivo DEF TieneOLiberada

\* A step keeps the invariant when the processes outside X are left alone, those in
\* X are faithful afterwards, and so is what each thread that moves carries.
LEMMA FielesEstables ==
  ASSUME IInv, Vivas, KInv, NEW X \in SUBSET Pids,
         \A q \in Pids \ X : Quieto(q),
         \A q \in X : /\ programa'[q] # "nuevo"
                      /\ q \in procesosEnSwap' => \A g \in Pags(q) : Fiel(q, g)',
         \A q \in Pids : programa'[q] = "nuevo" => programa[q] = "nuevo",
         procesosEnSwap' \subseteq Pids,
         \A q \in procesosEnSwap' : q \in procesosEnSwap \/ programa[q] = "nuevo",
         \A c \in Cpus :
           \/ /\ hilos'[c] = hilos[c]
              /\ \/ EnEspera(c)
                 \/ Activo(c) \notin X /\ proceso_activo'[c] = proceso_activo[c]
           \/ LeidoFiel(c)' /\ VictimaFiel(c)'
  PROVE  KInv'
<1>1. CopiasFieles'
  <2> SUFFICES ASSUME NEW q \in procesosEnSwap', NEW g \in Pags(q)
               PROVE  Fiel(q, g)'
    BY DEF CopiasFieles
  <2>1. CASE q \in X
    BY <2>1
  <2>2. CASE q \notin X
    <3>1. q \in Pids /\ Quieto(q)
      BY <2>2
    <3>2. CASE q \in procesosEnSwap
      <4>1. Fiel(q, g)
        BY <3>2 DEF KInv, CopiasFieles
      <4> QED BY <3>1, <4>1 DEF Quieto, Fiel
    <3>3. CASE programa[q] = "nuevo"
      BY <3>1, <3>3 DEF KInv, NuevosEnBlanco, Quieto, Fiel
    <3> QED BY <3>2, <3>3
  <2> QED BY <2>1, <2>2
<1>2. NuevosEnBlanco'
  <2> SUFFICES ASSUME NEW q \in Pids, programa'[q] = "nuevo"
               PROVE  enSwap'[q] = EnBlanco(q) /\ \A g \in Pags(q) : ~tabla'[q][g].presencia
    BY DEF NuevosEnBlanco
  <2>1. Quieto(q) /\ programa[q] = "nuevo"
    OBVIOUS
  <2> QED BY <2>1 DEF KInv, NuevosEnBlanco, Quieto
<1>3. ASSUME NEW c \in Cpus
      PROVE  LeidoFiel(c)' /\ VictimaFiel(c)'
  <2>1. CASE hilos'[c] = hilos[c] /\ EnEspera(c)
    BY <2>1 DEF EnEspera, LeidoFiel, VictimaFiel
  <2>2. CASE /\ hilos'[c] = hilos[c] /\ ~EnEspera(c)
             /\ Activo(c) \notin X /\ proceso_activo'[c] = proceso_activo[c]
    <3>1. /\ Activo(c)' = Activo(c) /\ Pagina(c)' = Pagina(c)
          /\ Activo(c) \in Pids /\ Quieto(Activo(c))
      BY <2>2, SirveUnVivo DEF Activo, Pagina
    <3>2. LeidoFiel(c)'
      BY <2>2, <3>1 DEF KInv, HilosFieles, LeidoFiel, Quieto
    <3>3. VictimaFiel(c)'
      <4>1. CASE hilos[c].paso \in {"leer", "pisar"} /\ hilos[c].victima # -1
        <5>1. /\ hilos[c].victima \in Pags(Activo(c))
              /\ tabla[Activo(c)][hilos[c].victima].presencia
          BY <4>1, VictimaPresente
        <5> QED BY <2>2, <3>1, <4>1, <5>1 DEF KInv, HilosFieles, VictimaFiel, Quieto
      <4>2. CASE ~(hilos[c].paso \in {"leer", "pisar"} /\ hilos[c].victima # -1)
        BY <2>2, <4>2 DEF VictimaFiel
      <4> QED BY <4>1, <4>2
    <3> QED BY <3>2, <3>3
  <2> QED BY <2>1, <2>2
<1> QED BY <1>1, <1>2, <1>3 DEF KInv, HilosFieles

\* The abstract memory sees a step by the pages, the requests and the answers.
LEMMA Tartamudea ==
  ASSUME procesosEnSwap' = procesosEnSwap, respuesta' = respuesta,
         procesosEnSwap \subseteq Pids,
         \A q \in procesosEnSwap : Visible(q)' = Visible(q),
         \A c \in Cpus : PedidoDe(c)' = PedidoDe(c)
  PROVE  UNCHANGED Abs!vars
BY DEF Abs!vars

LEMMA PedidoIgual ==
  ASSUME NEW c \in Cpus, EnEspera(c)' = EnEspera(c),
         ~EnEspera(c) => /\ hilos'[c].op = hilos[c].op /\ hilos'[c].pag = hilos[c].pag
                         /\ hilos'[c].dato = hilos[c].dato
                         /\ proceso_activo'[c] = proceso_activo[c]
  PROVE  PedidoDe(c)' = PedidoDe(c)
BY DEF PedidoDe, Activo

LEMMA TodoQuieto ==
  ASSUME tabla' = tabla, memoria_principal' = memoria_principal, enSwap' = enSwap
  PROVE  \A q \in Pids : Quieto(q)
BY DEF Quieto

\* A step of the kernel, or of the console, that only moves threads at rest.
LEMMA PasoQuieto ==
  ASSUME IInv, Vivas, KInv, \A q \in Pids : Quieto(q),
         procesosEnSwap' = procesosEnSwap, respuesta' = respuesta,
         \A q \in Pids : programa'[q] = "nuevo" => programa[q] = "nuevo",
         hilos' = hilos,
         \A c \in Cpus : EnEspera(c) \/ proceso_activo'[c] = proceso_activo[c]
  PROVE  KInv' /\ UNCHANGED Abs!vars
<1>1. procesosEnSwap \subseteq Pids
  BY DEF IInv, Tipos, TiposDeSwap
<1>2. KInv'
  <2> DEFINE X == {}
  <2>1. /\ X \in SUBSET Pids
        /\ \A q \in Pids \ X : Quieto(q)
        /\ \A q \in X : /\ programa'[q] # "nuevo"
                        /\ q \in procesosEnSwap' => \A g \in Pags(q) : Fiel(q, g)'
        /\ \A c \in Cpus : Activo(c) \notin X
    OBVIOUS
  <2> HIDE DEF X
  <2>2. /\ procesosEnSwap' \subseteq Pids
        /\ \A q \in procesosEnSwap' : q \in procesosEnSwap \/ programa[q] = "nuevo"
    BY <1>1
  <2> QED BY <2>1, <2>2, FielesEstables
<1>3. \A c \in Cpus : PedidoDe(c)' = PedidoDe(c)
  BY PedidoIgual DEF EnEspera
<1>4. \A q \in procesosEnSwap : Visible(q)' = Visible(q)
  BY <1>1, VisibleQuieto
<1> QED BY <1>1, <1>2, <1>3, <1>4, Tartamudea

\* A step of a thread in its request.
LEMMA FielesDeUnHilo ==
  ASSUME IInv, Vivas, KInv, NEW c \in Cpus, ~EnEspera(c), NEW p, p = Activo(c),
         UNCHANGED <<nucleo, cpus, procesosEnSwap>>,
         \A k \in Cpus \ {c} : hilos'[k] = hilos[k],
         \A q \in Pids \ {p} : Quieto(q),
         \A g \in Pags(p) : Fiel(p, g)',
         LeidoFiel(c)', VictimaFiel(c)'
  PROVE  KInv' /\ \A q \in procesosEnSwap \ {p} : Visible(q)' = Visible(q)
<1>1. procesosEnSwap \subseteq Pids
  BY DEF IInv, Tipos, TiposDeSwap
<1>2. /\ p \in Pids /\ programa[p] = "admitido"
      /\ \A k \in Cpus \ {c} : ~EnEspera(k) => Activo(k) # p
      /\ programa' = programa /\ proceso_activo' = proceso_activo
      /\ procesosEnSwap' = procesosEnSwap
  BY SirveUnVivo DEF nucleo, cpus
<1>3. KInv'
  <2> DEFINE X == {p}
  <2>1. /\ X \in SUBSET Pids
        /\ \A q \in Pids \ X : Quieto(q)
        /\ \A q \in X : /\ programa'[q] # "nuevo"
                        /\ q \in procesosEnSwap' => \A g \in Pags(q) : Fiel(q, g)'
    BY <1>2
  <2>2. \A k \in Cpus :
          \/ /\ hilos'[k] = hilos[k]
             /\ \/ EnEspera(k)
                \/ Activo(k) \notin X /\ proceso_activo'[k] = proceso_activo[k]
          \/ LeidoFiel(k)' /\ VictimaFiel(k)'
    BY <1>2
  <2> HIDE DEF X
  <2>3. /\ procesosEnSwap' \subseteq Pids
        /\ \A q \in procesosEnSwap' : q \in procesosEnSwap \/ programa[q] = "nuevo"
        /\ \A q \in Pids : programa'[q] = "nuevo" => programa[q] = "nuevo"
    BY <1>1, <1>2
  <2> QED BY <2>1, <2>2, <2>3, FielesEstables
<1>4. \A q \in procesosEnSwap \ {p} : Visible(q)' = Visible(q)
  BY <1>1, VisibleQuieto
<1> QED BY <1>3, <1>4

\* One that answers nothing.
LEMMA PasoDeUnHilo ==
  ASSUME IInv, Vivas, KInv, NEW c \in Cpus, ~EnEspera(c), NEW p, p = Activo(c),
         UNCHANGED <<nucleo, cpus, procesosEnSwap, respuesta>>,
         \A k \in Cpus \ {c} : hilos'[k] = hilos[k],
         hilos'[c].paso # "espera", hilos'[c].op = hilos[c].op,
         hilos'[c].pag = hilos[c].pag, hilos'[c].dato = hilos[c].dato,
         \A q \in Pids \ {p} : Quieto(q),
         \A g \in Pags(p) : Fiel(p, g)',
         Visible(p)' = Visible(p),
         LeidoFiel(c)', VictimaFiel(c)'
  PROVE  KInv' /\ UNCHANGED Abs!vars
<1>1. procesosEnSwap \subseteq Pids /\ proceso_activo' = proceso_activo
  BY DEF IInv, Tipos, TiposDeSwap, cpus
<1>2. UNCHANGED <<nucleo, cpus, procesosEnSwap>>
  OBVIOUS
<1>3. KInv' /\ \A q \in procesosEnSwap \ {p} : Visible(q)' = Visible(q)
  BY <1>2, FielesDeUnHilo
<1>4. \A k \in Cpus : PedidoDe(k)' = PedidoDe(k)
  <2> TAKE k \in Cpus
  <2>1. CASE k = c
    BY <1>1, <2>1, PedidoIgual DEF EnEspera
  <2>2. CASE k # c
    BY <1>1, <2>2, PedidoIgual DEF EnEspera
  <2> QED BY <2>1, <2>2
<1>5. \A q \in procesosEnSwap : Visible(q)' = Visible(q)
  <2> TAKE q \in procesosEnSwap
  <2>1. CASE q = p
    BY <2>1
  <2>2. CASE q # p
    BY <1>3, <2>2
  <2> QED BY <2>1, <2>2
<1>6. procesosEnSwap' = procesosEnSwap /\ respuesta' = respuesta
  OBVIOUS
<1> QED BY <1>1, <1>3, <1>4, <1>5, <1>6, Tartamudea

\* The answer: the thread waits again, and its request is no longer there.
LEMMA Contestado ==
  ASSUME NEW c \in Cpus, hilos'[c] = HiloEnEspera, ~EnEspera(c),
         \A k \in Cpus \ {c} : hilos'[k] = hilos[k], proceso_activo' = proceso_activo
  PROVE  /\ [k \in Cpus |-> PedidoDe(k)]'
              = [[k \in Cpus |-> PedidoDe(k)] EXCEPT ![c] = Abs!SinPedido]
         /\ PedidoDe(c).op = hilos[c].op /\ PedidoDe(c).pid = Activo(c)
         /\ PedidoDe(c).pag = Pagina(c) /\ PedidoDe(c).dato = hilos[c].dato
         /\ LeidoFiel(c)' /\ VictimaFiel(c)'
<1>1. PedidoDe(c)' = Abs!SinPedido
  BY DEF PedidoDe, EnEspera, HiloEnEspera, Abs!SinPedido
<1>2. \A k \in Cpus \ {c} : PedidoDe(k)' = PedidoDe(k)
  BY PedidoIgual DEF EnEspera
<1>3. [k \in Cpus |-> PedidoDe(k)]'
              = [[k \in Cpus |-> PedidoDe(k)] EXCEPT ![c] = Abs!SinPedido]
  BY <1>1, <1>2
<1>4. /\ PedidoDe(c).op = hilos[c].op /\ PedidoDe(c).pid = Activo(c)
      /\ PedidoDe(c).pag = Pagina(c) /\ PedidoDe(c).dato = hilos[c].dato
  BY DEF PedidoDe, Pagina
<1>5. LeidoFiel(c)' /\ VictimaFiel(c)'
  BY DEF LeidoFiel, VictimaFiel, HiloEnEspera
<1> QED BY <1>3, <1>4, <1>5

\* The same, when its process is left alone too.
LEMMA PasoDeUnHiloQuieto ==
  ASSUME IInv, Vivas, KInv, NEW c \in Cpus, ~EnEspera(c),
         UNCHANGED <<nucleo, cpus, procesosEnSwap, respuesta>>,
         \A k \in Cpus \ {c} : hilos'[k] = hilos[k],
         hilos'[c].paso # "espera", hilos'[c].op = hilos[c].op,
         hilos'[c].pag = hilos[c].pag, hilos'[c].dato = hilos[c].dato,
         \A q \in Pids : Quieto(q),
         LeidoFiel(c)', VictimaFiel(c)'
  PROVE  KInv' /\ UNCHANGED Abs!vars
<1>1. PICK p \in Pids : p = Activo(c) /\ p \in procesosEnSwap
  BY SirveUnVivo
<1>2. Visible(p)' = Visible(p)
  BY <1>1, VisibleQuieto
<1>3. \A g \in Pags(p) : Fiel(p, g)'
  BY <1>1 DEF KInv, CopiasFieles, Quieto, Fiel
<1>4. \A q \in Pids \ {p} : Quieto(q)
  OBVIOUS
<1> QED BY <1>1, <1>2, <1>3, <1>4, PasoDeUnHilo

-----------------------------------------------------------------------------
(* One lemma per operation: the requests and the page faults *)

LEMMA SoloUmc ==
  ASSUME IInv, Vivas, KInv, UNCHANGED resto
  PROVE  KInv' /\ UNCHANGED Abs!vars
<1>1. /\ tabla' = tabla /\ memoria_principal' = memoria_principal /\ enSwap' = enSwap
      /\ procesosEnSwap' = procesosEnSwap /\ respuesta' = respuesta
      /\ programa' = programa /\ hilos' = hilos /\ proceso_activo' = proceso_activo
  BY DEF resto, paginacion, marcos, swap, nucleo, cpus
<1> QED BY <1>1, TodoQuieto, PasoQuieto

\* A step that only changes bits of use.
LEMMA SoloUsos ==
  ASSUME \A q \in Pids : \A h \in Pags(q) :
           /\ tabla'[q][h].presencia = tabla[q][h].presencia
           /\ tabla'[q][h].nro_marco = tabla[q][h].nro_marco
           /\ tabla'[q][h].modificado = tabla[q][h].modificado,
         memoria_principal' = memoria_principal, enSwap' = enSwap
  PROVE  \A q \in Pids : Quieto(q)
BY DEF Quieto

LEMMA BuscarPaginaRefina ==
  ASSUME IInv, Vivas, KInv, NEW c \in Cpus, BuscarPaginaEnTabla(c)
  PROVE  KInv' /\ UNCHANGED Abs!vars
<1>1. CASE Morir
  BY <1>1, SoloUmc DEF Morir
<1>2. CASE ~Morir
  <2>1. /\ hilos[c].paso = "tabla" /\ ~EnEspera(c)
        /\ UNCHANGED <<nucleo, cpus, procesosEnSwap, respuesta>>
        /\ memoria_principal' = memoria_principal /\ enSwap' = enSwap
    BY <1>2 DEF BuscarPaginaEnTabla, EnPaso, EnEspera, marcos, swap
  <2>2. \E paso \in Pasos \ {"espera", "leer", "instalar", "pisar"} : Va(c, paso)
    BY <1>2 DEF BuscarPaginaEnTabla, ConPagina, Pasos
  <2>3. PICK paso \in Pasos \ {"espera", "leer", "instalar", "pisar"} : Va(c, paso)
    BY <2>2
  <2>4. /\ hilos'[c].paso = paso /\ hilos'[c].op = hilos[c].op
        /\ hilos'[c].pag = hilos[c].pag /\ hilos'[c].dato = hilos[c].dato
        /\ \A k \in Cpus \ {c} : hilos'[k] = hilos[k]
    BY <2>3, VaEs DEF IInv, Tipos
  <2>5. LeidoFiel(c)' /\ VictimaFiel(c)' /\ hilos'[c].paso # "espera"
    BY <2>4 DEF LeidoFiel, VictimaFiel
  <2>6. \A q \in Pids : Quieto(q)
    <3>1. CASE tabla' = tabla
      BY <2>1, <3>1, TodoQuieto
    <3>2. CASE tabla' = [tabla EXCEPT ![Activo(c)][Pagina(c)].uso = TRUE]
      <4>1. /\ Activo(c) \in Pids /\ Pagina(c) \in Pags(Activo(c))
            /\ tabla[Activo(c)] \in [Pags(Activo(c)) -> EntradaTipo]
            /\ Entrada(c) \in EntradaTipo
        BY <2>1, HiloOcupado
      <4> DEFINE p == Activo(c)
                 g == Pagina(c)
                 e == [tabla[p][g] EXCEPT !.uso = TRUE]
      <4>2. tabla' = [tabla EXCEPT ![p][g] = e]
        BY <3>2
      <4>3. /\ e \in EntradaTipo /\ e.presencia = tabla[p][g].presencia
            /\ e.nro_marco = tabla[p][g].nro_marco
            /\ e.modificado = tabla[p][g].modificado
        BY <4>1 DEF EntradaTipo, Entrada
      <4> HIDE DEF p, g, e
      <4>4. manecilla' = manecilla /\ tablasDePagina' = tablasDePagina
        BY <1>2 DEF BuscarPaginaEnTabla, paginacion
      <4>5. /\ tabla'[p][g] = e
            /\ \A h \in Pags(p) \ {g} : tabla'[p][h] = tabla[p][h]
            /\ \A q \in Pids \ {p} : tabla'[q] = tabla[q]
        BY <4>1, <4>2, <4>3, <4>4, CambiaEntrada DEF IInv, Tipos, TiposDeTablas, p, g
      <4> QED BY <2>1, <4>3, <4>5, SoloUsos
    <3> QED BY <1>2, <3>1, <3>2 DEF BuscarPaginaEnTabla
  <2> QED BY <2>1, <2>4, <2>5, <2>6, PasoDeUnHiloQuieto
<1> QED BY <1>1, <1>2

LEMMA LeerDeSwapRefina ==
  ASSUME IInv, Vivas, KInv, NEW c \in Cpus, LeerDeSwap(c)
  PROVE  KInv' /\ UNCHANGED Abs!vars
<1>1. CASE Morir
  BY <1>1, SoloUmc DEF Morir
<1>2. CASE ~Morir
  <2> DEFINE sigue == IF hilos[c].victima = -1 THEN "instalar" ELSE "pisar"
             leida == enSwap[Activo(c)][Pagina(c)]
  <2>1. /\ hilos[c].paso = "leer" /\ ~EnEspera(c)
        /\ UNCHANGED <<paginacion, marcos, swap, nucleo, cpus, respuesta>>
        /\ hilos' = [hilos EXCEPT ![c].leido = leida, ![c].paso = sigue]
    BY <1>2 DEF LeerDeSwap, EnPaso, EnEspera
  <2>2. /\ hilos'[c] = [hilos[c] EXCEPT !.leido = leida, !.paso = sigue]
        /\ \A k \in Cpus \ {c} : hilos'[k] = hilos[k]
        /\ hilos[c] \in HiloTipo
    BY <2>1 DEF IInv, Tipos, TiposDeHilos
  <2> HIDE DEF sigue
  <2>3. /\ hilos'[c].paso = sigue /\ hilos'[c].leido = leida
        /\ hilos'[c].op = hilos[c].op /\ hilos'[c].pag = hilos[c].pag
        /\ hilos'[c].dato = hilos[c].dato /\ hilos'[c].victima = hilos[c].victima
    BY <2>2 DEF HiloTipo
  <2>4. /\ tabla' = tabla /\ memoria_principal' = memoria_principal /\ enSwap' = enSwap
        /\ proceso_activo' = proceso_activo /\ procesosEnSwap' = procesosEnSwap
    BY <2>1 DEF paginacion, marcos, swap, cpus
  <2>5. LeidoFiel(c)'
    BY <2>3, <2>4 DEF LeidoFiel, Activo, Pagina
  <2>6. VictimaFiel(c)'
    BY <2>1, <2>3, <2>4 DEF KInv, HilosFieles, VictimaFiel, Activo
  <2>7. hilos'[c].paso # "espera"
    BY <2>3 DEF sigue
  <2>8. UNCHANGED <<nucleo, cpus, procesosEnSwap, respuesta>>
    BY <2>1, <2>4
  <2> QED BY <2>1, <2>2, <2>3, <2>4, <2>5, <2>6, <2>7, <2>8, TodoQuieto, PasoDeUnHiloQuieto
<1> QED BY <1>1, <1>2

\* The steps of a thread that only move it on.
LEMMA SoloAvanza ==
  ASSUME IInv, Vivas, KInv, NEW c \in Cpus, ~EnEspera(c),
         NEW paso \in Pasos \ {"espera", "leer", "instalar", "pisar"}, Va(c, paso),
         UNCHANGED <<paginacion, marcos, swap, nucleo, cpus, respuesta>>
  PROVE  KInv' /\ UNCHANGED Abs!vars
<1>1. /\ hilos'[c].paso = paso /\ hilos'[c].op = hilos[c].op
      /\ hilos'[c].pag = hilos[c].pag /\ hilos'[c].dato = hilos[c].dato
      /\ \A k \in Cpus \ {c} : hilos'[k] = hilos[k]
  BY VaEs DEF IInv, Tipos
<1>2. LeidoFiel(c)' /\ VictimaFiel(c)' /\ hilos'[c].paso # "espera"
  BY <1>1 DEF LeidoFiel, VictimaFiel
<1>3. \A q \in Pids : Quieto(q)
  BY TodoQuieto DEF paginacion, marcos, swap
<1>4. UNCHANGED <<nucleo, cpus, procesosEnSwap, respuesta>>
  BY DEF swap
<1> QED BY <1>1, <1>2, <1>3, <1>4, PasoDeUnHiloQuieto

LEMMA PasoDeTlbRefina ==
  ASSUME IInv, Vivas, KInv, NEW c \in Cpus, EliminarPaginaTLB(c) \/ CargarEnTLB(c)
  PROVE  KInv' /\ UNCHANGED Abs!vars
<1>1. /\ ~EnEspera(c) /\ (Va(c, "cargarTlb") \/ Va(c, "acceder"))
      /\ UNCHANGED <<paginacion, marcos, swap, nucleo, cpus, respuesta>>
  BY DEF EliminarPaginaTLB, CargarEnTLB, EnPaso, EnEspera
<1>2. /\ "cargarTlb" \in Pasos \ {"espera", "leer", "instalar", "pisar"}
      /\ "acceder" \in Pasos \ {"espera", "leer", "instalar", "pisar"}
  BY DEF Pasos
<1> QED BY <1>1, <1>2, SoloAvanza

LEMMA ElegirMarcoRefina ==
  ASSUME IInv, Vivas, KInv, NEW c \in Cpus, ElegirMarco(c)
  PROVE  KInv' /\ (UNCHANGED Abs!vars \/ Abs!Negar(c))
<1>1. /\ hilos[c].paso \in {"marco", "primerMarco"} /\ ~EnEspera(c)
      /\ UNCHANGED <<umc, paginacion, bitmap_frames, memoria_principal, tlb, swap,
                     nucleo, cpus>>
      /\ hilos[c].victima = -1
  BY DEF ElegirMarco, PideMarco, EnPaso, EnEspera, IInv, PasosCoherentes, PasoCoherente
<1>2. /\ \A q \in Pids : Quieto(q)
      /\ UNCHANGED <<nucleo, cpus, procesosEnSwap>> /\ proceso_activo' = proceso_activo
  BY <1>1, TodoQuieto DEF paginacion, swap, cpus
<1>3. CASE /\ \E m : hilos' = [hilos EXCEPT ![c].paso = "leer", ![c].marco = m]
           /\ respuesta' = respuesta
  <2>1. /\ hilos'[c].paso = "leer" /\ hilos'[c].op = hilos[c].op
        /\ hilos'[c].pag = hilos[c].pag /\ hilos'[c].dato = hilos[c].dato
        /\ hilos'[c].victima = -1
        /\ \A k \in Cpus \ {c} : hilos'[k] = hilos[k]
    BY <1>1, <1>3 DEF IInv, Tipos, TiposDeHilos, HiloTipo
  <2>2. LeidoFiel(c)' /\ VictimaFiel(c)' /\ hilos'[c].paso # "espera"
    BY <2>1 DEF LeidoFiel, VictimaFiel
  <2> QED BY <1>1, <1>2, <1>3, <2>1, <2>2, PasoDeUnHiloQuieto
<1>4. CASE Va(c, "victima") /\ respuesta' = respuesta
  <2>1. /\ hilos'[c].paso = "victima" /\ hilos'[c].op = hilos[c].op
        /\ hilos'[c].pag = hilos[c].pag /\ hilos'[c].dato = hilos[c].dato
        /\ \A k \in Cpus \ {c} : hilos'[k] = hilos[k]
    BY <1>4, VaEs DEF IInv, Tipos, Pasos
  <2>2. LeidoFiel(c)' /\ VictimaFiel(c)' /\ hilos'[c].paso # "espera"
    BY <2>1 DEF LeidoFiel, VictimaFiel
  <2> QED BY <1>1, <1>2, <1>4, <2>1, <2>2, PasoDeUnHiloQuieto
<1>5. CASE Responder(c, "NO_OK")
  <2>1. /\ hilos'[c] = HiloEnEspera /\ \A k \in Cpus \ {c} : hilos'[k] = hilos[k]
        /\ respuesta' = [respuesta EXCEPT ![c] = "NO_OK"]
    BY <1>5, ResponderEs DEF IInv, Responder
  <2>2. /\ [k \in Cpus |-> PedidoDe(k)]'
              = [[k \in Cpus |-> PedidoDe(k)] EXCEPT ![c] = Abs!SinPedido]
        /\ PedidoDe(c).pid = Activo(c) /\ LeidoFiel(c)' /\ VictimaFiel(c)'
    BY <1>1, <1>2, <2>1, Contestado
  <2>3. PICK p \in Pids : p = Activo(c) /\ p \in procesosEnSwap
    BY <1>1, SirveUnVivo
  <2>4. Visible(p)' = Visible(p) /\ \A g \in Pags(p) : Fiel(p, g)'
    BY <1>2, <2>3, VisibleQuieto DEF KInv, CopiasFieles, Quieto, Fiel
  <2>5. KInv' /\ \A q \in procesosEnSwap \ {p} : Visible(q)' = Visible(q)
    BY <1>1, <1>2, <2>1, <2>2, <2>3, <2>4, FielesDeUnHilo
  <2>6. \A q \in procesosEnSwap : Visible(q)' = Visible(q)
    <3> TAKE q \in procesosEnSwap
    <3>1. CASE q = p
      BY <2>4, <3>1
    <3>2. CASE q # p
      BY <2>5, <3>2
    <3> QED BY <3>1, <3>2
  <2>7. PedidoDe(c) # Abs!SinPedido
    BY <2>2, <2>3, NombresAssumption DEF Abs!SinPedido
  <2>8. procesosEnSwap' = procesosEnSwap
    BY <1>2
  <2>9. Abs!Negar(c)
    BY <2>1, <2>2, <2>6, <2>7, <2>8 DEF Abs!Negar
  <2> QED BY <2>5, <2>9
<1> QED BY <1>3, <1>4, <1>5 DEF ElegirMarco

LEMMA MarcoDePresente ==
  ASSUME IInv, NEW q \in Pids, NEW h \in Pags(q), tabla[q][h].presencia
  PROVE  tabla[q][h].nro_marco \in Marcos /\ tabla[q][h] \in EntradaTipo
<1>1. tabla[q][h] \in EntradaTipo /\ tabla[q][h].nro_marco # -1
  BY DEF IInv, Presencia, Tipos, TiposDeTablas
<1> QED BY <1>1 DEF EntradaTipo

\* Who has no page in the frame that is written stays as it was.
LEMMA OtrosQuietos ==
  ASSUME IInv, NEW p, NEW m, NEW d,
         memoria_principal' = [memoria_principal EXCEPT ![m] = d],
         \A q \in Pids \ {p} : tabla'[q] = tabla[q], enSwap' = enSwap,
         \A q \in Pids \ {p} : \A h \in Pags(q) :
           tabla[q][h].presencia => tabla[q][h].nro_marco # m
  PROVE  \A q \in Pids \ {p} : Quieto(q)
<1>1. \A q \in Pids : \A h \in Pags(q) :
        tabla[q][h].presencia => tabla[q][h].nro_marco \in Marcos
  BY MarcoDePresente
<1>2. \A n \in Marcos \ {m} : memoria_principal'[n] = memoria_principal[n]
  BY DEF IInv, Tipos, TiposDeMarcos
<1> QED BY <1>1, <1>2 DEF Quieto

LEMMA ElegirVictimaRefina ==
  ASSUME IInv, Vivas, KInv, NEW c \in Cpus, ElegirVictima(c)
  PROVE  KInv' /\ UNCHANGED Abs!vars
<1>1. CASE umc' = "indefinida" /\ UNCHANGED resto
  BY <1>1, SoloUmc
<1>2. CASE ~(umc' = "indefinida" /\ UNCHANGED resto)
  <2>1. ~EnEspera(c) /\ hilos[c].paso = "victima"
    BY <1>2 DEF ElegirVictima, EnPaso, EnEspera
  <2>2. PICK p \in Pids : p = Activo(c) /\ p \in procesosEnSwap
    BY <2>1, SirveUnVivo
  <2> DEFINE v == Victima(tabla[p], manecilla[p], ES_CLOCKM)
             t == TrasElegir(tabla[p], manecilla[p], ES_CLOCKM)
  <2>3. PICK w : w = v
    OBVIOUS
  <2>4. /\ hilos' = [hilos EXCEPT ![c].paso = "leer", ![c].victima = w]
        /\ tabla' = [tabla EXCEPT ![p] = t]
        /\ \/ /\ tabla[p][w].modificado
              /\ enSwap' = [enSwap EXCEPT ![p][w] = memoria_principal[tabla[p][w].nro_marco]]
           \/ ~tabla[p][w].modificado /\ enSwap' = enSwap
        /\ UNCHANGED <<umc, tablasDePagina, marcos, tlb, procesosEnSwap, nucleo, cpus,
                       respuesta>>
        /\ ~Liberada(p, 0)
    BY <1>2, <2>2, <2>3 DEF ElegirVictima, TrasEscribir
  <2>5. /\ tabla[p] \in [Pags(p) -> EntradaTipo] /\ Presentes(tabla[p]) # {}
    BY <2>1, <2>2, <2>4, HiloOcupado DEF IInv, PasosCoherentes, PasoCoherente
  <2>6. /\ CantPaginas[p] \in Nat \ {0} /\ Pags(p) = 0 .. CantPaginas[p] - 1
        /\ manecilla[p] \in Nat /\ ES_CLOCKM \in BOOLEAN
    BY PagsEs, TlbAssumption DEF IInv, Tipos, TiposDeTablas
  <2>7. w \in Presentes(tabla[p])
    BY <2>3, <2>5, <2>6, VictimaEn
  <2>8. w \in Pags(p) /\ tabla[p][w].presencia
    BY <2>7, PresentesFinitas DEF IInv, Tipos
  <2>9. \A h \in Pags(p) : /\ t[h].presencia = tabla[p][h].presencia
                           /\ t[h].nro_marco = tabla[p][h].nro_marco
                           /\ t[h].modificado = tabla[p][h].modificado
    BY <2>5, <2>6, TrasElegirEs
  <2> HIDE DEF t, v
  <2>10. tabla'[p] = t /\ \A q \in Pids \ {p} : tabla'[q] = tabla[q]
    BY <2>4 DEF IInv, Tipos, TiposDeTablas
  <2>11. memoria_principal' = memoria_principal /\ proceso_activo' = proceso_activo
    BY <2>4 DEF marcos, cpus
  <2>12. /\ enSwap[p] \in [Pags(p) -> Datos] /\ p \in DOMAIN enSwap
    BY DEF IInv, Tipos, TiposDeSwap
  <2>13. /\ \A q \in Pids \ {p} : enSwap'[q] = enSwap[q]
         /\ \A h \in Pags(p) \ {w} : enSwap'[p][h] = enSwap[p][h]
         /\ enSwap'[p][w] = memoria_principal[tabla[p][w].nro_marco]
    <3>1. CASE tabla[p][w].modificado
      BY <2>4, <2>8, <2>12, <3>1 DEF IInv, Tipos, TiposDeSwap
    <3>2. CASE ~tabla[p][w].modificado
      BY <2>2, <2>4, <2>8, <3>2 DEF KInv, CopiasFieles, Fiel
    <3> QED BY <3>1, <3>2
  <2>14. /\ hilos'[c].paso = "leer" /\ hilos'[c].op = hilos[c].op
         /\ hilos'[c].pag = hilos[c].pag /\ hilos'[c].dato = hilos[c].dato
         /\ hilos'[c].victima = w
         /\ \A k \in Cpus \ {c} : hilos'[k] = hilos[k]
    BY <2>4 DEF IInv, Tipos, TiposDeHilos, HiloTipo
  <2>15. \A q \in Pids \ {p} : Quieto(q)
    BY <2>10, <2>11, <2>13 DEF Quieto
  <2>16. \A g \in Pags(p) : Fiel(p, g)'
    BY <2>2, <2>9, <2>10, <2>11, <2>13 DEF KInv, CopiasFieles, Fiel
  <2>17. Visible(p)' = Visible(p)
    BY <2>8, <2>9, <2>10, <2>11, <2>13 DEF Visible
  <2>18. LeidoFiel(c)' /\ VictimaFiel(c)' /\ hilos'[c].paso # "espera"
    BY <2>2, <2>8, <2>9, <2>10, <2>11, <2>13, <2>14 DEF LeidoFiel, VictimaFiel, Activo
  <2>19. UNCHANGED <<nucleo, cpus, procesosEnSwap, respuesta>>
    BY <2>4
  <2> QED BY <2>1, <2>2, <2>14, <2>15, <2>16, <2>17, <2>18, <2>19, PasoDeUnHilo
<1> QED BY <1>1, <1>2

LEMMA InstalarEnMarcoRefina ==
  ASSUME IInv, JInv, KInv, NEW c \in Cpus, InstalarEnMarco(c)
  PROVE  KInv' /\ UNCHANGED Abs!vars
<1>1. /\ hilos[c].paso = "instalar" /\ ~EnEspera(c) /\ Va(c, ConPagina) /\ Vivas
      /\ hilos[c].victima = -1 /\ Falta(c)
      /\ hilos[c].marco \in Marcos \ bitmap_frames
  BY DEF InstalarEnMarco, EnPaso, EnEspera, JInv, IInv, PasosCoherentes, PasoCoherente,
         Reservas, Reserva
<1>2. PICK p \in Pids : p = Activo(c) /\ p \in procesosEnSwap
  BY <1>1, SirveUnVivo
<1>3. PICK g \in Pags(p) : g = Pagina(c)
  BY <1>1, <1>2, SirveUnVivo
<1>4. PICK m : m = hilos[c].marco
  OBVIOUS
<1>5. PICK d : d = hilos[c].leido
  OBVIOUS
<1> DEFINE e == [tabla[p][g] EXCEPT !.nro_marco = m, !.presencia = TRUE, !.uso = TRUE]
<1>6. /\ memoria_principal' = [memoria_principal EXCEPT ![m] = d]
      /\ tabla' = [tabla EXCEPT ![p][g] = e]
      /\ UNCHANGED <<tablasDePagina, manecilla, swap, nucleo, cpus, respuesta>>
  BY <1>2, <1>3, <1>4, <1>5 DEF InstalarEnMarco
<1>7. /\ tabla[p][g] \in EntradaTipo /\ ~tabla[p][g].presencia
      /\ m \in Marcos /\ m \notin bitmap_frames
      /\ d = enSwap[p][g]
  BY <1>1, <1>2, <1>3, <1>4, <1>5, HiloOcupado
     DEF Falta, Entrada, KInv, HilosFieles, LeidoFiel
<1>8. e \in EntradaTipo /\ e.presencia /\ e.nro_marco = m
  BY <1>7 DEF EntradaTipo
<1> HIDE DEF e
<1>9. /\ tabla'[p][g] = e
      /\ \A h \in Pags(p) \ {g} : tabla'[p][h] = tabla[p][h]
      /\ \A q \in Pids \ {p} : tabla'[q] = tabla[q]
  BY <1>6, <1>8, CambiaEntrada DEF IInv, Tipos, TiposDeTablas
<1>10. \A q \in Pids : \A h \in Pags(q) :
         tabla[q][h].presencia => tabla[q][h].nro_marco # m /\ tabla[q][h].nro_marco \in Marcos
  BY <1>7, MarcoDePresente DEF JInv, BitmapJusto
<1>11. /\ memoria_principal'[m] = d
       /\ \A n \in Marcos \ {m} : memoria_principal'[n] = memoria_principal[n]
  BY <1>6, <1>7 DEF IInv, Tipos, TiposDeMarcos
<1>12. enSwap' = enSwap /\ procesosEnSwap' = procesosEnSwap /\ proceso_activo' = proceso_activo
  BY <1>6 DEF swap, cpus
<1>13. \A q \in Pids \ {p} : Quieto(q)
  <2>1. memoria_principal' = [memoria_principal EXCEPT ![m] = d]
    BY <1>6
  <2>2. \A q \in Pids \ {p} : \A h \in Pags(q) :
          tabla[q][h].presencia => tabla[q][h].nro_marco # m
    BY <1>10
  <2> QED BY <1>9, <1>12, <2>1, <2>2, OtrosQuietos
<1>14. \A h \in Pags(p) : Fiel(p, h)'
  <2> TAKE h \in Pags(p)
  <2>1. CASE h = g
    BY <1>7, <1>8, <1>9, <1>11, <1>12, <2>1 DEF Fiel
  <2>2. CASE h # g
    BY <1>2, <1>9, <1>10, <1>11, <1>12, <2>2 DEF KInv, CopiasFieles, Fiel
  <2> QED BY <2>1, <2>2
<1>15. Visible(p)' = Visible(p)
  BY <1>7, <1>8, <1>9, <1>10, <1>11, <1>12 DEF Visible
<1>16. /\ hilos'[c].paso \in {"cargarTlb", "acceder"} /\ hilos'[c].op = hilos[c].op
       /\ hilos'[c].pag = hilos[c].pag /\ hilos'[c].dato = hilos[c].dato
       /\ \A k \in Cpus \ {c} : hilos'[k] = hilos[k]
  <2>1. ConPagina \in Pasos /\ ConPagina \in {"cargarTlb", "acceder"}
    BY DEF ConPagina, Pasos
  <2> QED BY <1>1, <2>1, VaEs DEF IInv, Tipos
<1>17. LeidoFiel(c)' /\ VictimaFiel(c)' /\ hilos'[c].paso # "espera"
  BY <1>16 DEF LeidoFiel, VictimaFiel
<1>18. UNCHANGED <<nucleo, cpus, procesosEnSwap, respuesta>>
  BY <1>6, <1>12
<1> QED BY <1>1, <1>2, <1>13, <1>14, <1>15, <1>16, <1>17, <1>18, PasoDeUnHilo

LEMMA PisarVictimaRefina ==
  ASSUME IInv, JInv, KInv, NEW c \in Cpus, PisarVictima(c)
  PROVE  KInv' /\ UNCHANGED Abs!vars
<1>1. Vivas
  BY DEF JInv
<1>2. CASE umc' = "indefinida" /\ UNCHANGED resto
  BY <1>1, <1>2, SoloUmc
<1>3. CASE ~(umc' = "indefinida" /\ UNCHANGED resto)
  <2>1. /\ hilos[c].paso = "pisar" /\ ~EnEspera(c)
        /\ Va(c, IF ENTRADAS_TLB > 0 THEN "sacarTlb" ELSE "acceder")
        /\ hilos[c].victima # -1 /\ Falta(c)
    BY <1>3 DEF PisarVictima, EnPaso, EnEspera, IInv, PasosCoherentes, PasoCoherente
  <2>2. PICK p \in Pids : p = Activo(c) /\ p \in procesosEnSwap
    BY <1>1, <2>1, SirveUnVivo
  <2>3. PICK g \in Pags(p) : g = Pagina(c)
    BY <1>1, <2>1, <2>2, SirveUnVivo
  <2>4. PICK v : v = hilos[c].victima
    OBVIOUS
  <2>5. PICK d : d = hilos[c].leido
    OBVIOUS
  <2>6. PICK m : m = tabla[p][v].nro_marco
    OBVIOUS
  <2> DEFINE en == [nro_marco |-> m, presencia |-> TRUE, modificado |-> FALSE, uso |-> TRUE]
             ev == [tabla[p][v] EXCEPT !.presencia = FALSE, !.nro_marco = -1]
  <2>7. /\ memoria_principal' = [memoria_principal EXCEPT ![m] = d]
        /\ tabla' = [tabla EXCEPT ![p][g] = en, ![p][v].presencia = FALSE,
                                  ![p][v].nro_marco = -1]
        /\ UNCHANGED <<swap, nucleo, cpus, respuesta>>
    BY <1>3, <2>2, <2>3, <2>4, <2>5, <2>6 DEF PisarVictima
  <2>8. /\ tabla[p] \in [Pags(p) -> EntradaTipo] /\ ~tabla[p][g].presencia
        /\ v \in Pags(p) /\ v # g /\ tabla[p][v].presencia
    BY <1>1, <2>1, <2>2, <2>3, <2>4, HiloOcupado, VictimaPresente DEF Falta, Entrada
  <2>9. /\ d = enSwap[p][g] /\ enSwap[p][v] = memoria_principal[m]
    BY <2>1, <2>2, <2>3, <2>4, <2>5, <2>6 DEF KInv, HilosFieles, LeidoFiel, VictimaFiel
  <2>10. m \in Marcos /\ tabla[p][v] \in EntradaTipo
    BY <2>6, <2>8, MarcoDePresente
  <2>11. /\ tabla'[p] = [tabla[p] EXCEPT ![g] = en, ![v] = ev]
         /\ \A q \in Pids \ {p} : tabla'[q] = tabla[q]
    <3>1. p \in DOMAIN tabla /\ DOMAIN tabla[p] = Pags(p)
      BY <2>8 DEF IInv, Tipos, TiposDeTablas
    <3>2. tabla' = [tabla EXCEPT ![p] = [tabla[p] EXCEPT ![g] = en, ![v] = ev]]
      BY <2>7, <2>8, <3>1
    <3> HIDE DEF en, ev
    <3> QED BY <3>1, <3>2 DEF IInv, Tipos, TiposDeTablas
  <2>12. ~ev.presencia
    BY <2>10 DEF EntradaTipo
  <2>13. en.presencia /\ en.nro_marco = m
    OBVIOUS
  <2> HIDE DEF en, ev
  <2>14. /\ tabla'[p][g] = en /\ tabla'[p][v] = ev
         /\ \A h \in Pags(p) \ {g, v} : tabla'[p][h] = tabla[p][h]
    BY <2>8, <2>11
  <2>15. \A q \in Pids : \A h \in Pags(q) :
           tabla[q][h].presencia /\ ~(q = p /\ h = v)
             => tabla[q][h].nro_marco # m /\ tabla[q][h].nro_marco \in Marcos
    BY <2>6, <2>8, MarcoDePresente DEF JInv, MarcosDistintos
  <2>16. /\ memoria_principal'[m] = d
         /\ \A n \in Marcos \ {m} : memoria_principal'[n] = memoria_principal[n]
    BY <2>7, <2>10 DEF IInv, Tipos, TiposDeMarcos
  <2>17. /\ enSwap' = enSwap /\ procesosEnSwap' = procesosEnSwap
         /\ proceso_activo' = proceso_activo
    BY <2>7 DEF swap, cpus
  <2>18. \A q \in Pids \ {p} : Quieto(q)
    <3>1. memoria_principal' = [memoria_principal EXCEPT ![m] = d]
      BY <2>7
    <3>2. \A q \in Pids \ {p} : \A h \in Pags(q) :
            tabla[q][h].presencia => tabla[q][h].nro_marco # m
      BY <2>15
    <3> QED BY <2>11, <2>17, <3>1, <3>2, OtrosQuietos
  <2>19. \A h \in Pags(p) : Fiel(p, h)'
    <3> TAKE h \in Pags(p)
    <3>1. CASE h = g
      BY <2>9, <2>13, <2>14, <2>16, <2>17, <3>1 DEF Fiel
    <3>2. CASE h = v
      BY <2>12, <2>14, <3>2 DEF Fiel
    <3>3. CASE h # g /\ h # v
      BY <2>2, <2>14, <2>15, <2>16, <2>17, <3>3 DEF KInv, CopiasFieles, Fiel
    <3> QED BY <3>1, <3>2, <3>3
  <2>20. Visible(p)' = Visible(p)
    <3> SUFFICES ASSUME NEW h \in Pags(p)
                 PROVE  Visible(p)'[h] = Visible(p)[h]
      BY DEF Visible
    <3>1. CASE h = g
      BY <2>8, <2>9, <2>13, <2>14, <2>16, <2>17, <3>1 DEF Visible
    <3>2. CASE h = v
      BY <2>6, <2>8, <2>9, <2>12, <2>14, <2>17, <3>2 DEF Visible
    <3>3. CASE h # g /\ h # v
      BY <2>14, <2>15, <2>16, <2>17, <3>3 DEF Visible
    <3> QED BY <3>1, <3>2, <3>3
  <2>21. /\ hilos'[c].paso \in {"sacarTlb", "acceder"} /\ hilos'[c].op = hilos[c].op
         /\ hilos'[c].pag = hilos[c].pag /\ hilos'[c].dato = hilos[c].dato
         /\ \A k \in Cpus \ {c} : hilos'[k] = hilos[k]
    <3> DEFINE paso == IF ENTRADAS_TLB > 0 THEN "sacarTlb" ELSE "acceder"
    <3>1. paso \in Pasos /\ paso \in {"sacarTlb", "acceder"}
      BY DEF Pasos
    <3> HIDE DEF paso
    <3>2. Va(c, paso)
      BY <2>1 DEF paso
    <3> QED BY <3>1, <3>2, VaEs DEF IInv, Tipos
  <2>22. LeidoFiel(c)' /\ VictimaFiel(c)' /\ hilos'[c].paso # "espera"
    BY <2>21 DEF LeidoFiel, VictimaFiel
  <2>23. UNCHANGED <<nucleo, cpus, procesosEnSwap, respuesta>>
    BY <2>7, <2>17
  <2> QED BY <1>1, <2>1, <2>2, <2>18, <2>19, <2>20, <2>21, <2>22, <2>23, PasoDeUnHilo
<1> QED BY <1>2, <1>3

-----------------------------------------------------------------------------
(* The answers *)

LEMMA MismasPaginas ==
  ASSUME procesosEnSwap' = procesosEnSwap, \A q \in procesosEnSwap : Visible(q)' = Visible(q)
  PROVE  [q \in Pids |-> IF q \in procesosEnSwap THEN Visible(q) ELSE EnBlanco(q)]'
           = [q \in Pids |-> IF q \in procesosEnSwap THEN Visible(q) ELSE EnBlanco(q)]
OBVIOUS

LEMMA AccederRefina ==
  ASSUME IInv, JInv, KInv, NEW c \in Cpus, Acceder(c)
  PROVE  KInv' /\ (UNCHANGED Abs!vars \/ Abs!Leer(c) \/ Abs!Escribir(c))
<1>1. Vivas
  BY DEF JInv
<1>2. CASE umc' = "indefinida" /\ UNCHANGED resto
  BY <1>1, <1>2, SoloUmc
<1>3. CASE ~(umc' = "indefinida" /\ UNCHANGED resto)
  <2>1. /\ hilos[c].paso = "acceder" /\ ~EnEspera(c) /\ ~Liberada(Activo(c), Pagina(c))
        /\ TieneOLiberada(Activo(c), Pagina(c))
    BY <1>3 DEF Acceder, EnPaso, EnEspera, IInv, PasosCoherentes, PasoCoherente
  <2>2. PICK p \in Pids : p = Activo(c) /\ p \in procesosEnSwap
    BY <1>1, <2>1, SirveUnVivo
  <2>3. PICK g \in Pags(p) : g = Pagina(c)
    BY <1>1, <2>1, <2>2, SirveUnVivo
  <2>4. PICK m : m = tabla[p][g].nro_marco
    OBVIOUS
  <2>5. tabla[p][g].presencia /\ m \in Marcos /\ tabla[p][g] \in EntradaTipo
    BY <2>1, <2>2, <2>3, <2>4, MarcoDePresente DEF TieneOLiberada
  <2>6. PICK r :
          /\ Responder(c, r)
          /\ \/ /\ hilos[c].op = "LECTURA_PAGINA" /\ r = memoria_principal[m]
                /\ UNCHANGED <<umc, paginacion, marcos, tlb, swap, nucleo, cpus>>
             \/ /\ hilos[c].op = "ESCRITURA_PAGINA" /\ r = "OK"
                /\ memoria_principal' = [memoria_principal EXCEPT ![m] = hilos[c].dato]
                /\ tabla' = [tabla EXCEPT ![p][g].modificado = TRUE]
                /\ UNCHANGED <<umc, tablasDePagina, manecilla, bitmap_frames, memoriaposta,
                               tlb, swap, nucleo, cpus>>
    BY <1>3, <2>2, <2>3, <2>4 DEF Acceder, Entrada
  <2>7. /\ hilos' = [hilos EXCEPT ![c] = HiloEnEspera]
        /\ respuesta' = [respuesta EXCEPT ![c] = r]
        /\ UNCHANGED <<nucleo, cpus, procesosEnSwap>> /\ proceso_activo' = proceso_activo
        /\ enSwap' = enSwap /\ procesosEnSwap' = procesosEnSwap
    BY <2>6 DEF Responder, swap, cpus
  <2>8. hilos'[c] = HiloEnEspera /\ \A k \in Cpus \ {c} : hilos'[k] = hilos[k]
    BY <2>7 DEF IInv, Tipos, TiposDeHilos
  <2>9. /\ [k \in Cpus |-> PedidoDe(k)]'
             = [[k \in Cpus |-> PedidoDe(k)] EXCEPT ![c] = Abs!SinPedido]
        /\ PedidoDe(c).op = hilos[c].op /\ PedidoDe(c).pid = p
        /\ PedidoDe(c).pag = g /\ PedidoDe(c).dato = hilos[c].dato
        /\ LeidoFiel(c)' /\ VictimaFiel(c)'
    BY <2>1, <2>2, <2>3, <2>7, <2>8, Contestado
  <2> DEFINE paginas == [q \in Pids |-> IF q \in procesosEnSwap THEN Visible(q) ELSE EnBlanco(q)]
  <2>10. CASE /\ hilos[c].op = "LECTURA_PAGINA" /\ r = memoria_principal[m]
              /\ UNCHANGED <<umc, paginacion, marcos, tlb, swap, nucleo, cpus>>
    <3>1. \A q \in Pids : Quieto(q)
      BY <2>10, TodoQuieto DEF paginacion, marcos, swap
    <3>2. Visible(p)' = Visible(p) /\ \A h \in Pags(p) : Fiel(p, h)'
      BY <2>2, <3>1, VisibleQuieto DEF KInv, CopiasFieles, Quieto, Fiel
    <3>3. KInv' /\ \A q \in procesosEnSwap \ {p} : Visible(q)' = Visible(q)
      BY <1>1, <2>1, <2>2, <2>7, <2>8, <2>9, <3>1, <3>2, FielesDeUnHilo
    <3>4. \A q \in procesosEnSwap : Visible(q)' = Visible(q)
      <4> TAKE q \in procesosEnSwap
      <4>1. CASE q = p
        BY <3>2, <4>1
      <4>2. CASE q # p
        BY <3>3, <4>2
      <4> QED BY <4>1, <4>2
    <3>5. paginas' = paginas
      BY <2>7, <3>4, MismasPaginas
    <3>6. paginas[p][g] = r
      BY <2>2, <2>4, <2>5, <2>10 DEF Visible
    <3>7. Abs!Leer(c)
      <4> HIDE DEF paginas
      <4>1. /\ PedidoDe(c).op = "LECTURA_PAGINA"
            /\ respuesta' = [respuesta EXCEPT ![c] = paginas[PedidoDe(c).pid][PedidoDe(c).pag]]
            /\ procesosEnSwap' = procesosEnSwap
        BY <2>7, <2>9, <2>10, <3>6
      <4> QED BY <2>9, <3>5, <4>1 DEF Abs!Leer, paginas
    <3> QED BY <3>3, <3>7
  <2>11. CASE /\ hilos[c].op = "ESCRITURA_PAGINA" /\ r = "OK"
              /\ memoria_principal' = [memoria_principal EXCEPT ![m] = hilos[c].dato]
              /\ tabla' = [tabla EXCEPT ![p][g].modificado = TRUE]
              /\ UNCHANGED <<umc, tablasDePagina, manecilla, bitmap_frames, memoriaposta,
                             tlb, swap, nucleo, cpus>>
    <3> DEFINE e == [tabla[p][g] EXCEPT !.modificado = TRUE]
    <3>1. e \in EntradaTipo /\ e.presencia /\ e.modificado /\ e.nro_marco = m
      BY <2>4, <2>5 DEF EntradaTipo
    <3>2. tabla' = [tabla EXCEPT ![p][g] = e]
      BY <2>11
    <3> HIDE DEF e
    <3>3. /\ tabla'[p][g] = e
          /\ \A h \in Pags(p) \ {g} : tabla'[p][h] = tabla[p][h]
          /\ \A q \in Pids \ {p} : tabla'[q] = tabla[q]
      BY <2>11, <3>1, <3>2, CambiaEntrada DEF IInv, Tipos, TiposDeTablas
    <3>4. \A q \in Pids : \A h \in Pags(q) :
            tabla[q][h].presencia /\ ~(q = p /\ h = g)
              => tabla[q][h].nro_marco # m /\ tabla[q][h].nro_marco \in Marcos
      BY <2>4, <2>5, MarcoDePresente DEF JInv, MarcosDistintos
    <3>5. PICK d : d = hilos[c].dato
      OBVIOUS
    <3>6. memoria_principal' = [memoria_principal EXCEPT ![m] = d]
      BY <2>11, <3>5
    <3>7. /\ memoria_principal'[m] = d
          /\ \A n \in Marcos \ {m} : memoria_principal'[n] = memoria_principal[n]
      BY <2>5, <3>6 DEF IInv, Tipos, TiposDeMarcos
    <3>8. \A q \in Pids \ {p} : Quieto(q)
      <4>1. \A q \in Pids \ {p} : \A h \in Pags(q) :
              tabla[q][h].presencia => tabla[q][h].nro_marco # m
        BY <3>4
      <4> QED BY <2>7, <3>3, <3>6, <4>1, OtrosQuietos
    <3>9. \A h \in Pags(p) : Fiel(p, h)'
      <4> TAKE h \in Pags(p)
      <4>1. CASE h = g
        BY <3>1, <3>3, <4>1 DEF Fiel
      <4>2. CASE h # g
        BY <2>2, <2>7, <3>3, <3>4, <3>7, <4>2 DEF KInv, CopiasFieles, Fiel
      <4> QED BY <4>1, <4>2
    <3>10. KInv' /\ \A q \in procesosEnSwap \ {p} : Visible(q)' = Visible(q)
      BY <1>1, <2>1, <2>2, <2>7, <2>8, <2>9, <3>8, <3>9, FielesDeUnHilo
    <3>11. Visible(p)' = [Visible(p) EXCEPT ![g] = d]
      <4>1. \A h \in Pags(p) : Visible(p)'[h] = IF h = g THEN d ELSE Visible(p)[h]
        <5> TAKE h \in Pags(p)
        <5>1. CASE h = g
          BY <3>1, <3>3, <3>7, <5>1 DEF Visible
        <5>2. CASE h # g
          BY <2>7, <3>3, <3>4, <3>7, <5>2 DEF Visible
        <5> QED BY <5>1, <5>2
      <4> QED BY <4>1 DEF Visible
    <3>12. paginas' = [paginas EXCEPT ![p][g] = d]
      <4>1. \A q \in Pids : paginas'[q] = IF q = p THEN [paginas[p] EXCEPT ![g] = d]
                                          ELSE paginas[q]
        <5> TAKE q \in Pids
        <5>1. CASE q = p
          BY <2>2, <2>7, <3>11, <5>1
        <5>2. CASE q # p
          BY <2>7, <3>10, <5>2
        <5> QED BY <5>1, <5>2
      <4> QED BY <4>1
    <3>13. Abs!Escribir(c)
      <4> HIDE DEF paginas
      <4>1. /\ PedidoDe(c).op = "ESCRITURA_PAGINA"
            /\ paginas' = [paginas EXCEPT ![PedidoDe(c).pid][PedidoDe(c).pag] = PedidoDe(c).dato]
            /\ respuesta' = [respuesta EXCEPT ![c] = "OK"]
            /\ procesosEnSwap' = procesosEnSwap
        BY <2>7, <2>9, <2>11, <3>5, <3>12
      <4> QED BY <2>9, <4>1 DEF Abs!Escribir, paginas
    <3> QED BY <3>10, <3>13
  <2> QED BY <2>6, <2>10, <2>11
<1> QED BY <1>2, <1>3

-----------------------------------------------------------------------------
(* The kernel, the CPUs and the console *)

LEMMA NuevoProgramaRefina ==
  ASSUME IInv, JInv, KInv, NEW p \in Pids, NuevoPrograma(p)
  PROVE  KInv' /\ (UNCHANGED Abs!vars \/ Abs!Admitir(p))
<1> USE DEF NuevoPrograma
<1>1. /\ tabla' = tabla /\ memoria_principal' = memoria_principal /\ enSwap' = enSwap
      /\ hilos' = hilos /\ respuesta' = respuesta /\ proceso_activo' = proceso_activo
      /\ programa[p] = "nuevo" /\ procesosEnSwap \subseteq Pids
      /\ procesosEnSwap' \in {procesosEnSwap, procesosEnSwap \union {p}}
      /\ \A q \in Pids : programa'[q] = "nuevo" => programa[q] = "nuevo"
  BY DEF paginacion, marcos, cpus, IInv, Tipos, TiposDeSwap, TiposDeHilos
<1>2. (\A q \in Pids : Quieto(q)) /\ Vivas
  BY <1>1, TodoQuieto DEF JInv
<1>3. KInv'
  <2> DEFINE X == {}
  <2>1. /\ X \in SUBSET Pids
        /\ \A q \in Pids \ X : Quieto(q)
        /\ \A q \in X : /\ programa'[q] # "nuevo"
                        /\ q \in procesosEnSwap' => \A g \in Pags(q) : Fiel(q, g)'
        /\ \A c \in Cpus : Activo(c) \notin X
    BY <1>2
  <2> HIDE DEF X
  <2>2. /\ procesosEnSwap' \subseteq Pids
        /\ \A q \in procesosEnSwap' : q \in procesosEnSwap \/ programa[q] = "nuevo"
    BY <1>1
  <2> QED BY <1>1, <1>2, <2>1, <2>2, FielesEstables
<1>4. \A c \in Cpus : PedidoDe(c)' = PedidoDe(c)
  BY <1>1, PedidoIgual DEF EnEspera
<1>5. \A q \in Pids : Visible(q)' = Visible(q)
  BY <1>2, VisibleQuieto
<1>6. CASE procesosEnSwap' = procesosEnSwap
  BY <1>1, <1>3, <1>4, <1>5, <1>6, Tartamudea
<1>7. CASE procesosEnSwap' = procesosEnSwap \union {p}
  <2>1. p \notin procesosEnSwap
    BY <1>1 DEF IInv, Programas
  <2>2. Visible(p) = EnBlanco(p)
    <3>1. enSwap[p] = EnBlanco(p) /\ \A g \in Pags(p) : ~tabla[p][g].presencia
      BY <1>1 DEF KInv, NuevosEnBlanco
    <3> QED BY <3>1 DEF Visible, EnBlanco
  <2>3. ASSUME NEW q \in Pids
        PROVE  (IF q \in procesosEnSwap THEN Visible(q) ELSE EnBlanco(q))'
                 = IF q \in procesosEnSwap THEN Visible(q) ELSE EnBlanco(q)
    <3>1. CASE q = p
      BY <1>5, <1>7, <2>1, <2>2, <3>1
    <3>2. CASE q # p
      BY <1>5, <1>7, <3>2
    <3> QED BY <3>1, <3>2
  <2>4. Abs!Admitir(p)
    BY <1>1, <1>4, <1>7, <2>1, <2>3 DEF Abs!Admitir
  <2> QED BY <1>3, <2>4
<1> QED BY <1>1, <1>6, <1>7

LEMMA FinalizaProgramaRefina ==
  ASSUME IInv, JInv, KInv, NEW p \in Pids, FinalizaPrograma(p)
  PROVE  KInv' /\ Abs!Olvidar(p)
<1> USE DEF FinalizaPrograma
<1>1. /\ tabla' = tabla /\ memoria_principal' = memoria_principal
      /\ enSwap' = [enSwap EXCEPT ![p] = EnBlanco(p)]
      /\ hilos' = hilos /\ respuesta' = respuesta /\ proceso_activo' = proceso_activo
      /\ procesosEnSwap \subseteq Pids /\ procesosEnSwap' = procesosEnSwap \ {p}
      /\ programa' = [programa EXCEPT ![p] = "final"] /\ p \in procesosEnSwap
  BY DEF paginacion, marcos, cpus, IInv, Tipos, TiposDeSwap, Programas
<1>2. (\A q \in Pids \ {p} : Quieto(q)) /\ Vivas
  BY <1>1 DEF JInv, Quieto, IInv, Tipos, TiposDeSwap
<1>3. \A c \in Cpus : ~EnEspera(c) => Activo(c) # p
  BY <1>2, SirveUnVivo
<1>4. KInv'
  <2> DEFINE X == {p}
  <2>1. /\ X \in SUBSET Pids
        /\ \A q \in Pids \ X : Quieto(q)
        /\ \A c \in Cpus : EnEspera(c) \/ Activo(c) \notin X
    BY <1>2, <1>3
  <2>2. \A q \in X : /\ programa'[q] # "nuevo"
                     /\ q \in procesosEnSwap' => \A g \in Pags(q) : Fiel(q, g)'
    BY <1>1 DEF IInv, Tipos, TiposDeHilos
  <2> HIDE DEF X
  <2>3. /\ procesosEnSwap' \subseteq Pids
        /\ \A q \in procesosEnSwap' : q \in procesosEnSwap \/ programa[q] = "nuevo"
        /\ \A q \in Pids : programa'[q] = "nuevo" => programa[q] = "nuevo"
        /\ \A c \in Cpus : hilos'[c] = hilos[c] /\ proceso_activo'[c] = proceso_activo[c]
    BY <1>1 DEF IInv, Tipos, TiposDeHilos
  <2> QED BY <1>2, <2>1, <2>2, <2>3, FielesEstables
<1>5. \A c \in Cpus : PedidoDe(c)' = PedidoDe(c)
  BY <1>1, PedidoIgual DEF EnEspera
<1>6. \A c \in Cpus : PedidoDe(c).pid # p
  BY <1>3, NombresAssumption DEF PedidoDe
<1>7. ASSUME NEW q \in Pids
      PROVE  (IF q \in procesosEnSwap THEN Visible(q) ELSE EnBlanco(q))'
               = IF q = p THEN EnBlanco(p)
                 ELSE IF q \in procesosEnSwap THEN Visible(q) ELSE EnBlanco(q)
  <2>1. CASE q = p
    BY <1>1, <2>1
  <2>2. CASE q # p
    BY <1>1, <1>2, <2>2, VisibleQuieto
  <2> QED BY <2>1, <2>2
<1>8. Abs!Olvidar(p)
  BY <1>1, <1>5, <1>6, <1>7 DEF Abs!Olvidar, Abs!EnBlanco, EnBlanco, Abs!Pags, Pags
<1> QED BY <1>4, <1>8

LEMMA CambioProcesoActivoRefina ==
  ASSUME IInv, Vivas, KInv, NEW p \in Pids, NEW c \in Cpus, CambioProcesoActivo(c, p)
  PROVE  KInv' /\ UNCHANGED Abs!vars
<1> USE DEF CambioProcesoActivo
<1>1. /\ \A q \in Pids : Quieto(q)
      /\ hilos' = hilos /\ respuesta' = respuesta /\ programa' = programa
      /\ procesosEnSwap' = procesosEnSwap
  BY TodoQuieto DEF paginacion, marcos, swap, nucleo
<1>2. \A k \in Cpus : EnEspera(k) \/ proceso_activo'[k] = proceso_activo[k]
  BY DEF IInv, Tipos, TiposDeHilos
<1> QED BY <1>1, <1>2, PasoQuieto

\* The answer is taken, and the process goes back to the kernel.
LEMMA DevolverRefina ==
  ASSUME IInv, Vivas, KInv, NEW c \in Cpus, Devolver(c)
  PROVE  KInv' /\ Abs!Recibir(c)
<1> USE DEF Devolver
<1>1. /\ tabla' = tabla /\ memoria_principal' = memoria_principal /\ enSwap' = enSwap
      /\ hilos' = hilos /\ proceso_activo' = proceso_activo
      /\ procesosEnSwap' = procesosEnSwap /\ procesosEnSwap \subseteq Pids
      /\ \A q \in Pids : programa'[q] = "nuevo" => programa[q] = "nuevo"
      /\ EnEspera(c) /\ respuesta' = [respuesta EXCEPT ![c] = SinDato]
  BY DEF paginacion, marcos, swap, IInv, Tipos, TiposDeHilos, TiposDeSwap
<1>2. \A q \in Pids : Quieto(q)
  BY <1>1, TodoQuieto
<1>3. KInv'
  <2> DEFINE X == {}
  <2>1. /\ X \in SUBSET Pids
        /\ \A q \in Pids \ X : Quieto(q)
        /\ \A q \in X : /\ programa'[q] # "nuevo"
                        /\ q \in procesosEnSwap' => \A g \in Pags(q) : Fiel(q, g)'
        /\ \A k \in Cpus : Activo(k) \notin X
    BY <1>2
  <2> HIDE DEF X
  <2>2. /\ procesosEnSwap' \subseteq Pids
        /\ \A q \in procesosEnSwap' : q \in procesosEnSwap \/ programa[q] = "nuevo"
    BY <1>1
  <2> QED BY <1>1, <2>1, <2>2, FielesEstables
<1>4. \A k \in Cpus : PedidoDe(k)' = PedidoDe(k)
  BY <1>1, PedidoIgual DEF EnEspera
<1>5. \A q \in procesosEnSwap : Visible(q)' = Visible(q)
  BY <1>1, <1>2, VisibleQuieto
<1>6. PedidoDe(c) = Abs!SinPedido
  BY <1>1 DEF PedidoDe, Abs!SinPedido
<1>7. Abs!Recibir(c)
  BY <1>1, <1>4, <1>5, <1>6, MismasPaginas DEF Abs!Recibir
<1> QED BY <1>3, <1>7

LEMMA PedirRefina ==
  ASSUME IInv, Vivas, KInv, NEW c \in Cpus, corre[c] # SinProceso, NEW g \in Pags(corre[c]),
         NEW op, NEW d, Pedir(c, op, g, d),
         \/ op = "LECTURA_PAGINA" /\ d = SinDato
         \/ op = "ESCRITURA_PAGINA" /\ d \in Datos
  PROVE  KInv' /\ Abs!Pedir(c, corre[c], g)
<1>1. PICK p \in Pids : p = corre[c] /\ p = Activo(c) /\ programa[p] = "admitido"
  BY DEF IInv, UnHiloPorProceso
<1> DEFINE pedido == [HiloEnEspera EXCEPT !.op = op, !.pag = g, !.dato = d]
<1>2. /\ EnEspera(c)
      /\ \E paso \in {"acceder", "tabla"} :
           hilos' = [hilos EXCEPT ![c] = [pedido EXCEPT !.paso = paso]]
      /\ respuesta' = [respuesta EXCEPT ![c] = SinDato]
      /\ UNCHANGED <<umc, paginacion, marcos, swap, nucleo, cpus>>
  BY DEF Pedir
<1>3. PICK paso \in {"acceder", "tabla"} :
        hilos' = [hilos EXCEPT ![c] = [pedido EXCEPT !.paso = paso]]
  BY <1>2
<1>4. /\ hilos'[c] = [pedido EXCEPT !.paso = paso]
      /\ \A k \in Cpus \ {c} : hilos'[k] = hilos[k]
  BY <1>3 DEF IInv, Tipos, TiposDeHilos
<1>5. /\ hilos'[c].paso = paso /\ hilos'[c].op = op /\ hilos'[c].pag = g
      /\ hilos'[c].dato = d
  BY <1>4 DEF HiloEnEspera
<1>6. /\ tabla' = tabla /\ memoria_principal' = memoria_principal /\ enSwap' = enSwap
      /\ proceso_activo' = proceso_activo /\ programa' = programa
      /\ procesosEnSwap' = procesosEnSwap /\ procesosEnSwap \subseteq Pids
  BY <1>2 DEF paginacion, marcos, swap, nucleo, cpus, IInv, Tipos, TiposDeSwap
<1>7. \A q \in Pids : Quieto(q)
  BY <1>6, TodoQuieto
<1>8. KInv'
  <2> DEFINE X == {}
  <2>1. /\ X \in SUBSET Pids
        /\ \A q \in Pids \ X : Quieto(q)
        /\ \A q \in X : /\ programa'[q] # "nuevo"
                        /\ q \in procesosEnSwap' => \A h \in Pags(q) : Fiel(q, h)'
        /\ \A k \in Cpus : Activo(k) \notin X
    BY <1>7
  <2> HIDE DEF X
  <2>2. /\ procesosEnSwap' \subseteq Pids
        /\ \A q \in procesosEnSwap' : q \in procesosEnSwap \/ programa[q] = "nuevo"
        /\ \A q \in Pids : programa'[q] = "nuevo" => programa[q] = "nuevo"
    BY <1>6
  <2>3. LeidoFiel(c)' /\ VictimaFiel(c)'
    BY <1>5 DEF LeidoFiel, VictimaFiel
  <2>4. \A k \in Cpus :
          \/ /\ hilos'[k] = hilos[k]
             /\ \/ EnEspera(k)
                \/ Activo(k) \notin X /\ proceso_activo'[k] = proceso_activo[k]
          \/ LeidoFiel(k)' /\ VictimaFiel(k)'
    BY <1>4, <1>6, <2>1, <2>3
  <2> QED BY <2>1, <2>2, <2>4, FielesEstables
<1>9. PedidoDe(c) = Abs!SinPedido
  BY <1>2 DEF PedidoDe, Abs!SinPedido
<1>10. PedidoDe(c)' = Abs!Pedido(op, p, g, d)
  BY <1>1, <1>5, <1>6 DEF PedidoDe, EnEspera, Activo, Abs!Pedido
<1>11. \A k \in Cpus \ {c} : PedidoDe(k)' = PedidoDe(k)
  BY <1>4, <1>6, PedidoIgual DEF EnEspera
<1>12. \A k \in Cpus : PedidoDe(k).pid # p
  <2> TAKE k \in Cpus
  <2>1. CASE EnEspera(k)
    BY <2>1, NombresAssumption DEF PedidoDe
  <2>2. CASE ~EnEspera(k)
    <3>1. corre[k] = Activo(k) /\ k # c
      BY <1>2, <2>2, SirveUnVivo
    <3>2. corre[k] # p
      BY <1>1, <3>1, NombresAssumption DEF IInv, UnHiloPorProceso
    <3> QED BY <2>2, <3>1, <3>2 DEF PedidoDe
  <2> QED BY <2>1, <2>2
<1>13. p \in procesosEnSwap
  BY <1>1 DEF IInv, Programas
<1>14. \A q \in procesosEnSwap : Visible(q)' = Visible(q)
  BY <1>6, <1>7, VisibleQuieto
<1> DEFINE pedidos == [k \in Cpus |-> PedidoDe(k)]
<1>15. pedidos' = [pedidos EXCEPT ![c] = Abs!Pedido(op, p, g, d)]
  BY <1>10, <1>11
<1>16. Abs!Pedir(c, p, g)
  <2>1. \/ pedidos' = [pedidos EXCEPT ![c] = Abs!Pedido("LECTURA_PAGINA", p, g, SinDato)]
        \/ \E x \in Datos :
             pedidos' = [pedidos EXCEPT ![c] = Abs!Pedido("ESCRITURA_PAGINA", p, g, x)]
    <3> HIDE DEF pedidos
    <3> QED BY <1>15
  <2>2. /\ procesosEnSwap' = procesosEnSwap
        /\ [q \in Pids |-> IF q \in procesosEnSwap THEN Visible(q) ELSE EnBlanco(q)]'
             = [q \in Pids |-> IF q \in procesosEnSwap THEN Visible(q) ELSE EnBlanco(q)]
    BY <1>6, <1>14, MismasPaginas
  <2> QED BY <1>2, <1>9, <1>12, <1>13, <2>1, <2>2 DEF Abs!Pedir
<1> QED BY <1>1, <1>8, <1>16

LEMMA PasoDelNucleoRefina ==
  ASSUME IInv, Vivas, KInv, QuitarTabla \/ MirarMarco \/ LimpiarTLB
  PROVE  KInv' /\ UNCHANGED Abs!vars
<1>1. /\ tabla' = tabla /\ memoria_principal' = memoria_principal /\ enSwap' = enSwap
      /\ hilos' = hilos /\ respuesta' = respuesta /\ programa' = programa
      /\ procesosEnSwap' = procesosEnSwap /\ proceso_activo' = proceso_activo
  BY DEF QuitarTabla, MirarMarco, LimpiarTLB, paginacion, marcos, swap, nucleo, cpus
<1> QED BY <1>1, TodoQuieto, PasoQuieto

\* The pages of a program that ended are nobody's any more.
LEMMA EliminarPaginasRefina ==
  ASSUME IInv, Vivas, KInv, EliminarPaginas
  PROVE  KInv' /\ UNCHANGED Abs!vars
<1> USE DEF EliminarPaginas
<1>1. PICK p \in Pids : p = finalizador.pid /\ programa[p] = "final"
  BY DEF IInv, Programas
<1>2. /\ p \notin procesosEnSwap
      /\ \A c \in Cpus : ~EnEspera(c) => Activo(c) # p
  BY <1>1, SirveUnVivo DEF IInv, Programas
<1>3. /\ memoria_principal' = memoria_principal /\ enSwap' = enSwap
      /\ hilos' = hilos /\ respuesta' = respuesta /\ programa' = programa
      /\ procesosEnSwap' = procesosEnSwap /\ proceso_activo' = proceso_activo
      /\ procesosEnSwap \subseteq Pids
  BY DEF swap, cpus, IInv, Tipos, TiposDeSwap
<1>4. \A q \in Pids \ {p} : Quieto(q)
  <2>1. \A q \in Pids \ {p} : tabla'[q] = tabla[q]
    BY <1>1 DEF IInv, Tipos, TiposDeTablas
  <2> QED BY <1>3, <2>1 DEF Quieto
<1>5. KInv'
  <2> DEFINE X == {p}
  <2>1. /\ X \in SUBSET Pids
        /\ \A q \in Pids \ X : Quieto(q)
        /\ \A c \in Cpus : EnEspera(c) \/ Activo(c) \notin X
        /\ \A q \in X : /\ programa'[q] # "nuevo"
                        /\ q \in procesosEnSwap' => \A g \in Pags(q) : Fiel(q, g)'
    BY <1>1, <1>2, <1>3, <1>4
  <2> HIDE DEF X
  <2>2. /\ procesosEnSwap' \subseteq Pids
        /\ \A q \in procesosEnSwap' : q \in procesosEnSwap \/ programa[q] = "nuevo"
        /\ \A q \in Pids : programa'[q] = "nuevo" => programa[q] = "nuevo"
        /\ \A c \in Cpus : hilos'[c] = hilos[c] /\ proceso_activo'[c] = proceso_activo[c]
    BY <1>3
  <2> QED BY <2>1, <2>2, FielesEstables
<1>6. \A c \in Cpus : PedidoDe(c)' = PedidoDe(c)
  BY <1>3, PedidoIgual DEF EnEspera
<1>7. \A q \in procesosEnSwap : Visible(q)' = Visible(q)
  BY <1>2, <1>3, <1>4, VisibleQuieto
<1> QED BY <1>3, <1>5, <1>6, <1>7, Tartamudea

LEMMA MarcarPaginasRefina ==
  ASSUME IInv, Vivas, KInv, NEW p \in Pids, MarcarPaginas(p)
  PROVE  KInv' /\ UNCHANGED Abs!vars
<1> DEFINE e(g) == [tabla[p][g] EXCEPT !.modificado = tabla[p][g].modificado
                                                      \/ tabla[p][g].nro_marco # -1]
           r == [g \in Pags(p) |-> e(g)]
<1>1. /\ tabla' = [tabla EXCEPT ![p] = r]
      /\ memoria_principal' = memoria_principal /\ enSwap' = enSwap
      /\ hilos' = hilos /\ respuesta' = respuesta /\ programa' = programa
      /\ procesosEnSwap' = procesosEnSwap /\ proceso_activo' = proceso_activo
  BY DEF MarcarPaginas, marcos, swap, nucleo, cpus
<1>2. \A g \in Pags(p) : /\ r[g].presencia = tabla[p][g].presencia
                         /\ r[g].nro_marco = tabla[p][g].nro_marco
                         /\ tabla[p][g].modificado => r[g].modificado
  BY DEF IInv, Tipos, TiposDeTablas, EntradaTipo
<1> HIDE DEF r
<1>3. tabla'[p] = r /\ \A q \in Pids \ {p} : tabla'[q] = tabla[q]
  BY <1>1 DEF IInv, Tipos, TiposDeTablas
<1>4. \A q \in Pids : Quieto(q)
  <2> TAKE q \in Pids
  <2>1. CASE q = p
    BY <1>1, <1>2, <1>3, <2>1 DEF Quieto
  <2>2. CASE q # p
    BY <1>1, <1>3, <2>2 DEF Quieto
  <2> QED BY <2>1, <2>2
<1> QED BY <1>1, <1>4, PasoQuieto

-----------------------------------------------------------------------------
(* The refinement *)

LEMMA InicioKInv == Init => KInv
<1> SUFFICES ASSUME Init PROVE KInv
  OBVIOUS
<1>1. CopiasFieles
  BY DEF Init, CopiasFieles
<1>2. NuevosEnBlanco
  BY DEF Init, NuevosEnBlanco, TablaNueva
<1>3. HilosFieles
  BY DEF Init, HilosFieles, LeidoFiel, VictimaFiel, HiloEnEspera
<1> QED BY <1>1, <1>2, <1>3 DEF KInv

LEMMA InicioRefina == Init => Abs!Init
<1> SUFFICES ASSUME Init PROVE Abs!Init
  OBVIOUS
<1>1. \A c \in Cpus : PedidoDe(c) = Abs!SinPedido
  BY DEF Init, PedidoDe, EnEspera, HiloEnEspera, Abs!SinPedido
<1>2. procesosEnSwap = {} /\ respuesta = [c \in Cpus |-> SinDato]
  BY DEF Init
<1> QED BY <1>1, <1>2 DEF Abs!Init, Abs!EnBlanco, EnBlanco, Abs!Pags, Pags

LEMMA HiloRefina ==
  ASSUME IInv, JInv, KInv, NEW c \in Cpus, PasoDelHilo(c)
  PROVE  KInv' /\ [Abs!Next]_(Abs!vars)
<1>1. Vivas
  BY DEF JInv
<1>2. /\ KInv'
      /\ UNCHANGED Abs!vars \/ Abs!Negar(c) \/ Abs!Leer(c) \/ Abs!Escribir(c)
  <2>1. CASE BuscarPaginaEnTabla(c)
    BY <1>1, <2>1, BuscarPaginaRefina
  <2>2. CASE ElegirMarco(c)
    BY <1>1, <2>2, ElegirMarcoRefina
  <2>3. CASE ElegirVictima(c)
    BY <1>1, <2>3, ElegirVictimaRefina
  <2>4. CASE LeerDeSwap(c)
    BY <1>1, <2>4, LeerDeSwapRefina
  <2>5. CASE InstalarEnMarco(c)
    BY <1>1, <2>5, InstalarEnMarcoRefina
  <2>6. CASE PisarVictima(c)
    BY <1>1, <2>6, PisarVictimaRefina
  <2>7. CASE EliminarPaginaTLB(c) \/ CargarEnTLB(c)
    BY <1>1, <2>7, PasoDeTlbRefina
  <2>8. CASE Acceder(c)
    BY <1>1, <2>8, AccederRefina
  <2> QED BY <2>1, <2>2, <2>3, <2>4, <2>5, <2>6, <2>7, <2>8 DEF PasoDelHilo
<1> QED BY <1>2 DEF Abs!Next

LEMMA PasoRefina ==
  ASSUME SinFallas
  PROVE  IInv /\ JInv /\ KInv /\ [Next]_vars => KInv' /\ [Abs!Next]_(Abs!vars)
<1> SUFFICES ASSUME IInv, JInv, KInv, [Next]_vars
             PROVE  KInv' /\ [Abs!Next]_(Abs!vars)
  OBVIOUS
<1>1. Vivas
  BY DEF JInv
<1>2. ASSUME NEW p \in Pids, NuevoPrograma(p) \/ FinalizaPrograma(p) \/ MarcarPaginas(p)
      PROVE  KInv' /\ [Abs!Next]_(Abs!vars)
  <2>1. KInv' /\ (UNCHANGED Abs!vars \/ Abs!Admitir(p) \/ Abs!Olvidar(p))
    BY <1>1, <1>2, NuevoProgramaRefina, FinalizaProgramaRefina, MarcarPaginasRefina
  <2> QED BY <2>1 DEF Abs!Next
<1>3. ASSUME NEW p \in Pids, NEW c \in Cpus, CambioProcesoActivo(c, p)
      PROVE  KInv' /\ [Abs!Next]_(Abs!vars)
  BY <1>1, <1>3, CambioProcesoActivoRefina
<1>4. ASSUME NEW c \in Cpus, corre[c] # SinProceso, Pide(c)
      PROVE  KInv' /\ [Abs!Next]_(Abs!vars)
  <2>1. PICK p \in Pids : p = corre[c]
    BY <1>4 DEF IInv, UnHiloPorProceso
  <2>2. PICK g \in Pags(p) : \/ Pedir(c, "LECTURA_PAGINA", g, SinDato)
                             \/ \E d \in Datos : Pedir(c, "ESCRITURA_PAGINA", g, d)
    BY <1>4, <2>1 DEF Pide
  <2>3. KInv' /\ Abs!Pedir(c, p, g)
    BY <1>1, <1>4, <2>1, <2>2, PedirRefina
  <2>4. g \in Abs!Pags(p)
    BY DEF Pags, Abs!Pags
  <2> QED BY <2>3, <2>4 DEF Abs!Next
<1>5. ASSUME NEW c \in Cpus, Devolver(c)
      PROVE  KInv' /\ [Abs!Next]_(Abs!vars)
  <2>1. KInv' /\ Abs!Recibir(c)
    BY <1>1, <1>5, DevolverRefina
  <2> QED BY <2>1 DEF Abs!Next
<1>6. ASSUME NEW c \in Cpus, CpuMuere(c)
      PROVE  FALSE
  BY <1>6 DEF CpuMuere, SinFallas
<1>7. ASSUME NEW c \in Cpus, PasoDelHilo(c)
      PROVE  KInv' /\ [Abs!Next]_(Abs!vars)
  BY <1>7, HiloRefina
<1>8. CASE Finalizar \/ LimpiarTLB
  BY <1>1, <1>8, PasoDelNucleoRefina, EliminarPaginasRefina DEF Finalizar
<1>9. CASE UNCHANGED vars
  <2>1. UNCHANGED resto
    BY <1>9 DEF vars, resto
  <2> QED BY <1>1, <2>1, SoloUmc
<1> QED BY <1>2, <1>3, <1>4, <1>5, <1>6, <1>7, <1>8, <1>9 DEF Next

\* While no CPU dies, frames, replacement by either clock, write-back, TLB and swap
\* together are the memory of MemoriaAbs: a process reads what it last wrote,
\* nobody else's write is seen, each request is answered once, and the swap
\* forgets a program nobody is asking for.
THEOREM ImplementaLaMemoria ==
  ASSUME SinFallas
  PROVE  Spec => ImplementaAbs
<1>1. IInv /\ JInv /\ KInv /\ [Next]_vars => KInv' /\ [Abs!Next]_(Abs!vars)
  BY PasoRefina
<1>2. IInv /\ JInv /\ [Next]_vars => JInv'
  BY PasoJInv
<1> QED BY <1>1, <1>2, InicioCumple, InicioJInv, InicioKInv, InicioRefina, PasoPreserva, PTL
        DEF Spec, ImplementaAbs, Abs!Spec
=============================================================================
