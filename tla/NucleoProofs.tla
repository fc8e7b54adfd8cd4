---------------------------- MODULE NucleoProofs ----------------------------
(***************************************************************************)
(* Proofs about Nucleo for every number of consoles, CPUs, semaphores and  *)
(* threads.  What is proved of which programs and failures is said at each *)
(* theorem.                                                                *)
(***************************************************************************)
EXTENDS Nucleo, FiniteSetTheorems, SequenceTheorems, WellFoundedInduction, TLAPS

-----------------------------------------------------------------------------
(* Sequences *)

SinRepetir(s) == \A i, j \in DOMAIN s : s[i] = s[j] => i = j

LEMMA MinExiste ==
  ASSUME NEW S \in SUBSET Nat, S # {}
  PROVE  \E x \in S : \A y \in S : x <= y
<1> DEFINE T == {0 .. x : x \in S}
<1>1. T \subseteq FiniteSubsetsOf(Nat) /\ T # {}
  <2>1. \A x \in S : IsFiniteSet(0 .. x) /\ 0 .. x \in SUBSET Nat
    <3> TAKE x \in S
    <3>1. IsFiniteSet(0 .. x)
      BY FS_Interval
    <3> QED BY <3>1
  <2> QED BY <2>1, Zenon DEF FiniteSubsetsOf
<1>2. PICK U \in T : \A V \in T : ~(<<V, U>> \in StrictSubsetOrdering(Nat))
  BY <1>1, FS_StrictSubsetOrderingWellFounded, WFMin, Zenon
<1>3. PICK x \in S : U = 0 .. x
  BY <1>2
<1>4. ASSUME NEW y \in S, y < x
      PROVE  FALSE
  <2>1. 0 .. y \in T /\ <<0 .. y, U>> \notin StrictSubsetOrdering(Nat)
    BY <1>2
  <2>2. /\ (0 .. y) \subseteq (0 .. x) /\ 0 .. y # 0 .. x
    <3>1. x \in 0 .. x /\ x \notin 0 .. y
      BY <1>4
    <3>2. (0 .. y) \subseteq (0 .. x)
      BY <1>4
    <3> QED BY <3>1, <3>2, Zenon
  <2>3. 0 .. y \in SUBSET Nat /\ 0 .. x \in SUBSET Nat
    OBVIOUS
  <2>4. <<0 .. y, 0 .. x>> \in StrictSubsetOrdering(Nat)
    BY <2>2, <2>3 DEF StrictSubsetOrdering
  <2> QED BY <1>3, <2>1, <2>4
<1> QED BY <1>4

\* The first match of a search that finds something.
LEMMA PrimeraEs ==
  ASSUME NEW I \in SUBSET Nat, I # {}
  PROVE  Primera(I) \in I
BY MinExiste DEF Primera

LEMMA SinLaEs ==
  ASSUME NEW S, NEW s \in Seq(S), NEW i \in DOMAIN s
  PROVE  /\ SinLa(i, s) \in Seq(S)
         /\ Len(SinLa(i, s)) = Len(s) - 1
         /\ \A j \in 1 .. Len(s) - 1 :
              SinLa(i, s)[j] = IF j < i THEN s[j] ELSE s[j + 1]
<1> DEFINE a == SubSeq(s, 1, i - 1)
           b == SubSeq(s, i + 1, Len(s))
<1>0. Len(s) \in Nat /\ i \in 1 .. Len(s)
  OBVIOUS
<1>1. a \in Seq(S) /\ Len(a) = i - 1 /\ \A j \in 1 .. i - 1 : a[j] = s[j]
  BY <1>0
<1>2. b \in Seq(S) /\ Len(b) = Len(s) - i /\ \A j \in 1 .. Len(s) - i : b[j] = s[i + j]
  BY <1>0
<1>3. SinLa(i, s) = a \o b
  BY DEF SinLa
<1>4. /\ a \o b \in Seq(S)
      /\ Len(a \o b) = Len(a) + Len(b)
      /\ \A j \in 1 .. Len(a) + Len(b) :
           (a \o b)[j] = IF j <= Len(a) THEN a[j] ELSE b[j - Len(a)]
  BY <1>1, <1>2, ConcatProperties, Zenon
<1> HIDE DEF a, b
<1>5. ASSUME NEW j \in 1 .. Len(s) - 1
      PROVE  (a \o b)[j] = IF j < i THEN s[j] ELSE s[j + 1]
  <2>1. CASE j < i
    BY <1>0, <1>1, <1>2, <1>4, <2>1
  <2>2. CASE ~(j < i)
    <3>0. j \in 1 .. Len(a) + Len(b) /\ ~(j <= Len(a)) /\ j - Len(a) = j - (i - 1)
      BY <1>0, <1>1, <1>2, <2>2
    <3>1. (a \o b)[j] = b[j - (i - 1)]
      BY <1>4, <3>0
    <3>2. j - (i - 1) \in 1 .. Len(s) - i /\ i + (j - (i - 1)) = j + 1
      BY <1>0, <2>2
    <3> QED BY <1>2, <2>2, <3>1, <3>2
  <2> QED BY <2>1, <2>2
<1>6. Len(a \o b) = Len(s) - 1
  BY <1>0, <1>1, <1>2, <1>4
<1> QED BY <1>3, <1>4, <1>5, <1>6, Zenon

\* What is left in a list without its element i: all the others, once each.
LEMMA SinLaQuedan ==
  ASSUME NEW S, NEW s \in Seq(S), NEW i \in DOMAIN s
  PROVE  /\ SinLa(i, s) \in Seq(S)
         /\ EnSecuencia(SinLa(i, s)) = {s[j] : j \in DOMAIN s \ {i}}
         /\ SinRepetir(s) => SinRepetir(SinLa(i, s))
         /\ \E f \in [DOMAIN SinLa(i, s) -> DOMAIN s \ {i}] :
              /\ \A j \in DOMAIN SinLa(i, s) : SinLa(i, s)[j] = s[f[j]]
              /\ \A j, k \in DOMAIN SinLa(i, s) : f[j] = f[k] => j = k
<1> DEFINE t == SinLa(i, s)
           f == [j \in 1 .. Len(s) - 1 |-> IF j < i THEN j ELSE j + 1]
<1>1. Len(s) \in Nat /\ i \in 1 .. Len(s) /\ DOMAIN s = 1 .. Len(s)
  OBVIOUS
<1>2. /\ t \in Seq(S) /\ Len(t) = Len(s) - 1
      /\ \A j \in 1 .. Len(s) - 1 : t[j] = IF j < i THEN s[j] ELSE s[j + 1]
  BY SinLaEs
<1> HIDE DEF t
<1>3. DOMAIN t = 1 .. Len(s) - 1
  BY <1>2
<1>4. f \in [DOMAIN t -> DOMAIN s \ {i}]
  BY <1>1, <1>3
<1>5. \A j \in DOMAIN t : t[j] = s[f[j]]
  BY <1>1, <1>2, <1>3
<1>6. \A j, k \in DOMAIN t : f[j] = f[k] => j = k
  BY <1>1, <1>3
<1>7. \A j \in DOMAIN s \ {i} : \E k \in DOMAIN t : f[k] = j
  <2> TAKE j \in DOMAIN s \ {i}
  <2>1. CASE j < i
    BY <1>1, <1>3, <2>1
  <2>2. CASE ~(j < i)
    <3>1. j - 1 \in DOMAIN t /\ f[j - 1] = j
      BY <1>1, <1>3, <2>2
    <3> QED BY <3>1
  <2> QED BY <2>1, <2>2
<1> HIDE DEF f
<1>8. EnSecuencia(t) = {s[j] : j \in DOMAIN s \ {i}}
  <2>1. \A j \in DOMAIN t : t[j] \in {s[k] : k \in DOMAIN s \ {i}}
    BY <1>4, <1>5
  <2>2. \A j \in DOMAIN s \ {i} : s[j] \in {t[k] : k \in DOMAIN t}
    BY <1>5, <1>7
  <2> QED BY <2>1, <2>2 DEF EnSecuencia
<1>9. SinRepetir(s) => SinRepetir(t)
  BY <1>4, <1>5, <1>6 DEF SinRepetir
<1> QED BY <1>2, <1>4, <1>5, <1>6, <1>8, <1>9 DEF t

LEMMA AgregarEs ==
  ASSUME NEW S, NEW s \in Seq(S), NEW x \in S
  PROVE  /\ Append(s, x) \in Seq(S) /\ s \o <<x>> = Append(s, x)
         /\ Append(s, x) # <<>>
         /\ Len(Append(s, x)) = Len(s) + 1 /\ Append(s, x)[Len(s) + 1] = x
         /\ \A i \in DOMAIN s : Append(s, x)[i] = s[i]
         /\ DOMAIN Append(s, x) = 1 .. Len(s) + 1
         /\ EnSecuencia(Append(s, x)) = EnSecuencia(s) \union {x}
         /\ SinRepetir(s) /\ x \notin EnSecuencia(s) => SinRepetir(Append(s, x))
<1> DEFINE t == Append(s, x)
<1>1. Len(s) \in Nat /\ DOMAIN s = 1 .. Len(s)
  OBVIOUS
<1>2. /\ t \in Seq(S) /\ Len(t) = Len(s) + 1 /\ t[Len(s) + 1] = x
      /\ \A i \in 1 .. Len(s) : t[i] = s[i]
  BY <1>1
<1>3. s \o <<x>> = t
  BY AppendIsConcat
<1> HIDE DEF t
<1>4. DOMAIN t = 1 .. Len(s) + 1
  BY <1>2
<1>5. EnSecuencia(t) = EnSecuencia(s) \union {x}
  <2>1. \A i \in DOMAIN t : t[i] \in {s[j] : j \in DOMAIN s} \union {x}
    BY <1>1, <1>2, <1>4
  <2>2. \A i \in DOMAIN s : s[i] \in {t[j] : j \in DOMAIN t}
    BY <1>1, <1>2, <1>4
  <2>3. x \in {t[j] : j \in DOMAIN t}
    BY <1>1, <1>2, <1>4
  <2> QED BY <2>1, <2>2, <2>3 DEF EnSecuencia
<1>6. ASSUME SinRepetir(s), x \notin EnSecuencia(s)
      PROVE  SinRepetir(t)
  <2>1. \A i \in 1 .. Len(s) : s[i] # x
    BY <1>1, <1>6 DEF EnSecuencia
  <2> QED BY <1>1, <1>2, <1>4, <1>6, <2>1 DEF SinRepetir
<1>7. t # <<>>
  BY <1>1, <1>2
<1> QED BY <1>1, <1>2, <1>3, <1>4, <1>5, <1>6, <1>7 DEF t

LEMMA ColaEs ==
  ASSUME NEW S, NEW s \in Seq(S), s # <<>>
  PROVE  /\ Tail(s) \in Seq(S) /\ Head(s) \in S /\ Head(s) = s[1] /\ 1 \in DOMAIN s
         /\ Len(Tail(s)) = Len(s) - 1 /\ Len(s) \in Nat \ {0}
         /\ DOMAIN Tail(s) = 1 .. Len(s) - 1
         /\ \A i \in DOMAIN Tail(s) : Tail(s)[i] = s[i + 1] /\ i + 1 \in DOMAIN s
         /\ EnSecuencia(s) = EnSecuencia(Tail(s)) \union {Head(s)}
         /\ SinRepetir(s) => /\ SinRepetir(Tail(s)) /\ Head(s) \notin EnSecuencia(Tail(s))
<1> DEFINE t == Tail(s)
<1>1. Len(s) \in Nat \ {0} /\ DOMAIN s = 1 .. Len(s) /\ 1 \in DOMAIN s
  OBVIOUS
<1>2. /\ t \in Seq(S) /\ Len(t) = Len(s) - 1 /\ Head(s) = s[1]
      /\ \A i \in 1 .. Len(s) - 1 : t[i] = s[i + 1]
  BY <1>1
<1> HIDE DEF t
<1>3. DOMAIN t = 1 .. Len(s) - 1
  BY <1>2
<1>4. EnSecuencia(s) = EnSecuencia(t) \union {Head(s)}
  <2>1. \A i \in DOMAIN s : s[i] \in {t[j] : j \in DOMAIN t} \union {Head(s)}
    <3> TAKE i \in DOMAIN s
    <3>1. CASE i = 1
      BY <1>2, <3>1
    <3>2. CASE i # 1
      <4>1. i - 1 \in DOMAIN t /\ t[i - 1] = s[i]
        BY <1>1, <1>2, <1>3, <3>2
      <4> QED BY <4>1
    <3> QED BY <3>1, <3>2
  <2>2. \A i \in DOMAIN t : t[i] \in {s[j] : j \in DOMAIN s}
    BY <1>1, <1>2, <1>3
  <2>3. Head(s) \in {s[j] : j \in DOMAIN s}
    BY <1>1, <1>2
  <2> QED BY <2>1, <2>2, <2>3 DEF EnSecuencia
<1>5. ASSUME SinRepetir(s)
      PROVE  SinRepetir(t) /\ Head(s) \notin EnSecuencia(t)
  <2>1. ASSUME NEW i \in DOMAIN t, NEW j \in DOMAIN t, t[i] = t[j]
        PROVE  i = j
    <3>1. /\ i \in 1 .. Len(s) - 1 /\ j \in 1 .. Len(s) - 1
          /\ i + 1 \in DOMAIN s /\ j + 1 \in DOMAIN s
      BY <1>1, <1>3
    <3>2. s[i + 1] = s[j + 1]
      BY <1>2, <2>1, <3>1
    <3>3. i + 1 = j + 1
      BY <1>5, <3>1, <3>2 DEF SinRepetir
    <3> QED BY <1>1, <3>1, <3>3
  <2>2. \A i \in DOMAIN t : t[i] # Head(s)
    <3> TAKE i \in DOMAIN t
    <3>1. t[i] = s[i + 1] /\ i + 1 \in DOMAIN s /\ i + 1 # 1
      BY <1>1, <1>2, <1>3
    <3> QED BY <1>1, <1>2, <1>5, <3>1 DEF SinRepetir
  <2>3. Head(s) \notin EnSecuencia(t)
    BY <2>2 DEF EnSecuencia
  <2> QED BY <2>1, <2>3 DEF SinRepetir
<1>6. \A i \in DOMAIN t : t[i] = s[i + 1] /\ i + 1 \in DOMAIN s
  BY <1>1, <1>2, <1>3
<1>7. Head(s) \in S
  BY <1>1, <1>2
<1> QED BY <1>1, <1>2, <1>3, <1>4, <1>5, <1>6, <1>7 DEF t

LEMMA SacarEs ==
  ASSUME NEW S, NEW s \in Seq(S), NEW x
  PROVE  /\ Sacar(x, s) \in Seq(S)
         /\ EnSecuencia(Sacar(x, s)) \subseteq EnSecuencia(s)
         /\ EnSecuencia(s) \subseteq EnSecuencia(Sacar(x, s)) \union {x}
         /\ SinRepetir(s) => /\ SinRepetir(Sacar(x, s))
                             /\ EnSecuencia(Sacar(x, s)) = EnSecuencia(s) \ {x}
<1> DEFINE I == {i \in DOMAIN s : s[i] = x}
           i == Primera(I)
<1>1. CASE I = {}
  <2>1. Sacar(x, s) = s
    BY <1>1 DEF Sacar
  <2>2. x \notin EnSecuencia(s)
    BY <1>1 DEF EnSecuencia
  <2> QED BY <2>1, <2>2
<1>2. CASE I # {}
  <2>1. Sacar(x, s) = SinLa(i, s)
    BY <1>2 DEF Sacar
  <2>2. I \in SUBSET Nat
    OBVIOUS
  <2>3. i \in I
    BY <1>2, <2>2, PrimeraEs
  <2> HIDE DEF i
  <2>4. i \in DOMAIN s /\ s[i] = x
    BY <2>3
  <2>5. /\ SinLa(i, s) \in Seq(S)
        /\ EnSecuencia(SinLa(i, s)) = {s[j] : j \in DOMAIN s \ {i}}
        /\ SinRepetir(s) => SinRepetir(SinLa(i, s))
    BY <2>4, SinLaQuedan
  <2>6. SinRepetir(s) => \A j \in DOMAIN s \ {i} : s[j] # x
    BY <2>4 DEF SinRepetir
  <2> HIDE DEF I
  <2>7. PICK t : t = SinLa(i, s)
    OBVIOUS
  <2>8. EnSecuencia(t) \subseteq EnSecuencia(s)
    BY <2>5, <2>7 DEF EnSecuencia
  <2>9. EnSecuencia(s) \subseteq EnSecuencia(t) \union {x}
    BY <2>4, <2>5, <2>7 DEF EnSecuencia
  <2>10. SinRepetir(s) => x \notin EnSecuencia(t)
    BY <2>5, <2>6, <2>7
  <2> QED BY <2>1, <2>5, <2>7, <2>8, <2>9, <2>10
<1> QED BY <1>1, <1>2

-----------------------------------------------------------------------------
(* Types: what the messages, the threads and the pids are, in every run *)

MensajesDeCpu ==
  [op : {"HS"}, pid : {0}, sem : {Nadie}]
    \union [op : Instrucciones \ {"WAIT", "SIGNAL"}, pid : Pids, sem : {Nadie}]
    \union [op : Instrucciones \intersect {"WAIT", "SIGNAL"}, pid : Pids, sem : Semaforos]
    \union [op : IF "sigusr1" \in Fallas THEN {"TERMINO_MAL"} ELSE {},
            pid : Pids \union {0}, sem : {Nadie}]
MensajesDelNucleo == [op : {"CORRER"}, pid : Pids, sem : {Nadie}]
                       \union [op : {"OK", "NO_OK"}, pid : {0}, sem : {Nadie}]
Relacion == [cpu : Cpus, pid : Pids]
HiloTipo == [paso : {"libre", "buscar", "sacar", "relacionar", "ejecutar", "enviar",
                     "mover", "responder", "eliminar", "lanzar", "io", "colgado"},
             cpu : Cpus \union {Nadie}, pid : Pids \union {0}]
InitTipo == [paso : {"no", "recibiendo", "cargando", "fin"}, cod : {"OK", "NO_OK"},
             pid : Pids \union {0}]
RespuestaTipo == [cod : {"OK", "NO_OK"}, pid : Pids]
CpuTipo == [est : {"apagada", "libre", "corriendo", "espera", "cerrada", "retirada"},
            pid : Pids \union {0}]

TiposDeColas == /\ nucleo \in {"vivo", "muerto"} /\ pidActual \in Pids \union {0}
                /\ colaNew \subseteq Pids /\ colaExec \subseteq Pids
                /\ colaBlocked \subseteq Pids /\ colaExit \subseteq Pids
                /\ colaReady \in Seq(Pids)
TiposDeListas == /\ programas \in [Pids -> Consolas \union {"ninguno", "cerrado"}]
                 /\ cpus \in Seq(Cpus) /\ corriendo \subseteq Cpus
                 /\ relacion \in Seq(Relacion)
TiposDeSemaforos == valor \in [Semaforos -> Int] /\ cola \in [Semaforos -> Seq(Pids)]
TiposDeHilos ==
  /\ hilos \in [Hilos -> HiloTipo]
  /\ pendienteES \in Pids \union {0}
  /\ \A h \in Hilos :
       /\ hilos[h].paso \in {"sacar", "relacionar", "ejecutar", "enviar", "responder"}
            => hilos[h].cpu \in Cpus
       /\ hilos[h].paso \in {"relacionar", "ejecutar", "enviar", "mover"}
            => hilos[h].pid \in Pids
TiposDeUmc == /\ umcPedidos \in Seq(Pids) /\ umcRespuestas \in Seq(RespuestaTipo)
              /\ finalizaciones \in [Pids -> 0 .. 2]
TiposDeInit ==
  /\ hiloInit \in [Consolas -> InitTipo]
  /\ \A k \in Consolas : hiloInit[k].paso = "cargando" => hiloInit[k].pid \in Pids
TiposDeConsolas ==
  /\ consola \in [Consolas -> {"nueva", "conectada", "muerta", "cerrada"}]
  /\ aviso \in [Consolas -> {"nada", "OK", "NO_OK", "TERMINO_BIEN", "TERMINO_MAL"}]
  /\ duenio \in [Pids -> Consolas \union {Nadie}]
TiposDeCpus ==
  /\ cpu \in [Cpus -> CpuTipo]
  /\ canal \in [Cpus -> Seq(MensajesDeCpu)]
  /\ aCpu \in [Cpus -> Seq(MensajesDelNucleo)]
  /\ \A c \in Cpus : cpu[c].est \in {"corriendo", "espera"} => cpu[c].pid \in Pids

\* A pid for each console whose NUEVO_PROGRAMA was read.
Admitidas == {k \in Consolas : hiloInit[k].paso # "no"}
CuentaDePids == pidActual = Cardinality(Admitidas)

TInv == /\ TiposDeColas /\ TiposDeListas /\ TiposDeSemaforos /\ TiposDeHilos
        /\ TiposDeUmc /\ TiposDeInit /\ TiposDeConsolas /\ TiposDeCpus /\ CuentaDePids

LEMMA TiposQuietos ==
  ASSUME TInv
  PROVE  /\ UNCHANGED <<nucleo, pidActual, colas>> => TiposDeColas'
         /\ UNCHANGED listas => TiposDeListas'
         /\ UNCHANGED semaforos => TiposDeSemaforos'
         /\ UNCHANGED <<hilos, pendienteES>> => TiposDeHilos'
         /\ UNCHANGED <<umc, finalizaciones>> => TiposDeUmc'
         /\ UNCHANGED hiloInit => TiposDeInit'
         /\ UNCHANGED <<consola, aviso, duenio>> => TiposDeConsolas'
         /\ UNCHANGED procesosCpu => TiposDeCpus'
         /\ UNCHANGED <<pidActual, hiloInit>> => CuentaDePids'
<1>1. UNCHANGED <<nucleo, pidActual, colas>> => TiposDeColas'
  BY DEF TInv, TiposDeColas, colas
<1>2. UNCHANGED listas => TiposDeListas'
  BY DEF TInv, TiposDeListas, listas
<1>3. UNCHANGED semaforos => TiposDeSemaforos'
  BY DEF TInv, TiposDeSemaforos, semaforos
<1>4. UNCHANGED <<hilos, pendienteES>> => TiposDeHilos'
  BY DEF TInv, TiposDeHilos
<1>5. UNCHANGED <<umc, finalizaciones>> => TiposDeUmc'
  BY DEF TInv, TiposDeUmc, umc
<1>6. UNCHANGED hiloInit => TiposDeInit'
  BY DEF TInv, TiposDeInit
<1>7. UNCHANGED <<consola, aviso, duenio>> => TiposDeConsolas'
  BY DEF TInv, TiposDeConsolas
<1>8. UNCHANGED procesosCpu => TiposDeCpus'
  BY DEF TInv, TiposDeCpus, procesosCpu
<1>9. UNCHANGED <<pidActual, hiloInit>> => CuentaDePids'
  BY DEF TInv, CuentaDePids, Admitidas
<1> QED BY <1>1, <1>2, <1>3, <1>4, <1>5, <1>6, <1>7, <1>8, <1>9

LEMMA MensajesSon ==
  /\ \A m \in MensajesDeCpu :
       /\ m.op \in Instrucciones \union {"HS", "TERMINO_MAL"} /\ m.pid \in Pids \union {0}
       /\ m.op \in Instrucciones => m.pid \in Pids
       /\ m.op \in {"WAIT", "SIGNAL"} => m.sem \in Semaforos
       /\ m.op = "TERMINO_MAL" => "sigusr1" \in Fallas
  /\ Mensaje("HS", 0, Nadie) \in MensajesDeCpu
  /\ \A p \in Pids : \A op \in Instrucciones \ {"WAIT", "SIGNAL"} :
       Mensaje(op, p, Nadie) \in MensajesDeCpu
  /\ \A p \in Pids, s \in Semaforos : \A op \in Instrucciones \intersect {"WAIT", "SIGNAL"} :
       Mensaje(op, p, s) \in MensajesDeCpu
  /\ \A p \in Pids \union {0} :
       "sigusr1" \in Fallas => Mensaje("TERMINO_MAL", p, Nadie) \in MensajesDeCpu
BY EntornoAssumption DEF MensajesDeCpu, Mensaje

LEMMA MensajesDelNucleoSon ==
  /\ \A m \in MensajesDelNucleo :
       /\ m.op \in {"CORRER", "OK", "NO_OK"}
       /\ m.op = "CORRER" => m.pid \in Pids
       /\ m = Mensaje(m.op, m.pid, Nadie)
       /\ m.op \in {"OK", "NO_OK"} => m.pid = 0
  /\ \A p \in Pids : Mensaje("CORRER", p, Nadie) \in MensajesDelNucleo
  /\ Mensaje("OK", 0, Nadie) \in MensajesDelNucleo
  /\ Mensaje("NO_OK", 0, Nadie) \in MensajesDelNucleo
BY DEF MensajesDelNucleo, Mensaje

\* A thread that goes on to buscar, that returns or that is stuck.
LEMMA HilosSon ==
  ASSUME TiposDeHilos, NEW h \in Hilos
  PROVE  /\ HiloLibre \in HiloTipo /\ HiloLibre.paso = "libre"
         /\ hilos' = AEnviar(h) /\ UNCHANGED pendienteES => TiposDeHilos'
         /\ hilos' = AEnviar(h) /\ pendienteES' \in Pids => TiposDeHilos'
         /\ hilos' = Volver(h) /\ UNCHANGED pendienteES => TiposDeHilos'
         /\ hilos' = [hilos EXCEPT ![h].paso = "colgado"] /\ UNCHANGED pendienteES
              => TiposDeHilos'
<1>1. HiloLibre \in HiloTipo /\ HiloLibre.paso = "libre"
  BY DEF HiloLibre, HiloTipo
<1>2. [HiloLibre EXCEPT !.paso = "buscar"] = [paso |-> "buscar", cpu |-> Nadie, pid |-> 0]
  BY DEF HiloLibre
<1>3. [HiloLibre EXCEPT !.paso = "lanzar"] = [paso |-> "lanzar", cpu |-> Nadie, pid |-> 0]
  BY DEF HiloLibre
<1>4. \A r \in HiloTipo : /\ [r EXCEPT !.paso = "colgado"] \in HiloTipo
                          /\ [r EXCEPT !.paso = "colgado"].paso = "colgado"
  BY DEF HiloTipo
<1>5. ASSUME NEW r \in HiloTipo,
             r.paso \notin {"sacar", "relacionar", "ejecutar", "enviar", "responder", "mover"},
             hilos' = [hilos EXCEPT ![h] = r], pendienteES' \in Pids \union {0}
      PROVE  TiposDeHilos'
  BY <1>5 DEF TiposDeHilos
<1>6. /\ [paso |-> "buscar", cpu |-> Nadie, pid |-> 0] \in HiloTipo
      /\ [paso |-> "lanzar", cpu |-> Nadie, pid |-> 0] \in HiloTipo
  BY DEF HiloTipo
<1>7. pendienteES \in Pids \union {0} /\ hilos[h] \in HiloTipo
  BY DEF TiposDeHilos
<1>8. hilos' = AEnviar(h) /\ pendienteES' \in Pids \union {0} => TiposDeHilos'
  BY <1>2, <1>5, <1>6 DEF AEnviar
<1>9. hilos' = Volver(h) /\ UNCHANGED pendienteES => TiposDeHilos'
  BY <1>1, <1>3, <1>5, <1>6, <1>7 DEF Volver
<1>10. hilos' = [hilos EXCEPT ![h].paso = "colgado"] /\ UNCHANGED pendienteES => TiposDeHilos'
  BY <1>4, <1>5, <1>7
<1> QED BY <1>1, <1>7, <1>8, <1>9, <1>10

LEMMA DesbloquearTipos ==
  ASSUME TiposDeHilos, NEW h \in Hilos, NEW p \in Pids \union {0}, colaBlocked \subseteq Pids,
         Desbloquear(h, p), UNCHANGED pendienteES
  PROVE  TiposDeHilos' /\ colaBlocked' \subseteq colaBlocked
<1>1. CASE p \in colaBlocked
  <2>1. hilos' = [hilos EXCEPT ![h] = [paso |-> "mover", cpu |-> Nadie, pid |-> p]]
    BY <1>1 DEF Desbloquear
  <2>2. [paso |-> "mover", cpu |-> Nadie, pid |-> p] \in HiloTipo /\ p \in Pids
    BY <1>1 DEF HiloTipo
  <2> QED BY <2>1, <2>2 DEF TiposDeHilos, Desbloquear
<1>2. CASE p \notin colaBlocked
  <2>1. hilos' = AEnviar(h)
    BY <1>2 DEF Desbloquear
  <2> QED BY <2>1, HilosSon DEF Desbloquear
<1> QED BY <1>1, <1>2

-----------------------------------------------------------------------------
(* Types: the CPUs *)

LEMMA MandarTipo ==
  ASSUME TiposDeCpus, NEW c \in Cpus, NEW m \in MensajesDeCpu, NEW n \in MensajesDeCpu
  PROVE  /\ Mandar(c, <<m>>) => canal' \in [Cpus -> Seq(MensajesDeCpu)]
         /\ Mandar(c, <<m, n>>) => canal' \in [Cpus -> Seq(MensajesDeCpu)]
<1>1. canal[c] \in Seq(MensajesDeCpu)
  BY DEF TiposDeCpus
<1>2. canal[c] \o <<m>> \in Seq(MensajesDeCpu) /\ canal[c] \o <<m, n>> \in Seq(MensajesDeCpu)
  BY <1>1, ConcatProperties
<1>3. \A s \in Seq(MensajesDeCpu) :
        [canal EXCEPT ![c] = s] \in [Cpus -> Seq(MensajesDeCpu)]
  BY DEF TiposDeCpus
<1> QED BY <1>2, <1>3 DEF Mandar

LEMMA LeerTipo ==
  ASSUME TiposDeCpus, NEW c \in Cpus, aCpu[c] # <<>>
  PROVE  /\ Head(aCpu[c]) \in MensajesDelNucleo
         /\ aCpu' = [aCpu EXCEPT ![c] = Tail(@)] => aCpu' \in [Cpus -> Seq(MensajesDelNucleo)]
<1>1. aCpu[c] \in Seq(MensajesDelNucleo)
  BY DEF TiposDeCpus
<1>2. Tail(aCpu[c]) \in Seq(MensajesDelNucleo) /\ Head(aCpu[c]) \in MensajesDelNucleo
  BY <1>1, ColaEs
<1>3. \A s \in Seq(MensajesDelNucleo) :
        [aCpu EXCEPT ![c] = s] \in [Cpus -> Seq(MensajesDelNucleo)]
  BY DEF TiposDeCpus
<1> QED BY <1>2, <1>3

\* Everything but the CPU and its two channels stays as it was.
LEMMA RestoQuieto ==
  ASSUME TInv, UNCHANGED restoDelNucleo, TiposDeCpus'
  PROVE  TInv'
<1>1. /\ UNCHANGED <<nucleo, pidActual, colas>> /\ UNCHANGED listas /\ UNCHANGED semaforos
      /\ UNCHANGED <<hilos, pendienteES>> /\ UNCHANGED <<umc, finalizaciones>>
      /\ UNCHANGED hiloInit /\ UNCHANGED <<consola, aviso, duenio>>
      /\ UNCHANGED <<pidActual, hiloInit>>
  BY DEF restoDelNucleo, consolas
<1> QED BY <1>1, TiposQuietos DEF TInv

LEMMA QuedarTipo ==
  ASSUME TiposDeCpus, NEW c \in Cpus, NEW e \in {"libre", "corriendo", "espera",
           "cerrada", "retirada"}, NEW p \in Pids \union {0}, Quedar(c, e, p),
         e \in {"corriendo", "espera"} => p \in Pids
  PROVE  /\ cpu' \in [Cpus -> CpuTipo]
         /\ \A d \in Cpus : cpu'[d].est \in {"corriendo", "espera"} => cpu'[d].pid \in Pids
<1>1. [est |-> e, pid |-> p] \in CpuTipo
  BY DEF CpuTipo
<1> QED BY <1>1 DEF Quedar, TiposDeCpus

LEMMA CpuProcesoTipos ==
  ASSUME TInv, NEW c \in Cpus,
         \/ CpuConecta(c) \/ CpuAvisa(c) \/ CpuPide(c) \/ CpuSigusr1(c) \/ CpuMuere(c)
         \/ \E op \in Instrucciones : CpuSuelta(c, op) \/ CpuSigusr1SinPcb(c, op)
  PROVE  TInv'
<1> USE DEF TInv
<1>0. /\ cpu[c] \in CpuTipo /\ canal \in [Cpus -> Seq(MensajesDeCpu)]
      /\ aCpu \in [Cpus -> Seq(MensajesDelNucleo)] /\ cpu[c].pid \in Pids \union {0}
      /\ cpu[c].est \in {"corriendo", "espera"} => cpu[c].pid \in Pids
  BY DEF TiposDeCpus, CpuTipo
<1>1. CASE CpuConecta(c)
  <2>1. /\ Quedar(c, "libre", 0) /\ Mandar(c, <<Mensaje("HS", 0, Nadie)>>)
        /\ UNCHANGED restoDelNucleo /\ aCpu' = aCpu
    BY <1>1 DEF CpuConecta
  <2>2. canal' \in [Cpus -> Seq(MensajesDeCpu)]
    BY <2>1, MensajesSon, MandarTipo
  <2>3. TiposDeCpus'
    BY <1>0, <2>1, <2>2, QuedarTipo DEF TiposDeCpus
  <2> QED BY <2>1, <2>3, RestoQuieto
<1>2. CASE CpuAvisa(c)
  <2>1. cpu[c].pid \in Pids /\ UNCHANGED restoDelNucleo /\ aCpu' = aCpu /\ cpu' = cpu
    BY <1>0, <1>2 DEF CpuAvisa
  <2>2. PICK m \in MensajesDeCpu : Mandar(c, <<m>>)
    BY <1>2, <2>1, MensajesSon DEF CpuAvisa
  <2>3. canal' \in [Cpus -> Seq(MensajesDeCpu)]
    BY <2>2, MandarTipo
  <2>4. TiposDeCpus'
    BY <1>0, <2>1, <2>3 DEF TiposDeCpus
  <2> QED BY <2>1, <2>4, RestoQuieto
<1>3. CASE CpuPide(c)
  <2>1. cpu[c].pid \in Pids /\ UNCHANGED restoDelNucleo /\ aCpu' = aCpu
    BY <1>0, <1>3 DEF CpuPide
  <2>2. PICK m \in MensajesDeCpu : Mandar(c, <<m>>)
    BY <1>3, <2>1, MensajesSon DEF CpuPide
  <2>3. canal' \in [Cpus -> Seq(MensajesDeCpu)]
    BY <2>2, MandarTipo
  <2>4. PICK p \in Pids : p = cpu[c].pid
    BY <2>1
  <2>5. Quedar(c, "espera", p)
    BY <1>3, <2>4 DEF CpuPide
  <2>6. TiposDeCpus'
    BY <1>0, <2>1, <2>3, <2>5, QuedarTipo DEF TiposDeCpus
  <2> QED BY <2>1, <2>6, RestoQuieto
<1>4. CASE CpuSigusr1(c)
  <2>1. /\ cpu[c].pid \in Pids /\ UNCHANGED restoDelNucleo /\ aCpu' = aCpu
        /\ Quedar(c, "cerrada", 0)
    BY <1>0, <1>4 DEF CpuSigusr1
  <2>2. PICK m \in MensajesDeCpu : Mandar(c, <<m>>)
    BY <1>4, <2>1, MensajesSon DEF CpuSigusr1
  <2>3. canal' \in [Cpus -> Seq(MensajesDeCpu)]
    BY <2>2, MandarTipo
  <2>4. TiposDeCpus'
    BY <1>0, <2>1, <2>3, QuedarTipo DEF TiposDeCpus
  <2> QED BY <2>1, <2>4, RestoQuieto
<1>5. CASE CpuMuere(c)
  <2>1. /\ UNCHANGED restoDelNucleo /\ aCpu' = aCpu /\ canal' = canal
        /\ Quedar(c, "cerrada", 0)
    BY <1>5 DEF CpuMuere
  <2>2. TiposDeCpus'
    BY <1>0, <2>1, QuedarTipo DEF TiposDeCpus
  <2> QED BY <2>1, <2>2, RestoQuieto
<1>6. ASSUME NEW op \in Instrucciones, CpuSuelta(c, op)
      PROVE  TInv'
  <2>1. /\ cpu[c].pid \in Pids /\ UNCHANGED restoDelNucleo /\ aCpu' = aCpu
        /\ Quedar(c, "libre", 0) /\ op \notin {"WAIT", "SIGNAL"}
    BY <1>0, <1>6 DEF CpuSuelta
  <2>2. PICK m \in MensajesDeCpu : Mandar(c, <<m>>)
    BY <1>6, <2>1, MensajesSon DEF CpuSuelta
  <2>3. canal' \in [Cpus -> Seq(MensajesDeCpu)]
    BY <2>2, MandarTipo
  <2>4. TiposDeCpus'
    BY <1>0, <2>1, <2>3, QuedarTipo DEF TiposDeCpus
  <2> QED BY <2>1, <2>4, RestoQuieto
<1>7. ASSUME NEW op \in Instrucciones, CpuSigusr1SinPcb(c, op)
      PROVE  TInv'
  <2>1. /\ cpu[c].pid \in Pids /\ UNCHANGED restoDelNucleo /\ aCpu' = aCpu
        /\ Quedar(c, "cerrada", 0) /\ op \notin {"WAIT", "SIGNAL"} /\ "sigusr1" \in Fallas
    BY <1>0, <1>7 DEF CpuSigusr1SinPcb
  <2>2. PICK p \in Pids \union {0} :
          Mandar(c, <<Mensaje(op, cpu[c].pid, Nadie), Mensaje("TERMINO_MAL", p, Nadie)>>)
    BY <1>7, <2>1 DEF CpuSigusr1SinPcb
  <2>3. /\ Mensaje(op, cpu[c].pid, Nadie) \in MensajesDeCpu
        /\ Mensaje("TERMINO_MAL", p, Nadie) \in MensajesDeCpu
    BY <2>1, MensajesSon
  <2>4. PICK m \in MensajesDeCpu, n \in MensajesDeCpu : Mandar(c, <<m, n>>)
    BY <2>2, <2>3
  <2>5. canal' \in [Cpus -> Seq(MensajesDeCpu)]
    BY <2>4, MandarTipo
  <2>6. TiposDeCpus'
    BY <1>0, <2>1, <2>5, QuedarTipo DEF TiposDeCpus
  <2> QED BY <2>1, <2>6, RestoQuieto
<1> QED BY <1>1, <1>2, <1>3, <1>4, <1>5, <1>6, <1>7

LEMMA CpuLeeTipos ==
  ASSUME TInv, NEW c \in Cpus, CpuResponde(c) \/ CpuSigusr1TrasWait(c)
  PROVE  TInv'
<1> USE DEF TInv
<1>0. /\ cpu[c] \in CpuTipo /\ canal \in [Cpus -> Seq(MensajesDeCpu)]
      /\ cpu \in [Cpus -> CpuTipo]
      /\ aCpu \in [Cpus -> Seq(MensajesDelNucleo)] /\ cpu[c].pid \in Pids \union {0}
      /\ cpu[c].est \in {"corriendo", "espera"} => cpu[c].pid \in Pids
      /\ \A d \in Cpus : cpu[d].est \in {"corriendo", "espera"} => cpu[d].pid \in Pids
  BY DEF TiposDeCpus, CpuTipo
<1>1. /\ UNCHANGED restoDelNucleo /\ aCpu[c] # <<>>
      /\ aCpu' = [aCpu EXCEPT ![c] = Tail(@)]
  BY DEF CpuResponde, CpuRecibe, CpuRespuesta, CpuSigusr1TrasWait
<1>2. aCpu' \in [Cpus -> Seq(MensajesDelNucleo)]
  BY <1>1, LeerTipo
<1>3. PICK m \in MensajesDelNucleo : m = Head(aCpu[c])
  BY <1>1, LeerTipo
<1>4. CASE CpuRecibe(c)
  <2>1. canal' = canal /\ IF m.op = "CORRER" THEN Quedar(c, "corriendo", m.pid) ELSE cpu' = cpu
    BY <1>3, <1>4 DEF CpuRecibe
  <2>2. m.op = "CORRER" => m.pid \in Pids
    BY MensajesDelNucleoSon
  <2>3. TiposDeCpus'
    <3>1. CASE m.op = "CORRER"
      BY <1>0, <1>2, <2>1, <2>2, <3>1, QuedarTipo DEF TiposDeCpus
    <3>2. CASE m.op # "CORRER"
      BY <1>0, <1>2, <2>1, <3>2 DEF TiposDeCpus
    <3> QED BY <3>1, <3>2
  <2> QED BY <1>1, <2>3, RestoQuieto
<1>5. CASE CpuRespuesta(c)
  <2>1. PICK p \in Pids : p = cpu[c].pid
    BY <1>0, <1>5 DEF CpuRespuesta
  <2>2. canal' = canal
    BY <1>5 DEF CpuRespuesta
  <2>3. Quedar(c, "corriendo", p) \/ Quedar(c, "libre", 0) \/ Quedar(c, "cerrada", 0)
    <3>1. CASE m.op = "OK"
      BY <1>3, <1>5, <2>1, <3>1 DEF CpuRespuesta
    <3>2. CASE m.op = "NO_OK"
      BY <1>3, <1>5, <2>1, <3>2 DEF CpuRespuesta
    <3>3. CASE m.op \notin {"OK", "NO_OK"}
      BY <1>3, <1>5, <2>1, <3>3 DEF CpuRespuesta
    <3> QED BY <3>1, <3>2, <3>3
  <2>4. TiposDeCpus'
    <3>1. CASE Quedar(c, "corriendo", p)
      BY <1>0, <1>2, <2>2, <3>1, QuedarTipo DEF TiposDeCpus
    <3>2. CASE Quedar(c, "libre", 0)
      BY <1>0, <1>2, <2>2, <3>2, QuedarTipo DEF TiposDeCpus
    <3>3. CASE Quedar(c, "cerrada", 0)
      BY <1>0, <1>2, <2>2, <3>3, QuedarTipo DEF TiposDeCpus
    <3> QED BY <2>3, <3>1, <3>2, <3>3
  <2> QED BY <1>1, <2>4, RestoQuieto
<1>6. CASE CpuSigusr1TrasWait(c)
  <2>1. /\ "sigusr1" \in Fallas /\ Quedar(c, "cerrada", 0)
        /\ \E p \in Pids \union {0} : Mandar(c, <<Mensaje("TERMINO_MAL", p, Nadie)>>)
    BY <1>0, <1>6 DEF CpuSigusr1TrasWait
  <2>2. PICK n \in MensajesDeCpu : Mandar(c, <<n>>)
    BY <2>1, MensajesSon
  <2>3. canal' \in [Cpus -> Seq(MensajesDeCpu)]
    BY <2>2, MandarTipo
  <2>4. TiposDeCpus'
    BY <1>0, <1>2, <2>1, <2>3, QuedarTipo DEF TiposDeCpus
  <2> QED BY <1>1, <2>4, RestoQuieto
<1> QED BY <1>4, <1>5, <1>6 DEF CpuResponde

-----------------------------------------------------------------------------
(* Types: the consoles and the UMC *)

\* What enviar() does besides delivering, from a handler of the kernel.
LEMMA AConsolaHace ==
  ASSUME NEW k, NEW m
  PROVE  /\ EnviarAConsola(k, m, AEnviar(Kernel)) =>
              /\ aviso' = [aviso EXCEPT ![k] = m] \/ aviso' = aviso
              /\ nucleo' = nucleo \/ nucleo' = "muerto"
              /\ \/ hilos' = AEnviar(Kernel)
                 \/ hilos' = [hilos EXCEPT ![Kernel].paso = "colgado"]
         /\ EnviarAConsola(k, m, hilos) =>
              /\ aviso' = [aviso EXCEPT ![k] = m] \/ aviso' = aviso
              /\ nucleo' = nucleo \/ nucleo' = "muerto"
              /\ hilos' = hilos \/ hilos' = [hilos EXCEPT ![Kernel].paso = "colgado"]
BY DEF EnviarAConsola, Envio

LEMMA FinalizarTipo ==
  ASSUME TiposDeUmc, NEW p \in Pids, Finalizar(p)
  PROVE  finalizaciones' \in [Pids -> 0 .. 2]
BY DEF TiposDeUmc, Finalizar

LEMMA ConsolaTipos ==
  ASSUME TInv, NEW k \in Consolas,
         ConsolaEnvia(k) \/ ConsolaCierra(k) \/ CerrarConsolaSinPrograma(k)
  PROVE  TInv'
<1>1. /\ UNCHANGED <<nucleo, pidActual, colas>> /\ UNCHANGED listas /\ UNCHANGED semaforos
      /\ UNCHANGED <<hilos, pendienteES>> /\ UNCHANGED <<umc, finalizaciones>>
      /\ UNCHANGED hiloInit /\ UNCHANGED procesosCpu /\ UNCHANGED <<pidActual, hiloInit>>
      /\ UNCHANGED <<aviso, duenio>>
  BY DEF ConsolaEnvia, ConsolaCierra, CerrarConsolaSinPrograma
<1>2. PICK e \in {"conectada", "muerta", "cerrada"} : consola' = [consola EXCEPT ![k] = e]
  BY DEF ConsolaEnvia, ConsolaCierra, CerrarConsolaSinPrograma
<1>3. TiposDeConsolas'
  BY <1>1, <1>2 DEF TInv, TiposDeConsolas
<1> QED BY <1>1, <1>3, TiposQuietos DEF TInv

LEMMA NuevoProgramaTipos ==
  ASSUME TInv, NEW k \in Consolas, NuevoPrograma(k)
  PROVE  /\ TInv' /\ pidActual + 1 \in Pids
<1> USE DEF TInv
<1>1. /\ UNCHANGED listas /\ UNCHANGED semaforos /\ UNCHANGED <<hilos, pendienteES>>
      /\ UNCHANGED procesosCpu
  BY DEF NuevoPrograma
<1>2. k \notin Admitidas /\ Admitidas \subseteq Consolas
  BY DEF NuevoPrograma, Admitidas
<1>3. IsFiniteSet(Admitidas) /\ IsFiniteSet(Admitidas \union {k})
  BY <1>2, ConsolasAssumption, FS_Subset, FS_AddElement
<1>4. Cardinality(Admitidas \union {k}) = Cardinality(Admitidas) + 1
  BY <1>2, <1>3, FS_AddElement
<1>5. Cardinality(Admitidas \union {k}) <= Cardinality(Consolas)
  BY <1>2, ConsolasAssumption, FS_Subset
<1>6. Cardinality(Admitidas) \in Nat /\ Cardinality(Consolas) \in Nat
  BY <1>3, ConsolasAssumption, FS_CardinalityType
<1>7. pidActual + 1 \in Pids
  BY <1>4, <1>5, <1>6 DEF CuentaDePids, Pids
<1>8. TiposDeInit' /\ Admitidas' = Admitidas \union {k}
  <2>1. hiloInit' = [hiloInit EXCEPT ![k].paso = "recibiendo"] /\ hiloInit[k] \in InitTipo
    BY DEF NuevoPrograma, TiposDeInit
  <2>2. [hiloInit[k] EXCEPT !.paso = "recibiendo"] \in InitTipo
    BY <2>1 DEF InitTipo
  <2>3. hiloInit' = [hiloInit EXCEPT ![k] = [hiloInit[k] EXCEPT !.paso = "recibiendo"]]
    BY <2>1
  <2>4. /\ hiloInit'[k].paso = "recibiendo"
        /\ \A l \in Consolas \ {k} : hiloInit'[l] = hiloInit[l]
    BY <2>1 DEF TiposDeInit, InitTipo
  <2>5. TiposDeInit'
    BY <2>2, <2>3, <2>4 DEF TiposDeInit
  <2> QED BY <2>4, <2>5 DEF Admitidas
<1>9. CuentaDePids'
  BY <1>4, <1>8 DEF CuentaDePids, NuevoPrograma
<1> DEFINE p == pidActual + 1
<1>10. /\ nucleo' = nucleo /\ pidActual' = p /\ colaNew' = colaNew \union {p}
       /\ UNCHANGED <<colaReady, colaExec, colaBlocked, colaExit>>
       /\ duenio' = [duenio EXCEPT ![p] = k] /\ umcPedidos' = Append(umcPedidos, p)
       /\ UNCHANGED <<umcRespuestas, finalizaciones, consola, aviso>>
  BY DEF NuevoPrograma
<1> HIDE DEF p
<1>11. p \in Pids
  BY <1>7 DEF p
<1>12. TiposDeColas'
  BY <1>10, <1>11 DEF TiposDeColas
<1>13. TiposDeUmc'
  BY <1>10, <1>11, AgregarEs DEF TiposDeUmc
<1>14. TiposDeConsolas'
  BY <1>10, <1>11 DEF TiposDeConsolas
<1> QED BY <1>1, <1>7, <1>8, <1>9, <1>12, <1>13, <1>14, TiposQuietos

LEMMA UmcRespondeTipos ==
  ASSUME TInv, NEW cod \in RespuestasUmc, UmcResponde(cod)
  PROVE  TInv'
<1>1. /\ UNCHANGED <<nucleo, pidActual, colas>> /\ UNCHANGED listas /\ UNCHANGED semaforos
      /\ UNCHANGED <<hilos, pendienteES>> /\ UNCHANGED hiloInit /\ UNCHANGED procesosCpu
      /\ UNCHANGED <<consola, aviso, duenio>> /\ UNCHANGED <<pidActual, hiloInit>>
  BY DEF UmcResponde, consolas
<1>2. umcPedidos \in Seq(Pids) /\ umcPedidos # <<>> /\ umcRespuestas \in Seq(RespuestaTipo)
  BY DEF UmcResponde, TInv, TiposDeUmc
<1>3. Tail(umcPedidos) \in Seq(Pids) /\ Head(umcPedidos) \in Pids
  BY <1>2, ColaEs
<1>4. [cod |-> cod, pid |-> Head(umcPedidos)] \in RespuestaTipo
  BY <1>3, EntornoAssumption DEF RespuestaTipo
<1>5. Append(umcRespuestas, [cod |-> cod, pid |-> Head(umcPedidos)]) \in Seq(RespuestaTipo)
  BY <1>2, <1>4, AgregarEs
<1>6. TiposDeUmc'
  BY <1>3, <1>5 DEF TInv, TiposDeUmc, UmcResponde
<1> QED BY <1>1, <1>6, TiposQuietos DEF TInv

LEMMA InitRecibeTipos ==
  ASSUME TInv, NEW k \in Consolas, InitRecibe(k)
  PROVE  TInv'
<1>1. /\ UNCHANGED <<nucleo, pidActual, colas>> /\ UNCHANGED listas /\ UNCHANGED semaforos
      /\ UNCHANGED <<hilos, pendienteES>> /\ UNCHANGED procesosCpu
      /\ UNCHANGED <<consola, aviso, duenio>>
  BY DEF InitRecibe
<1>2. umcRespuestas # <<>> /\ umcRespuestas \in Seq(RespuestaTipo)
  BY DEF InitRecibe, TInv, TiposDeUmc
<1>3. PICK r \in RespuestaTipo : r = Head(umcRespuestas)
  BY <1>2, ColaEs
<1>4. Tail(umcRespuestas) \in Seq(RespuestaTipo)
  BY <1>2, ColaEs
<1>5. TiposDeUmc'
  BY <1>4 DEF TInv, TiposDeUmc, InitRecibe
<1>6. hiloInit' = [hiloInit EXCEPT ![k] = [paso |-> "cargando", cod |-> r.cod, pid |-> r.pid]]
  BY <1>3 DEF InitRecibe
<1>7. /\ [paso |-> "cargando", cod |-> r.cod, pid |-> r.pid] \in InitTipo
      /\ r.pid \in Pids
  BY DEF RespuestaTipo, InitTipo
<1>8. TiposDeInit'
  BY <1>6, <1>7 DEF TInv, TiposDeInit
<1>9. CuentaDePids'
  <2>1. Admitidas' = Admitidas
    BY <1>6 DEF Admitidas, InitRecibe, TInv, TiposDeInit
  <2> QED BY <1>1, <2>1 DEF TInv, CuentaDePids
<1> QED BY <1>1, <1>5, <1>8, <1>9, TiposQuietos DEF TInv

LEMMA InitCargaTipos ==
  ASSUME TInv, NEW k \in Consolas, InitCarga(k)
  PROVE  TInv'
<1>1. PICK p \in Pids : p = hiloInit[k].pid
  BY DEF InitCarga, TInv, TiposDeInit
<1>2. PICK cod \in {"OK", "NO_OK"} : cod = hiloInit[k].cod
  BY DEF TInv, TiposDeInit, InitTipo
<1>3. /\ UNCHANGED semaforos /\ UNCHANGED pendienteES /\ UNCHANGED procesosCpu
      /\ UNCHANGED <<umc, finalizaciones>>
      /\ UNCHANGED <<pidActual, colaExec, colaBlocked, consola, duenio>>
      /\ UNCHANGED <<cpus, corriendo, relacion>>
  BY DEF InitCarga
<1>4. EnviarAConsola(k, cod, AEnviar(Kernel))
  BY <1>2 DEF InitCarga
<1>5. /\ aviso' = [aviso EXCEPT ![k] = cod] \/ aviso' = aviso
      /\ nucleo' = nucleo \/ nucleo' = "muerto"
      /\ \/ hilos' = AEnviar(Kernel)
         \/ hilos' = [hilos EXCEPT ![Kernel].paso = "colgado"]
  BY <1>4, AConsolaHace
<1>6. Append(colaReady, p) \in Seq(Pids)
  BY AgregarEs DEF TInv, TiposDeColas
<1>7. TiposDeColas'
  <2>1. /\ colaNew' = colaNew \ {p}
        /\ \/ colaReady' = Append(colaReady, p) /\ colaExit' = colaExit
           \/ colaReady' = colaReady /\ colaExit' = colaExit \union {p}
    BY <1>1 DEF InitCarga
  <2> QED BY <1>3, <1>5, <1>6, <2>1 DEF TInv, TiposDeColas
<1>8. TiposDeListas'
  <2>1. programas' = [programas EXCEPT ![p] = k]
    BY <1>1 DEF InitCarga
  <2> QED BY <1>3, <2>1 DEF TInv, TiposDeListas
<1>9. TiposDeConsolas'
  BY <1>3, <1>5 DEF TInv, TiposDeConsolas
<1>10. TiposDeHilos'
  <2>1. Kernel \in Hilos /\ TiposDeHilos
    BY DEF Hilos, TInv
  <2> QED BY <1>3, <1>5, <2>1, HilosSon
<1>11. TiposDeInit' /\ CuentaDePids'
  <2>1. hiloInit' = [hiloInit EXCEPT ![k] = [paso |-> "fin", cod |-> "OK", pid |-> 0]]
    BY DEF InitCarga
  <2>2. [paso |-> "fin", cod |-> "OK", pid |-> 0] \in InitTipo
    BY DEF InitTipo
  <2>3. hiloInit[k].paso = "cargando"
    BY DEF InitCarga
  <2>4. TiposDeInit'
    BY <2>1, <2>2 DEF TInv, TiposDeInit
  <2>5. Admitidas' = Admitidas
    BY <2>1, <2>3 DEF Admitidas, TInv, TiposDeInit
  <2> QED BY <1>3, <2>4, <2>5 DEF TInv, CuentaDePids
<1> QED BY <1>3, <1>7, <1>8, <1>9, <1>10, <1>11, TiposQuietos DEF TInv

LEMMA CerrarConsolaTipos ==
  ASSUME TInv, NEW k \in Consolas, CerrarConsola(k)
  PROVE  TInv'
<1> USE DEF TInv
<1>1. /\ UNCHANGED semaforos /\ UNCHANGED pendienteES /\ UNCHANGED procesosCpu
      /\ UNCHANGED <<nucleo, pidActual, umc, aviso, duenio, hiloInit>>
      /\ UNCHANGED <<cpus, corriendo, relacion>>
      /\ consola' = [consola EXCEPT ![k] = "cerrada"]
  BY DEF CerrarConsola
<1>2. PICK p \in Pids :
        /\ programas' = [programas EXCEPT ![p] = "cerrado"]
        /\ \/ UNCHANGED <<colas, finalizaciones, hilos>>
           \/ /\ colaNew' = colaNew \ {p} /\ colaBlocked' = colaBlocked \ {p}
              /\ colaReady' = Sacar(p, colaReady)
              /\ colaExit' = colaExit \/ colaExit' = colaExit \union {p}
              /\ colaExec' = colaExec /\ Finalizar(p) /\ hilos' = AEnviar(Kernel)
  BY DEF CerrarConsola
<1>3. Sacar(p, colaReady) \in Seq(Pids)
  BY SacarEs DEF TiposDeColas
<1>4. TiposDeColas'
  BY <1>1, <1>2, <1>3 DEF TiposDeColas, colas
<1>5. TiposDeListas'
  BY <1>1, <1>2 DEF TiposDeListas
<1>6. TiposDeUmc'
  BY <1>1, <1>2, FinalizarTipo DEF TiposDeUmc, umc
<1>7. TiposDeConsolas'
  BY <1>1 DEF TiposDeConsolas
<1>8. TiposDeHilos'
  <2>1. Kernel \in Hilos /\ TiposDeHilos
    BY DEF Hilos
  <2>2. hilos' = hilos => TiposDeHilos'
    BY <1>1, TiposQuietos
  <2> QED BY <1>1, <1>2, <2>1, <2>2, HilosSon
<1> QED BY <1>1, <1>4, <1>5, <1>6, <1>7, <1>8, TiposQuietos

-----------------------------------------------------------------------------
(* Types: the handlers of the CPUs' messages *)

LEMMA LlegaTipo ==
  ASSUME TInv, NEW c \in Cpus, NEW op, Llega(c, op)
  PROVE  /\ Head(canal[c]) \in MensajesDeCpu /\ Head(canal[c]).op = op
         /\ canal' \in [Cpus -> Seq(MensajesDeCpu)]
         /\ MutexLibre /\ nucleo = "vivo" /\ hilos[Kernel].paso = "libre"
<1>1. canal[c] \in Seq(MensajesDeCpu) /\ canal[c] # <<>>
  BY DEF TInv, TiposDeCpus, Llega
<1>2. Tail(canal[c]) \in Seq(MensajesDeCpu) /\ Head(canal[c]) \in MensajesDeCpu
  BY <1>1, ColaEs
<1>3. canal' \in [Cpus -> Seq(MensajesDeCpu)]
  BY <1>2 DEF TInv, TiposDeCpus, Llega
<1> QED BY <1>2, <1>3 DEF Llega, MutexLibre

LEMMA PrimeraRelacion ==
  ASSUME TiposDeListas, NEW x
  PROVE  /\ RelacionesDePid(x) # {} =>
              /\ Primera(RelacionesDePid(x)) \in DOMAIN relacion
              /\ relacion[Primera(RelacionesDePid(x))].pid = x /\ x \in Pids
         /\ RelacionesDeCpu(x) # {} =>
              /\ Primera(RelacionesDeCpu(x)) \in DOMAIN relacion
              /\ relacion[Primera(RelacionesDeCpu(x))].cpu = x /\ x \in Cpus
<1>1. relacion \in Seq(Relacion)
  BY DEF TiposDeListas
<1>2. RelacionesDePid(x) \in SUBSET Nat /\ RelacionesDeCpu(x) \in SUBSET Nat
  BY <1>1 DEF RelacionesDePid, RelacionesDeCpu
<1>3. ASSUME RelacionesDePid(x) # {}
      PROVE  /\ Primera(RelacionesDePid(x)) \in DOMAIN relacion
             /\ relacion[Primera(RelacionesDePid(x))].pid = x /\ x \in Pids
  <2>1. PICK i \in RelacionesDePid(x) : i = Primera(RelacionesDePid(x))
    BY <1>2, <1>3, PrimeraEs
  <2>2. i \in DOMAIN relacion /\ relacion[i].pid = x
    BY DEF RelacionesDePid
  <2>3. relacion[i] \in Relacion
    BY <1>1, <2>2
  <2> QED BY <2>1, <2>2, <2>3 DEF Relacion
<1>4. ASSUME RelacionesDeCpu(x) # {}
      PROVE  /\ Primera(RelacionesDeCpu(x)) \in DOMAIN relacion
             /\ relacion[Primera(RelacionesDeCpu(x))].cpu = x /\ x \in Cpus
  <2>1. PICK i \in RelacionesDeCpu(x) : i = Primera(RelacionesDeCpu(x))
    BY <1>2, <1>4, PrimeraEs
  <2>2. i \in DOMAIN relacion /\ relacion[i].cpu = x
    BY DEF RelacionesDeCpu
  <2>3. relacion[i] \in Relacion
    BY <1>1, <2>2
  <2> QED BY <2>1, <2>2, <2>3 DEF Relacion
<1> QED BY <1>3, <1>4

LEMMA SoltarTipo ==
  ASSUME TiposDeListas, NEW i \in DOMAIN relacion
  PROVE  /\ relacion[i] \in Relacion /\ relacion[i].pid \in Pids /\ relacion[i].cpu \in Cpus
         /\ Soltar(i) => relacion' \in Seq(Relacion) /\ corriendo' \subseteq Cpus
<1>1. relacion \in Seq(Relacion)
  BY DEF TiposDeListas
<1>2. SinLa(i, relacion) \in Seq(Relacion)
  BY <1>1, SinLaQuedan
<1>3. relacion[i] \in Relacion
  BY <1>1
<1> QED BY <1>2, <1>3 DEF Soltar, TiposDeListas, Relacion

LEMMA EntierroTipo ==
  ASSUME TInv, NEW q \in Pids, Enterrar(q) \/ SinEntierro
  PROVE  /\ colaExit' \subseteq Pids
         /\ finalizaciones' \in [Pids -> 0 .. 2]
         /\ programas' \in [Pids -> Consolas \union {"ninguno", "cerrado"}]
<1>1. CASE Enterrar(q)
  <2>1. finalizaciones' \in [Pids -> 0 .. 2]
    BY <1>1, FinalizarTipo DEF Enterrar, TInv
  <2>2. colaExit' \subseteq Pids
    BY <1>1 DEF Enterrar, TInv, TiposDeColas
  <2>3. programas' \in [Pids -> Consolas \union {"ninguno", "cerrado"}]
    BY <1>1 DEF Enterrar, TInv, TiposDeListas
  <2> QED BY <2>1, <2>2, <2>3
<1>2. CASE SinEntierro
  BY <1>2 DEF SinEntierro, TInv, TiposDeColas, TiposDeListas, TiposDeUmc
<1> QED BY <1>1, <1>2

\* The handlers that change no list: WAIT without blocking, a print, a shared
\* variable, the NO_OK of a WAIT, and a NULL relation.
LEMMA RespuestaTipos ==
  ASSUME TInv, NEW c \in Cpus,
         WaitSinBloquear(c) \/ Imprimir(c) \/ Obtener(c) \/ RelacionNula(c)
  PROVE  TInv'
<1> USE DEF TInv
<1>1. /\ UNCHANGED <<pidActual, colas>> /\ UNCHANGED listas /\ UNCHANGED pendienteES
      /\ UNCHANGED <<umc, finalizaciones>> /\ UNCHANGED hiloInit /\ cola' = cola
      /\ cpu' = cpu /\ UNCHANGED <<consola, duenio>>
  BY DEF WaitSinBloquear, Imprimir, Obtener, RelacionNula, consolas, semaforos
<1>2. PICK op : Llega(c, op)
  BY DEF WaitSinBloquear, Imprimir, Obtener, RelacionNula
<1>3. /\ Head(canal[c]) \in MensajesDeCpu /\ Head(canal[c]).op = op
      /\ canal' \in [Cpus -> Seq(MensajesDeCpu)]
  BY <1>2, LlegaTipo
<1>4. PICK m \in MensajesDelNucleo : m = Mensaje("OK", 0, Nadie)
  BY MensajesDelNucleoSon
<1>5. /\ nucleo' = nucleo \/ nucleo' = "muerto"
      /\ hilos' = hilos \/ hilos' = [hilos EXCEPT ![Kernel].paso = "colgado"]
      /\ aCpu' = aCpu \/ aCpu' = [aCpu EXCEPT ![c] = Append(@, m)]
      /\ TiposDeConsolas'
  <2>1. CASE WaitSinBloquear(c) \/ Obtener(c)
    <3>1. EnviarACpu(c, m, Kernel, hilos) /\ UNCHANGED <<consola, aviso, duenio>>
      BY <1>4, <2>1 DEF WaitSinBloquear, Obtener, consolas
    <3>2. TiposDeConsolas'
      BY <3>1, TiposQuietos
    <3> QED BY <3>1, <3>2 DEF EnviarACpu, Envio
  <2>2. CASE Imprimir(c)
    <3> DEFINE k == programas[relacion[Primera(RelacionesDeCpu(c))].pid]
    <3>1. /\ IF k \in Consolas THEN EnviarAConsola(k, aviso[k], hilos)
                               ELSE UNCHANGED <<aviso, nucleo, hilos>>
          /\ aCpu' = aCpu
      BY <2>2 DEF Imprimir
    <3>2. PICK l : l = k
      OBVIOUS
    <3>3. CASE l \in Consolas
      <4>1. PICK a : a = aviso[l]
        OBVIOUS
      <4>2. EnviarAConsola(l, a, hilos)
        BY <3>1, <3>2, <3>3, <4>1
      <4>3. /\ aviso' = [aviso EXCEPT ![l] = a] \/ aviso' = aviso
            /\ nucleo' = nucleo \/ nucleo' = "muerto"
            /\ hilos' = hilos \/ hilos' = [hilos EXCEPT ![Kernel].paso = "colgado"]
        BY <4>2, AConsolaHace
      <4>4. TiposDeConsolas'
        BY <1>1, <3>3, <4>1, <4>3 DEF TiposDeConsolas
      <4> QED BY <3>1, <4>3, <4>4
    <3>4. CASE l \notin Consolas
      BY <1>1, <3>1, <3>2, <3>4 DEF TiposDeConsolas
    <3> QED BY <3>3, <3>4
  <2>3. CASE RelacionNula(c)
    BY <2>3 DEF RelacionNula, consolas, TiposDeConsolas
  <2> QED BY <2>1, <2>2, <2>3
<1>6. TiposDeColas'
  BY <1>1, <1>5 DEF TiposDeColas, colas
<1>7. TiposDeHilos'
  <2>1. Kernel \in Hilos /\ TiposDeHilos
    BY DEF Hilos
  <2>2. hilos' = hilos => TiposDeHilos'
    BY <1>1, TiposQuietos
  <2> QED BY <1>1, <1>5, <2>1, <2>2, HilosSon
<1>8. TiposDeCpus'
  <2>1. Append(aCpu[c], m) \in Seq(MensajesDelNucleo)
    BY AgregarEs DEF TiposDeCpus
  <2>2. aCpu' \in [Cpus -> Seq(MensajesDelNucleo)]
    BY <1>5, <2>1 DEF TiposDeCpus
  <2> QED BY <1>1, <1>3, <2>2 DEF TiposDeCpus
<1>9. TiposDeSemaforos'
  <2>1. valor' \in [Semaforos -> Int]
    <3>1. CASE WaitSinBloquear(c)
      <4>1. Head(canal[c]).op = "WAIT"
        BY <3>1 DEF WaitSinBloquear, Llega
      <4>2. PICK s \in Semaforos : s = Head(canal[c]).sem
        BY <1>3, <4>1, MensajesSon
      <4>3. valor' = [valor EXCEPT ![s] = @ - 1]
        BY <3>1, <4>2 DEF WaitSinBloquear
      <4> QED BY <4>3 DEF TiposDeSemaforos
    <3>2. CASE ~WaitSinBloquear(c)
      BY <3>2 DEF Imprimir, Obtener, RelacionNula, TiposDeSemaforos, semaforos
    <3> QED BY <3>1, <3>2
  <2> QED BY <1>1, <2>1 DEF TiposDeSemaforos
<1>10. UNCHANGED <<pidActual, hiloInit>>
  BY <1>1
<1> QED BY <1>1, <1>5, <1>6, <1>7, <1>8, <1>9, <1>10, TiposQuietos

\* The handlers that free a relation.
LEMMA SoltarTipos ==
  ASSUME TInv, NEW c \in Cpus,
         \/ FinQuantum(c) \/ EntradaSalida(c) \/ TerminoMal(c) \/ WaitBloquea(c)
         \/ \E op \in {"FINALIZA", "ERROR_MEM"} : FinalizaPrograma(c, op)
  PROVE  TInv'
<1> USE DEF TInv
<1>1. /\ UNCHANGED <<pidActual, hiloInit>> /\ UNCHANGED hiloInit /\ UNCHANGED umc
      /\ UNCHANGED <<consola, duenio>> /\ cpu' = cpu /\ aCpu' = aCpu
      /\ colaNew' = colaNew
  BY DEF FinQuantum, EntradaSalida, TerminoMal, WaitBloquea, FinalizaPrograma, consolas
<1>2. PICK op : Llega(c, op)
  BY DEF FinQuantum, EntradaSalida, TerminoMal, WaitBloquea, FinalizaPrograma
<1>3. PICK m \in MensajesDeCpu : m = Head(canal[c])
  BY <1>2, LlegaTipo
<1>4. canal' \in [Cpus -> Seq(MensajesDeCpu)]
  BY <1>2, LlegaTipo
<1>5. TiposDeCpus'
  BY <1>1, <1>4 DEF TiposDeCpus
<1>6. Kernel \in Hilos /\ TiposDeHilos
  BY DEF Hilos
<1>7. CASE FinQuantum(c) \/ EntradaSalida(c)
            \/ \E o \in {"FINALIZA", "ERROR_MEM"} : FinalizaPrograma(c, o)
  <2> DEFINE p == m.pid
  <2>0. PICK i : i = Primera(RelacionesDePid(p))
    OBVIOUS
  <2>1. RelacionesDePid(p) # {} /\ Soltar(i) /\ UNCHANGED <<cpus, semaforos>>
    BY <1>3, <1>7, <2>0 DEF FinQuantum, EntradaSalida, FinalizaPrograma
  <2>2. i \in DOMAIN relacion /\ p \in Pids
    BY <2>0, <2>1, PrimeraRelacion
  <2>3. relacion' \in Seq(Relacion) /\ corriendo' \subseteq Cpus
    BY <2>1, <2>2, SoltarTipo
  <2>4. Append(colaReady, p) \in Seq(Pids)
    BY <2>2, AgregarEs DEF TiposDeColas
  <2> HIDE DEF p
  <2>5. CASE FinQuantum(c) \/ EntradaSalida(c)
    <3>1. /\ Enterrar(p) \/ SinEntierro
          /\ nucleo' = nucleo /\ aviso' = aviso /\ hilos' = AEnviar(Kernel)
          /\ colaReady' = colaReady \/ colaReady' = Append(colaReady, p)
          /\ colaExec' = colaExec \ {p}
          /\ colaBlocked' = colaBlocked \/ colaBlocked' = colaBlocked \union {p}
          /\ pendienteES' = pendienteES \/ pendienteES' = p
      BY <1>3, <2>5 DEF FinQuantum, EntradaSalida, p, consolas
    <3>2. /\ colaExit' \subseteq Pids
          /\ finalizaciones' \in [Pids -> 0 .. 2]
          /\ programas' \in [Pids -> Consolas \union {"ninguno", "cerrado"}]
      BY <2>2, <3>1, EntierroTipo
    <3>3. TiposDeColas'
      BY <1>1, <2>2, <2>4, <3>1, <3>2 DEF TiposDeColas
    <3>4. TiposDeListas'
      BY <2>1, <2>3, <3>2 DEF TiposDeListas
    <3>5. TiposDeUmc'
      BY <1>1, <3>2 DEF TiposDeUmc, umc
    <3>6. TiposDeHilos'
      BY <1>6, <2>2, <3>1, HilosSon
    <3>7. UNCHANGED <<consola, aviso, duenio>> /\ UNCHANGED semaforos
      BY <1>1, <2>1, <3>1
    <3> QED BY <1>1, <1>5, <3>3, <3>4, <3>5, <3>6, <3>7, TiposQuietos
  <2>6. ASSUME NEW o \in {"FINALIZA", "ERROR_MEM"}, FinalizaPrograma(c, o)
        PROVE  TInv'
    <3>1. PICK w \in {"TERMINO_BIEN", "TERMINO_MAL"} :
            w = IF o = "FINALIZA" THEN "TERMINO_BIEN" ELSE "TERMINO_MAL"
      OBVIOUS
    <3>2. PICK k : k = programas[p]
      OBVIOUS
    <3>3. /\ UNCHANGED <<colaReady, colaBlocked, pendienteES>>
          /\ colaExec' = colaExec \ {p}
          /\ \/ /\ Enterrar(p) \/ SinEntierro
                /\ UNCHANGED <<nucleo, hilos, aviso>>
             \/ /\ colaExit' = colaExit \union {p}
                /\ Finalizar(p)
                /\ EnviarAConsola(k, w, AEnviar(Kernel))
                /\ programas' = [programas EXCEPT ![p] = "ninguno"]
      BY <1>3, <2>6, <3>1, <3>2 DEF FinalizaPrograma, p
    <3>4. /\ nucleo' = nucleo \/ nucleo' = "muerto"
          /\ aviso' = aviso \/ aviso' = [aviso EXCEPT ![k] = w]
          /\ \/ hilos' = hilos \/ hilos' = AEnviar(Kernel)
             \/ hilos' = [hilos EXCEPT ![Kernel].paso = "colgado"]
      BY <3>3, AConsolaHace
    <3>5. /\ colaExit' \subseteq Pids
          /\ finalizaciones' \in [Pids -> 0 .. 2]
          /\ programas' \in [Pids -> Consolas \union {"ninguno", "cerrado"}]
      <4>1. CASE Enterrar(p) \/ SinEntierro
        BY <2>2, <4>1, EntierroTipo
      <4>2. CASE /\ colaExit' = colaExit \union {p} /\ Finalizar(p)
                 /\ programas' = [programas EXCEPT ![p] = "ninguno"]
        <5>1. finalizaciones' \in [Pids -> 0 .. 2]
          BY <2>2, <4>2, FinalizarTipo
        <5> QED BY <2>2, <4>2, <5>1 DEF TiposDeColas, TiposDeListas
      <4> QED BY <3>3, <4>1, <4>2
    <3>6. TiposDeColas'
      BY <1>1, <3>3, <3>4, <3>5 DEF TiposDeColas
    <3>7. TiposDeListas'
      BY <2>1, <2>3, <3>5 DEF TiposDeListas
    <3>8. TiposDeUmc'
      BY <1>1, <3>5 DEF TiposDeUmc, umc
    <3>9. TiposDeConsolas'
      BY <1>1, <3>4 DEF TiposDeConsolas
    <3>10. TiposDeHilos'
      <4>1. hilos' = hilos => TiposDeHilos'
        BY <3>3, TiposQuietos
      <4> QED BY <1>6, <3>3, <3>4, <4>1, HilosSon
    <3> QED BY <1>1, <1>5, <2>1, <3>6, <3>7, <3>8, <3>9, <3>10, TiposQuietos
  <2> QED BY <1>7, <2>5, <2>6
<1>8. CASE TerminoMal(c) \/ WaitBloquea(c)
  <2> DEFINE p == m.pid
  <2>0. PICK i : i = Primera(RelacionesDeCpu(c))
    OBVIOUS
  <2>1. RelacionesDeCpu(c) # {} /\ Soltar(i)
    BY <1>8, <2>0 DEF TerminoMal, WaitBloquea
  <2>2. i \in DOMAIN relacion
    BY <2>0, <2>1, PrimeraRelacion
  <2>3. relacion' \in Seq(Relacion) /\ corriendo' \subseteq Cpus
    BY <2>1, <2>2, SoltarTipo
  <2>4. PICK q \in Pids : q = relacion[i].pid
    BY <2>2, SoltarTipo
  <2>5. PICK exec \in SUBSET Pids : exec = IF Muerta(q) THEN colaExec \ {q} ELSE colaExec
    BY DEF TiposDeColas
  <2> HIDE DEF p
  <2>6. /\ Enterrar(q) \/ SinEntierro
        /\ colaExec' = exec \ {p} /\ nucleo' = nucleo /\ aviso' = aviso
    BY <1>3, <1>8, <2>0, <2>4, <2>5 DEF TerminoMal, WaitBloquea, p, consolas
  <2>7. /\ colaExit' \subseteq Pids
        /\ finalizaciones' \in [Pids -> 0 .. 2]
        /\ programas' \in [Pids -> Consolas \union {"ninguno", "cerrado"}]
    BY <2>6, EntierroTipo
  <2>8. TiposDeUmc'
    BY <1>1, <2>7 DEF TiposDeUmc, umc
  <2>9. UNCHANGED <<consola, aviso, duenio>>
    BY <1>1, <2>6
  <2>10. CASE TerminoMal(c)
    <3>1. /\ UNCHANGED <<colaBlocked, pendienteES, cpus>> /\ UNCHANGED semaforos
          /\ IF p \in exec
             THEN /\ colaReady' = Append(colaReady, p)
                  /\ hilos' = [hilos EXCEPT ![Kernel] =
                                 [paso |-> "eliminar", cpu |-> c, pid |-> p]]
             ELSE UNCHANGED <<colaReady, hilos>>
      BY <1>3, <2>0, <2>4, <2>5, <2>10 DEF TerminoMal, p
    <3>2. p \in exec => Append(colaReady, p) \in Seq(Pids)
      BY AgregarEs DEF TiposDeColas
    <3>4. TiposDeColas'
      BY <1>1, <2>6, <2>7, <3>1, <3>2 DEF TiposDeColas
    <3>5. TiposDeListas'
      BY <2>3, <2>7, <3>1 DEF TiposDeListas
    <3>6. TiposDeHilos'
      <4>1. hilos' = hilos => TiposDeHilos'
        BY <3>1, TiposQuietos
      <4>2. p \in exec => [paso |-> "eliminar", cpu |-> c, pid |-> p] \in HiloTipo
        BY DEF HiloTipo
      <4> QED BY <1>6, <3>1, <4>1, <4>2 DEF TiposDeHilos
    <3> QED BY <1>1, <1>5, <2>8, <2>9, <3>1, <3>4, <3>5, <3>6, TiposQuietos
  <2>11. CASE WaitBloquea(c)
    <3>0. m.op = "WAIT"
      BY <1>3, <2>11 DEF WaitBloquea, Llega
    <3>1. p \in Pids
      <4>1. \A n \in MensajesDeCpu : n.op = "WAIT" => n.pid \in Pids
        BY DEF MensajesDeCpu
      <4> QED BY <3>0, <4>1 DEF p
    <3>2. PICK s \in Semaforos : s = m.sem
      BY <3>0, MensajesSon
    <3>3. /\ UNCHANGED <<colaReady, cpus, pendienteES>>
          /\ valor' = [valor EXCEPT ![s] = @ - 1]
          /\ cola' = [cola EXCEPT ![s] = Append(@, p)]
          /\ colaBlocked' = IF p \in exec THEN colaBlocked \union {p} ELSE colaBlocked
          /\ hilos' = [hilos EXCEPT ![Kernel] = [paso |-> "responder", cpu |-> c, pid |-> p]]
      BY <1>3, <2>0, <2>4, <2>5, <2>11, <3>2 DEF WaitBloquea, p
    <3>4. Append(cola[s], p) \in Seq(Pids)
      BY <3>1, AgregarEs DEF TiposDeSemaforos
    <3>5. TiposDeSemaforos'
      BY <3>3, <3>4 DEF TiposDeSemaforos
    <3>6. TiposDeColas'
      BY <1>1, <2>6, <2>7, <3>1, <3>3 DEF TiposDeColas
    <3>7. TiposDeListas'
      BY <2>3, <2>7, <3>3 DEF TiposDeListas
    <3>8. TiposDeHilos'
      <4>1. [paso |-> "responder", cpu |-> c, pid |-> p] \in HiloTipo
        BY <3>1 DEF HiloTipo
      <4> QED BY <1>6, <3>3, <4>1 DEF TiposDeHilos
    <3> QED BY <1>1, <1>5, <2>8, <2>9, <3>5, <3>6, <3>7, <3>8, TiposQuietos
  <2> QED BY <1>8, <2>10, <2>11
<1> QED BY <1>7, <1>8

LEMMA ColgarTipos ==
  ASSUME TInv, NEW c \in Cpus, HandshakeCpu(c) \/ Signal(c) \/ CerrarCpu(c)
  PROVE  TInv'
<1> USE DEF TInv
<1>1. /\ UNCHANGED <<pidActual, hiloInit>> /\ UNCHANGED hiloInit /\ UNCHANGED umc
      /\ UNCHANGED <<consola, duenio>> /\ aCpu' = aCpu /\ colaNew' = colaNew
      /\ UNCHANGED pendienteES
  BY DEF HandshakeCpu, Signal, CerrarCpu, consolas, colas
<1>2. Kernel \in Hilos /\ TiposDeHilos
  BY DEF Hilos
<1>3. hilos' = hilos => TiposDeHilos'
  BY <1>1, TiposQuietos
<1>4. CASE HandshakeCpu(c)
  <2>1. /\ Llega(c, "HS") /\ cpus' = Append(cpus, c)
        /\ UNCHANGED <<programas, corriendo, relacion>> /\ UNCHANGED colas
        /\ UNCHANGED <<umc, finalizaciones>> /\ UNCHANGED <<consola, aviso, duenio>>
        /\ UNCHANGED semaforos /\ cpu' = cpu
        /\ nucleo' = nucleo \/ nucleo' = "muerto"
        /\ \/ hilos' = AEnviar(Kernel)
           \/ hilos' = [hilos EXCEPT ![Kernel].paso = "colgado"]
    BY <1>4 DEF HandshakeCpu, Envio, consolas
  <2>2. canal' \in [Cpus -> Seq(MensajesDeCpu)]
    BY <2>1, LlegaTipo
  <2>3. TiposDeCpus'
    BY <1>1, <2>1, <2>2 DEF TiposDeCpus
  <2>4. TiposDeHilos'
    BY <1>1, <1>2, <2>1, HilosSon
  <2>5. TiposDeListas'
    BY <2>1, AgregarEs DEF TiposDeListas
  <2>6. TiposDeColas'
    BY <1>1, <2>1 DEF TiposDeColas, colas
  <2> QED BY <1>1, <2>1, <2>3, <2>4, <2>5, <2>6, TiposQuietos
<1>5. CASE Signal(c)
  <2>1. Llega(c, "SIGNAL")
    BY <1>5 DEF Signal
  <2>2. /\ canal' \in [Cpus -> Seq(MensajesDeCpu)] /\ Head(canal[c]).sem \in Semaforos
    BY <2>1, LlegaTipo, MensajesSon
  <2>3. PICK s \in Semaforos : s = Head(canal[c]).sem
    BY <2>2
  <2>4. PICK t \in Seq(Pids) : t = cola[s]
    BY DEF TiposDeSemaforos
  <2>5. /\ valor' = [valor EXCEPT ![s] = @ + 1]
        /\ UNCHANGED <<colaReady, colaExec, colaExit, nucleo>> /\ UNCHANGED listas
        /\ UNCHANGED <<umc, finalizaciones>> /\ UNCHANGED <<consola, aviso, duenio>>
        /\ cpu' = cpu
        /\ IF t = <<>> THEN hilos' = AEnviar(Kernel) /\ UNCHANGED <<cola, colaBlocked>>
           ELSE cola' = [cola EXCEPT ![s] = Tail(@)] /\ Desbloquear(Kernel, Head(t))
    BY <1>5, <2>3, <2>4 DEF Signal, consolas
  <2>6. t # <<>> => Tail(t) \in Seq(Pids) /\ Head(t) \in Pids
    BY ColaEs
  <2>7. TiposDeCpus'
    BY <1>1, <2>2, <2>5 DEF TiposDeCpus
  <2>8. TiposDeHilos' /\ colaBlocked' \subseteq colaBlocked
    <3>1. CASE t = <<>>
      BY <1>1, <1>2, <2>5, <3>1, HilosSon
    <3>2. CASE t # <<>>
      <4>1. PICK q \in Pids : q = Head(t)
        BY <2>6, <3>2
      <4>2. Desbloquear(Kernel, q) /\ colaBlocked \subseteq Pids
        BY <2>5, <3>2, <4>1 DEF TiposDeColas
      <4> QED BY <1>1, <1>2, <4>2, DesbloquearTipos
    <3> QED BY <3>1, <3>2
  <2>9. TiposDeSemaforos'
    <3>1. valor' \in [Semaforos -> Int]
      BY <2>5 DEF TiposDeSemaforos
    <3>2. cola' \in [Semaforos -> Seq(Pids)]
      <4>1. CASE t = <<>>
        BY <2>5, <4>1 DEF TiposDeSemaforos
      <4>2. CASE t # <<>>
        BY <2>4, <2>5, <2>6, <4>2 DEF TiposDeSemaforos
      <4> QED BY <4>1, <4>2
    <3> QED BY <3>1, <3>2 DEF TiposDeSemaforos
  <2>10. TiposDeColas'
    BY <1>1, <2>5, <2>8 DEF TiposDeColas
  <2> QED BY <1>1, <2>5, <2>7, <2>8, <2>9, <2>10, TiposQuietos
<1>6. CASE CerrarCpu(c)
  <2>1. /\ Quedar(c, "retirada", 0) /\ canal' = canal /\ cpus' = Sacar(c, cpus)
        /\ UNCHANGED <<colaReady, colaBlocked>> /\ UNCHANGED semaforos
    BY <1>6 DEF CerrarCpu
  <2>2. TiposDeCpus'
    BY <1>1, <2>1, QuedarTipo DEF TiposDeCpus
  <2>3. Sacar(c, cpus) \in Seq(Cpus)
    BY SacarEs DEF TiposDeListas
  <2>4. CASE UNCHANGED <<nucleo, aviso, colaExec, colaExit, finalizaciones, programas,
                         relacion, corriendo>>
             /\ (hilos' = hilos \/ hilos' = [hilos EXCEPT ![Kernel].paso = "colgado"])
    <3>1. TiposDeColas'
      BY <1>1, <2>1, <2>4 DEF TiposDeColas
    <3>2. TiposDeListas'
      BY <2>1, <2>3, <2>4 DEF TiposDeListas
    <3>3. TiposDeHilos'
      BY <1>1, <1>2, <1>3, <2>4, HilosSon
    <3>4. UNCHANGED <<consola, aviso, duenio>> /\ UNCHANGED <<umc, finalizaciones>>
      BY <1>1, <2>4
    <3> QED BY <1>1, <2>1, <2>2, <3>1, <3>2, <3>3, <3>4, TiposQuietos
  <2>5. CASE RelacionesDeCpu(c) # {}
    <3>0. PICK i : i = Primera(RelacionesDeCpu(c))
      OBVIOUS
    <3>1. i \in DOMAIN relacion
      BY <2>5, <3>0, PrimeraRelacion
    <3>2. PICK q \in Pids : q = relacion[i].pid
      BY <3>1, SoltarTipo
    <3>3. PICK k : k = programas[q]
      OBVIOUS
    <3>4. CASE Muerta(q)
      BY <1>6, <2>4, <2>5, <3>0, <3>2, <3>4 DEF CerrarCpu
    <3>5. CASE ~Muerta(q)
      <4>1. /\ \/ EnviarAConsola(k, "TERMINO_MAL", hilos)
               \/ nucleo' = "muerto" /\ UNCHANGED <<aviso, hilos>>
            /\ Enterrar(q) /\ colaExec' = colaExec \ {q} /\ Soltar(i)
        BY <1>6, <2>5, <3>0, <3>2, <3>3, <3>5 DEF CerrarCpu
      <4>2. /\ aviso' = aviso \/ aviso' = [aviso EXCEPT ![k] = "TERMINO_MAL"]
            /\ nucleo' = nucleo \/ nucleo' = "muerto"
            /\ hilos' = hilos \/ hilos' = [hilos EXCEPT ![Kernel].paso = "colgado"]
        BY <4>1, AConsolaHace
      <4>3. /\ colaExit' \subseteq Pids
            /\ finalizaciones' \in [Pids -> 0 .. 2]
            /\ programas' \in [Pids -> Consolas \union {"ninguno", "cerrado"}]
        BY <4>1, EntierroTipo
      <4>4. relacion' \in Seq(Relacion) /\ corriendo' \subseteq Cpus
        BY <3>1, <4>1, SoltarTipo
      <4>5. TiposDeColas'
        BY <1>1, <2>1, <4>1, <4>2, <4>3 DEF TiposDeColas
      <4>6. TiposDeListas'
        BY <2>1, <2>3, <4>3, <4>4 DEF TiposDeListas
      <4>7. TiposDeUmc'
        BY <1>1, <4>3 DEF TiposDeUmc, umc
      <4>8. TiposDeConsolas'
        BY <1>1, <4>2 DEF TiposDeConsolas
      <4>9. TiposDeHilos'
        BY <1>1, <1>2, <1>3, <4>2, HilosSon
      <4> QED BY <1>1, <2>1, <2>2, <4>5, <4>6, <4>7, <4>8, <4>9, TiposQuietos
    <3> QED BY <3>4, <3>5
  <2>6. CASE RelacionesDeCpu(c) = {}
    BY <1>6, <2>4, <2>6 DEF CerrarCpu
  <2> QED BY <2>5, <2>6
<1> QED BY <1>4, <1>5, <1>6

-----------------------------------------------------------------------------
(* Types: enviar_a_cpu and entrada_salida *)

LEMMA HiloCambia ==
  ASSUME hilos \in [Hilos -> HiloTipo], NEW h \in Hilos, NEW x, NEW p
  PROVE  /\ [hilos EXCEPT ![h].paso = x] =
              [hilos EXCEPT ![h] = [paso |-> x, cpu |-> hilos[h].cpu, pid |-> hilos[h].pid]]
         /\ [hilos EXCEPT ![h].paso = x, ![h].pid = p] =
              [hilos EXCEPT ![h] = [paso |-> x, cpu |-> hilos[h].cpu, pid |-> p]]
<1>1. ASSUME NEW r \in HiloTipo
      PROVE  /\ [r EXCEPT !.paso = x] = [paso |-> x, cpu |-> r.cpu, pid |-> r.pid]
             /\ [[r EXCEPT !.paso = x] EXCEPT !.pid = p]
                  = [paso |-> x, cpu |-> r.cpu, pid |-> p]
  <2>1. PICK a, b, c : r = [paso |-> a, cpu |-> b, pid |-> c]
    BY DEF HiloTipo
  <2>2. [r EXCEPT !.paso = x] = [paso |-> x, cpu |-> b, pid |-> c]
    BY <2>1
  <2>3. [[paso |-> x, cpu |-> b, pid |-> c] EXCEPT !.pid = p]
          = [paso |-> x, cpu |-> b, pid |-> p]
    OBVIOUS
  <2> QED BY <2>1, <2>2, <2>3
<1>2. hilos[h] \in HiloTipo
  OBVIOUS
<1>3. [hilos EXCEPT ![h].paso = x] = [hilos EXCEPT ![h] = [hilos[h] EXCEPT !.paso = x]]
  OBVIOUS
<1>4. [hilos EXCEPT ![h].paso = x, ![h].pid = p] =
        [hilos EXCEPT ![h] = [[hilos[h] EXCEPT !.paso = x] EXCEPT !.pid = p]]
  OBVIOUS
<1> QED BY <1>1, <1>2, <1>3, <1>4

LEMMA EnviarACpuTipos ==
  ASSUME TInv, NEW h \in Hilos,
         PasoDeHilo(h) \/ Responder \/ EliminarCpu \/ LanzarES
  PROVE  TInv'
<1> USE DEF TInv
<1>0. Kernel \in Hilos /\ TiposDeHilos /\ HilosIO \subseteq Hilos
      /\ hilos \in [Hilos -> HiloTipo] /\ pendienteES \in Pids \union {0}
  BY DEF Hilos, TiposDeHilos
<1>1. CASE Buscar(h)
  <2>1. /\ UNCHANGED <<nucleo, pidActual, colas>> /\ UNCHANGED listas /\ UNCHANGED semaforos
        /\ UNCHANGED <<umc, finalizaciones>> /\ UNCHANGED hiloInit /\ UNCHANGED pendienteES
        /\ UNCHANGED <<consola, aviso, duenio>> /\ UNCHANGED procesosCpu
        /\ UNCHANGED <<pidActual, hiloInit>>
    BY <1>1 DEF Buscar, resto, consolas, procesosCpu
  <2>2. PICK l : l = {i \in DOMAIN cpus : cpus[i] \notin corriendo}
    OBVIOUS
  <2>3. hilos' = IF l = {} THEN Volver(h)
                 ELSE [hilos EXCEPT ![h] = [paso |-> "sacar", cpu |-> cpus[Primera(l)], pid |-> 0]]
    BY <1>1, <2>2 DEF Buscar
  <2>4. CASE l = {}
    <3>1. TiposDeHilos'
      BY <1>0, <2>1, <2>3, <2>4, HilosSon
    <3> QED BY <2>1, <3>1, TiposQuietos
  <2>5. CASE l # {}
    <3>1. cpus \in Seq(Cpus) /\ l \subseteq DOMAIN cpus
      BY <2>2 DEF TiposDeListas
    <3>2. l \in SUBSET Nat
      BY <3>1
    <3>3. Primera(l) \in l
      BY <2>5, <3>2, PrimeraEs
    <3>4. PICK c \in Cpus : c = cpus[Primera(l)]
      BY <3>1, <3>3
    <3>5. [paso |-> "sacar", cpu |-> c, pid |-> 0] \in HiloTipo
      BY DEF HiloTipo
    <3>6. hilos' = [hilos EXCEPT ![h] = [paso |-> "sacar", cpu |-> c, pid |-> 0]]
      BY <2>3, <2>5, <3>4
    <3>7. TiposDeHilos'
      BY <2>1, <3>5, <3>6 DEF TiposDeHilos
    <3> QED BY <2>1, <3>7, TiposQuietos
  <2> QED BY <2>4, <2>5
<1>2. CASE SacarReady(h)
  <2>1. /\ UNCHANGED <<nucleo, pidActual, colaNew, colaExec, colaBlocked, colaExit>>
        /\ UNCHANGED listas /\ UNCHANGED semaforos
        /\ UNCHANGED <<umc, finalizaciones>> /\ UNCHANGED hiloInit /\ UNCHANGED pendienteES
        /\ UNCHANGED <<consola, aviso, duenio>> /\ UNCHANGED procesosCpu
        /\ UNCHANGED <<pidActual, hiloInit>> /\ hilos[h].paso = "sacar"
    BY <1>2 DEF SacarReady, resto, consolas, procesosCpu, EnPaso
  <2>2. CASE colaReady = <<>>
    <3>1. hilos' = Volver(h) /\ colaReady' = colaReady
      BY <1>2, <2>2 DEF SacarReady
    <3>2. TiposDeHilos'
      BY <1>0, <2>1, <3>1, HilosSon
    <3>3. UNCHANGED <<nucleo, pidActual, colas>>
      BY <2>1, <3>1 DEF colas
    <3> QED BY <2>1, <3>2, <3>3, TiposQuietos
  <2>3. CASE colaReady # <<>>
    <3>1. colaReady \in Seq(Pids)
      BY DEF TiposDeColas
    <3>2. Tail(colaReady) \in Seq(Pids) /\ Head(colaReady) \in Pids
      BY <2>3, <3>1, ColaEs
    <3>3. PICK p \in Pids : p = Head(colaReady)
      BY <3>2
    <3>4. /\ colaReady' = Tail(colaReady)
          /\ hilos' = [hilos EXCEPT ![h].paso = "relacionar", ![h].pid = p]
      BY <1>2, <2>3, <3>3 DEF SacarReady
    <3>5. PICK c \in Cpus : c = hilos[h].cpu
      BY <2>1 DEF TiposDeHilos
    <3>6. hilos' = [hilos EXCEPT ![h] = [paso |-> "relacionar", cpu |-> c, pid |-> p]]
      BY <1>0, <3>4, <3>5, HiloCambia
    <3>7. [paso |-> "relacionar", cpu |-> c, pid |-> p] \in HiloTipo
      BY DEF HiloTipo
    <3>8. TiposDeHilos'
      BY <2>1, <3>6, <3>7 DEF TiposDeHilos
    <3>9. TiposDeColas'
      BY <2>1, <3>2, <3>4 DEF TiposDeColas
    <3> QED BY <2>1, <3>8, <3>9, TiposQuietos
  <2> QED BY <2>2, <2>3
<1>3. CASE Relacionar(h)
  <2>1. /\ UNCHANGED <<nucleo, pidActual, colas>>
        /\ UNCHANGED <<programas, cpus>> /\ UNCHANGED semaforos
        /\ UNCHANGED <<umc, finalizaciones>> /\ UNCHANGED hiloInit /\ UNCHANGED pendienteES
        /\ UNCHANGED <<consola, aviso, duenio>> /\ UNCHANGED procesosCpu
        /\ UNCHANGED <<pidActual, hiloInit>> /\ hilos[h].paso = "relacionar"
    BY <1>3 DEF Relacionar, resto, consolas, procesosCpu, EnPaso
  <2>2. PICK c \in Cpus, p \in Pids : c = hilos[h].cpu /\ p = hilos[h].pid
    BY <2>1 DEF TiposDeHilos
  <2>3. CASE programas[p] = "ninguno"
    <3>1. hilos' = Volver(h) /\ UNCHANGED <<corriendo, relacion>>
      BY <1>3, <2>2, <2>3 DEF Relacionar
    <3>2. TiposDeHilos'
      BY <1>0, <2>1, <3>1, HilosSon
    <3>3. UNCHANGED listas
      BY <2>1, <3>1 DEF listas
    <3> QED BY <2>1, <3>2, <3>3, TiposQuietos
  <2>4. CASE programas[p] # "ninguno"
    <3>1. /\ corriendo' = corriendo \union {c}
          /\ relacion' = Append(relacion, [cpu |-> c, pid |-> p])
          /\ hilos' = [hilos EXCEPT ![h].paso = "ejecutar"]
      BY <1>3, <2>2, <2>4 DEF Relacionar
    <3>2. [cpu |-> c, pid |-> p] \in Relacion /\ relacion \in Seq(Relacion)
      BY DEF Relacion, TiposDeListas
    <3>3. Append(relacion, [cpu |-> c, pid |-> p]) \in Seq(Relacion)
      BY <3>2, AgregarEs
    <3>4. hilos' = [hilos EXCEPT ![h] = [paso |-> "ejecutar", cpu |-> c, pid |-> p]]
      BY <1>0, <2>2, <3>1, HiloCambia
    <3>5. [paso |-> "ejecutar", cpu |-> c, pid |-> p] \in HiloTipo
      BY DEF HiloTipo
    <3>6. TiposDeHilos'
      BY <2>1, <3>4, <3>5 DEF TiposDeHilos
    <3>8. TiposDeListas'
      BY <2>1, <3>1, <3>3 DEF TiposDeListas
    <3> QED BY <2>1, <3>6, <3>8, TiposQuietos
  <2> QED BY <2>3, <2>4
<1>4. CASE EnviarPcb(h)
  <2>1. /\ UNCHANGED colas /\ UNCHANGED listas /\ UNCHANGED semaforos
        /\ UNCHANGED <<umc, finalizaciones>> /\ UNCHANGED hiloInit /\ UNCHANGED pendienteES
        /\ UNCHANGED <<consola, aviso, duenio>> /\ cpu' = cpu /\ canal' = canal
        /\ UNCHANGED <<pidActual, hiloInit>> /\ hilos[h].paso = "enviar"
    BY <1>4 DEF EnviarPcb, resto, consolas, EnPaso
  <2>2. PICK c \in Cpus, p \in Pids : c = hilos[h].cpu /\ p = hilos[h].pid
    BY <2>1 DEF TiposDeHilos
  <2>3. PICK m \in MensajesDelNucleo : m = Mensaje("CORRER", p, Nadie)
    BY MensajesDelNucleoSon
  <2>4. EnviarACpu(c, m, h, Volver(h))
    BY <1>4, <2>2, <2>3 DEF EnviarPcb
  <2>5. /\ nucleo' = nucleo \/ nucleo' = "muerto"
        /\ hilos' = Volver(h) \/ hilos' = [hilos EXCEPT ![h].paso = "colgado"]
        /\ aCpu' = aCpu \/ aCpu' = [aCpu EXCEPT ![c] = Append(@, m)]
    BY <2>4 DEF EnviarACpu, Envio
  <2>6. Append(aCpu[c], m) \in Seq(MensajesDelNucleo)
    BY AgregarEs DEF TiposDeCpus
  <2>7. TiposDeCpus'
    BY <2>1, <2>5, <2>6 DEF TiposDeCpus
  <2>8. TiposDeHilos'
    BY <1>0, <2>1, <2>5, HilosSon
  <2>9. TiposDeColas'
    BY <2>1, <2>5 DEF TiposDeColas, colas
  <2> QED BY <2>1, <2>7, <2>8, <2>9, TiposQuietos
<1>5. CASE FinES(h)
  <2>1. /\ UNCHANGED <<nucleo, pidActual, colaNew, colaReady, colaExec, colaExit>>
        /\ UNCHANGED listas /\ UNCHANGED semaforos
        /\ UNCHANGED <<umc, finalizaciones>> /\ UNCHANGED hiloInit /\ UNCHANGED pendienteES
        /\ UNCHANGED <<consola, aviso, duenio>> /\ UNCHANGED procesosCpu
        /\ UNCHANGED <<pidActual, hiloInit>>
    BY <1>5 DEF FinES, resto, consolas, procesosCpu
  <2>2. PICK p \in Pids \union {0} : p = hilos[h].pid
    BY <1>0 DEF HiloTipo
  <2>3. Desbloquear(h, p)
    BY <1>5, <2>2 DEF FinES
  <2>4. TiposDeHilos' /\ colaBlocked' \subseteq colaBlocked
    BY <1>0, <2>1, <2>3, DesbloquearTipos DEF TiposDeColas
  <2>5. TiposDeColas'
    BY <2>1, <2>4 DEF TiposDeColas
  <2> QED BY <2>1, <2>4, <2>5, TiposQuietos
<1>6. CASE Responder
  <2>1. /\ UNCHANGED colas /\ UNCHANGED listas /\ UNCHANGED semaforos
        /\ UNCHANGED <<umc, finalizaciones>> /\ UNCHANGED hiloInit /\ UNCHANGED pendienteES
        /\ UNCHANGED <<consola, aviso, duenio>> /\ cpu' = cpu /\ canal' = canal
        /\ UNCHANGED <<pidActual, hiloInit>> /\ hilos[Kernel].paso = "responder"
    BY <1>6 DEF Responder, consolas
  <2>2. PICK c \in Cpus : c = hilos[Kernel].cpu
    BY <1>0, <2>1 DEF TiposDeHilos
  <2>3. PICK m \in MensajesDelNucleo : m = Mensaje("NO_OK", 0, Nadie)
    BY MensajesDelNucleoSon
  <2>4. EnviarACpu(c, m, Kernel, AEnviar(Kernel))
    BY <1>6, <2>2, <2>3 DEF Responder
  <2>5. /\ nucleo' = nucleo \/ nucleo' = "muerto"
        /\ \/ hilos' = AEnviar(Kernel)
           \/ hilos' = [hilos EXCEPT ![Kernel].paso = "colgado"]
        /\ aCpu' = aCpu \/ aCpu' = [aCpu EXCEPT ![c] = Append(@, m)]
    BY <2>4 DEF EnviarACpu, Envio
  <2>6. Append(aCpu[c], m) \in Seq(MensajesDelNucleo)
    BY AgregarEs DEF TiposDeCpus
  <2>7. TiposDeCpus'
    BY <2>1, <2>5, <2>6 DEF TiposDeCpus
  <2>8. TiposDeHilos'
    BY <1>0, <2>1, <2>5, HilosSon
  <2>9. TiposDeColas'
    BY <2>1, <2>5 DEF TiposDeColas, colas
  <2> QED BY <2>1, <2>7, <2>8, <2>9, TiposQuietos
<1>7. CASE LanzarES
  <2>1. /\ UNCHANGED <<nucleo, pidActual, colas>> /\ UNCHANGED listas /\ UNCHANGED semaforos
        /\ UNCHANGED <<umc, finalizaciones>> /\ UNCHANGED hiloInit /\ pendienteES' = 0
        /\ UNCHANGED <<consola, aviso, duenio>> /\ UNCHANGED procesosCpu
        /\ UNCHANGED <<pidActual, hiloInit>>
    BY <1>7 DEF LanzarES, consolas
  <2>2. PICK g \in HilosIO :
          hilos' = [hilos EXCEPT ![g] = [paso |-> "io", cpu |-> Nadie, pid |-> pendienteES],
                                 ![Kernel] = HiloLibre]
    BY <1>7 DEF LanzarES
  <2>3. [paso |-> "io", cpu |-> Nadie, pid |-> pendienteES] \in HiloTipo
    BY <1>0 DEF HiloTipo
  <2>4. HiloLibre \in HiloTipo /\ HiloLibre.paso = "libre"
    BY <1>0, HilosSon
  <2>5. TiposDeHilos'
    BY <1>0, <2>1, <2>2, <2>3, <2>4 DEF TiposDeHilos
  <2> QED BY <2>1, <2>5, TiposQuietos
<1>8. CASE MoverAExec(h) \/ MoverAReady(h)
  <2>1. /\ UNCHANGED <<nucleo, pidActual, colaNew, colaBlocked, colaExit>>
        /\ UNCHANGED listas /\ UNCHANGED semaforos
        /\ UNCHANGED <<umc, finalizaciones>> /\ UNCHANGED hiloInit /\ UNCHANGED pendienteES
        /\ UNCHANGED <<consola, aviso, duenio>> /\ UNCHANGED procesosCpu
        /\ UNCHANGED <<pidActual, hiloInit>> /\ hilos[h].paso \in {"ejecutar", "mover"}
    BY <1>8 DEF MoverAExec, MoverAReady, resto, consolas, procesosCpu, EnPaso
  <2>2. PICK p \in Pids : p = hilos[h].pid
    BY <2>1 DEF TiposDeHilos
  <2>3. CASE MoverAExec(h)
    <3>1. /\ colaExec' = colaExec \union {p} /\ colaReady' = colaReady
          /\ hilos' = [hilos EXCEPT ![h].paso = "enviar"] /\ hilos[h].paso = "ejecutar"
      BY <2>2, <2>3 DEF MoverAExec, EnPaso
    <3>2. PICK c \in Cpus : c = hilos[h].cpu
      BY <3>1 DEF TiposDeHilos
    <3>3. hilos' = [hilos EXCEPT ![h] = [paso |-> "enviar", cpu |-> c, pid |-> p]]
      BY <1>0, <2>2, <3>1, <3>2, HiloCambia
    <3>4. [paso |-> "enviar", cpu |-> c, pid |-> p] \in HiloTipo
      BY DEF HiloTipo
    <3>5. TiposDeHilos'
      BY <2>1, <3>3, <3>4 DEF TiposDeHilos
    <3>6. TiposDeColas'
      BY <2>1, <3>1 DEF TiposDeColas
    <3> QED BY <2>1, <3>5, <3>6, TiposQuietos
  <2>4. CASE MoverAReady(h)
    <3>1. colaReady' = Append(colaReady, p) /\ colaExec' = colaExec /\ hilos' = AEnviar(h)
      BY <2>2, <2>4 DEF MoverAReady
    <3>2. Append(colaReady, p) \in Seq(Pids)
      BY AgregarEs DEF TiposDeColas
    <3>3. TiposDeColas'
      BY <2>1, <3>1, <3>2 DEF TiposDeColas
    <3>4. TiposDeHilos'
      BY <1>0, <2>1, <3>1, HilosSon
    <3> QED BY <2>1, <3>3, <3>4, TiposQuietos
  <2> QED BY <1>8, <2>3, <2>4
<1>9. CASE EliminarCpu
  <2>1. /\ UNCHANGED <<nucleo, pidActual, colas>> /\ UNCHANGED <<programas, corriendo, relacion>>
        /\ UNCHANGED semaforos
        /\ UNCHANGED <<umc, finalizaciones>> /\ UNCHANGED hiloInit /\ UNCHANGED pendienteES
        /\ UNCHANGED <<consola, aviso, duenio>> /\ UNCHANGED procesosCpu
        /\ UNCHANGED <<pidActual, hiloInit>> /\ hilos' = AEnviar(Kernel)
    BY <1>9 DEF EliminarCpu, consolas
  <2>2. PICK d : d = hilos[Kernel].cpu
    OBVIOUS
  <2>3. cpus' = Sacar(d, cpus)
    BY <1>9, <2>2 DEF EliminarCpu
  <2>4. Sacar(d, cpus) \in Seq(Cpus)
    BY SacarEs DEF TiposDeListas
  <2>5. TiposDeListas'
    BY <2>1, <2>3, <2>4 DEF TiposDeListas
  <2>6. TiposDeHilos'
    BY <1>0, <2>1, HilosSon
  <2> QED BY <2>1, <2>5, <2>6, TiposQuietos
<1> QED BY <1>1, <1>2, <1>3, <1>4, <1>5, <1>6, <1>7, <1>8, <1>9 DEF PasoDeHilo, EnviarACpuPasos

-----------------------------------------------------------------------------
(* Types: every step *)

LEMMA InicioTipos == Init => TInv
<1> SUFFICES ASSUME Init PROVE TInv
  OBVIOUS
<1> USE DEF Init
<1>1. TiposDeColas
  BY DEF TiposDeColas
<1>2. TiposDeListas
  BY DEF TiposDeListas
<1>3. TiposDeSemaforos
  BY SemaforosAssumption DEF TiposDeSemaforos
<1>4. TiposDeHilos
  BY DEF TiposDeHilos, HiloLibre, HiloTipo
<1>5. TiposDeUmc
  BY DEF TiposDeUmc
<1>6. TiposDeInit
  BY DEF TiposDeInit, InitTipo
<1>7. TiposDeConsolas
  BY DEF TiposDeConsolas
<1>8. TiposDeCpus
  BY DEF TiposDeCpus, CpuTipo
<1>9. CuentaDePids
  <2>1. Admitidas = {}
    BY DEF Admitidas
  <2> QED BY <2>1, FS_EmptySet DEF CuentaDePids
<1> QED BY <1>1, <1>2, <1>3, <1>4, <1>5, <1>6, <1>7, <1>8, <1>9 DEF TInv

LEMMA PasoTipos == TInv /\ [Next]_vars => TInv'
<1> SUFFICES ASSUME TInv, [Next]_vars PROVE TInv'
  OBVIOUS
<1>1. ASSUME NEW k \in Consolas, ConsolaEnvia(k) \/ ConsolaCierra(k) \/ AtenderConsola(k)
      PROVE  TInv'
  BY <1>1, ConsolaTipos, NuevoProgramaTipos, InitRecibeTipos, InitCargaTipos,
     CerrarConsolaTipos DEF AtenderConsola
<1>2. ASSUME NEW cod \in RespuestasUmc, UmcResponde(cod)
      PROVE  TInv'
  BY <1>2, UmcRespondeTipos
<1>3. ASSUME NEW c \in Cpus, AtenderCpu(c)
      PROVE  TInv'
  BY <1>3, RespuestaTipos, SoltarTipos, ColgarTipos DEF AtenderCpu
<1>4. ASSUME NEW c \in Cpus,
             \/ CpuConecta(c) \/ CpuResponde(c) \/ CpuAvisa(c) \/ CpuPide(c)
             \/ \E op \in Instrucciones : CpuSuelta(c, op) \/ CpuSigusr1SinPcb(c, op)
             \/ CpuSigusr1(c) \/ CpuSigusr1TrasWait(c) \/ CpuMuere(c)
      PROVE  TInv'
  BY <1>4, CpuProcesoTipos, CpuLeeTipos
<1>5. CASE Responder \/ EliminarCpu \/ LanzarES
  <2>1. Kernel \in Hilos
    BY DEF Hilos
  <2> QED BY <1>5, <2>1, EnviarACpuTipos
<1>6. ASSUME NEW h \in Hilos, PasoDeHilo(h)
      PROVE  TInv'
  BY <1>6, EnviarACpuTipos
<1>7. CASE UNCHANGED vars
  <2>1. /\ UNCHANGED <<nucleo, pidActual, colas>> /\ UNCHANGED listas /\ UNCHANGED semaforos
        /\ UNCHANGED <<hilos, pendienteES>> /\ UNCHANGED <<umc, finalizaciones>>
        /\ UNCHANGED hiloInit /\ UNCHANGED procesosCpu
        /\ UNCHANGED <<consola, aviso, duenio>> /\ UNCHANGED <<pidActual, hiloInit>>
    BY <1>7 DEF vars, consolas
  <2> QED BY <2>1, TiposQuietos DEF TInv
<1> QED BY <1>1, <1>2, <1>3, <1>4, <1>5, <1>6, <1>7 DEF Next

THEOREM Tipos == Spec => []TInv
<1>1. Init => TInv
  BY InicioTipos
<1>2. TInv /\ [Next]_vars => TInv'
  BY PasoTipos
<1> QED BY <1>1, <1>2, PTL DEF Spec

LEMMA TInvDaTypeOK == TInv => TypeOK
<1> SUFFICES ASSUME TInv PROVE TypeOK
  OBVIOUS
<1> USE DEF TInv
<1>1. /\ nucleo \in {"vivo", "muerto"} /\ pidActual \in Pids \union {0}
      /\ colaNew \subseteq Pids /\ colaExec \subseteq Pids
      /\ colaBlocked \subseteq Pids /\ colaExit \subseteq Pids
      /\ colaReady \in Seq(Pids)
  BY DEF TiposDeColas
<1>2. /\ programas \in [Pids -> Consolas \union {"ninguno", "cerrado"}]
      /\ cpus \in Seq(Cpus) /\ corriendo \subseteq Cpus
      /\ relacion \in Seq([cpu : Cpus, pid : Pids])
  BY DEF TiposDeListas, Relacion
<1>3. valor \in [Semaforos -> Int] /\ cola \in [Semaforos -> Seq(Pids)]
  BY DEF TiposDeSemaforos
<1>4. /\ hilos \in [Hilos -> [paso : {"libre", "buscar", "sacar", "relacionar", "ejecutar",
                                      "enviar", "mover", "responder", "eliminar", "lanzar",
                                      "io", "colgado"},
                              cpu : Cpus \union {Nadie}, pid : Pids \union {0}]]
      /\ pendienteES \in Pids \union {0}
  BY DEF TiposDeHilos, HiloTipo
<1>5. hiloInit \in [Consolas -> [paso : {"no", "recibiendo", "cargando", "fin"},
                                 cod : {"OK", "NO_OK"}, pid : Pids \union {0}]]
  BY DEF TiposDeInit, InitTipo
<1>6. /\ umcPedidos \in Seq(Pids)
      /\ umcRespuestas \in Seq([cod : {"OK", "NO_OK"}, pid : Pids])
      /\ finalizaciones \in [Pids -> 0 .. 2]
  BY DEF TiposDeUmc, RespuestaTipo
<1>7. /\ consola \in [Consolas -> {"nueva", "conectada", "muerta", "cerrada"}]
      /\ aviso \in [Consolas -> {"nada", "OK", "NO_OK", "TERMINO_BIEN", "TERMINO_MAL"}]
      /\ duenio \in [Pids -> Consolas \union {Nadie}]
  BY DEF TiposDeConsolas
<1>8. cpu \in [Cpus -> [est : {"apagada", "libre", "corriendo", "espera", "cerrada",
                               "retirada"}, pid : Pids \union {0}]]
  BY DEF TiposDeCpus, CpuTipo
<1> QED BY <1>1, <1>2, <1>3, <1>4, <1>5, <1>6, <1>7, <1>8 DEF TypeOK

\* Whatever the programs do and whatever fails, the lists of the kernel, its
\* threads and the messages only name pids that were handed out and CPUs and
\* consoles that exist.
THEOREM TipoCorrecto == Spec => []TypeOK
BY Tipos, TInvDaTypeOK, PTL

-----------------------------------------------------------------------------
(* The places of the PCBs: definitions *)

Listos == EnSecuencia(colaReady)
EnManos == {p \in Pids : EnMano(p) # {}}
Traidos == {p \in Pids : EnManoDe(p, {"relacionar", "mover"}) # {}}
EnCamino == {p \in Pids : EnManoDe(p, {"ejecutar"}) # {}}
UnaMano == \A g, h \in Hilos :
  /\ hilos[g].paso \in {"relacionar", "ejecutar", "mover"}
  /\ hilos[h].paso \in {"relacionar", "ejecutar", "mover"}
  /\ hilos[g].pid = hilos[h].pid
  => g = h

\* The pids handed out are split among the five queues and the threads.
Reparto ==
  /\ 1 .. pidActual = colaNew \union colaExec \union colaBlocked \union colaExit
                        \union Listos \union EnManos
  /\ colaNew \intersect (colaExec \union colaBlocked \union colaExit \union Listos
                           \union EnManos) = {}
  /\ colaExec \intersect (colaBlocked \union colaExit \union Listos \union EnManos) = {}
  /\ colaBlocked \intersect (colaExit \union Listos \union EnManos) = {}
  /\ colaExit \intersect (Listos \union EnManos) = {}
  /\ Listos \intersect EnManos = {}

\* Who may still run is in lista_programas_actuales, who was not admitted is not.
\* A PCB without a relation may be in Exec with no entry: its CPU died between the
\* relation and moverA_colaExec.
ConRelacion == {r.pid : r \in EnSecuencia(relacion)}
Entradas ==
  \A p \in Pids :
    /\ p \in ConRelacion \union colaBlocked \union Listos \union Traidos
         => programas[p] # "ninguno"
    /\ p \in colaNew \/ p \notin 1 .. pidActual => programas[p] = "ninguno"

\* A new PCB's request, its answer or the thread that read it: one of them.
Cargando(k) == hiloInit[k].paso = "cargando"
Pedidos == EnSecuencia(umcPedidos)
Respondidos == {r.pid : r \in EnSecuencia(umcRespuestas)}
Cargados == {hiloInit[k].pid : k \in {l \in Consolas : Cargando(l)}}
Transito ==
  /\ SinRepetir(umcPedidos)
  /\ \A i, j \in DOMAIN umcRespuestas : umcRespuestas[i].pid = umcRespuestas[j].pid => i = j
  /\ \A k, l \in Consolas :
       Cargando(k) /\ Cargando(l) /\ hiloInit[k].pid = hiloInit[l].pid => k = l
  /\ Pedidos \union Respondidos \union Cargados \subseteq colaNew
  /\ Pedidos \intersect (Respondidos \union Cargados) = {}
  /\ Respondidos \intersect Cargados = {}

\* Relations are of PCBs in Exec, or about to be there, and each has one.
UnaPorPcb == \A i, j \in DOMAIN relacion : relacion[i].pid = relacion[j].pid => i = j
Relaciones == ConRelacion \subseteq colaExec \union EnCamino /\ UnaPorPcb

Lugares == Reparto /\ SinRepetir(colaReady) /\ UnaMano /\ Entradas
LInv == Lugares /\ Transito /\ Relaciones

\* No thread takes or leaves a PCB in this step.
HilosQuietos ==
  \A h \in Hilos : \/ hilos'[h] = hilos[h]
                   \/ /\ hilos[h].paso \notin {"relacionar", "ejecutar", "mover"}
                      /\ hilos'[h].paso \notin {"relacionar", "ejecutar", "mover"}

LEMMA ManosQuedan ==
  ASSUME HilosQuietos
  PROVE  /\ EnManos' = EnManos /\ Traidos' = Traidos /\ EnCamino' = EnCamino
         /\ UnaMano => UnaMano'
<1>1. ASSUME NEW h \in Hilos
      PROVE  /\ \A x \in {"relacionar", "ejecutar", "mover"} :
                   hilos[h].paso = x <=> hilos'[h].paso = x
             /\ hilos[h].paso \in {"relacionar", "ejecutar", "mover"}
                  => hilos'[h].pid = hilos[h].pid
  BY DEF HilosQuietos
<1>2. ASSUME NEW p, NEW X, X \subseteq {"relacionar", "ejecutar", "mover"}
      PROVE  EnManoDe(p, X)' = EnManoDe(p, X)
  BY <1>1, <1>2 DEF EnManoDe
<1>3. EnManos' = EnManos
  BY <1>2 DEF EnManos, EnMano
<1>4. Traidos' = Traidos
  BY <1>2 DEF Traidos
<1>5. EnCamino' = EnCamino
  BY <1>2 DEF EnCamino
<1>6. UnaMano => UnaMano'
  BY <1>1 DEF UnaMano
<1> QED BY <1>3, <1>4, <1>5, <1>6

LEMMA ManosSon ==
  /\ EnManos = Traidos \union EnCamino
  /\ UnaMano => Traidos \intersect EnCamino = {}
<1>1. EnManos = Traidos \union EnCamino
  BY DEF EnManos, Traidos, EnCamino, EnMano, EnManoDe
<1>2. ASSUME UnaMano, NEW p \in Traidos, p \in EnCamino
      PROVE  FALSE
  <2>1. PICK g \in Hilos : hilos[g].paso \in {"relacionar", "mover"} /\ hilos[g].pid = p
    BY DEF Traidos, EnManoDe
  <2>2. PICK h \in Hilos : hilos[h].paso = "ejecutar" /\ hilos[h].pid = p
    BY <1>2 DEF EnCamino, EnManoDe
  <2> QED BY <1>2, <2>1, <2>2 DEF UnaMano
<1> QED BY <1>1, <1>2

\* Only thread h changes hands: what its old and new states hold is what changes.
LEMMA ManosDe ==
  ASSUME UnaMano, NEW h \in Hilos, \A g \in Hilos \ {h} : hilos'[g] = hilos[g],
         NEW X, X \subseteq {"relacionar", "ejecutar", "mover"}
  PROVE  \A p \in Pids :
           /\ hilos'[h].paso \in X /\ hilos'[h].pid = p => EnManoDe(p, X)' # {}
           /\ ~(hilos'[h].paso \in X /\ hilos'[h].pid = p) =>
                (EnManoDe(p, X)' # {} <=>
                   /\ EnManoDe(p, X) # {}
                   /\ ~(hilos[h].paso \in X /\ hilos[h].pid = p))
<1>1. ASSUME NEW p \in Pids, ~(hilos'[h].paso \in X /\ hilos'[h].pid = p)
      PROVE  EnManoDe(p, X)' # {} <=>
               EnManoDe(p, X) # {} /\ ~(hilos[h].paso \in X /\ hilos[h].pid = p)
  <2>1. EnManoDe(p, X)' = EnManoDe(p, X) \ {h}
    BY <1>1 DEF EnManoDe
  <2>2. hilos[h].paso \in X /\ hilos[h].pid = p => EnManoDe(p, X) = {h}
    BY DEF EnManoDe, UnaMano
  <2>3. ~(hilos[h].paso \in X /\ hilos[h].pid = p) => h \notin EnManoDe(p, X)
    BY DEF EnManoDe
  <2> QED BY <2>1, <2>2, <2>3
<1>2. ASSUME NEW p \in Pids, hilos'[h].paso \in X, hilos'[h].pid = p
      PROVE  EnManoDe(p, X)' # {}
  BY <1>2 DEF EnManoDe
<1> QED BY <1>1, <1>2

LEMMA HilosQuedan ==
  ASSUME TiposDeHilos, NEW g \in Hilos,
         hilos[g].paso \notin {"relacionar", "ejecutar", "mover"},
         \/ hilos' = hilos \/ hilos' = AEnviar(g) \/ hilos' = Volver(g)
         \/ hilos' = [hilos EXCEPT ![g].paso = "colgado"]
         \/ \E r : /\ r.paso \notin {"relacionar", "ejecutar", "mover"}
                  /\ hilos' = [hilos EXCEPT ![g] = r]
  PROVE  HilosQuietos
<1>1. hilos \in [Hilos -> HiloTipo]
  BY DEF TiposDeHilos
<1>2. CASE \E r : /\ r.paso \notin {"relacionar", "ejecutar", "mover"}
                 /\ hilos' = [hilos EXCEPT ![g] = r]
  BY <1>1, <1>2 DEF HilosQuietos
<1>3. CASE hilos' = hilos
  BY <1>3 DEF HilosQuietos
<1>4. /\ HiloLibre.paso = "libre"
      /\ [HiloLibre EXCEPT !.paso = "buscar"].paso = "buscar"
      /\ [HiloLibre EXCEPT !.paso = "lanzar"].paso = "lanzar"
  BY DEF HiloLibre
<1>5. CASE hilos' = AEnviar(g)
  BY <1>2, <1>4, <1>5 DEF AEnviar
<1>6. CASE hilos' = Volver(g)
  BY <1>2, <1>4, <1>6 DEF Volver
<1>7. CASE hilos' = [hilos EXCEPT ![g].paso = "colgado"]
  BY <1>1, <1>7 DEF HilosQuietos, HiloTipo
<1> QED BY <1>2, <1>3, <1>5, <1>6, <1>7

LEMMA TransitoQueda ==
  ASSUME Transito, UNCHANGED <<umc, hiloInit>>, colaNew' = colaNew
  PROVE  Transito'
<1>1. umcPedidos' = umcPedidos /\ umcRespuestas' = umcRespuestas /\ hiloInit' = hiloInit
  BY DEF umc
<1> QED BY <1>1 DEF Transito, Pedidos, Respondidos, Cargados, Cargando

LEMMA LugaresQuietos ==
  ASSUME LInv, UNCHANGED <<pidActual, colas, programas, relacion, umc, hiloInit>>,
         HilosQuietos
  PROVE  LInv'
<1>1. /\ colaNew' = colaNew /\ colaExec' = colaExec /\ colaBlocked' = colaBlocked
      /\ colaExit' = colaExit /\ colaReady' = colaReady /\ pidActual' = pidActual
      /\ programas' = programas /\ relacion' = relacion
  BY DEF colas
<1>2. EnManos' = EnManos /\ Traidos' = Traidos /\ EnCamino' = EnCamino /\ UnaMano'
  BY ManosQuedan DEF LInv, Lugares
<1>3. Listos' = Listos /\ ConRelacion' = ConRelacion
  BY <1>1 DEF Listos, ConRelacion
<1>4. Reparto'
  BY <1>1, <1>2, <1>3 DEF LInv, Lugares, Reparto
<1>5. Entradas'
  BY <1>1, <1>2, <1>3 DEF LInv, Lugares, Entradas
<1>6. Transito'
  BY <1>1, TransitoQueda DEF LInv
<1>7. Relaciones'
  BY <1>1, <1>2, <1>3 DEF LInv, Relaciones, UnaPorPcb
<1> QED BY <1>1, <1>2, <1>4, <1>5, <1>6, <1>7 DEF LInv, Lugares

\* Freeing the relation of p leaves those of the others.
LEMMA SoltarQuita ==
  ASSUME TiposDeListas, Relaciones, NEW i \in DOMAIN relacion,
         relacion' = SinLa(i, relacion)
  PROVE  /\ EnSecuencia(relacion') = EnSecuencia(relacion) \ {relacion[i]}
         /\ ConRelacion' = ConRelacion \ {relacion[i].pid}
         /\ UnaPorPcb'
         /\ relacion[i].pid \in ConRelacion
<1>1. relacion \in Seq(Relacion)
  BY DEF TiposDeListas
<1>2. PICK t : t = SinLa(i, relacion)
  OBVIOUS
<1>20. EnSecuencia(t) = {relacion[j] : j \in DOMAIN relacion \ {i}}
  BY <1>1, <1>2, SinLaQuedan
<1>22. \E f \in [DOMAIN SinLa(i, relacion) -> DOMAIN relacion \ {i}] :
         /\ \A j \in DOMAIN SinLa(i, relacion) : SinLa(i, relacion)[j] = relacion[f[j]]
         /\ \A j, k \in DOMAIN SinLa(i, relacion) : f[j] = f[k] => j = k
  BY <1>1, SinLaQuedan, Zenon
<1>21. PICK f \in [DOMAIN t -> DOMAIN relacion \ {i}] :
         /\ \A j \in DOMAIN t : t[j] = relacion[f[j]]
         /\ \A j, k \in DOMAIN t : f[j] = f[k] => j = k
  BY <1>2, <1>22, Zenon
<1>3. UnaPorPcb
  BY DEF Relaciones
<1>4. \A j \in DOMAIN relacion : j # i => relacion[j].pid # relacion[i].pid
                                          /\ relacion[j] # relacion[i]
  BY <1>3 DEF UnaPorPcb
<1>5. EnSecuencia(t) = EnSecuencia(relacion) \ {relacion[i]}
  BY <1>20, <1>4 DEF EnSecuencia
<1>6. {r.pid : r \in EnSecuencia(t)} = ConRelacion \ {relacion[i].pid}
  <2>1. {r.pid : r \in EnSecuencia(t)} = {relacion[j].pid : j \in DOMAIN relacion \ {i}}
    BY <1>20
  <2>2. ConRelacion = {relacion[j].pid : j \in DOMAIN relacion}
    BY DEF ConRelacion, EnSecuencia
  <2> QED BY <1>4, <2>1, <2>2
<1>7. UnaPorPcb'
  <2>1. \A j, k \in DOMAIN t : t[j].pid = t[k].pid => j = k
    BY <1>21, <1>3 DEF UnaPorPcb
  <2>2. relacion' = t
    BY <1>2
  <2> QED BY <2>1, <2>2 DEF UnaPorPcb
<1>8. relacion[i].pid \in ConRelacion
  BY DEF ConRelacion, EnSecuencia
<1> QED BY <1>2, <1>5, <1>6, <1>7, <1>8 DEF ConRelacion

\* The PCB of relation i leaves Exec for Exit, Blocked or Ready.
LEMMA SaleDeExec ==
  ASSUME TInv, LInv, NEW i \in DOMAIN relacion, NEW p \in Pids, p = relacion[i].pid,
         p \in colaExec, relacion' = SinLa(i, relacion), colaExec' = colaExec \ {p},
         UNCHANGED <<pidActual, colaNew, umc, hiloInit>>, HilosQuietos,
         \/ /\ colaExit' = colaExit \union {p}
            /\ programas' = [programas EXCEPT ![p] = "ninguno"]
            /\ UNCHANGED <<colaReady, colaBlocked>>
         \/ /\ colaBlocked' = colaBlocked \union {p}
            /\ UNCHANGED <<colaReady, colaExit, programas>>
         \/ /\ colaReady' = Append(colaReady, p)
            /\ UNCHANGED <<colaBlocked, colaExit, programas>>
  PROVE  LInv'
<1>1. /\ TiposDeListas /\ Relaciones /\ Reparto /\ SinRepetir(colaReady) /\ UnaMano
      /\ Entradas /\ Transito /\ colaReady \in Seq(Pids)
      /\ programas \in [Pids -> Consolas \union {"ninguno", "cerrado"}]
  BY DEF LInv, Lugares, TInv, TiposDeColas, TiposDeListas
<1>3. EnManos' = EnManos /\ Traidos' = Traidos /\ EnCamino' = EnCamino /\ UnaMano'
  BY <1>1, ManosQuedan
<1>2. /\ Relaciones' /\ p \in colaExec /\ p \in ConRelacion
      /\ ConRelacion' = ConRelacion \ {p}
  BY <1>1, <1>3, SoltarQuita DEF Relaciones
<1>4. Transito'
  BY <1>1, TransitoQueda
<1>5. p \notin Listos
  BY <1>1, <1>2 DEF Reparto
<1>6. /\ colaReady' = colaReady => Listos' = Listos
      /\ colaReady' = Append(colaReady, p) => Listos' = Listos \union {p}
      /\ SinRepetir(colaReady)'
  <2>1. /\ EnSecuencia(Append(colaReady, p)) = Listos \union {p}
        /\ SinRepetir(Append(colaReady, p))
    BY <1>1, <1>5, AgregarEs DEF Listos
  <2>2. colaReady' = colaReady \/ colaReady' = Append(colaReady, p)
    OBVIOUS
  <2> QED BY <1>1, <2>1, <2>2 DEF Listos
<1>7. \/ /\ colaExit' = colaExit \union {p} /\ Listos' = Listos /\ colaBlocked' = colaBlocked
         /\ programas' = [programas EXCEPT ![p] = "ninguno"]
      \/ /\ colaBlocked' = colaBlocked \union {p} /\ Listos' = Listos /\ colaExit' = colaExit
         /\ programas' = programas
      \/ /\ Listos' = Listos \union {p} /\ colaBlocked' = colaBlocked /\ colaExit' = colaExit
         /\ programas' = programas
  BY <1>6
<1> HIDE DEF Listos, EnManos, Traidos, EnCamino, ConRelacion
<1>8. pidActual' = pidActual /\ colaNew' = colaNew
  OBVIOUS
<1>9. Reparto'
  BY <1>1, <1>2, <1>3, <1>7, <1>8 DEF Reparto
<1>10. Entradas'
  <2>1. p \in 1 .. pidActual /\ p \notin colaNew /\ p \notin colaBlocked /\ p \notin Listos
        /\ p \notin Traidos
    BY <1>1, <1>2, ManosSon DEF Reparto
  <2> QED BY <1>1, <1>2, <1>3, <1>7, <1>8, <2>1 DEF Entradas
<1> QED BY <1>2, <1>3, <1>4, <1>6, <1>9, <1>10 DEF LInv, Lugares

\* The relation of a PCB that is still on its way to Exec is let go.
SaleEnCamino(i, p) ==
  /\ relacion[i].pid = p /\ p \in EnCamino /\ p \notin colaExec /\ Soltar(i)
  /\ UNCHANGED <<pidActual, colas, umc, hiloInit>>
  /\ programas' = programas \/ programas' = [programas EXCEPT ![p] = "ninguno"]

LEMMA SaleEnCaminoLugares ==
  ASSUME TInv, LInv, NEW i \in DOMAIN relacion, NEW p \in Pids, SaleEnCamino(i, p),
         HilosQuietos
  PROVE  LInv'
<1>1. /\ TiposDeListas /\ Relaciones /\ Reparto /\ SinRepetir(colaReady) /\ UnaMano
      /\ Entradas /\ Transito
      /\ programas \in [Pids -> Consolas \union {"ninguno", "cerrado"}]
  BY DEF LInv, Lugares, TInv, TiposDeListas
<1>2. /\ relacion' = SinLa(i, relacion) /\ p = relacion[i].pid /\ p \in EnCamino
      /\ colaNew' = colaNew /\ colaExec' = colaExec /\ colaBlocked' = colaBlocked
      /\ colaExit' = colaExit /\ colaReady' = colaReady /\ pidActual' = pidActual
      /\ UNCHANGED <<umc, hiloInit>>
      /\ programas' = programas \/ programas' = [programas EXCEPT ![p] = "ninguno"]
  BY DEF SaleEnCamino, Soltar, colas
<1>3. EnManos' = EnManos /\ Traidos' = Traidos /\ EnCamino' = EnCamino /\ UnaMano'
  BY <1>1, ManosQuedan
<1>4. ConRelacion' = ConRelacion \ {p} /\ UnaPorPcb'
  BY <1>1, <1>2, SoltarQuita
<1>5. Relaciones' /\ Transito'
  BY <1>1, <1>2, <1>3, <1>4, TransitoQueda DEF Relaciones
<1>6. Listos' = Listos
  BY <1>2 DEF Listos
<1>7. Reparto'
  BY <1>1, <1>2, <1>3, <1>6 DEF Reparto
<1>8. Entradas'
  <2>1. p \notin colaBlocked /\ p \notin Listos /\ p \notin Traidos
    BY <1>1, <1>2, ManosSon DEF Reparto
  <2> QED BY <1>1, <1>2, <1>3, <1>4, <1>6, <2>1 DEF Entradas
<1> QED BY <1>1, <1>2, <1>3, <1>5, <1>7, <1>8 DEF LInv, Lugares

\* desbloquear_pcb: the PCB goes from Blocked to the hands of thread h.
LEMMA DesbloquearLugares ==
  ASSUME TInv, LInv, NEW h \in Hilos,
         hilos[h].paso \notin {"relacionar", "ejecutar", "mover"},
         NEW p, Desbloquear(h, p),
         UNCHANGED <<pidActual, colaNew, colaReady, colaExec, colaExit, programas, relacion,
                     umc, hiloInit>>
  PROVE  LInv'
<1>1. /\ Reparto /\ SinRepetir(colaReady) /\ UnaMano /\ Entradas /\ Transito /\ Relaciones
      /\ colaBlocked \subseteq Pids /\ TiposDeHilos /\ hilos \in [Hilos -> HiloTipo]
  BY DEF LInv, Lugares, TInv, TiposDeColas, TiposDeHilos
<1>2. CASE p \in colaBlocked
  <2>1. /\ p \in Pids /\ colaBlocked' = colaBlocked \ {p}
        /\ hilos' = [hilos EXCEPT ![h] = [paso |-> "mover", cpu |-> Nadie, pid |-> p]]
    BY <1>1, <1>2 DEF Desbloquear
  <2>2. /\ hilos'[h].paso = "mover" /\ hilos'[h].pid = p
        /\ \A g \in Hilos \ {h} : hilos'[g] = hilos[g]
    BY <1>1, <2>1
  <2>3. EnManos' = EnManos \union {p}
    BY <1>1, <2>1, <2>2, ManosDe DEF EnManos, EnMano
  <2>4. Traidos' = Traidos \union {p}
    BY <1>1, <2>1, <2>2, ManosDe DEF Traidos
  <2>5. EnCamino' = EnCamino
    <3>1. \A q \in Pids : EnManoDe(q, {"ejecutar"})' # {} <=> EnManoDe(q, {"ejecutar"}) # {}
      BY <1>1, <2>2, ManosDe
    <3> QED BY <3>1 DEF EnCamino
  <2>6. UnaMano'
    <3>1. p \notin EnManos
      BY <1>1, <1>2 DEF Reparto
    <3>2. \A g \in Hilos : hilos[g].paso \in {"relacionar", "ejecutar", "mover"}
                             => hilos[g].pid # p
      BY <2>1, <3>1 DEF EnManos, EnMano, EnManoDe
    <3> QED BY <1>1, <2>2, <3>2 DEF UnaMano
  <2>7. Listos' = Listos /\ ConRelacion' = ConRelacion
    BY DEF Listos, ConRelacion
  <2>8. Reparto'
    BY <1>1, <1>2, <2>1, <2>3, <2>7 DEF Reparto
  <2>9. Entradas'
    BY <1>1, <1>2, <2>1, <2>4, <2>7 DEF Entradas
  <2>10. Transito' /\ Relaciones'
    BY <1>1, <2>5, <2>7, TransitoQueda DEF Relaciones, UnaPorPcb
  <2> QED BY <1>1, <2>6, <2>8, <2>9, <2>10 DEF LInv, Lugares
<1>3. CASE p \notin colaBlocked
  <2>1. colaBlocked' = colaBlocked /\ hilos' = AEnviar(h)
    BY <1>3 DEF Desbloquear
  <2>2. HilosQuietos
    BY <1>1, <2>1, HilosQuedan
  <2> QED BY <2>1, <2>2, LugaresQuietos DEF colas
<1> QED BY <1>2, <1>3

-----------------------------------------------------------------------------
(* The places of the PCBs: leaving Exec *)

\* Relation i and its PCB p are let go: the PCB is buried if its console died or
\* its program ended, otherwise it waits in Blocked or in Ready.
Sale(i, p) ==
  /\ relacion[i].pid = p /\ p \in colaExec /\ Soltar(i)
  /\ colaExec' = colaExec \ {p}
  /\ UNCHANGED <<pidActual, colaNew, umc, hiloInit>>
  /\ \/ /\ Finalizar(p) /\ colaExit' = colaExit \union {p}
        /\ programas' = [programas EXCEPT ![p] = "ninguno"]
        /\ UNCHANGED <<colaReady, colaBlocked>>
     \/ /\ ~Muerta(p) /\ colaBlocked' = colaBlocked \union {p}
        /\ UNCHANGED <<colaReady, colaExit, programas, finalizaciones>>
     \/ /\ ~Muerta(p) /\ colaReady' = Append(colaReady, p)
        /\ UNCHANGED <<colaBlocked, colaExit, programas, finalizaciones>>

\* The CPU that asks is the one the kernel has down for the PCB.
Acuerdo ==
  \A c \in Cpus :
    canal[c] # <<>> /\ Head(canal[c]).op = "WAIT" =>
      \A i \in RelacionesDeCpu(c) : relacion[i].pid = Head(canal[c]).pid

LEMMA KernelLibre ==
  ASSUME TInv, MutexLibre
  PROVE  /\ TiposDeHilos /\ Kernel \in Hilos /\ nucleo = "vivo"
         /\ hilos[Kernel].paso = "libre"
         /\ hilos[Kernel].paso \notin {"relacionar", "ejecutar", "mover"}
BY DEF TInv, Hilos, MutexLibre

LEMMA EnExec ==
  ASSUME LInv, NEW i \in DOMAIN relacion, NEW p, p = relacion[i].pid
  PROVE  p \in ConRelacion /\ (p \in colaExec \/ p \in EnCamino)
BY DEF LInv, Relaciones, ConRelacion, EnSecuencia

LEMMA SueltaHace ==
  ASSUME TInv, LInv, NEW c \in Cpus, NEW op,
         \/ op = "FIN_QUANTUM" /\ FinQuantum(c)
         \/ op = "IO" /\ EntradaSalida(c)
         \/ FinalizaPrograma(c, op)
  PROVE  /\ Llega(c, op) /\ Head(canal[c]).pid \in Pids
         /\ \E i \in DOMAIN relacion :
              Sale(i, Head(canal[c]).pid) \/ SaleEnCamino(i, Head(canal[c]).pid)
         /\ HilosQuietos
<1>1. Llega(c, op) /\ RelacionesDePid(Head(canal[c]).pid) # {}
  BY DEF FinQuantum, EntradaSalida, FinalizaPrograma
<1>2. PICK p : p = Head(canal[c]).pid
  OBVIOUS
<1>3. PICK i : i = Primera(RelacionesDePid(p))
  OBVIOUS
<1>4. i \in DOMAIN relacion /\ relacion[i].pid = p /\ p \in Pids
  BY <1>1, <1>2, <1>3, PrimeraRelacion DEF TInv
<1>5. Soltar(i) /\ colaExec' = colaExec \ {p} /\ UNCHANGED <<pidActual, colaNew, umc, hiloInit>>
  BY <1>2, <1>3 DEF FinQuantum, EntradaSalida, FinalizaPrograma, consolas
<1>6. p \in colaExec \/ p \in EnCamino
  BY <1>4, EnExec
<1>7. MutexLibre
  BY <1>1 DEF Llega
<1>8. /\ TiposDeHilos /\ Kernel \in Hilos /\ hilos[Kernel].paso \notin {"relacionar", "ejecutar", "mover"}
  BY <1>7, KernelLibre
<1>9. CASE FinQuantum(c)
  <2>1. /\ IF Muerta(p) THEN Enterrar(p) ELSE SinEntierro
        /\ colaReady' = IF ~Muerta(p) /\ p \in colaExec THEN Append(colaReady, p) ELSE colaReady
        /\ colaBlocked' = colaBlocked /\ hilos' = AEnviar(Kernel)
    BY <1>2, <1>9 DEF FinQuantum
  <2>2. HilosQuietos
    BY <1>8, <2>1, HilosQuedan
  <2>3. p \in colaExec => Sale(i, p)
    BY <1>4, <1>5, <2>1 DEF Sale, Enterrar, SinEntierro
  <2>4. p \notin colaExec => SaleEnCamino(i, p)
    BY <1>4, <1>5, <1>6, <2>1 DEF SaleEnCamino, Enterrar, SinEntierro, colas
  <2>5. Sale(i, p) \/ SaleEnCamino(i, p)
    BY <2>3, <2>4
  <2> QED BY <1>1, <1>2, <1>4, <2>2, <2>5
<1>10. CASE EntradaSalida(c)
  <2>1. /\ IF Muerta(p) THEN Enterrar(p) ELSE SinEntierro
        /\ colaBlocked' = IF ~Muerta(p) /\ p \in colaExec THEN colaBlocked \union {p}
                                                          ELSE colaBlocked
        /\ colaReady' = colaReady /\ hilos' = AEnviar(Kernel)
    BY <1>2, <1>10 DEF EntradaSalida
  <2>2. HilosQuietos
    BY <1>8, <2>1, HilosQuedan
  <2>3. p \in colaExec => Sale(i, p)
    BY <1>4, <1>5, <2>1 DEF Sale, Enterrar, SinEntierro
  <2>4. p \notin colaExec => SaleEnCamino(i, p)
    BY <1>4, <1>5, <1>6, <2>1 DEF SaleEnCamino, Enterrar, SinEntierro, colas
  <2>5. Sale(i, p) \/ SaleEnCamino(i, p)
    BY <2>3, <2>4
  <2> QED BY <1>1, <1>2, <1>4, <2>2, <2>5
<1>11. CASE FinalizaPrograma(c, op)
  <2>1. PICK k, w : k = programas[p] /\ w = IF op = "FINALIZA" THEN "TERMINO_BIEN" ELSE "TERMINO_MAL"
    OBVIOUS
  <2>2. /\ IF Muerta(p) \/ p \notin colaExec
           THEN /\ IF Muerta(p) THEN Enterrar(p) ELSE SinEntierro
                /\ UNCHANGED <<nucleo, hilos, aviso>>
           ELSE /\ colaExit' = colaExit \union {p}
                /\ Finalizar(p)
                /\ EnviarAConsola(k, w, AEnviar(Kernel))
                /\ programas' = [programas EXCEPT ![p] = "ninguno"]
        /\ UNCHANGED <<colaReady, colaBlocked>>
    BY <1>2, <1>11, <2>1 DEF FinalizaPrograma
  <2>3. \/ hilos' = hilos \/ hilos' = AEnviar(Kernel)
        \/ hilos' = [hilos EXCEPT ![Kernel].paso = "colgado"]
    BY <2>2, AConsolaHace
  <2>4. HilosQuietos
    BY <1>8, <2>3, HilosQuedan
  <2>5. p \in colaExec => Sale(i, p)
    BY <1>4, <1>5, <2>2 DEF Sale, Enterrar, SinEntierro
  <2>6. p \notin colaExec => SaleEnCamino(i, p)
    BY <1>4, <1>5, <1>6, <2>2 DEF SaleEnCamino, Enterrar, SinEntierro, colas
  <2> QED BY <1>1, <1>2, <1>4, <2>4, <2>5, <2>6
<1> QED BY <1>9, <1>10, <1>11

LEMMA WaitBloqueaHace ==
  ASSUME TInv, LInv, Acuerdo, NEW c \in Cpus, WaitBloquea(c)
  PROVE  /\ Llega(c, "WAIT") /\ Head(canal[c]).pid \in Pids
         /\ \E i \in DOMAIN relacion :
              \/ SaleEnCamino(i, Head(canal[c]).pid)
              \/ /\ Sale(i, Head(canal[c]).pid) /\ relacion[i].cpu = c
                 /\ \/ colaBlocked' = colaBlocked \union {Head(canal[c]).pid}
                    \/ programas[Head(canal[c]).pid] = "cerrado"
         /\ hilos' = [hilos EXCEPT ![Kernel] = [paso |-> "responder", cpu |-> c,
                                                pid |-> Head(canal[c]).pid]]
         /\ HilosQuietos
<1>1. /\ Llega(c, "WAIT") /\ RelacionesDeCpu(c) # {}
  BY DEF WaitBloquea
<1>2. PICK p : p = Head(canal[c]).pid
  OBVIOUS
<1>3. PICK i : i = Primera(RelacionesDeCpu(c))
  OBVIOUS
<1>4. i \in DOMAIN relacion /\ relacion[i].cpu = c
  BY <1>1, <1>3, PrimeraRelacion DEF TInv
<1>5. relacion[i].pid = p
  <2>1. i \in RelacionesDeCpu(c)
    BY <1>4 DEF RelacionesDeCpu
  <2>2. canal[c] # <<>> /\ Head(canal[c]).op = "WAIT"
    BY <1>1 DEF Llega
  <2> QED BY <1>2, <2>1, <2>2 DEF Acuerdo
<1>6. p \in colaExec \/ p \in EnCamino
  BY <1>4, <1>5, EnExec
<1>7. p \in Pids
  BY <1>4, <1>5, SoltarTipo DEF TInv
<1>8. /\ Soltar(i) /\ UNCHANGED <<pidActual, colaNew, umc, hiloInit, colaReady>>
      /\ IF Muerta(p) THEN Enterrar(p) ELSE SinEntierro
      /\ colaExec' = (IF Muerta(p) THEN colaExec \ {p} ELSE colaExec) \ {p}
      /\ colaBlocked' = IF p \in (IF Muerta(p) THEN colaExec \ {p} ELSE colaExec)
                        THEN colaBlocked \union {p} ELSE colaBlocked
      /\ hilos' = [hilos EXCEPT ![Kernel] = [paso |-> "responder", cpu |-> c, pid |-> p]]
  BY <1>2, <1>3, <1>5 DEF WaitBloquea, consolas
<1>9. \/ SaleEnCamino(i, p)
      \/ Sale(i, p) /\ (Muerta(p) \/ colaBlocked' = colaBlocked \union {p})
  <2>1. CASE p \in colaExec /\ Muerta(p)
    BY <1>5, <1>8, <2>1 DEF Sale, Enterrar
  <2>2. CASE p \in colaExec /\ ~Muerta(p)
    BY <1>5, <1>8, <2>2 DEF Sale, SinEntierro
  <2>3. CASE p \notin colaExec
    <3>1. colaExec' = colaExec /\ colaBlocked' = colaBlocked /\ colaExit' = colaExit
          /\ (programas' = programas \/ programas' = [programas EXCEPT ![p] = "ninguno"])
      BY <1>8, <2>3 DEF Enterrar, SinEntierro
    <3> QED BY <1>5, <1>6, <1>8, <2>3, <3>1 DEF SaleEnCamino, colas
  <2> QED BY <2>1, <2>2, <2>3
<1>10. HilosQuietos
  <2>1. /\ TiposDeHilos /\ Kernel \in Hilos /\ hilos[Kernel].paso \notin {"relacionar", "ejecutar", "mover"}
    BY <1>1, KernelLibre DEF Llega
  <2>2. [paso |-> "responder", cpu |-> c, pid |-> p].paso
          \notin {"relacionar", "ejecutar", "mover"}
    OBVIOUS
  <2> QED BY <1>8, <2>1, <2>2, HilosQuedan
<1> QED BY <1>1, <1>2, <1>4, <1>7, <1>8, <1>9, <1>10 DEF Muerta

LEMMA CerrarCpuHace ==
  ASSUME TInv, LInv, NEW c \in Cpus, CerrarCpu(c)
  PROVE  /\ MutexLibre /\ HilosQuietos
         /\ \/ /\ UNCHANGED <<colas, programas, relacion, corriendo, finalizaciones>>
               /\ UNCHANGED <<pidActual, umc, hiloInit>>
               /\ \/ RelacionesDeCpu(c) = {} /\ hilos' = hilos
                  \/ /\ RelacionesDeCpu(c) # {}
                     /\ hilos' = [hilos EXCEPT ![Kernel].paso = "colgado"]
            \/ /\ \E i \in DOMAIN relacion : \E p \in Pids :
                    \/ SaleEnCamino(i, p)
                    \/ /\ Sale(i, p) /\ relacion[i].cpu = c
                       /\ ~Muerta(p) /\ colaExit' = colaExit \union {p}
                       /\ Finalizar(p) /\ programas' = [programas EXCEPT ![p] = "ninguno"]
               /\ \/ hilos' = hilos
                  \/ hilos' = [hilos EXCEPT ![Kernel].paso = "colgado"]
<1>1. MutexLibre /\ UNCHANGED <<pidActual, colaNew, colaReady, colaBlocked, umc, hiloInit>>
  BY DEF CerrarCpu
<1>2. /\ TiposDeHilos /\ Kernel \in Hilos /\ hilos[Kernel].paso \notin {"relacionar", "ejecutar", "mover"}
  BY <1>1, KernelLibre
<1>3. CASE RelacionesDeCpu(c) = {}
  <2>1. UNCHANGED <<hilos, colaExec, colaExit, finalizaciones, programas, relacion, corriendo>>
    BY <1>3 DEF CerrarCpu
  <2>2. HilosQuietos
    BY <1>2, <2>1, HilosQuedan
  <2> QED BY <1>1, <1>3, <2>1, <2>2 DEF colas
<1>4. CASE RelacionesDeCpu(c) # {}
  <2>1. PICK i : i = Primera(RelacionesDeCpu(c))
    OBVIOUS
  <2>2. i \in DOMAIN relacion /\ relacion[i].cpu = c
    BY <1>4, <2>1, PrimeraRelacion DEF TInv
  <2>3. PICK p \in Pids : p = relacion[i].pid
    BY <2>2, SoltarTipo DEF TInv
  <2>4. CASE Muerta(p)
    <3>1. /\ hilos' = [hilos EXCEPT ![Kernel].paso = "colgado"]
          /\ UNCHANGED <<colaExec, colaExit, finalizaciones, programas, relacion, corriendo>>
      BY <1>4, <2>1, <2>3, <2>4 DEF CerrarCpu
    <3>2. HilosQuietos
      BY <1>2, <3>1, HilosQuedan
    <3> QED BY <1>1, <1>4, <3>1, <3>2 DEF colas
  <2>5. CASE ~Muerta(p)
    <3>1. PICK k : k = programas[p]
      OBVIOUS
    <3>2. /\ \/ EnviarAConsola(k, "TERMINO_MAL", hilos)
             \/ UNCHANGED hilos
          /\ Enterrar(p) /\ colaExec' = colaExec \ {p} /\ Soltar(i)
      BY <1>4, <2>1, <2>3, <2>5, <3>1 DEF CerrarCpu
    <3>3. hilos' = hilos \/ hilos' = [hilos EXCEPT ![Kernel].paso = "colgado"]
      BY <3>2, AConsolaHace
    <3>4. HilosQuietos
      BY <1>2, <3>3, HilosQuedan
    <3>5. p \in colaExec \/ p \in EnCamino
      BY <2>2, <2>3, EnExec
    <3>6. p \in colaExec => /\ Sale(i, p) /\ colaExit' = colaExit \union {p} /\ Finalizar(p)
                            /\ programas' = [programas EXCEPT ![p] = "ninguno"]
      BY <1>1, <2>3, <3>2 DEF Sale, Enterrar
    <3>7. p \notin colaExec => SaleEnCamino(i, p)
      BY <1>1, <2>3, <3>2, <3>5 DEF SaleEnCamino, Enterrar, colas
    <3> QED BY <1>1, <2>2, <2>5, <3>3, <3>4, <3>6, <3>7
  <2> QED BY <2>4, <2>5
<1> QED BY <1>3, <1>4

LEMMA SaleLugares ==
  ASSUME TInv, LInv, NEW i \in DOMAIN relacion, NEW p \in Pids, Sale(i, p), HilosQuietos
  PROVE  LInv'
BY SaleDeExec DEF Sale, Soltar

-----------------------------------------------------------------------------
(* The places of the PCBs: admission and the consoles *)

LEMMA NuevoProgramaLugares ==
  ASSUME TInv, LInv, NEW k \in Consolas, NuevoPrograma(k)
  PROVE  LInv'
<1>1. PICK p : p = pidActual + 1
  OBVIOUS
<1>2. /\ pidActual' = p /\ colaNew' = colaNew \union {p} /\ umcPedidos' = Append(umcPedidos, p)
      /\ hiloInit' = [hiloInit EXCEPT ![k].paso = "recibiendo"] /\ hiloInit[k].paso = "no"
      /\ UNCHANGED <<colaReady, colaExec, colaBlocked, colaExit, programas, relacion, hilos,
                     umcRespuestas>>
  BY <1>1 DEF NuevoPrograma, listas
<1>3. p \in Pids /\ pidActual \in Nat /\ p = pidActual + 1
  BY <1>1, NuevoProgramaTipos DEF TInv, TiposDeColas, Pids
<1>4. /\ Reparto /\ Entradas /\ Transito /\ Relaciones /\ UnaMano /\ SinRepetir(colaReady)
      /\ umcPedidos \in Seq(Pids) /\ hiloInit \in [Consolas -> InitTipo]
  BY DEF LInv, Lugares, TInv, TiposDeUmc, TiposDeInit
<1>5. /\ Listos' = Listos /\ EnManos' = EnManos /\ Traidos' = Traidos
      /\ EnCamino' = EnCamino /\ UnaMano' /\ ConRelacion' = ConRelacion
  <2>1. HilosQuietos
    BY <1>2 DEF HilosQuietos
  <2> QED BY <1>2, <1>4, <2>1, ManosQuedan DEF Listos, ConRelacion
<1>6. p \notin 1 .. pidActual /\ 1 .. p = 1 .. pidActual \union {p}
  BY <1>3
<1>7. Reparto'
  BY <1>2, <1>4, <1>5, <1>6 DEF Reparto
<1>8. Entradas'
  <2>1. p \notin ConRelacion \union colaBlocked \union Listos \union Traidos /\ p \notin colaNew
    BY <1>4, <1>6, ManosSon DEF Reparto, Relaciones
  <2> QED BY <1>2, <1>4, <1>5, <1>6, <2>1 DEF Entradas
<1>9. Relaciones'
  BY <1>2, <1>4, <1>5 DEF Relaciones, UnaPorPcb
<1>10. Transito'
  <2>1. p \notin Pedidos \union Respondidos \union Cargados
    BY <1>4, <1>6 DEF Reparto, Transito
  <2>2. Pedidos' = Pedidos \union {p} /\ SinRepetir(umcPedidos)'
    BY <1>2, <1>3, <1>4, <2>1, AgregarEs DEF Pedidos, Transito
  <2>3. Respondidos' = Respondidos
    BY <1>2 DEF Respondidos
  <2>4. /\ \A l \in Consolas : /\ Cargando(l)' <=> Cargando(l)
                               /\ Cargando(l) => hiloInit'[l].pid = hiloInit[l].pid
    <3>1. /\ hiloInit'[k].paso = "recibiendo"
          /\ \A l \in Consolas \ {k} : hiloInit'[l] = hiloInit[l]
      BY <1>2, <1>4 DEF InitTipo
    <3> QED BY <1>2, <3>1 DEF Cargando
  <2>5. Cargados' = Cargados
    BY <2>4 DEF Cargados
  <2> QED BY <1>2, <1>4, <2>1, <2>2, <2>3, <2>4, <2>5 DEF Transito
<1> QED BY <1>2, <1>4, <1>5, <1>7, <1>8, <1>9, <1>10 DEF LInv, Lugares

\* Nothing but the requests, the answers and the threads that wait for them.
LEMMA TransitoAvanza ==
  ASSUME LInv, Transito', UNCHANGED <<pidActual, colas, programas, relacion, hilos>>
  PROVE  LInv'
<1>1. HilosQuietos
  BY DEF HilosQuietos
<1>2. /\ colaNew' = colaNew /\ colaExec' = colaExec /\ colaBlocked' = colaBlocked
      /\ colaExit' = colaExit /\ colaReady' = colaReady
  BY DEF colas
<1>3. /\ Listos' = Listos /\ EnManos' = EnManos /\ Traidos' = Traidos
      /\ EnCamino' = EnCamino /\ UnaMano' /\ ConRelacion' = ConRelacion
  BY <1>1, <1>2, ManosQuedan DEF Listos, LInv, Lugares, ConRelacion
<1> QED BY <1>2, <1>3 DEF LInv, Lugares, Reparto, Entradas, Relaciones, UnaPorPcb

LEMMA UmcRespondeLugares ==
  ASSUME TInv, LInv, NEW cod \in RespuestasUmc, UmcResponde(cod)
  PROVE  LInv'
<1>1. PICK p : p = Head(umcPedidos)
  OBVIOUS
<1>2. /\ umcPedidos # <<>> /\ umcPedidos' = Tail(umcPedidos)
      /\ umcRespuestas' = Append(umcRespuestas, [cod |-> cod, pid |-> p])
      /\ UNCHANGED <<pidActual, colas, programas, relacion, hilos, hiloInit>>
      /\ colaNew' = colaNew
  BY <1>1 DEF UmcResponde, consolas, listas, colas
<1>3. umcPedidos \in Seq(Pids) /\ umcRespuestas \in Seq(RespuestaTipo) /\ Transito
  BY DEF TInv, TiposDeUmc, LInv
<1>4. /\ p \in Pids /\ Pedidos = Pedidos' \union {p} /\ p \notin Pedidos'
      /\ SinRepetir(umcPedidos)'
  BY <1>1, <1>2, <1>3, ColaEs DEF Pedidos, Transito
<1>5. PICK r : r = [cod |-> cod, pid |-> p]
  OBVIOUS
<1>6. r \in RespuestaTipo /\ r.pid = p
  BY <1>4, <1>5, EntornoAssumption DEF RespuestaTipo
<1>7. PICK t : t = Append(umcRespuestas, r)
  OBVIOUS
<1>8. /\ EnSecuencia(t) = EnSecuencia(umcRespuestas) \union {r}
      /\ DOMAIN t = 1 .. Len(umcRespuestas) + 1 /\ t[Len(umcRespuestas) + 1] = r
      /\ \A i \in DOMAIN umcRespuestas : t[i] = umcRespuestas[i]
  BY <1>3, <1>6, <1>7, AgregarEs
<1>9. umcRespuestas' = t
  BY <1>2, <1>5, <1>7
<1>10. Respondidos' = Respondidos \union {p}
  BY <1>6, <1>8, <1>9 DEF Respondidos
<1>11. p \notin Respondidos /\ p \notin Cargados /\ p \in colaNew
  BY <1>3, <1>4 DEF Transito
<1>12. \A i, j \in DOMAIN t : t[i].pid = t[j].pid => i = j
  <2>1. Len(umcRespuestas) \in Nat /\ DOMAIN umcRespuestas = 1 .. Len(umcRespuestas)
    BY <1>3
  <2>2. \A i \in DOMAIN umcRespuestas : umcRespuestas[i].pid # p
    BY <1>11 DEF Respondidos, EnSecuencia
  <2>3. \A i, j \in DOMAIN umcRespuestas : umcRespuestas[i].pid = umcRespuestas[j].pid => i = j
    BY <1>3 DEF Transito
  <2> QED BY <1>6, <1>8, <2>1, <2>2, <2>3
<1>13. Cargados' = Cargados /\ \A k \in Consolas : Cargando(k)' <=> Cargando(k)
  BY <1>2 DEF Cargados, Cargando
<1>14. Transito'
  BY <1>2, <1>3, <1>4, <1>9, <1>10, <1>11, <1>12, <1>13 DEF Transito
<1> QED BY <1>2, <1>14, TransitoAvanza

LEMMA InitRecibeLugares ==
  ASSUME TInv, LInv, NEW k \in Consolas, InitRecibe(k)
  PROVE  LInv'
<1>1. PICK r : r = Head(umcRespuestas)
  OBVIOUS
<1>2. /\ umcRespuestas # <<>> /\ umcRespuestas' = Tail(umcRespuestas)
      /\ hiloInit[k].paso = "recibiendo"
      /\ hiloInit' = [hiloInit EXCEPT ![k] = [paso |-> "cargando", cod |-> r.cod, pid |-> r.pid]]
      /\ UNCHANGED <<pidActual, colas, programas, relacion, hilos, umcPedidos>>
      /\ colaNew' = colaNew
  BY <1>1 DEF InitRecibe, listas, colas
<1>3. /\ umcRespuestas \in Seq(RespuestaTipo) /\ Transito
      /\ hiloInit \in [Consolas -> InitTipo]
  BY DEF TInv, TiposDeUmc, TiposDeInit, LInv
<1>4. PICK t : t = Tail(umcRespuestas)
  OBVIOUS
<1>5. /\ EnSecuencia(umcRespuestas) = EnSecuencia(t) \union {r}
      /\ DOMAIN t = 1 .. Len(umcRespuestas) - 1 /\ Len(umcRespuestas) \in Nat \ {0}
      /\ \A i \in DOMAIN t : t[i] = umcRespuestas[i + 1] /\ i + 1 \in DOMAIN umcRespuestas
      /\ r = umcRespuestas[1] /\ 1 \in DOMAIN umcRespuestas
  BY <1>1, <1>2, <1>3, <1>4, ColaEs
<1>6. \A i, j \in DOMAIN umcRespuestas : umcRespuestas[i].pid = umcRespuestas[j].pid => i = j
  BY <1>3 DEF Transito
<1>7. /\ \A i, j \in DOMAIN t : t[i].pid = t[j].pid => i = j
      /\ \A i \in DOMAIN t : t[i].pid # r.pid
  BY <1>5, <1>6
<1>8. umcRespuestas' = t
  BY <1>2, <1>4
<1>9. Respondidos = Respondidos' \union {r.pid}
  BY <1>5, <1>8 DEF Respondidos
<1>20. r.pid \notin Respondidos'
  BY <1>7, <1>8 DEF Respondidos, EnSecuencia
<1>10. r.pid \notin Pedidos /\ r.pid \notin Cargados /\ r.pid \in colaNew
  BY <1>3, <1>9 DEF Transito
<1>11. /\ Cargando(k)' /\ hiloInit'[k].pid = r.pid /\ ~Cargando(k)
       /\ \A l \in Consolas \ {k} : hiloInit'[l] = hiloInit[l]
  BY <1>2, <1>3 DEF Cargando
<1>12. Cargados' = Cargados \union {r.pid}
  BY <1>11 DEF Cargados, Cargando
<1>13. \A l, m \in Consolas :
         Cargando(l)' /\ Cargando(m)' /\ hiloInit'[l].pid = hiloInit'[m].pid => l = m
  <2>1. \A l \in Consolas : Cargando(l) => hiloInit[l].pid # r.pid
    BY <1>10 DEF Cargados
  <2>2. \A l, m \in Consolas :
          Cargando(l) /\ Cargando(m) /\ hiloInit[l].pid = hiloInit[m].pid => l = m
    BY <1>3 DEF Transito
  <2> QED BY <1>11, <2>1, <2>2 DEF Cargando
<1>14. Pedidos' = Pedidos
  BY <1>2 DEF Pedidos
<1>15. Transito'
  BY <1>2, <1>3, <1>7, <1>8, <1>9, <1>10, <1>12, <1>13, <1>14, <1>20 DEF Transito
<1> QED BY <1>2, <1>15, TransitoAvanza

LEMMA InitCargaLugares ==
  ASSUME TInv, LInv, NEW k \in Consolas, InitCarga(k)
  PROVE  LInv'
<1>1. PICK p, w : p = hiloInit[k].pid /\ w = hiloInit[k].cod
  OBVIOUS
<1>2. /\ MutexLibre /\ Cargando(k) /\ programas' = [programas EXCEPT ![p] = k]
      /\ colaNew' = colaNew \ {p}
      /\ \/ colaReady' = Append(colaReady, p) /\ colaExit' = colaExit
         \/ colaExit' = colaExit \union {p} /\ colaReady' = colaReady
      /\ EnviarAConsola(k, w, AEnviar(Kernel))
      /\ hiloInit' = [hiloInit EXCEPT ![k] = [paso |-> "fin", cod |-> "OK", pid |-> 0]]
      /\ UNCHANGED <<pidActual, colaExec, colaBlocked, relacion, umcPedidos, umcRespuestas>>
  BY <1>1 DEF InitCarga, Cargando, umc
<1>3. /\ Reparto /\ Entradas /\ Transito /\ Relaciones /\ UnaMano /\ SinRepetir(colaReady)
      /\ hiloInit \in [Consolas -> InitTipo] /\ colaReady \in Seq(Pids)
      /\ programas \in [Pids -> Consolas \union {"ninguno", "cerrado"}] /\ colaNew \subseteq Pids
  BY DEF LInv, Lugares, TInv, TiposDeListas, TiposDeInit, TiposDeColas
<1>4. p \in Cargados
  BY <1>1, <1>2 DEF Cargados
<1>5. p \in colaNew /\ p \in Pids /\ p \notin Pedidos \union Respondidos /\ k # "ninguno"
  BY <1>3, <1>4, NombresAssumption DEF Transito
<1>6. /\ EnManos' = EnManos /\ Traidos' = Traidos /\ EnCamino' = EnCamino /\ UnaMano'
      /\ ConRelacion' = ConRelacion
  <2>1. \/ hilos' = AEnviar(Kernel)
        \/ hilos' = [hilos EXCEPT ![Kernel].paso = "colgado"]
    BY <1>2, AConsolaHace
  <2>2. HilosQuietos
    BY <1>2, <2>1, KernelLibre, HilosQuedan
  <2> QED BY <1>2, <1>3, <2>2, ManosQuedan DEF ConRelacion
<1>7. p \notin Listos
  BY <1>3, <1>5 DEF Reparto
<1>8. /\ SinRepetir(colaReady)'
      /\ \/ Listos' = Listos \union {p} /\ colaExit' = colaExit
         \/ colaExit' = colaExit \union {p} /\ Listos' = Listos
  <2>1. /\ EnSecuencia(Append(colaReady, p)) = Listos \union {p}
        /\ SinRepetir(Append(colaReady, p))
    BY <1>3, <1>5, <1>7, AgregarEs DEF Listos
  <2> QED BY <1>2, <1>3, <2>1 DEF Listos
<1>9. Reparto'
  BY <1>2, <1>3, <1>5, <1>6, <1>8 DEF Reparto
<1>10. Entradas'
  <2>1. p \in 1 .. pidActual
    BY <1>3, <1>5 DEF Reparto
  <2> QED BY <1>2, <1>3, <1>5, <1>6, <1>8, <2>1 DEF Entradas
<1>11. Relaciones'
  BY <1>2, <1>3, <1>6 DEF Relaciones, UnaPorPcb
<1>12. Transito'
  <2>1. /\ ~Cargando(k)' /\ \A l \in Consolas \ {k} : hiloInit'[l] = hiloInit[l]
    BY <1>2, <1>3 DEF Cargando
  <2>2. \A l \in Consolas \ {k} : Cargando(l) => hiloInit[l].pid # p
    BY <1>1, <1>2, <1>3 DEF Transito
  <2>3. Cargados' \subseteq Cargados \ {p}
    BY <2>1, <2>2 DEF Cargados, Cargando
  <2>4. Pedidos' = Pedidos /\ Respondidos' = Respondidos
    BY <1>2 DEF Pedidos, Respondidos
  <2>5. \A l, m \in Consolas :
          Cargando(l)' /\ Cargando(m)' /\ hiloInit'[l].pid = hiloInit'[m].pid => l = m
    BY <1>3, <2>1 DEF Transito, Cargando
  <2> QED BY <1>2, <1>3, <1>5, <2>3, <2>4, <2>5 DEF Transito
<1> QED BY <1>6, <1>8, <1>9, <1>10, <1>11, <1>12 DEF LInv, Lugares

LEMMA CerrarConsolaLugares ==
  ASSUME TInv, LInv, NEW k \in Consolas, CerrarConsola(k)
  PROVE  LInv'
<1>1. PICK p \in Pids :
        /\ programas[p] = k /\ programas' = [programas EXCEPT ![p] = "cerrado"]
        /\ IF RelacionesDePid(p) # {}
           THEN UNCHANGED <<colas, finalizaciones, hilos>>
           ELSE /\ colaNew' = colaNew \ {p}
                /\ colaBlocked' = colaBlocked \ {p}
                /\ colaReady' = Sacar(p, colaReady)
                /\ colaExit' = IF p \in colaNew \union colaBlocked \union EnSecuencia(colaReady)
                               THEN colaExit \union {p} ELSE colaExit
                /\ UNCHANGED colaExec
                /\ hilos' = AEnviar(Kernel)
  BY DEF CerrarConsola
<1>2. MutexLibre /\ UNCHANGED <<pidActual, relacion, umc, hiloInit>>
  BY DEF CerrarConsola
<1>3. /\ Reparto /\ Entradas /\ Transito /\ Relaciones /\ UnaMano /\ SinRepetir(colaReady)
      /\ colaReady \in Seq(Pids)
      /\ programas \in [Pids -> Consolas \union {"ninguno", "cerrado"}]
  BY DEF LInv, Lugares, TInv, TiposDeListas, TiposDeColas
<1>4. p \notin colaNew /\ p \in 1 .. pidActual
  BY <1>1, <1>3, NombresAssumption DEF Entradas
<1>5. /\ EnManos' = EnManos /\ Traidos' = Traidos /\ EnCamino' = EnCamino /\ UnaMano'
      /\ ConRelacion' = ConRelacion
  <2>1. hilos' = hilos \/ hilos' = AEnviar(Kernel)
    BY <1>1
  <2>2. HilosQuietos
    BY <1>2, <2>1, KernelLibre, HilosQuedan
  <2> QED BY <1>2, <1>3, <2>2, ManosQuedan DEF ConRelacion
<1>7. CASE RelacionesDePid(p) # {}
  <2>1. /\ colaNew' = colaNew /\ colaExec' = colaExec /\ colaBlocked' = colaBlocked
        /\ colaExit' = colaExit /\ colaReady' = colaReady
    BY <1>1, <1>7 DEF colas
  <2>2. Listos' = Listos
    BY <2>1 DEF Listos
  <2>3. Reparto'
    BY <1>2, <1>3, <1>5, <2>1, <2>2 DEF Reparto
  <2>4. Entradas'
    BY <1>1, <1>2, <1>3, <1>4, <1>5, <2>1, <2>2 DEF Entradas
  <2>5. Relaciones' /\ Transito'
    BY <1>2, <1>3, <1>5, <2>1, TransitoQueda DEF Relaciones, UnaPorPcb
  <2> QED BY <1>3, <1>5, <2>1, <2>3, <2>4, <2>5 DEF LInv, Lugares
<1>8. CASE RelacionesDePid(p) = {}
  <2>1. /\ colaNew' = colaNew /\ colaExec' = colaExec /\ colaBlocked' = colaBlocked \ {p}
        /\ colaReady' = Sacar(p, colaReady)
        /\ colaExit' = IF p \in colaBlocked \union Listos THEN colaExit \union {p} ELSE colaExit
    BY <1>1, <1>4, <1>8 DEF Listos
  <2>2. Listos' = Listos \ {p} /\ SinRepetir(colaReady)'
    BY <1>3, <2>1, SacarEs DEF Listos
  <2>3. Reparto'
    BY <1>2, <1>3, <1>5, <2>1, <2>2 DEF Reparto
  <2>4. Entradas'
    BY <1>1, <1>2, <1>3, <1>4, <1>5, <2>1, <2>2 DEF Entradas
  <2>5. Relaciones' /\ Transito'
    BY <1>2, <1>3, <1>5, <2>1, TransitoQueda DEF Relaciones, UnaPorPcb
  <2> QED BY <1>5, <2>2, <2>3, <2>4, <2>5 DEF LInv, Lugares
<1> QED BY <1>7, <1>8

-----------------------------------------------------------------------------
(* The places of the PCBs: enviar_a_cpu *)

LEMMA SacarReadyLugares ==
  ASSUME TInv, LInv, NEW h \in Hilos, SacarReady(h)
  PROVE  LInv'
<1>1. /\ hilos[h].paso = "sacar"
      /\ UNCHANGED <<pidActual, colaNew, colaExec, colaBlocked, colaExit, programas,
                     relacion, umc, hiloInit>>
  BY DEF SacarReady, EnPaso, listas, resto, consolas
<1>2. /\ Reparto /\ Entradas /\ Transito /\ Relaciones /\ UnaMano /\ SinRepetir(colaReady)
      /\ colaReady \in Seq(Pids) /\ TiposDeHilos /\ hilos \in [Hilos -> HiloTipo]
  BY DEF LInv, Lugares, TInv, TiposDeHilos, TiposDeColas
<1>3. CASE colaReady = <<>>
  <2>1. hilos' = Volver(h) /\ colaReady' = colaReady
    BY <1>3 DEF SacarReady
  <2>2. HilosQuietos
    BY <1>1, <1>2, <2>1, HilosQuedan
  <2> QED BY <1>1, <2>1, <2>2, LugaresQuietos DEF colas
<1>4. CASE colaReady # <<>>
  <2>1. PICK p \in Pids : p = Head(colaReady)
    BY <1>2, <1>4, ColaEs
  <2>2. /\ colaReady' = Tail(colaReady)
        /\ hilos' = [hilos EXCEPT ![h].paso = "relacionar", ![h].pid = p]
    BY <1>4, <2>1 DEF SacarReady
  <2>3. /\ SinRepetir(colaReady)' /\ Listos = Listos' \union {p} /\ p \notin Listos'
    BY <1>2, <1>4, <2>1, <2>2, ColaEs DEF Listos
  <2>4. /\ hilos'[h].paso = "relacionar" /\ hilos'[h].pid = p
        /\ \A g \in Hilos \ {h} : hilos'[g] = hilos[g]
    <3>1. PICK c : c = hilos[h].cpu
      OBVIOUS
    <3>2. hilos' = [hilos EXCEPT ![h] = [paso |-> "relacionar", cpu |-> c, pid |-> p]]
      BY <1>2, <2>2, <3>1, HiloCambia
    <3> QED BY <1>2, <3>2
  <2>5. p \notin EnManos
    BY <1>2, <2>3 DEF Reparto
  <2>6. EnManos' = EnManos \union {p}
    BY <1>1, <1>2, <2>4, ManosDe DEF EnManos, EnMano
  <2>11. Traidos' = Traidos \union {p}
    BY <1>1, <1>2, <2>4, ManosDe DEF Traidos
  <2>12. EnCamino' = EnCamino /\ ConRelacion' = ConRelacion
    BY <1>1, <1>2, <2>4, ManosDe DEF EnCamino, ConRelacion
  <2>7. UnaMano'
    <3>1. \A g \in Hilos : hilos[g].paso \in {"relacionar", "ejecutar", "mover"}
                             => hilos[g].pid # p
      BY <2>5 DEF EnManos, EnMano, EnManoDe
    <3> QED BY <1>2, <2>4, <3>1 DEF UnaMano
  <2>8. Reparto'
    BY <1>1, <1>2, <2>3, <2>5, <2>6 DEF Reparto
  <2>9. Entradas'
    BY <1>1, <1>2, <2>3, <2>11, <2>12 DEF Entradas
  <2>10. Transito' /\ Relaciones'
    BY <1>1, <1>2, <2>12, TransitoQueda DEF Relaciones, UnaPorPcb
  <2> QED BY <2>3, <2>7, <2>8, <2>9, <2>10 DEF LInv, Lugares
<1> QED BY <1>3, <1>4

\* The program of a PCB on its way to a CPU is in the list, so the PCB is never
\* dropped, and its new relation is the only one.
LEMMA RelacionarHace ==
  ASSUME TInv, LInv, NEW h \in Hilos, Relacionar(h)
  PROVE  \E c \in Cpus : \E p \in Pids :
           /\ c = hilos[h].cpu /\ p = hilos[h].pid /\ programas[p] # "ninguno"
           /\ p \in Traidos /\ p \notin colaExec /\ p \notin ConRelacion
           /\ corriendo' = corriendo \union {c}
           /\ relacion' = Append(relacion, [cpu |-> c, pid |-> p])
           /\ hilos' = [hilos EXCEPT ![h] = [paso |-> "ejecutar", cpu |-> c, pid |-> p]]
<1>1. /\ hilos[h].paso = "relacionar" /\ hilos \in [Hilos -> HiloTipo] /\ Reparto /\ Entradas
      /\ UnaMano /\ Relaciones
  BY DEF Relacionar, EnPaso, TInv, TiposDeHilos, LInv, Lugares
<1>2. PICK c \in Cpus, p \in Pids : c = hilos[h].cpu /\ p = hilos[h].pid
  BY <1>1 DEF TInv, TiposDeHilos
<1>3. p \in Traidos /\ p \in EnManos /\ p \notin EnCamino
  BY <1>1, <1>2, ManosSon DEF Traidos, EnManoDe
<1>4. programas[p] # "ninguno" /\ p \notin colaExec /\ p \notin ConRelacion
  BY <1>1, <1>3 DEF Entradas, Reparto, Relaciones
<1>5. /\ corriendo' = corriendo \union {c}
      /\ relacion' = Append(relacion, [cpu |-> c, pid |-> p])
      /\ hilos' = [hilos EXCEPT ![h].paso = "ejecutar"]
  BY <1>2, <1>4 DEF Relacionar
<1>6. hilos' = [hilos EXCEPT ![h] = [paso |-> "ejecutar", cpu |-> c, pid |-> p]]
  BY <1>1, <1>2, <1>5, HiloCambia
<1> QED BY <1>2, <1>3, <1>4, <1>5, <1>6

LEMMA RelacionNueva ==
  ASSUME TiposDeListas, Relaciones, NEW c \in Cpus, NEW p \in Pids, p \notin ConRelacion,
         relacion' = Append(relacion, [cpu |-> c, pid |-> p])
  PROVE  /\ EnSecuencia(relacion') = EnSecuencia(relacion) \union {[cpu |-> c, pid |-> p]}
         /\ ConRelacion' = ConRelacion \union {p}
         /\ UnaPorPcb'
<1>1. PICK r \in Relacion : r = [cpu |-> c, pid |-> p]
  BY DEF Relacion
<1>2. relacion \in Seq(Relacion)
  BY DEF TiposDeListas
<1>3. PICK t : t = Append(relacion, r)
  OBVIOUS
<1>4. /\ EnSecuencia(t) = EnSecuencia(relacion) \union {r}
      /\ DOMAIN t = 1 .. Len(relacion) + 1 /\ t[Len(relacion) + 1] = r
      /\ \A i \in DOMAIN relacion : t[i] = relacion[i]
  BY <1>2, <1>3, AgregarEs
<1>5. relacion' = t /\ r.pid = p
  BY <1>1, <1>3
<1>6. {s.pid : s \in EnSecuencia(t)} = ConRelacion \union {p}
  BY <1>4, <1>5 DEF ConRelacion
<1>7. \A i, j \in DOMAIN t : t[i].pid = t[j].pid => i = j
  <2>1. Len(relacion) \in Nat /\ DOMAIN relacion = 1 .. Len(relacion)
    BY <1>2
  <2>2. \A i \in DOMAIN relacion : relacion[i].pid # p
    BY DEF ConRelacion, EnSecuencia
  <2>3. \A i, j \in DOMAIN relacion : relacion[i].pid = relacion[j].pid => i = j
    BY DEF Relaciones, UnaPorPcb
  <2> QED BY <1>4, <1>5, <2>1, <2>2, <2>3
<1> QED BY <1>1, <1>4, <1>5, <1>6, <1>7 DEF UnaPorPcb, ConRelacion

LEMMA RelacionarLugares ==
  ASSUME TInv, LInv, NEW h \in Hilos, Relacionar(h)
  PROVE  LInv'
<1>1. PICK c \in Cpus, p \in Pids :
        /\ c = hilos[h].cpu /\ p = hilos[h].pid /\ programas[p] # "ninguno"
        /\ p \notin ConRelacion
        /\ relacion' = Append(relacion, [cpu |-> c, pid |-> p])
        /\ hilos' = [hilos EXCEPT ![h] = [paso |-> "ejecutar", cpu |-> c, pid |-> p]]
  BY RelacionarHace
<1>2. /\ UNCHANGED <<pidActual, colas, programas, umc, hiloInit>>
      /\ colaNew' = colaNew /\ colaExec' = colaExec /\ colaBlocked' = colaBlocked
      /\ colaExit' = colaExit /\ colaReady' = colaReady
      /\ hilos[h].paso = "relacionar"
  BY DEF Relacionar, resto, consolas, EnPaso, colas
<1>3. /\ Reparto /\ Entradas /\ Transito /\ Relaciones /\ UnaMano /\ SinRepetir(colaReady)
      /\ TiposDeListas /\ hilos \in [Hilos -> HiloTipo]
  BY DEF LInv, Lugares, TInv, TiposDeHilos
<1>4. /\ hilos'[h].paso = "ejecutar" /\ hilos'[h].pid = p
      /\ \A g \in Hilos \ {h} : hilos'[g] = hilos[g]
  BY <1>1, <1>3
<1>5. UnaMano'
  BY <1>1, <1>2, <1>3, <1>4 DEF UnaMano
<1>6. EnManos' = EnManos
  BY <1>1, <1>2, <1>3, <1>4 DEF EnManos, EnMano, EnManoDe
<1>7. Traidos' \subseteq Traidos /\ EnCamino' = EnCamino \union {p}
  <2>1. \A q \in Pids :
          EnManoDe(q, {"relacionar", "mover"})' # {} => EnManoDe(q, {"relacionar", "mover"}) # {}
    BY <1>3, <1>4, ManosDe
  <2>2. \A q \in Pids : EnManoDe(q, {"ejecutar"})' # {} <=>
                          EnManoDe(q, {"ejecutar"}) # {} \/ q = p
    BY <1>2, <1>3, <1>4, ManosDe
  <2> QED BY <2>1, <2>2 DEF Traidos, EnCamino
<1>8. Listos' = Listos /\ ConRelacion' = ConRelacion \union {p} /\ UnaPorPcb'
  BY <1>1, <1>2, <1>3, RelacionNueva DEF Listos
<1>9. Reparto'
  BY <1>2, <1>3, <1>6, <1>8 DEF Reparto
<1>10. Entradas'
  BY <1>1, <1>2, <1>3, <1>7, <1>8 DEF Entradas
<1>11. Relaciones' /\ Transito'
  BY <1>2, <1>3, <1>7, <1>8, TransitoQueda DEF Relaciones
<1> QED BY <1>2, <1>3, <1>5, <1>9, <1>10, <1>11 DEF LInv, Lugares

\* moverA_colaExec: the PCB may have lost its relation, and its entry with it.
LEMMA MoverAExecLugares ==
  ASSUME TInv, LInv, NEW h \in Hilos, MoverAExec(h)
  PROVE  LInv'
<1>1. /\ hilos[h].paso = "ejecutar"
      /\ UNCHANGED <<pidActual, colaNew, colaReady, colaBlocked, colaExit, programas, relacion,
                     umc, hiloInit>>
  BY DEF MoverAExec, EnPaso, listas, resto, consolas
<1>2. /\ Reparto /\ Entradas /\ Transito /\ Relaciones /\ UnaMano /\ SinRepetir(colaReady)
      /\ hilos \in [Hilos -> HiloTipo]
  BY DEF LInv, Lugares, TInv, TiposDeHilos
<1>3. PICK p \in Pids : p = hilos[h].pid
  BY <1>1 DEF TInv, TiposDeHilos
<1>4. /\ colaExec' = colaExec \union {p}
      /\ hilos'[h].paso = "enviar" /\ \A g \in Hilos \ {h} : hilos'[g] = hilos[g]
  BY <1>2, <1>3 DEF MoverAExec, HiloTipo
<1>5. UnaMano'
  BY <1>2, <1>4 DEF UnaMano
<1>6. p \in EnManos /\ EnManos' = EnManos \ {p}
  <2> DEFINE X == {"relacionar", "ejecutar", "mover"}
  <2>1. h \in EnManoDe(p, X)
    BY <1>1, <1>3 DEF EnManoDe
  <2>2. hilos'[h].paso \notin X
    BY <1>4
  <2>3. \A q \in Pids : EnManoDe(q, X)' # {} <=> EnManoDe(q, X) # {} /\ q # p
    <3> HIDE DEF X
    <3>1. X \subseteq {"relacionar", "ejecutar", "mover"} /\ hilos[h].paso \in X
      BY <1>1 DEF X
    <3>2. \A q \in Pids : EnManoDe(q, X)' # {} <=>
             EnManoDe(q, X) # {} /\ ~(hilos[h].paso \in X /\ hilos[h].pid = q)
      BY <1>2, <1>4, <2>2, <3>1, ManosDe
    <3> QED BY <1>3, <3>1, <3>2
  <2> QED BY <1>3, <2>1, <2>3 DEF EnManos, EnMano
<1>7. EnCamino' = EnCamino \ {p}
  BY <1>1, <1>2, <1>3, <1>4, ManosDe DEF EnCamino
<1>8. Traidos' = Traidos
  <2>1. \A q \in Pids : EnManoDe(q, {"relacionar", "mover"})' # {} <=>
                          EnManoDe(q, {"relacionar", "mover"}) # {}
    BY <1>1, <1>2, <1>4, ManosDe
  <2> QED BY <2>1 DEF Traidos
<1>9. Listos' = Listos /\ ConRelacion' = ConRelacion
  BY <1>1 DEF Listos, ConRelacion
<1>10. Reparto'
  BY <1>1, <1>2, <1>4, <1>6, <1>9 DEF Reparto
<1>11. Entradas'
  BY <1>1, <1>2, <1>8, <1>9 DEF Entradas
<1>12. Relaciones' /\ Transito'
  BY <1>1, <1>2, <1>4, <1>7, <1>9, TransitoQueda DEF Relaciones, UnaPorPcb
<1> QED BY <1>1, <1>2, <1>5, <1>10, <1>11, <1>12 DEF LInv, Lugares

\* moverA_colaReady: whatever happened to its console in between, the PCB has an
\* entry.
LEMMA MoverAReadyLugares ==
  ASSUME TInv, LInv, NEW h \in Hilos, MoverAReady(h)
  PROVE  LInv'
<1>1. /\ hilos[h].paso = "mover"
      /\ UNCHANGED <<pidActual, colaNew, colaExec, colaBlocked, colaExit, programas, relacion,
                     umc, hiloInit>>
  BY DEF MoverAReady, EnPaso, listas, resto, consolas
<1>2. /\ Reparto /\ Entradas /\ Transito /\ Relaciones /\ UnaMano /\ SinRepetir(colaReady)
      /\ hilos \in [Hilos -> HiloTipo] /\ colaReady \in Seq(Pids)
  BY DEF LInv, Lugares, TInv, TiposDeHilos, TiposDeColas
<1>3. PICK p \in Pids : p = hilos[h].pid
  BY <1>1 DEF TInv, TiposDeHilos
<1>4. /\ colaReady' = Append(colaReady, p)
      /\ hilos'[h].paso = "buscar" /\ \A g \in Hilos \ {h} : hilos'[g] = hilos[g]
  BY <1>2, <1>3 DEF MoverAReady, AEnviar, HiloLibre
<1>5. UnaMano'
  BY <1>2, <1>4 DEF UnaMano
<1>6. p \in EnManos /\ EnManos' = EnManos \ {p}
  <2> DEFINE X == {"relacionar", "ejecutar", "mover"}
  <2>1. h \in EnManoDe(p, X)
    BY <1>1, <1>3 DEF EnManoDe
  <2>2. hilos'[h].paso \notin X
    BY <1>4
  <2>3. \A q \in Pids : EnManoDe(q, X)' # {} <=> EnManoDe(q, X) # {} /\ q # p
    <3> HIDE DEF X
    <3>1. X \subseteq {"relacionar", "ejecutar", "mover"} /\ hilos[h].paso \in X
      BY <1>1 DEF X
    <3>2. \A q \in Pids : EnManoDe(q, X)' # {} <=>
             EnManoDe(q, X) # {} /\ ~(hilos[h].paso \in X /\ hilos[h].pid = q)
      BY <1>2, <1>4, <2>2, <3>1, ManosDe
    <3> QED BY <1>3, <3>1, <3>2
  <2> QED BY <1>3, <2>1, <2>3 DEF EnManos, EnMano
<1>7. p \in Traidos /\ Traidos' = Traidos \ {p}
  <2>1. h \in EnManoDe(p, {"relacionar", "mover"})
    BY <1>1, <1>3 DEF EnManoDe
  <2>2. \A q \in Pids : EnManoDe(q, {"relacionar", "mover"})' # {} <=>
                          EnManoDe(q, {"relacionar", "mover"}) # {} /\ q # p
    <3>1. \A q \in Pids : ~(hilos'[h].paso \in {"relacionar", "mover"} /\ hilos'[h].pid = q)
      BY <1>4
    <3>2. \A q \in Pids : EnManoDe(q, {"relacionar", "mover"})' # {} <=>
             /\ EnManoDe(q, {"relacionar", "mover"}) # {}
             /\ ~(hilos[h].paso \in {"relacionar", "mover"} /\ hilos[h].pid = q)
      BY <1>2, <1>4, <3>1, ManosDe
    <3> QED BY <1>1, <1>3, <3>2
  <2> QED BY <1>3, <2>1, <2>2 DEF Traidos
<1>8. EnCamino' = EnCamino /\ ConRelacion' = ConRelacion
  <2>1. \A q \in Pids : EnManoDe(q, {"ejecutar"})' # {} <=> EnManoDe(q, {"ejecutar"}) # {}
    BY <1>1, <1>2, <1>4, ManosDe
  <2> QED BY <1>1, <2>1 DEF EnCamino, ConRelacion
<1>9. Listos' = Listos \union {p} /\ SinRepetir(colaReady)'
  <2>1. p \notin Listos
    BY <1>2, <1>6 DEF Reparto
  <2> QED BY <1>2, <1>4, <2>1, AgregarEs DEF Listos
<1>10. Reparto'
  BY <1>1, <1>2, <1>6, <1>9 DEF Reparto
<1>11. Entradas'
  BY <1>1, <1>2, <1>7, <1>8, <1>9 DEF Entradas
<1>12. Relaciones' /\ Transito'
  BY <1>1, <1>2, <1>8, TransitoQueda DEF Relaciones, UnaPorPcb
<1> QED BY <1>5, <1>9, <1>10, <1>11, <1>12 DEF LInv, Lugares

LEMMA HilosLugares ==
  ASSUME TInv, LInv, NEW h \in Hilos,
         PasoDeHilo(h) \/ Responder \/ EliminarCpu \/ LanzarES
  PROVE  LInv'
<1>0. /\ TiposDeHilos /\ Kernel \in Hilos /\ hilos \in [Hilos -> HiloTipo]
      /\ HilosIO \subseteq Hilos
  BY DEF TInv, Hilos, TiposDeHilos
<1>1. CASE Buscar(h)
  <2>1. /\ UNCHANGED <<pidActual, colas, programas, relacion, umc, hiloInit>>
        /\ hilos[h].paso = "buscar"
    BY <1>1 DEF Buscar, resto, consolas, listas, EnPaso
  <2>2. PICK d : \/ hilos' = Volver(h)
                 \/ hilos' = [hilos EXCEPT ![h] = [paso |-> "sacar", cpu |-> d, pid |-> 0]]
    BY <1>1 DEF Buscar
  <2>3. [paso |-> "sacar", cpu |-> d, pid |-> 0].paso
          \notin {"relacionar", "ejecutar", "mover"}
    OBVIOUS
  <2>4. HilosQuietos
    BY <1>0, <2>1, <2>2, <2>3, HilosQuedan
  <2> QED BY <2>1, <2>4, LugaresQuietos
<1>2. CASE SacarReady(h)
  BY <1>2, SacarReadyLugares
<1>3. CASE Relacionar(h)
  BY <1>3, RelacionarLugares
<1>4. CASE EnviarPcb(h)
  <2>1. /\ UNCHANGED <<pidActual, colas, programas, relacion, umc, hiloInit>>
        /\ hilos[h].paso = "enviar"
        /\ hilos' = Volver(h) \/ hilos' = [hilos EXCEPT ![h].paso = "colgado"]
    BY <1>4 DEF EnviarPcb, resto, consolas, listas, EnPaso, EnviarACpu, Envio
  <2>2. HilosQuietos
    BY <1>0, <2>1, HilosQuedan
  <2> QED BY <2>1, <2>2, LugaresQuietos
<1>5. CASE FinES(h)
  <2>1. /\ UNCHANGED <<pidActual, colaNew, colaReady, colaExec, colaExit, programas,
                       relacion, umc, hiloInit>>
        /\ hilos[h].paso = "io" /\ Desbloquear(h, hilos[h].pid)
    BY <1>5 DEF FinES, resto, consolas, listas, EnPaso
  <2>2. PICK p : p = hilos[h].pid
    OBVIOUS
  <2>3. Desbloquear(h, p)
    BY <2>1, <2>2
  <2> QED BY <2>1, <2>3, DesbloquearLugares
<1>6. CASE Responder
  <2>1. /\ UNCHANGED <<pidActual, colas, programas, relacion, umc, hiloInit>>
        /\ hilos[Kernel].paso = "responder"
        /\ hilos' = AEnviar(Kernel) \/ hilos' = [hilos EXCEPT ![Kernel].paso = "colgado"]
    BY <1>6 DEF Responder, consolas, listas, EnviarACpu, Envio
  <2>2. HilosQuietos
    BY <1>0, <2>1, HilosQuedan
  <2> QED BY <2>1, <2>2, LugaresQuietos
<1>7. CASE LanzarES
  <2>1. /\ UNCHANGED <<pidActual, colas, programas, relacion, umc, hiloInit>>
        /\ hilos[Kernel].paso = "lanzar"
    BY <1>7 DEF LanzarES, consolas, listas, EnPaso
  <2>5. PICK q : q = pendienteES
    OBVIOUS
  <2>2. PICK g \in HilosIO :
          /\ hilos[g].paso = "libre"
          /\ hilos' = [hilos EXCEPT ![g] = [paso |-> "io", cpu |-> Nadie, pid |-> q],
                                    ![Kernel] = HiloLibre]
    BY <1>7, <2>5 DEF LanzarES
  <2>3. HiloLibre.paso = "libre"
    BY DEF HiloLibre
  <2>4. HilosQuietos
    BY <1>0, <2>1, <2>2, <2>3 DEF HilosQuietos
  <2> QED BY <2>1, <2>4, LugaresQuietos
<1>8. CASE MoverAExec(h)
  BY <1>8, MoverAExecLugares
<1>9. CASE MoverAReady(h)
  BY <1>9, MoverAReadyLugares
<1>10. CASE EliminarCpu
  <2>1. /\ UNCHANGED <<pidActual, colas, programas, relacion, umc, hiloInit>>
        /\ hilos[Kernel].paso = "eliminar" /\ hilos' = AEnviar(Kernel)
    BY <1>10 DEF EliminarCpu, consolas
  <2>2. HilosQuietos
    BY <1>0, <2>1, HilosQuedan
  <2> QED BY <2>1, <2>2, LugaresQuietos
<1> QED BY <1>1, <1>2, <1>3, <1>4, <1>5, <1>6, <1>7, <1>8, <1>9, <1>10
        DEF PasoDeHilo, EnviarACpuPasos

-----------------------------------------------------------------------------
(* The places of the PCBs: every step *)

\* The steps that change no list of PCBs: those of the CPUs and the handlers that
\* only answer.
LEMMA OtrosLugares ==
  ASSUME TInv, LInv, NEW c \in Cpus,
         \/ CpuConecta(c) \/ CpuResponde(c) \/ CpuAvisa(c) \/ CpuPide(c)
         \/ \E op \in Instrucciones : CpuSuelta(c, op) \/ CpuSigusr1SinPcb(c, op)
         \/ CpuSigusr1(c) \/ CpuSigusr1TrasWait(c) \/ CpuMuere(c)
         \/ HandshakeCpu(c) \/ WaitSinBloquear(c) \/ Imprimir(c) \/ Obtener(c)
         \/ RelacionNula(c)
  PROVE  LInv'
<1>1. CASE \/ CpuConecta(c) \/ CpuResponde(c) \/ CpuAvisa(c) \/ CpuPide(c)
           \/ \E op \in Instrucciones : CpuSuelta(c, op) \/ CpuSigusr1SinPcb(c, op)
           \/ CpuSigusr1(c) \/ CpuSigusr1TrasWait(c) \/ CpuMuere(c)
  <2>1. UNCHANGED restoDelNucleo
    BY <1>1 DEF CpuConecta, CpuResponde, CpuRecibe, CpuRespuesta, CpuAvisa, CpuPide,
       CpuSuelta, CpuSigusr1SinPcb, CpuSigusr1, CpuSigusr1TrasWait, CpuMuere
  <2>2. UNCHANGED <<pidActual, colas, programas, relacion, umc, hiloInit>> /\ hilos' = hilos
    BY <2>1 DEF restoDelNucleo, consolas, listas
  <2> QED BY <2>2, LugaresQuietos DEF HilosQuietos
<1>3. CASE HandshakeCpu(c) \/ WaitSinBloquear(c) \/ Imprimir(c) \/ Obtener(c) \/ RelacionNula(c)
  <2>1. UNCHANGED <<pidActual, colas, programas, relacion, umc, hiloInit>>
    BY <1>3 DEF HandshakeCpu, WaitSinBloquear, Imprimir, Obtener, RelacionNula, consolas, listas
  <2>2. \E op : Llega(c, op)
    BY <1>3 DEF HandshakeCpu, WaitSinBloquear, Imprimir, Obtener, RelacionNula
  <2>3. /\ TiposDeHilos /\ Kernel \in Hilos /\ hilos[Kernel].paso \notin {"relacionar", "ejecutar", "mover"}
    BY <2>2, KernelLibre DEF Llega
  <2>4. \/ hilos' = hilos \/ hilos' = AEnviar(Kernel)
        \/ hilos' = [hilos EXCEPT ![Kernel].paso = "colgado"]
    <3>1. CASE HandshakeCpu(c)
      BY <3>1 DEF HandshakeCpu, Envio
    <3>2. CASE WaitSinBloquear(c) \/ Obtener(c)
      BY <3>2 DEF WaitSinBloquear, Obtener, EnviarACpu, Envio
    <3>3. CASE Imprimir(c)
      BY <3>3 DEF Imprimir, EnviarAConsola, Envio
    <3>4. CASE RelacionNula(c)
      BY <3>4 DEF RelacionNula
    <3> QED BY <1>3, <3>1, <3>2, <3>3, <3>4
  <2>5. HilosQuietos
    BY <2>3, <2>4, HilosQuedan
  <2> QED BY <2>1, <2>5, LugaresQuietos
<1> QED BY <1>1, <1>3

LEMMA ConsolaLugares ==
  ASSUME TInv, LInv, NEW k \in Consolas,
         ConsolaEnvia(k) \/ ConsolaCierra(k) \/ CerrarConsolaSinPrograma(k)
  PROVE  LInv'
<1>1. UNCHANGED <<pidActual, colas, programas, relacion, umc, hiloInit>> /\ hilos' = hilos
  BY DEF ConsolaEnvia, ConsolaCierra, CerrarConsolaSinPrograma, consolas, listas
<1> QED BY <1>1, LugaresQuietos DEF HilosQuietos

LEMMA SenialLugares ==
  ASSUME TInv, LInv, NEW c \in Cpus, Signal(c)
  PROVE  LInv'
<1>1. /\ UNCHANGED <<pidActual, colaNew, colaReady, colaExec, colaExit, programas, relacion,
                     umc, hiloInit>>
      /\ MutexLibre
  BY DEF Signal, Llega, listas, consolas
<1>2. PICK q : q = Head(cola[Head(canal[c]).sem])
  OBVIOUS
<1>3. (hilos' = AEnviar(Kernel) /\ colaBlocked' = colaBlocked) \/ Desbloquear(Kernel, q)
  BY <1>2 DEF Signal
<1>4. CASE hilos' = AEnviar(Kernel) /\ colaBlocked' = colaBlocked
  <2>1. HilosQuietos
    BY <1>1, <1>4, KernelLibre, HilosQuedan
  <2> QED BY <1>1, <1>4, <2>1, LugaresQuietos DEF colas
<1>5. CASE Desbloquear(Kernel, q)
  BY <1>1, <1>5, KernelLibre, DesbloquearLugares
<1> QED BY <1>3, <1>4, <1>5

LEMMA AtenderCpuLugares ==
  ASSUME TInv, LInv, Acuerdo, "sigusr1" \notin Fallas, NEW c \in Cpus, AtenderCpu(c)
  PROVE  LInv'
<1>1. CASE \/ HandshakeCpu(c) \/ WaitSinBloquear(c) \/ Imprimir(c) \/ Obtener(c)
           \/ RelacionNula(c)
  BY <1>1, OtrosLugares
<1>2. ASSUME NEW op, \/ op = "FIN_QUANTUM" /\ FinQuantum(c)
                     \/ op = "IO" /\ EntradaSalida(c)
                     \/ FinalizaPrograma(c, op)
      PROVE  LInv'
  <2>1. PICK p : p = Head(canal[c]).pid
    OBVIOUS
  <2>2. /\ p \in Pids /\ HilosQuietos
        /\ \E i \in DOMAIN relacion : Sale(i, p) \/ SaleEnCamino(i, p)
    BY <1>2, <2>1, SueltaHace
  <2> QED BY <2>2, SaleLugares, SaleEnCaminoLugares
<1>3. CASE WaitBloquea(c)
  <2>1. PICK p : p = Head(canal[c]).pid
    OBVIOUS
  <2>2. /\ p \in Pids /\ HilosQuietos
        /\ \E i \in DOMAIN relacion : Sale(i, p) \/ SaleEnCamino(i, p)
    BY <1>3, <2>1, WaitBloqueaHace
  <2> QED BY <2>2, SaleLugares, SaleEnCaminoLugares
<1>4. CASE Signal(c)
  BY <1>4, SenialLugares
<1>5. CASE CerrarCpu(c)
  <2>1. HilosQuietos
    BY <1>5, CerrarCpuHace
  <2>2. CASE \E i \in DOMAIN relacion : \E p \in Pids : Sale(i, p) \/ SaleEnCamino(i, p)
    BY <2>1, <2>2, SaleLugares, SaleEnCaminoLugares
  <2>3. CASE UNCHANGED <<colas, programas, relacion>> /\ UNCHANGED <<pidActual, umc, hiloInit>>
    BY <2>1, <2>3, LugaresQuietos
  <2> QED BY <1>5, <2>2, <2>3, CerrarCpuHace
<1>6. CASE TerminoMal(c)
  <2>1. Llega(c, "TERMINO_MAL")
    BY <1>6 DEF TerminoMal
  <2>2. Head(canal[c]) \in MensajesDeCpu /\ Head(canal[c]).op = "TERMINO_MAL"
    BY <2>1, LlegaTipo
  <2> QED BY <2>2, MensajesSon
<1> QED BY <1>1, <1>2, <1>3, <1>4, <1>5, <1>6 DEF AtenderCpu

LEMMA InicioLugares == Init => LInv
<1> SUFFICES ASSUME Init PROVE LInv
  OBVIOUS
<1>1. hilos = [h \in Hilos |-> HiloLibre] /\ HiloLibre.paso = "libre"
  BY DEF Init, HiloLibre
<1>2. EnManos = {} /\ Traidos = {} /\ UnaMano
  BY <1>1 DEF EnManos, EnMano, Traidos, EnManoDe, UnaMano
<1>3. Listos = {} /\ SinRepetir(colaReady)
  BY DEF Init, Listos, EnSecuencia, SinRepetir
<1>4. Reparto
  BY <1>2, <1>3 DEF Init, Reparto
<1>8. ConRelacion = {}
  BY DEF Init, ConRelacion, EnSecuencia
<1>5. Entradas
  BY <1>2, <1>3, <1>8 DEF Init, Entradas
<1>6. Transito
  BY DEF Init, Transito, SinRepetir, Pedidos, Respondidos, Cargados, Cargando, EnSecuencia
<1>7. Relaciones
  BY <1>8 DEF Init, Relaciones, UnaPorPcb
<1> QED BY <1>2, <1>3, <1>4, <1>5, <1>6, <1>7 DEF LInv, Lugares

LEMMA PasoLugares ==
  ASSUME TInv, LInv, Acuerdo, "sigusr1" \notin Fallas, [Next]_vars
  PROVE  LInv'
<1>1. ASSUME NEW k \in Consolas, ConsolaEnvia(k) \/ ConsolaCierra(k) \/ AtenderConsola(k)
      PROVE  LInv'
  BY <1>1, ConsolaLugares, NuevoProgramaLugares, InitRecibeLugares, InitCargaLugares,
     CerrarConsolaLugares DEF AtenderConsola
<1>2. ASSUME NEW cod \in RespuestasUmc, UmcResponde(cod)
      PROVE  LInv'
  BY <1>2, UmcRespondeLugares
<1>3. ASSUME NEW c \in Cpus, AtenderCpu(c)
      PROVE  LInv'
  BY <1>3, AtenderCpuLugares
<1>4. ASSUME NEW c \in Cpus,
             \/ CpuConecta(c) \/ CpuResponde(c) \/ CpuAvisa(c) \/ CpuPide(c)
             \/ \E op \in Instrucciones : CpuSuelta(c, op) \/ CpuSigusr1SinPcb(c, op)
             \/ CpuSigusr1(c) \/ CpuSigusr1TrasWait(c) \/ CpuMuere(c)
      PROVE  LInv'
  BY <1>4, OtrosLugares
<1>5. CASE Responder \/ EliminarCpu \/ LanzarES
  <2>1. Kernel \in Hilos
    BY DEF Hilos
  <2> QED BY <1>5, <2>1, HilosLugares
<1>6. ASSUME NEW h \in Hilos, PasoDeHilo(h)
      PROVE  LInv'
  BY <1>6, HilosLugares
<1>7. CASE UNCHANGED vars
  <2>1. UNCHANGED <<pidActual, colas, programas, relacion, umc, hiloInit>> /\ hilos' = hilos
    BY <1>7 DEF vars, consolas, listas
  <2> QED BY <2>1, LugaresQuietos DEF HilosQuietos
<1> QED BY <1>1, <1>2, <1>3, <1>4, <1>5, <1>6, <1>7 DEF Next

-----------------------------------------------------------------------------
(* The places of the PCBs: what they give *)

LEMMA VecesEs ==
  ASSUME NEW s \in Seq(Pids), SinRepetir(s), NEW p
  PROVE  Veces(p, s) = IF p \in EnSecuencia(s) THEN 1 ELSE 0
<1> DEFINE I == {i \in DOMAIN s : s[i] = p}
<1>1. CASE p \in EnSecuencia(s)
  <2>1. PICK i \in DOMAIN s : s[i] = p
    BY <1>1 DEF EnSecuencia
  <2>2. I = {i}
    BY <2>1 DEF SinRepetir
  <2> QED BY <1>1, <2>2, FS_Singleton DEF Veces
<1>2. CASE p \notin EnSecuencia(s)
  <2>1. I = {}
    BY <1>2 DEF EnSecuencia
  <2> QED BY <1>2, <2>1, FS_EmptySet DEF Veces
<1> QED BY <1>1, <1>2

LEMMA EnManoEs ==
  ASSUME UnaMano, NEW p \in Pids
  PROVE  Cardinality(EnMano(p)) = IF p \in EnManos THEN 1 ELSE 0
<1>1. CASE p \in EnManos
  <2>1. PICK h \in Hilos : /\ hilos[h].paso \in {"relacionar", "ejecutar", "mover"}
                           /\ hilos[h].pid = p
    BY <1>1 DEF EnManos, EnMano, EnManoDe
  <2>2. EnMano(p) = {h}
    BY <2>1 DEF UnaMano, EnMano, EnManoDe
  <2> QED BY <1>1, <2>2, FS_Singleton
<1>2. CASE p \notin EnManos
  <2>1. EnMano(p) = {}
    BY <1>2 DEF EnManos
  <2> QED BY <1>2, <2>1, FS_EmptySet
<1> QED BY <1>1, <1>2

LEMMA LugaresDan ==
  ASSUME TInv, LInv
  PROVE  CadaPcbEnUnLugar /\ ListoTienePrograma /\ RelacionSinColgar
<1>1. /\ Reparto /\ Entradas /\ UnaMano /\ SinRepetir(colaReady) /\ Relaciones
      /\ colaReady \in Seq(Pids) /\ pidActual \in Pids \union {0} /\ colaExec \subseteq Pids
  BY DEF LInv, Lugares, TInv, TiposDeColas
<1>2. ASSUME NEW p \in 1 .. pidActual
      PROVE  Cardinality({q \in {"new", "exec", "blocked", "exit"} :
                           \/ q = "new" /\ p \in colaNew
                           \/ q = "exec" /\ p \in colaExec
                           \/ q = "blocked" /\ p \in colaBlocked
                           \/ q = "exit" /\ p \in colaExit})
               + Veces(p, colaReady) + Cardinality(EnMano(p)) = 1
  <2> DEFINE Q == {q \in {"new", "exec", "blocked", "exit"} :
                           \/ q = "new" /\ p \in colaNew
                           \/ q = "exec" /\ p \in colaExec
                           \/ q = "blocked" /\ p \in colaBlocked
                           \/ q = "exit" /\ p \in colaExit}
  <2>1. p \in Pids
    <3>1. Cardinality(Consolas) \in Nat
      BY ConsolasAssumption, FS_CardinalityType
    <3> QED BY <1>1, <3>1 DEF Pids
  <2>2. Veces(p, colaReady) = IF p \in Listos THEN 1 ELSE 0
    BY <1>1, VecesEs DEF Listos
  <2>3. Cardinality(EnMano(p)) = IF p \in EnManos THEN 1 ELSE 0
    BY <1>1, <2>1, EnManoEs
  <2>4. Cardinality(Q) = IF p \in Listos \union EnManos THEN 0 ELSE 1
    <3>1. CASE p \in colaNew
      <4>1. Q = {"new"}
        BY <1>1, <3>1 DEF Reparto
      <4>2. p \notin Listos \union EnManos
        BY <1>1, <3>1 DEF Reparto
      <4> QED BY <4>1, <4>2, FS_Singleton
    <3>2. CASE p \in colaExec
      <4>1. Q = {"exec"}
        BY <1>1, <3>2 DEF Reparto
      <4>2. p \notin Listos \union EnManos
        BY <1>1, <3>2 DEF Reparto
      <4> QED BY <4>1, <4>2, FS_Singleton
    <3>3. CASE p \in colaBlocked
      <4>1. Q = {"blocked"}
        BY <1>1, <3>3 DEF Reparto
      <4>2. p \notin Listos \union EnManos
        BY <1>1, <3>3 DEF Reparto
      <4> QED BY <4>1, <4>2, FS_Singleton
    <3>4. CASE p \in colaExit
      <4>1. Q = {"exit"}
        BY <1>1, <3>4 DEF Reparto
      <4>2. p \notin Listos \union EnManos
        BY <1>1, <3>4 DEF Reparto
      <4> QED BY <4>1, <4>2, FS_Singleton
    <3>5. CASE p \in Listos \union EnManos
      <4>1. Q = {}
        BY <1>1, <3>5 DEF Reparto
      <4> QED BY <3>5, <4>1, FS_EmptySet
    <3> QED BY <1>1, <3>1, <3>2, <3>3, <3>4, <3>5 DEF Reparto
  <2>5. ~(p \in Listos /\ p \in EnManos)
    BY <1>1 DEF Reparto
  <2> HIDE DEF Q
  <2>6. Cardinality(Q) + Veces(p, colaReady) + Cardinality(EnMano(p)) = 1
    BY <2>2, <2>3, <2>4, <2>5
  <2> QED BY <2>6 DEF Q
<1>3. CadaPcbEnUnLugar
  BY <1>2 DEF CadaPcbEnUnLugar
<1>4. ListoTienePrograma
  BY <1>1 DEF ListoTienePrograma, Entradas, Listos, Traidos
<1>5. RelacionSinColgar
  <2>1. ASSUME NEW r \in EnSecuencia(relacion)
        PROVE  programas[r.pid] # "ninguno"
    <3>1. r.pid \in ConRelacion /\ r.pid \in Pids
      BY <1>1 DEF ConRelacion, Relaciones, EnCamino
    <3> QED BY <1>1, <3>1 DEF Entradas
  <2> QED BY <2>1 DEF RelacionSinColgar
<1> QED BY <1>3, <1>4, <1>5

\* Without WAIT nobody asks.
LEMMA SinWaitHayAcuerdo == TInv /\ "WAIT" \notin Instrucciones => Acuerdo
<1> SUFFICES ASSUME TInv, "WAIT" \notin Instrucciones, NEW c \in Cpus,
                    canal[c] # <<>>, Head(canal[c]).op = "WAIT"
             PROVE  FALSE
  BY DEF Acuerdo
<1>1. canal[c] \in Seq(MensajesDeCpu)
  BY DEF TInv, TiposDeCpus
<1>2. PICK m \in MensajesDeCpu : m = Head(canal[c])
  BY <1>1, ColaEs
<1>3. m.op = "WAIT"
  BY <1>2
<1>4. m.op \in Instrucciones \union {"HS", "TERMINO_MAL"}
  BY MensajesSon
<1> QED BY <1>3, <1>4
=============================================================================
