------------------------------ MODULE CpuProofs ------------------------------
(***************************************************************************)
(* The CPU, for every program, size of page and of stack.                  *)
(*                                                                         *)
(* 1. fetch_instruction delivers the text of the instruction.  The argument *)
(* is the invariant of its while: after each request either everything was *)
(* read, or the read ends at the end of a page (AlFinDePagina), so the next *)
(* page goes on where the last one stopped.                                *)
(*                                                                         *)
(* 2. deserializar undoes serializar, for every PCB whose counters fit in  *)
(* the char they are read through (SerializacionExacta).  The words of the *)
(* entries lie one after the other (Tramos), and the loop that reads them  *)
(* is where the one that wrote them was (Bucle).                           *)
(*                                                                         *)
(* 3. The interpreter keeps its stack in order: every definition took the  *)
(* cell at fin_stack, which then moved past it (PilaDefine), so those of   *)
(* the calls under way are before fin_stack and differ; a return takes     *)
(* entries away and a trip to the kernel changes nothing, by 2.            *)
(*                                                                         *)
(* 4. So it implements the language (AnsisopAbs), whose calls are seen here *)
(* as maps from names to addresses (Llamado, Marcos): a definition adds to *)
(* the last one the address at fin_stack (GanaValor), and what asignar and *)
(* retornar leave in memory is what the language puts there, at a variable *)
(* or at an address that was computed (EscribirPone, PaginaDePila).  RefInv *)
(* adds what the steps need: fin_stack counts the definitions, so the stack *)
(* is full exactly when they are as many as its cells (LlenoEs), and       *)
(* stack_overflow is of the line that runs.                                *)
(***************************************************************************)
EXTENDS Cpu, SequenceTheorems, FiniteSetTheorems, WellFoundedInduction, TLAPS

-----------------------------------------------------------------------------
(* The fetch *)

Pasos == {"nada", "primera", "resto", "completa", "nula"}

\* An entry of indice_codigo: it starts inside its page and is not empty.
EsPosicion(pos) ==
  /\ pos \in [pag : Nat, offset : Nat, size : Nat]
  /\ pos.offset < TamPag
  /\ pos.size > 0

\* The read ends at the end of the last page that was asked for.
AlFinDePagina == posicion.offset + leido = off_pag_actual * TamPag

Leidos == instruccion = [k \in 0 .. leido - 1 |-> Comienzo + k]

\* What holds after the first request.
TrasPedido ==
  /\ leido \in 1 .. posicion.size
  /\ off_pag_actual \in Nat
  /\ leido = posicion.size \/ AlFinDePagina
  /\ Leidos

FetchInv ==
  /\ paso_fetch \in Pasos
  /\ paso_fetch \in {"primera", "resto", "completa"} => EsPosicion(posicion)
  /\ paso_fetch = "primera" => leido = 0 /\ off_pag_actual = 0
  /\ paso_fetch \in {"resto", "completa"} => TrasPedido
  /\ paso_fetch = "completa" => leido = posicion.size

-----------------------------------------------------------------------------
\* Page and offset of a start give the start back.
LEMMA Division ==
  ASSUME NEW i \in Nat
  PROVE  /\ i \div TamPag \in Nat
         /\ i % TamPag \in Nat /\ i % TamPag < TamPag
         /\ (i \div TamPag) * TamPag + (i % TamPag) = i
BY TamPagAssumption

\* The entries of the metadata.
LEMMA EntradaDeMetadata ==
  ASSUME NEW n \in DOMAIN Instrucciones
  PROVE  /\ Instrucciones[n] \in [start : Nat, offset : Nat \ {0}]
         /\ Instrucciones[n].start \in Nat
         /\ Instrucciones[n].offset \in Nat /\ Instrucciones[n].offset > 0
<1>1. Instrucciones \in Seq([start : Nat, offset : Nat \ {0}])
  BY InstruccionesAssumption
<1>2. n \in 1 .. Len(Instrucciones)
  BY <1>1, LenProperties
<1>3. Instrucciones[n] \in [start : Nat, offset : Nat \ {0}]
  BY <1>1, <1>2, ElementOfSeq
<1> QED BY <1>3

\* The entries of the index are positions.
LEMMA IndiceDePosiciones ==
  ASSUME NEW n \in DOMAIN indice_codigo
  PROVE  EsPosicion(indice_codigo[n])
<1> DEFINE i == Instrucciones[n]
<1>1. n \in DOMAIN Instrucciones
  BY DEF indice_codigo
<1>3. indice_codigo[n] = [pag |-> i.start \div TamPag, offset |-> i.start % TamPag,
                          size |-> i.offset]
  BY <1>1 DEF indice_codigo, Posicion
<1>4. i.start \in Nat /\ i.offset \in Nat /\ i.offset > 0
  BY <1>1, EntradaDeMetadata
<1> HIDE DEF i
<1> QED BY <1>3, <1>4, Division DEF EsPosicion

-----------------------------------------------------------------------------
(* The requests *)

\* The first request ends with the instruction or with the page.
LEMMA PrimerPedido ==
  ASSUME EsPosicion(posicion), paso_fetch = "primera", leido = 0, off_pag_actual = 0
  PROVE  /\ Pedido.tamanioDatos \in 1 .. posicion.size
         /\ Pedido.offset \in Nat /\ Pedido.offset + Pedido.tamanioDatos <= TamPag
         /\ \/ Pedido.tamanioDatos = posicion.size
            \/ posicion.offset + Pedido.tamanioDatos = TamPag
         /\ \A k \in Int : Byte(Pedido, k) = Comienzo + k
<1>1. Pedido = [nroPagina |-> posicion.pag, offset |-> posicion.offset,
                tamanioDatos |-> MinFetch(posicion.size, TamPag - posicion.offset)]
  BY DEF Pedido
<1>2. /\ posicion.pag \in Nat /\ posicion.offset \in Nat /\ posicion.size \in Nat
      /\ posicion.offset < TamPag /\ posicion.size > 0
  BY DEF EsPosicion
<1>3. \A k \in Int : Byte(Pedido, k) = Comienzo + k
  BY <1>1 DEF Byte, Comienzo
<1> QED BY <1>1, <1>2, <1>3, TamPagAssumption DEF MinFetch

\* A request of the while starts at the page after the last one.
LEMMA OtroPedido ==
  ASSUME EsPosicion(posicion), TrasPedido, paso_fetch = "resto", leido < posicion.size
  PROVE  /\ Pedido.tamanioDatos \in 1 .. posicion.size - leido
         /\ Pedido.offset = 0 /\ Pedido.tamanioDatos <= TamPag
         /\ leido + Pedido.tamanioDatos = posicion.size \/ Pedido.tamanioDatos = TamPag
         /\ \A k \in Int : Byte(Pedido, k - leido) = Comienzo + k
<1>1. Pedido = [nroPagina |-> posicion.pag + off_pag_actual, offset |-> 0,
                tamanioDatos |-> MinFetch(posicion.size - leido, TamPag)]
  BY DEF Pedido
<1>2. /\ posicion.pag \in Nat /\ posicion.offset \in Nat /\ posicion.size \in Nat
      /\ leido \in 1 .. posicion.size /\ off_pag_actual \in Nat
      /\ posicion.offset + leido = off_pag_actual * TamPag
  BY DEF EsPosicion, TrasPedido, AlFinDePagina
<1>3. (posicion.pag + off_pag_actual) * TamPag
        = posicion.pag * TamPag + off_pag_actual * TamPag
  BY <1>2, TamPagAssumption
<1>4. ASSUME NEW k \in Int
      PROVE  Byte(Pedido, k - leido) = Comienzo + k
  <2>1. Byte(Pedido, k - leido)
          = (posicion.pag + off_pag_actual) * TamPag + 0 + (k - leido)
    BY <1>1 DEF Byte
  <2>2. posicion.pag * TamPag \in Int
    BY <1>2, TamPagAssumption
  <2> QED BY <1>2, <1>3, <2>1, <2>2 DEF Comienzo
<1> QED BY <1>1, <1>2, <1>4, TamPagAssumption DEF MinFetch

\* What Copiar appends is the next bytes of the text.
LEMMA CopiaLoQueSigue ==
  ASSUME Copiar, leido \in Nat, Pedido.tamanioDatos \in Nat \ {0},
         leido = 0 \/ Leidos,
         \A k \in Int : Byte(Pedido, k - leido) = Comienzo + k
  PROVE  /\ leido' = leido + Pedido.tamanioDatos
         /\ Leidos'
<1>1. /\ leido' = leido + Pedido.tamanioDatos
      /\ Comienzo' = Comienzo
      /\ instruccion' = [k \in 0 .. leido + Pedido.tamanioDatos - 1 |->
                           IF k < leido THEN instruccion[k]
                           ELSE Byte(Pedido, k - leido)]
  BY DEF Copiar, Comienzo
<1>2. ASSUME NEW k \in 0 .. leido + Pedido.tamanioDatos - 1
      PROVE  (IF k < leido THEN instruccion[k] ELSE Byte(Pedido, k - leido))
               = Comienzo + k
  <2>1. CASE k < leido
    BY <2>1 DEF Leidos
  <2>2. CASE ~(k < leido)
    BY <2>2
  <2> QED BY <2>1, <2>2
<1>3. instruccion' = [k \in 0 .. leido + Pedido.tamanioDatos - 1 |-> Comienzo + k]
  BY <1>1, <1>2
<1>4. leido + Pedido.tamanioDatos - 1 = leido' - 1
  BY <1>1
<1>5. instruccion' = [k \in 0 .. leido' - 1 |-> Comienzo' + k]
  BY <1>1, <1>3, <1>4
<1> QED BY <1>1, <1>5 DEF Leidos

-----------------------------------------------------------------------------
LEMMA InicioFetch == InitFetch => FetchInv
BY DEF InitFetch, FetchInv, Pasos

\* One step per action.
LEMMA PasoFetch == FetchInv /\ [NextFetch]_fetch => FetchInv'
<1> SUFFICES ASSUME FetchInv, [NextFetch]_fetch PROVE FetchInv'
  OBVIOUS
<1>1. CASE UNCHANGED fetch
  BY <1>1 DEF fetch, FetchInv, EsPosicion, TrasPedido, AlFinDePagina, Leidos, Comienzo
<1>2. ASSUME NEW n \in DOMAIN indice_codigo, EmpezarFetch(indice_codigo[n])
      PROVE  FetchInv'
  <2>1. /\ paso_fetch' = "primera" /\ leido' = 0 /\ off_pag_actual' = 0
        /\ EsPosicion(posicion')
    BY <1>2, IndiceDePosiciones DEF EmpezarFetch
  <2> QED BY <2>1 DEF FetchInv, Pasos, EsPosicion
<1>3. CASE PedirPrimera
  <2>1. /\ EsPosicion(posicion) /\ leido = 0 /\ off_pag_actual = 0
        /\ paso_fetch = "primera" /\ paso_fetch' = "resto"
        /\ Copiar
    BY <1>3 DEF FetchInv, PedirPrimera
  <2>2. /\ Pedido.tamanioDatos \in 1 .. posicion.size
        /\ \/ Pedido.tamanioDatos = posicion.size
           \/ posicion.offset + Pedido.tamanioDatos = TamPag
        /\ \A k \in Int : Byte(Pedido, k) = Comienzo + k
    BY <2>1, PrimerPedido
  <2>3. posicion.size \in Nat /\ posicion.offset \in Nat
    BY <2>1 DEF EsPosicion
  <2>4. \A k \in Int : k - leido = k
    BY <2>1
  <2>5. \A k \in Int : Byte(Pedido, k - leido) = Comienzo + k
    BY <2>2, <2>4
  <2>6. leido' = leido + Pedido.tamanioDatos /\ Leidos'
    BY <2>1, <2>2, <2>3, <2>5, CopiaLoQueSigue
  <2>7. posicion' = posicion /\ off_pag_actual' = 1
    BY <2>1 DEF Copiar
  <2>8. leido' = posicion'.size \/ AlFinDePagina'
    BY <2>1, <2>2, <2>3, <2>6, <2>7, TamPagAssumption DEF AlFinDePagina
  <2>9. leido' \in 1 .. posicion'.size
    BY <2>1, <2>2, <2>3, <2>6, <2>7
  <2>10. TrasPedido'
    BY <2>6, <2>7, <2>8, <2>9 DEF TrasPedido
  <2>11. EsPosicion(posicion')
    BY <2>1, <2>7
  <2> QED BY <2>1, <2>10, <2>11 DEF FetchInv, Pasos, EsPosicion
<1>4. CASE PedirResto
  <2>1. /\ EsPosicion(posicion) /\ TrasPedido
        /\ paso_fetch = "resto" /\ paso_fetch' = "resto"
        /\ leido < posicion.size
        /\ Copiar
    BY <1>4 DEF FetchInv, PedirResto
  <2>2. /\ Pedido.tamanioDatos \in 1 .. posicion.size - leido
        /\ leido + Pedido.tamanioDatos = posicion.size \/ Pedido.tamanioDatos = TamPag
        /\ \A k \in Int : Byte(Pedido, k - leido) = Comienzo + k
    BY <2>1, OtroPedido
  <2>3. /\ posicion.size \in Nat /\ posicion.offset \in Nat
        /\ leido \in 1 .. posicion.size /\ off_pag_actual \in Nat
        /\ posicion.offset + leido = off_pag_actual * TamPag
        /\ Leidos
    BY <2>1 DEF EsPosicion, TrasPedido, AlFinDePagina
  <2>4. leido' = leido + Pedido.tamanioDatos /\ Leidos'
    BY <2>1, <2>2, <2>3, CopiaLoQueSigue
  <2>5. posicion' = posicion /\ off_pag_actual' = off_pag_actual + 1
    BY <2>1 DEF Copiar
  <2>6. (off_pag_actual + 1) * TamPag = off_pag_actual * TamPag + TamPag
    BY <2>3, TamPagAssumption
  <2>7. leido' = posicion'.size \/ AlFinDePagina'
    BY <2>2, <2>3, <2>4, <2>5, <2>6, TamPagAssumption DEF AlFinDePagina
  <2>8. leido' \in 1 .. posicion'.size /\ off_pag_actual' \in Nat
    BY <2>2, <2>3, <2>4, <2>5
  <2>9. TrasPedido'
    BY <2>4, <2>7, <2>8 DEF TrasPedido
  <2>10. EsPosicion(posicion')
    BY <2>1, <2>5
  <2> QED BY <2>1, <2>9, <2>10 DEF FetchInv, Pasos, EsPosicion
<1>5. CASE PedidoNegado
  BY <1>5 DEF PedidoNegado, FetchInv, Pasos
<1>6. CASE Completar
  <2>1. /\ EsPosicion(posicion) /\ TrasPedido /\ leido >= posicion.size
        /\ paso_fetch' = "completa"
        /\ UNCHANGED <<posicion, leido, off_pag_actual, instruccion>>
    BY <1>6 DEF FetchInv, Completar
  <2>2. leido = posicion.size
    BY <2>1 DEF EsPosicion, TrasPedido
  <2>3. TrasPedido'
    BY <2>1 DEF TrasPedido, AlFinDePagina, Leidos, Comienzo
  <2> QED BY <2>1, <2>2, <2>3 DEF FetchInv, Pasos, EsPosicion
<1>7. CASE TerminarFetch
  BY <1>7 DEF TerminarFetch, FetchInv, Pasos
<1> QED BY <1>1, <1>2, <1>3, <1>4, <1>5, <1>6, <1>7 DEF NextFetch, PasoDeFetch

\* The invariant of the while.
THEOREM InvarianteFetch == SpecFetch => []FetchInv
BY InicioFetch, PasoFetch, PTL DEF SpecFetch

\* What the parser gets is the text of the instruction: fetch_instruction joins
\* the pieces of every page it crosses, whatever the size of a page.
THEOREM TextoExacto == SpecFetch => []InstruccionExacta
<1>1. FetchInv => InstruccionExacta
  BY DEF FetchInv, TrasPedido, Leidos, InstruccionExacta
<1> QED BY <1>1, InvarianteFetch, PTL

\* No request of fetch_instruction leaves its page, asks for nothing, or reads
\* more than the buffer it allocated: the UMC does not check any of them.
THEOREM PedidosAcotados == SpecFetch => []PedidosEnSuPagina
<1>1. FetchInv => PedidosEnSuPagina
  <2> SUFFICES ASSUME FetchInv, QuedaPorPedir PROVE PedidosEnSuPagina!2
    BY DEF PedidosEnSuPagina
  <2>1. CASE paso_fetch = "primera"
    <3>1. EsPosicion(posicion) /\ leido = 0 /\ off_pag_actual = 0
      BY <2>1 DEF FetchInv
    <3>2. posicion.size \in Nat
      BY <3>1 DEF EsPosicion
    <3> QED BY <2>1, <3>1, <3>2, PrimerPedido
  <2>2. CASE paso_fetch = "resto" /\ leido < posicion.size
    <3>1. EsPosicion(posicion) /\ TrasPedido
      BY <2>2 DEF FetchInv
    <3>2. posicion.size \in Nat /\ leido \in Nat
      BY <3>1 DEF EsPosicion, TrasPedido
    <3> QED BY <2>2, <3>1, <3>2, OtroPedido, TamPagAssumption
  <2> QED BY <2>1, <2>2 DEF QuedaPorPedir
<1> QED BY <1>1, InvarianteFetch, PTL

\* The instruction of the index is the instruction of the metadata: dividing
\* its start into page and offset and putting them together again
\* (armar_nuevo_pcb, fetch_instruction) loses nothing.
THEOREM ComienzoExacto ==
  ASSUME NEW n \in DOMAIN Instrucciones
  PROVE  indice_codigo[n].pag * TamPag + indice_codigo[n].offset
           = Instrucciones[n].start
<1>1. Instrucciones[n].start \in Nat
  BY EntradaDeMetadata
<1>2. /\ indice_codigo[n].pag = Instrucciones[n].start \div TamPag
      /\ indice_codigo[n].offset = Instrucciones[n].start % TamPag
  BY DEF indice_codigo, Posicion
<1> QED BY <1>1, <1>2, Division

-----------------------------------------------------------------------------
(* The types of a PCB *)

Posiciones == [pag : Nat, offset : Nat, size : Nat]
VariablesDe == [id : Letras, posicionVar : Posiciones]
EntradasDe == [argumentos : Seq(Posiciones), variables : Seq(VariablesDe),
               pos_retorno : Nat, pos_var_retorno : Posiciones]
Pcbs == [pid : Nat, pc : Nat, cant_pags_totales : Nat, fin_stack : Posiciones,
         indice_codigo : Seq(Posiciones), indice_etiquetas : {"etiquetas"},
         indice_stack : Seq(EntradasDe)]
Palabras == Nat \union Posiciones \union VariablesDe \union {"etiquetas"}

\* The counters that are read back through a pointer to char fit in one.
EntradaChica(e) ==
  Len(e.argumentos) < 128 /\ Len(e.variables) < 128 /\ e.pos_retorno < 128
PcbChico(p) ==
  /\ p.pid < 128 /\ p.pc < 128 /\ p.cant_pags_totales < 128
  /\ Len(p.indice_codigo) < 128 /\ Len(p.indice_stack) < 128
  /\ \A n \in 1 .. Len(p.indice_stack) : EntradaChica(p.indice_stack[n])

-----------------------------------------------------------------------------
(* Sequences *)

LEMMA Induccion ==
  ASSUME NEW S \in SUBSET Nat, 0 \in S, \A i \in S : i + 1 \in S
  PROVE  \A i \in Nat : i \in S
<1> SUFFICES ASSUME Nat \ S # {} PROVE FALSE
  OBVIOUS
<1> DEFINE T == {0 .. x : x \in Nat \ S}
<1>1. T \subseteq FiniteSubsetsOf(Nat) /\ T # {}
  <2>1. \A x \in Nat \ S : IsFiniteSet(0 .. x) /\ 0 .. x \in SUBSET Nat
    <3> TAKE x \in Nat \ S
    <3>1. IsFiniteSet(0 .. x)
      BY FS_Interval
    <3> QED BY <3>1
  <2> QED BY <2>1, Zenon DEF FiniteSubsetsOf
<1>2. PICK U \in T : \A V \in T : ~(<<V, U>> \in StrictSubsetOrdering(Nat))
  BY <1>1, FS_StrictSubsetOrderingWellFounded, WFMin, Zenon
<1>3. PICK x \in Nat \ S : U = 0 .. x
  BY <1>2
<1>4. x - 1 \in Nat \ S /\ x - 1 < x
  BY <1>3
<1> DEFINE y == x - 1
<1>5. 0 .. y \in T /\ <<0 .. y, U>> \notin StrictSubsetOrdering(Nat)
  BY <1>2, <1>4
<1>6. (0 .. y) \subseteq (0 .. x) /\ 0 .. y # 0 .. x
  <2>1. x \in 0 .. x /\ x \notin 0 .. y
    BY <1>4
  <2>2. (0 .. y) \subseteq (0 .. x)
    BY <1>4
  <2> QED BY <2>1, <2>2, Zenon
<1>7. 0 .. y \in SUBSET Nat /\ 0 .. x \in SUBSET Nat
  BY <1>4
<1>8. <<0 .. y, 0 .. x>> \in StrictSubsetOrdering(Nat)
  BY <1>6, <1>7, Zenon DEF StrictSubsetOrdering
<1>9. <<0 .. y, 0 .. x>> \notin StrictSubsetOrdering(Nat)
  BY <1>3, <1>5
<1> QED BY <1>8, <1>9

LEMMA CharFiel == \A n \in Nat : n < 128 => Char(n) = n
BY DEF Char

\* A sequence after another, as far as the proofs look into it.
Junto(a, b) == a \o b
EsJunto(c, a, b) == /\ Len(c) = Len(a) + Len(b) /\ Len(a) \in Nat /\ Len(b) \in Nat
                    /\ \A j \in 1 .. Len(a) : c[j] = a[j]
                    /\ \A j \in 1 .. Len(b) : c[Len(a) + j] = b[j]

LEMMA JuntoEs ==
  ASSUME NEW S, NEW a \in Seq(S), NEW b \in Seq(S)
  PROVE  Junto(a, b) \in Seq(S) /\ EsJunto(Junto(a, b), a, b)
<1>1. Len(a) \in Nat /\ Len(b) \in Nat
  BY LenProperties
<1>2. /\ a \o b \in Seq(S) /\ Len(a \o b) = Len(a) + Len(b)
      /\ \A j \in 1 .. Len(a) + Len(b) :
           (a \o b)[j] = IF j <= Len(a) THEN a[j] ELSE b[j - Len(a)]
  BY ConcatProperties
<1>3. PICK c : c = a \o b
  OBVIOUS
<1>4. PICK k \in Nat, l \in Nat : k = Len(a) /\ l = Len(b)
  BY <1>1
<1>5. \A j \in 1 .. k : c[j] = a[j]
  BY <1>2, <1>3, <1>4
<1>6. \A j \in 1 .. l : c[k + j] = b[j]
  <2> TAKE j \in 1 .. l
  <2>1. k + j \in 1 .. k + l /\ ~(k + j <= k) /\ (k + j) - k = j
    OBVIOUS
  <2> QED BY <1>2, <1>3, <1>4, <2>1
<1> QED BY <1>1, <1>2, <1>3, <1>4, <1>5, <1>6 DEF Junto, EsJunto

\* f[n] is what the first n sequences of ss give, one after the other.
Juntas(S, ss, f, m) ==
  /\ f \in [0 .. m -> Seq(S)] /\ f[0] = <<>>
  /\ \A n \in 1 .. m : f[n] = Junto(f[n - 1], ss[n])

LEMMA HayJuntas ==
  ASSUME NEW S, NEW ss \in Seq(Seq(S))
  PROVE  \E f : Juntas(S, ss, f, Len(ss))
<1>1. PICK L \in Nat : L = Len(ss)
  BY LenProperties
<1>2. \A n \in 1 .. L : ss[n] \in Seq(S)
  BY <1>1, LenProperties, ElementOfSeq
<1> DEFINE M == {m \in Nat : m <= L => \E f : Juntas(S, ss, f, m)}
<1>3. 0 \in M
  <2>1. <<>> \in Seq(S)
    BY EmptySeq
  <2>2. Juntas(S, ss, [n \in 0 .. 0 |-> <<>>], 0)
    BY <2>1 DEF Juntas
  <2> QED BY <2>2
<1>4. ASSUME NEW m \in M
      PROVE  m + 1 \in M
  <2>1. m \in Nat /\ (m <= L => \E f : Juntas(S, ss, f, m))
    OBVIOUS
  <2>2. ASSUME m + 1 <= L
        PROVE  \E f : Juntas(S, ss, f, m + 1)
    <3>1. PICK f : Juntas(S, ss, f, m)
      BY <2>1, <2>2
    <3> DEFINE h == [n \in 0 .. m + 1 |-> IF n <= m THEN f[n] ELSE Junto(f[m], ss[m + 1])]
    <3>2. /\ f \in [0 .. m -> Seq(S)] /\ f[0] = <<>>
          /\ \A n \in 1 .. m : f[n] = Junto(f[n - 1], ss[n])
      BY <3>1 DEF Juntas
    <3>3. Junto(f[m], ss[m + 1]) \in Seq(S)
      <4>1. f[m] \in Seq(S) /\ ss[m + 1] \in Seq(S)
        BY <1>2, <2>1, <2>2, <3>2
      <4> QED BY <4>1, JuntoEs, Zenon
    <3>4. h \in [0 .. m + 1 -> Seq(S)] /\ h[0] = <<>>
      BY <2>1, <3>2, <3>3
    <3>5. ASSUME NEW n \in 1 .. m + 1
          PROVE  h[n] = Junto(h[n - 1], ss[n])
      <4>1. CASE n <= m
        <5>1. h[n] = f[n] /\ h[n - 1] = f[n - 1] /\ n \in 1 .. m
          BY <2>1, <4>1
        <5> QED BY <3>2, <5>1
      <4>2. CASE n = m + 1
        <5>1. h[n] = Junto(f[m], ss[m + 1]) /\ h[n - 1] = f[m]
          BY <2>1, <4>2
        <5> QED BY <4>2, <5>1
      <4> QED BY <2>1, <4>1, <4>2
    <3> HIDE DEF h
    <3>6. Juntas(S, ss, h, m + 1)
      BY <3>4, <3>5 DEF Juntas
    <3> QED BY <3>6
  <2> QED BY <2>1, <2>2
<1>5. \A m \in Nat : m \in M
  <2>1. M \in SUBSET Nat
    OBVIOUS
  <2> HIDE DEF M
  <2> QED BY <1>3, <1>4, <2>1, Induccion
<1>6. \E f : Juntas(S, ss, f, L)
  BY <1>1, <1>5
<1> QED BY <1>1, <1>6

\* FlattenSeq gives the last of them.
LEMMA Aplanar ==
  ASSUME NEW S, NEW ss \in Seq(Seq(S)), NEW f, Juntas(S, ss, f, Len(ss))
  PROVE  FlattenSeq(ss) = f[Len(ss)]
<1> DEFINE Es(g, n) == g = [i \in 1 .. n |-> IF i = 1 THEN ss[i] ELSE Junto(g[i - 1], ss[i])]
<1>1. PICK L \in Nat : L = Len(ss)
  BY LenProperties
<1>2. /\ f[0] = <<>> /\ \A n \in 1 .. L : f[n] = Junto(f[n - 1], ss[n])
      /\ \A n \in 1 .. L : ss[n] \in Seq(S)
  BY <1>1, LenProperties, ElementOfSeq DEF Juntas
<1>3. CASE L = 0
  <2>1. ss = <<>> /\ FlattenSeq(ss) = ss
    BY <1>1, <1>3, EmptySeq DEF FlattenSeq
  <2> QED BY <1>1, <1>2, <1>3, <2>1
<1>4. CASE L # 0
  <2>1. f[1] = ss[1]
    <3>1. ss[1] \in Seq(S) /\ f[1] = Junto(<<>>, ss[1])
      BY <1>2, <1>4
    <3>2. <<>> \o ss[1] = ss[1]
      BY <3>1, ConcatEmptySeq
    <3> QED BY <3>1, <3>2 DEF Junto
  <2>2. \E g : Es(g, L)
    <3> DEFINE g == [i \in 1 .. L |-> f[i]]
    <3>1. ASSUME NEW i \in 1 .. L
          PROVE  g[i] = IF i = 1 THEN ss[i] ELSE Junto(g[i - 1], ss[i])
      <4>1. CASE i = 1
        BY <2>1, <4>1
      <4>2. CASE i # 1
        <5>1. i - 1 \in 1 .. L /\ f[i] = Junto(f[i - 1], ss[i])
          BY <1>2, <4>2
        <5> QED BY <4>2, <5>1
      <4> QED BY <4>1, <4>2
    <3>2. Es(g, L)
      BY <3>1
    <3> QED BY <3>2
  <2>3. PICK g : g = CHOOSE x : Es(x, L)
    OBVIOUS
  <2>4. Es(g, L)
    BY <2>2, <2>3
  <2>5. FlattenSeq(ss) = g[L]
    BY <1>1, <1>4, <2>3 DEF FlattenSeq, Junto
  <2> DEFINE I == {i \in Nat : i \in 1 .. L => g[i] = f[i]}
  <2>6. 0 \in I
    OBVIOUS
  <2>7. ASSUME NEW i \in I
        PROVE  i + 1 \in I
    <3>1. i \in Nat /\ (i \in 1 .. L => g[i] = f[i])
      OBVIOUS
    <3>2. ASSUME i + 1 \in 1 .. L
          PROVE  g[i + 1] = f[i + 1]
      <4>1. f[i + 1] = Junto(f[i], ss[i + 1])
        BY <1>2, <3>1, <3>2
      <4>2. g[i + 1] = IF i + 1 = 1 THEN ss[i + 1] ELSE Junto(g[i], ss[i + 1])
        BY <2>4, <3>1, <3>2
      <4>3. CASE i = 0
        BY <2>1, <4>2, <4>3
      <4>4. CASE i # 0
        <5>1. i \in 1 .. L /\ i + 1 # 1
          BY <3>1, <3>2, <4>4
        <5> QED BY <3>1, <4>1, <4>2, <5>1
      <4> QED BY <4>3, <4>4
    <3> QED BY <3>1, <3>2
  <2>8. g[L] = f[L]
    <3>1. I \in SUBSET Nat
      OBVIOUS
    <3>2. L \in I
      <4> HIDE DEF I
      <4> QED BY <2>6, <2>7, <3>1, Induccion
    <3> QED BY <1>4, <3>2
  <2> QED BY <1>1, <2>5, <2>8
<1> QED BY <1>3, <1>4

\* Each of them lies in the whole where those before it end.
EsTramo(S, ss, f, n) ==
  /\ f[n - 1] \in Seq(S) /\ f[n] \in Seq(S) /\ f[Len(ss)] \in Seq(S) /\ ss[n] \in Seq(S)
  /\ Len(f[n]) = Len(f[n - 1]) + Len(ss[n]) /\ Len(f[n]) <= Len(f[Len(ss)])
  /\ \A j \in 1 .. Len(ss[n]) : f[Len(ss)][Len(f[n - 1]) + j] = ss[n][j]

LEMMA Tramos ==
  ASSUME NEW S, NEW ss \in Seq(Seq(S)), NEW f, Juntas(S, ss, f, Len(ss)),
         NEW n \in 1 .. Len(ss)
  PROVE  EsTramo(S, ss, f, n)
<1>1. PICK L \in Nat : L = Len(ss)
  BY LenProperties
<1>2. \A m \in 1 .. L : /\ ss[m] \in Seq(S) /\ f[m - 1] \in Seq(S) /\ f[m] \in Seq(S)
                        /\ f[m] = Junto(f[m - 1], ss[m])
  <2>1. \A m \in 1 .. L : ss[m] \in Seq(S)
    BY <1>1, LenProperties, ElementOfSeq
  <2>2. f \in [0 .. L -> Seq(S)] /\ \A m \in 1 .. L : f[m] = Junto(f[m - 1], ss[m])
    BY <1>1 DEF Juntas
  <2>3. \A m \in 1 .. L : m - 1 \in 0 .. L /\ m \in 0 .. L
    OBVIOUS
  <2>4. \A m \in 1 .. L : f[m - 1] \in Seq(S) /\ f[m] \in Seq(S)
    BY <2>2, <2>3
  <2> QED BY <2>1, <2>2, <2>4
<1>3. ASSUME NEW m \in 1 .. L
      PROVE  /\ Len(f[m]) = Len(f[m - 1]) + Len(ss[m])
             /\ Len(f[m - 1]) \in Nat /\ Len(ss[m]) \in Nat
             /\ \A j \in 1 .. Len(f[m - 1]) : f[m][j] = f[m - 1][j]
             /\ \A j \in 1 .. Len(ss[m]) : f[m][Len(f[m - 1]) + j] = ss[m][j]
  <2>1. PICK a \in Seq(S), b \in Seq(S) : a = f[m - 1] /\ b = ss[m] /\ f[m] = Junto(a, b)
    BY <1>2
  <2>2. EsJunto(Junto(a, b), a, b)
    BY <2>1, JuntoEs, Zenon
  <2> QED BY <2>1, <2>2 DEF EsJunto
<1> DEFINE I == {i \in Nat : n + i <= L => /\ Len(f[n]) <= Len(f[n + i])
                                           /\ \A j \in 1 .. Len(f[n]) : f[n + i][j] = f[n][j]}
<1>4. n \in 1 .. L /\ Len(f[n]) \in Nat
  BY <1>1, <1>3
<1>5. 0 \in I
  BY <1>4
<1>6. ASSUME NEW i \in I
      PROVE  i + 1 \in I
  <2>1. /\ i \in Nat
        /\ n + i <= L => /\ Len(f[n]) <= Len(f[n + i])
                         /\ \A j \in 1 .. Len(f[n]) : f[n + i][j] = f[n][j]
    OBVIOUS
  <2>2. ASSUME n + (i + 1) <= L
        PROVE  /\ Len(f[n]) <= Len(f[n + (i + 1)])
               /\ \A j \in 1 .. Len(f[n]) : f[n + (i + 1)][j] = f[n][j]
    <3>1. PICK m \in 1 .. L : m = n + (i + 1) /\ m - 1 = n + i /\ n + i <= L
      BY <1>4, <2>1, <2>2
    <3>2. /\ Len(f[m]) = Len(f[m - 1]) + Len(ss[m])
          /\ Len(f[m - 1]) \in Nat /\ Len(ss[m]) \in Nat
          /\ \A j \in 1 .. Len(f[m - 1]) : f[m][j] = f[m - 1][j]
      BY <1>3
    <3>3. Len(f[n]) <= Len(f[m - 1]) /\ \A j \in 1 .. Len(f[n]) : f[m - 1][j] = f[n][j]
      BY <2>1, <3>1
    <3>4. PICK a \in Nat, b \in Nat, c \in Nat :
                 a = Len(f[n]) /\ b = Len(f[m - 1]) /\ c = Len(ss[m])
      BY <1>4, <3>2
    <3>5. Len(f[m]) = b + c /\ a <= b
      BY <3>2, <3>3, <3>4
    <3>6. \A j \in 1 .. a : j \in 1 .. b
      BY <3>5
    <3>7. \A j \in 1 .. a : f[m][j] = f[n][j]
      BY <3>2, <3>3, <3>4, <3>6
    <3>8. a <= b + c
      BY <3>5
    <3> QED BY <3>1, <3>4, <3>5, <3>7, <3>8
  <2> QED BY <2>1, <2>2
<1>7. Len(f[n]) <= Len(f[L]) /\ \A j \in 1 .. Len(f[n]) : f[L][j] = f[n][j]
  <2>1. PICK d \in Nat : n + d = L
    <3>1. L - n \in Nat /\ n + (L - n) = L
      BY <1>4
    <3> QED BY <3>1
  <2>2. I \in SUBSET Nat
    OBVIOUS
  <2>3. d \in I
    <3> HIDE DEF I
    <3> QED BY <1>5, <1>6, <2>2, Induccion
  <2> QED BY <2>1, <2>3
<1>8. ASSUME NEW j \in 1 .. Len(ss[n])
      PROVE  f[L][Len(f[n - 1]) + j] = ss[n][j]
  <2>1. /\ Len(f[n]) = Len(f[n - 1]) + Len(ss[n])
        /\ Len(f[n - 1]) \in Nat /\ Len(ss[n]) \in Nat
        /\ f[n][Len(f[n - 1]) + j] = ss[n][j]
    BY <1>3, <1>4
  <2>2. Len(f[n - 1]) + j \in 1 .. Len(f[n])
    <3>1. PICK a \in Nat, b \in Nat : a = Len(f[n - 1]) /\ b = Len(ss[n])
      BY <2>1
    <3>2. j \in 1 .. b
      BY <3>1
    <3>3. a + j \in 1 .. a + b
      BY <3>2
    <3> QED BY <2>1, <3>1, <3>3
  <2> QED BY <1>7, <2>1, <2>2
<1>9. f[L] \in Seq(S)
  BY <1>2, <1>4
<1> QED BY <1>1, <1>2, <1>3, <1>4, <1>7, <1>8, <1>9 DEF EsTramo

-----------------------------------------------------------------------------
(* An entry of the stack index on the wire *)

LEMMA SonPalabras ==
  /\ \A s \in Seq(Posiciones) : s \in Seq(Palabras)
  /\ \A s \in Seq(VariablesDe) : s \in Seq(Palabras)
<1>1. Posiciones \subseteq Palabras /\ VariablesDe \subseteq Palabras
  BY DEF Palabras
<1> QED BY <1>1, SeqMonotonic

\* The words of an entry: two, the arguments, one, the variables, two.
EnPalabras(x, e) ==
  LET A == Len(e.argumentos)
      V == Len(e.variables)
  IN  /\ x \in Seq(Palabras) /\ Len(x) = A + V + 5 /\ x[2] = A
      /\ \A j \in 1 .. A : x[2 + j] = e.argumentos[j]
      /\ x[3 + A] = V
      /\ \A j \in 1 .. V : x[3 + A + j] = e.variables[j]
      /\ x[A + V + 4] = e.pos_retorno /\ x[A + V + 5] = e.pos_var_retorno

LEMMA Entradas ==
  ASSUME NEW e \in EntradasDe
  PROVE  EnPalabras(SerializarEntrada(e), e)
<1>1. /\ e.argumentos \in Seq(Posiciones) /\ e.variables \in Seq(VariablesDe)
      /\ e.pos_retorno \in Nat /\ e.pos_var_retorno \in Posiciones
  BY DEF EntradasDe
<1>2. PICK A \in Nat, V \in Nat : A = Len(e.argumentos) /\ V = Len(e.variables)
  BY <1>1, LenProperties
<1> DEFINE a == <<0, A>>
           b == e.argumentos
           c == <<V>>
           d == e.variables
           f == <<e.pos_retorno, e.pos_var_retorno>>
           ab == Junto(a, b)
           abc == Junto(ab, c)
           abcd == Junto(abc, d)
           x == Junto(abcd, f)
<1>3. a \in Seq(Palabras) /\ c \in Seq(Palabras) /\ f \in Seq(Palabras)
  <2>1. 0 \in Palabras /\ A \in Palabras /\ V \in Palabras
        /\ e.pos_retorno \in Palabras /\ e.pos_var_retorno \in Palabras
    BY <1>1, <1>2 DEF Palabras
  <2> HIDE DEF Palabras
  <2> QED BY <2>1
<1>4. /\ Len(a) = 2 /\ a[2] = A /\ Len(c) = 1 /\ c[1] = V
      /\ Len(f) = 2 /\ f[1] = e.pos_retorno /\ f[2] = e.pos_var_retorno
  OBVIOUS
<1>5. b \in Seq(Palabras) /\ d \in Seq(Palabras)
  BY <1>1, SonPalabras
<1>6. SerializarEntrada(e) = x
  BY <1>2 DEF SerializarEntrada, Junto
<1> HIDE DEF a, c, f
<1>7. ab \in Seq(Palabras) /\ EsJunto(ab, a, b)
  BY <1>3, <1>5, JuntoEs, Zenon
<1> HIDE DEF ab
<1>8. abc \in Seq(Palabras) /\ EsJunto(abc, ab, c)
  BY <1>3, <1>7, JuntoEs, Zenon
<1> HIDE DEF abc
<1>9. abcd \in Seq(Palabras) /\ EsJunto(abcd, abc, d)
  BY <1>5, <1>8, JuntoEs, Zenon
<1> HIDE DEF abcd
<1>10. x \in Seq(Palabras) /\ EsJunto(x, abcd, f)
  BY <1>3, <1>9, JuntoEs, Zenon
<1> HIDE DEF x
<1>11. Len(b) = A /\ Len(d) = V
  BY <1>2
<1> HIDE DEF b, d
<1>12. /\ Len(ab) = 2 + A /\ Len(abc) = 3 + A /\ Len(abcd) = 3 + A + V /\ Len(x) = A + V + 5
  BY <1>4, <1>7, <1>8, <1>9, <1>10, <1>11 DEF EsJunto
<1>13. ab[2] = A /\ \A j \in 1 .. A : ab[2 + j] = b[j]
  BY <1>4, <1>7, <1>11 DEF EsJunto
<1>14. abc[2] = A /\ (\A j \in 1 .. A : abc[2 + j] = b[j]) /\ abc[3 + A] = V
  <2>1. \A j \in 1 .. 2 + A : abc[j] = ab[j]
    BY <1>8, <1>12 DEF EsJunto
  <2>2. abc[(2 + A) + 1] = c[1]
    BY <1>4, <1>8, <1>12 DEF EsJunto
  <2>3. \A j \in 1 .. A : 2 + j \in 1 .. 2 + A
    OBVIOUS
  <2> QED BY <1>4, <1>13, <2>1, <2>2, <2>3
<1>15. /\ abcd[2] = A /\ (\A j \in 1 .. A : abcd[2 + j] = b[j]) /\ abcd[3 + A] = V
       /\ \A j \in 1 .. V : abcd[3 + A + j] = d[j]
  <2>1. \A j \in 1 .. 3 + A : abcd[j] = abc[j]
    BY <1>9, <1>12 DEF EsJunto
  <2>2. \A j \in 1 .. V : abcd[3 + A + j] = d[j]
    BY <1>9, <1>11, <1>12 DEF EsJunto
  <2>3. \A j \in 1 .. A : 2 + j \in 1 .. 3 + A
    OBVIOUS
  <2> QED BY <1>14, <2>1, <2>2, <2>3
<1>16. /\ x[2] = A /\ (\A j \in 1 .. A : x[2 + j] = b[j]) /\ x[3 + A] = V
       /\ (\A j \in 1 .. V : x[3 + A + j] = d[j])
       /\ x[A + V + 4] = e.pos_retorno /\ x[A + V + 5] = e.pos_var_retorno
  <2>1. \A j \in 1 .. 3 + A + V : x[j] = abcd[j]
    BY <1>10, <1>12 DEF EsJunto
  <2>2. x[(3 + A + V) + 1] = f[1] /\ x[(3 + A + V) + 2] = f[2]
    BY <1>4, <1>10, <1>12 DEF EsJunto
  <2>3. /\ \A j \in 1 .. A : 2 + j \in 1 .. 3 + A + V
        /\ \A j \in 1 .. V : 3 + A + j \in 1 .. 3 + A + V
        /\ (3 + A + V) + 1 = A + V + 4 /\ (3 + A + V) + 2 = A + V + 5
    OBVIOUS
  <2> QED BY <1>4, <1>15, <2>1, <2>2, <2>3
<1> QED BY <1>2, <1>6, <1>10, <1>12, <1>16 DEF EnPalabras, b, d

\* An entry is read back wherever its words are.
LEMMA LeeEntrada ==
  ASSUME NEW e \in EntradasDe, EntradaChica(e), NEW x, EnPalabras(x, e),
         NEW s \in Seq(Palabras), NEW i \in Nat \ {0}, i - 1 + Len(x) <= Len(s),
         \A j \in 1 .. Len(x) : s[i - 1 + j] = x[j]
  PROVE  DeserializarEntrada(s, i) = [entrada |-> e, sigue |-> i + Len(x)]
<1>1. /\ e.argumentos \in Seq(Posiciones) /\ e.variables \in Seq(VariablesDe)
      /\ e.pos_retorno \in Nat /\ e.pos_var_retorno \in Posiciones
  BY DEF EntradasDe
<1>2. PICK A \in Nat, V \in Nat : A = Len(e.argumentos) /\ V = Len(e.variables)
  BY <1>1, LenProperties
<1>3. /\ Len(x) = A + V + 5 /\ x[2] = A /\ x[3 + A] = V
      /\ \A j \in 1 .. A : x[2 + j] = e.argumentos[j]
      /\ \A j \in 1 .. V : x[3 + A + j] = e.variables[j]
      /\ x[A + V + 4] = e.pos_retorno /\ x[A + V + 5] = e.pos_var_retorno
  BY <1>2 DEF EnPalabras
<1>4. \A j \in 1 .. A + V + 5 : s[i - 1 + j] = x[j]
  BY <1>3
<1>5. Char(A) = A /\ Char(V) = V /\ Char(e.pos_retorno) = e.pos_retorno
  BY <1>1, <1>2, CharFiel DEF EntradaChica
<1>6. s[i + 1] = A /\ s[i + 2 + A] = V
  <2>1. s[i - 1 + 2] = x[2] /\ s[i - 1 + (3 + A)] = x[3 + A]
    <3>1. 2 \in 1 .. A + V + 5 /\ 3 + A \in 1 .. A + V + 5
      OBVIOUS
    <3> QED BY <1>4, <3>1, Zenon
  <2>2. i - 1 + 2 = i + 1 /\ i - 1 + (3 + A) = i + 2 + A
    OBVIOUS
  <2> QED BY <1>3, <2>1, <2>2
<1>7. PICK fin \in Nat : fin = i + 3 + A + V
  OBVIOUS
<1>8. s[fin] = e.pos_retorno /\ s[fin + 1] = e.pos_var_retorno
  <2>3. A + V + 4 \in 1 .. A + V + 5 /\ A + V + 5 \in 1 .. A + V + 5
    OBVIOUS
  <2>1. s[i - 1 + (A + V + 4)] = x[A + V + 4] /\ s[i - 1 + (A + V + 5)] = x[A + V + 5]
    BY <1>4, <2>3, Zenon
  <2>2. i - 1 + (A + V + 4) = fin /\ i - 1 + (A + V + 5) = fin + 1
    BY <1>7
  <2> QED BY <1>3, <2>1, <2>2
<1>9. PICK n \in Nat : n = Len(s)
  BY LenProperties
<1>10. i + A + V + 4 <= n
  BY <1>3, <1>9
<1>11. SubSeq(s, i + 2, i + 1 + A) = e.argumentos
  <2> DEFINE u == SubSeq(s, i + 2, i + 1 + A)
  <2>1. u \in Seq(Palabras) /\ Len(u) = A /\ \A j \in 1 .. A : u[j] = s[i + 2 + j - 1]
    <3>1. i + 2 \in 1 .. n + 1 /\ i + 1 + A \in i + 2 - 1 .. n /\ i + 1 + A - (i + 2) + 1 = A
      BY <1>10
    <3> QED BY <1>9, <3>1, SubSeqProperties
  <2> HIDE DEF u
  <2>2. \A j \in 1 .. A : u[j] = e.argumentos[j]
    <3> TAKE j \in 1 .. A
    <3>1. 2 + j \in 1 .. A + V + 5 /\ i - 1 + (2 + j) = i + 2 + j - 1
      OBVIOUS
    <3> QED BY <1>3, <1>4, <2>1, <3>1
  <2>3. e.argumentos \in Seq(Palabras)
    BY <1>1, SonPalabras
  <2>4. u = e.argumentos
    BY <1>2, <2>1, <2>2, <2>3, SeqEqual
  <2> QED BY <2>4 DEF u
<1>12. SubSeq(s, i + 3 + A, fin - 1) = e.variables
  <2> DEFINE u == SubSeq(s, i + 3 + A, fin - 1)
  <2>1. u \in Seq(Palabras) /\ Len(u) = V /\ \A j \in 1 .. V : u[j] = s[i + 3 + A + j - 1]
    <3>1. i + 3 + A \in 1 .. n + 1 /\ fin - 1 \in i + 3 + A - 1 .. n
          /\ fin - 1 - (i + 3 + A) + 1 = V
      BY <1>7, <1>10
    <3> QED BY <1>9, <3>1, SubSeqProperties
  <2> HIDE DEF u
  <2>2. \A j \in 1 .. V : u[j] = e.variables[j]
    <3> TAKE j \in 1 .. V
    <3>1. 3 + A + j \in 1 .. A + V + 5 /\ i - 1 + (3 + A + j) = i + 3 + A + j - 1
      OBVIOUS
    <3> QED BY <1>3, <1>4, <2>1, <3>1
  <2>3. e.variables \in Seq(Palabras)
    BY <1>1, SonPalabras
  <2>4. u = e.variables
    BY <1>2, <2>1, <2>2, <2>3, SeqEqual
  <2> QED BY <2>4 DEF u
<1>13. DeserializarEntrada(s, i)
       = [entrada |-> [argumentos |-> e.argumentos, variables |-> e.variables,
                       pos_retorno |-> e.pos_retorno, pos_var_retorno |-> e.pos_var_retorno],
          sigue |-> fin + 2]
  BY <1>5, <1>6, <1>7, <1>8, <1>11, <1>12 DEF DeserializarEntrada
<1>14. e = [argumentos |-> e.argumentos, variables |-> e.variables,
            pos_retorno |-> e.pos_retorno, pos_var_retorno |-> e.pos_var_retorno]
  BY DEF EntradasDe
<1>15. fin + 2 = i + Len(x)
  BY <1>3, <1>7
<1> QED BY <1>13, <1>14, <1>15

-----------------------------------------------------------------------------
(* The whole PCB *)

EntradasAlCable(p) == [n \in DOMAIN p.indice_stack |-> SerializarEntrada(p.indice_stack[n])]

\* The words of a PCB: five, the instructions, two, the entries.
TodoEnPalabras(s, p, F, C, K) ==
  /\ s = Serializar(p) /\ Len(s) = C + 7 + Len(F)
  /\ s[1] = p.pid /\ s[2] = p.pc /\ s[3] = p.cant_pags_totales
  /\ s[4] = p.fin_stack /\ s[5] = C
  /\ \A j \in 1 .. C : s[5 + j] = p.indice_codigo[j]
  /\ s[6 + C] = p.indice_etiquetas /\ s[7 + C] = K
  /\ \A j \in 1 .. Len(F) : s[7 + C + j] = F[j]

LEMMA PcbEnPalabras ==
  ASSUME NEW p \in Pcbs, NEW F \in Seq(Palabras), F = FlattenSeq(EntradasAlCable(p)),
         NEW C \in Nat, NEW K \in Nat, C = Len(p.indice_codigo), K = Len(p.indice_stack)
  PROVE  \E s \in Seq(Palabras) : TodoEnPalabras(s, p, F, C, K)
<1>1. /\ p.pid \in Nat /\ p.pc \in Nat /\ p.cant_pags_totales \in Nat
      /\ p.fin_stack \in Posiciones /\ p.indice_codigo \in Seq(Posiciones)
      /\ p.indice_etiquetas \in {"etiquetas"}
  BY DEF Pcbs
<1> DEFINE a == <<p.pid, p.pc, p.cant_pags_totales, p.fin_stack, C>>
           b == p.indice_codigo
           c == <<p.indice_etiquetas, K>>
           ab == Junto(a, b)
           abc == Junto(ab, c)
           s == Junto(abc, F)
<1>2. a \in Seq(Palabras) /\ c \in Seq(Palabras)
  <2>1. /\ p.pid \in Palabras /\ p.pc \in Palabras /\ p.cant_pags_totales \in Palabras
        /\ p.fin_stack \in Palabras /\ C \in Palabras /\ K \in Palabras
        /\ p.indice_etiquetas \in Palabras
    BY <1>1 DEF Palabras
  <2> HIDE DEF Palabras
  <2> QED BY <2>1
<1>3. /\ Len(a) = 5 /\ a[1] = p.pid /\ a[2] = p.pc /\ a[3] = p.cant_pags_totales
      /\ a[4] = p.fin_stack /\ a[5] = C
      /\ Len(c) = 2 /\ c[1] = p.indice_etiquetas /\ c[2] = K
  OBVIOUS
<1>4. b \in Seq(Palabras)
  BY <1>1, SonPalabras
<1>5. Serializar(p) = s
  BY DEF Serializar, Junto, EntradasAlCable
<1> HIDE DEF a, c
<1>6. ab \in Seq(Palabras) /\ EsJunto(ab, a, b)
  BY <1>2, <1>4, JuntoEs, Zenon
<1> HIDE DEF ab
<1>7. abc \in Seq(Palabras) /\ EsJunto(abc, ab, c)
  BY <1>2, <1>6, JuntoEs, Zenon
<1> HIDE DEF abc
<1>8. s \in Seq(Palabras) /\ EsJunto(s, abc, F)
  BY <1>7, JuntoEs, Zenon
<1> HIDE DEF s
<1>9. PICK k \in Nat : k = Len(F)
  BY LenProperties
<1>10. Len(b) = C
  OBVIOUS
<1> HIDE DEF b
<1>11. Len(ab) = 5 + C /\ Len(abc) = 7 + C /\ Len(s) = C + 7 + k
  BY <1>3, <1>6, <1>7, <1>8, <1>9, <1>10 DEF EsJunto
<1>12. (\A j \in 1 .. 5 : ab[j] = a[j]) /\ \A j \in 1 .. C : ab[5 + j] = b[j]
  BY <1>3, <1>6, <1>10 DEF EsJunto
<1>13. (\A j \in 1 .. 5 + C : abc[j] = ab[j]) /\ abc[6 + C] = c[1] /\ abc[7 + C] = c[2]
  <2>1. abc[(5 + C) + 1] = c[1] /\ abc[(5 + C) + 2] = c[2]
    BY <1>3, <1>7, <1>11 DEF EsJunto
  <2> QED BY <1>7, <1>11, <2>1 DEF EsJunto
<1>14. (\A j \in 1 .. 7 + C : s[j] = abc[j]) /\ \A j \in 1 .. k : s[7 + C + j] = F[j]
  BY <1>8, <1>9, <1>11 DEF EsJunto
<1>15. \A j \in 1 .. 5 : s[j] = a[j]
  <2>1. \A j \in 1 .. 5 : j \in 1 .. 7 + C /\ j \in 1 .. 5 + C
    OBVIOUS
  <2> QED BY <1>12, <1>13, <1>14, <2>1
<1>16. \A j \in 1 .. C : s[5 + j] = b[j]
  <2>1. \A j \in 1 .. C : 5 + j \in 1 .. 7 + C /\ 5 + j \in 1 .. 5 + C
    OBVIOUS
  <2> QED BY <1>12, <1>13, <1>14, <2>1
<1>17. s[6 + C] = c[1] /\ s[7 + C] = c[2]
  <2>1. 6 + C \in 1 .. 7 + C /\ 7 + C \in 1 .. 7 + C
    OBVIOUS
  <2> QED BY <1>13, <1>14, <2>1
<1>18. s[1] = p.pid /\ s[2] = p.pc /\ s[3] = p.cant_pags_totales /\ s[4] = p.fin_stack /\ s[5] = C
  BY <1>3, <1>15
<1>19. Serializar(p) = s /\ Len(s) = C + 7 + Len(F) /\ s[6 + C] = p.indice_etiquetas /\ s[7 + C] = K
  BY <1>3, <1>5, <1>9, <1>11, <1>17
<1>20. \A j \in 1 .. Len(F) : s[7 + C + j] = F[j]
  BY <1>9, <1>14
<1> QED BY <1>8, <1>16, <1>18, <1>19, <1>20 DEF b, TodoEnPalabras

\* The entries, each where the one before it ends.
SonEntradas(ss, st) ==
  \A n \in 1 .. Len(ss) : /\ st[n] \in EntradasDe /\ EntradaChica(st[n])
                          /\ EnPalabras(ss[n], st[n])
EstaEn(s, base, t) == /\ base + Len(t) <= Len(s)
                      /\ \A j \in 1 .. Len(t) : s[base + j] = t[j]

Sigue(s, base, f, e, n) ==
  DeserializarEntrada(s, base + 1 + Len(f[n - 1])) = [entrada |-> e, sigue |-> base + 1 + Len(f[n])]

LEMMA Sucesivas ==
  ASSUME NEW ss \in Seq(Seq(Palabras)), NEW f, Juntas(Palabras, ss, f, Len(ss)),
         NEW st, SonEntradas(ss, st),
         NEW s \in Seq(Palabras), NEW base \in Nat, EstaEn(s, base, f[Len(ss)]),
         NEW n \in 1 .. Len(ss)
  PROVE  Sigue(s, base, f, st[n], n)
<1>1. /\ f[n - 1] \in Seq(Palabras) /\ f[n] \in Seq(Palabras) /\ f[Len(ss)] \in Seq(Palabras)
      /\ ss[n] \in Seq(Palabras)
      /\ Len(f[n]) = Len(f[n - 1]) + Len(ss[n]) /\ Len(f[n]) <= Len(f[Len(ss)])
      /\ \A j \in 1 .. Len(ss[n]) : f[Len(ss)][Len(f[n - 1]) + j] = ss[n][j]
  <2>1. EsTramo(Palabras, ss, f, n)
    BY Tramos, Zenon
  <2> QED BY <2>1 DEF EsTramo
<1>2. PICK a \in Nat, b \in Nat, k \in Nat :
             a = Len(f[n - 1]) /\ b = Len(ss[n]) /\ k = Len(f[Len(ss)])
  BY <1>1, LenProperties
<1>3. Len(f[n]) = a + b /\ a + b <= k
  BY <1>1, <1>2
<1>4. PICK d \in Nat \ {0} : d = base + 1 + a
  <2>1. base + 1 + a \in Nat \ {0}
    OBVIOUS
  <2> QED BY <2>1
<1>5. ASSUME NEW j \in 1 .. b
      PROVE  s[d - 1 + j] = ss[n][j]
  <2>1. a + j \in 1 .. k /\ d - 1 + j = base + (a + j)
    BY <1>3, <1>4
  <2>2. s[base + (a + j)] = f[Len(ss)][a + j]
    BY <1>2, <2>1, Zenon DEF EstaEn
  <2> QED BY <1>1, <1>2, <2>1, <2>2
<1>6. d - 1 + Len(ss[n]) <= Len(s)
  <2>1. d - 1 + b = base + (a + b)
    BY <1>4
  <2>2. PICK w \in Nat : w = Len(s)
    BY LenProperties
  <2>3. base + k <= w
    BY <1>2, <2>2 DEF EstaEn
  <2>4. base + (a + b) <= w
    BY <1>3, <2>3
  <2> QED BY <1>2, <2>1, <2>2, <2>4
<1>7. DeserializarEntrada(s, d) = [entrada |-> st[n], sigue |-> d + Len(ss[n])]
  <2>1. st[n] \in EntradasDe /\ EntradaChica(st[n]) /\ EnPalabras(ss[n], st[n])
    BY DEF SonEntradas
  <2>2. \A j \in 1 .. Len(ss[n]) : s[d - 1 + j] = ss[n][j]
    BY <1>2, <1>5
  <2> QED BY <1>4, <1>6, <2>1, <2>2, LeeEntrada, Zenon
<1>8. d + Len(ss[n]) = base + 1 + Len(f[n])
  <2>1. d + b = base + 1 + (a + b)
    BY <1>4
  <2> QED BY <1>2, <1>3, <2>1
<1> QED BY <1>2, <1>4, <1>7, <1>8 DEF Sigue

\* The loop that reads them.
EsLectura(g, s, k, i) ==
  g = [n \in 1 .. k |-> DeserializarEntrada(s, IF n = 1 THEN i ELSE g[n - 1].sigue)]
Lectura(s, k, i) == CHOOSE g : EsLectura(g, s, k, i)

Encadenadas(s, k, o, st) ==
  \A n \in 1 .. k : DeserializarEntrada(s, o[n - 1]) = [entrada |-> st[n], sigue |-> o[n]]

Leida(s, k, o, st, n) == Lectura(s, k, o[0])[n] = [entrada |-> st[n], sigue |-> o[n]]

LEMMA Bucle ==
  ASSUME NEW s, NEW k \in Nat, NEW o, NEW st, Encadenadas(s, k, o, st), NEW n \in 1 .. k
  PROVE  Leida(s, k, o, st, n)
<1> DEFINE h == [j \in 1 .. k |-> [entrada |-> st[j], sigue |-> o[j]]]
<1>1. EsLectura(h, s, k, o[0])
  <2>1. ASSUME NEW m \in 1 .. k
        PROVE  h[m] = DeserializarEntrada(s, IF m = 1 THEN o[0] ELSE h[m - 1].sigue)
    <3>1. CASE m = 1
      BY <3>1 DEF Encadenadas
    <3>2. CASE m # 1
      <4>1. m - 1 \in 1 .. k /\ h[m - 1].sigue = o[m - 1]
        BY <3>2
      <4> QED BY <3>2, <4>1 DEF Encadenadas
    <3> QED BY <3>1, <3>2
  <2> QED BY <2>1 DEF EsLectura
<1> HIDE DEF h
<1>2. PICK g : g = Lectura(s, k, o[0])
  OBVIOUS
<1>3. EsLectura(g, s, k, o[0])
  BY <1>1, <1>2 DEF Lectura
<1> DEFINE I == {m \in Nat : m \in 1 .. k => g[m] = [entrada |-> st[m], sigue |-> o[m]]}
<1>4. 0 \in I
  OBVIOUS
<1>5. ASSUME NEW m \in I
      PROVE  m + 1 \in I
  <2>1. m \in Nat /\ (m \in 1 .. k => g[m] = [entrada |-> st[m], sigue |-> o[m]])
    OBVIOUS
  <2>2. ASSUME m + 1 \in 1 .. k
        PROVE  g[m + 1] = [entrada |-> st[m + 1], sigue |-> o[m + 1]]
    <3>1. (m + 1) - 1 = m
      BY <2>1
    <3>2. g[m + 1] = DeserializarEntrada(s, IF m + 1 = 1 THEN o[0] ELSE g[m].sigue)
      BY <1>3, <2>2, <3>1 DEF EsLectura
    <3>3. DeserializarEntrada(s, o[m]) = [entrada |-> st[m + 1], sigue |-> o[m + 1]]
      BY <2>2, <3>1 DEF Encadenadas
    <3>4. CASE m = 0
      BY <3>2, <3>3, <3>4
    <3>5. CASE m # 0
      <4>1. m \in 1 .. k /\ m + 1 # 1
        BY <2>1, <2>2, <3>5
      <4>2. g[m].sigue = o[m]
        BY <2>1, <4>1
      <4> QED BY <3>2, <3>3, <4>1, <4>2
    <3> QED BY <3>4, <3>5
  <2> QED BY <2>1, <2>2
<1>6. \A m \in Nat : m \in I
  <2>1. I \in SUBSET Nat
    OBVIOUS
  <2> HIDE DEF I
  <2> QED BY <1>4, <1>5, <2>1, Induccion
<1> QED BY <1>2, <1>6 DEF Leida

LEMMA DeserializarEs ==
  ASSUME NEW s
  PROVE  Deserializar(s)
         = [pid |-> Char(s[1]), pc |-> Char(s[2]), cant_pags_totales |-> Char(s[3]),
            fin_stack |-> s[4], indice_codigo |-> SubSeq(s, 6, (6 + Char(s[5])) - 1),
            indice_etiquetas |-> s[6 + Char(s[5])],
            indice_stack |-> [n \in 1 .. Char(s[(6 + Char(s[5])) + 1]) |->
                                Lectura(s, Char(s[(6 + Char(s[5])) + 1]), (6 + Char(s[5])) + 2)[n].entrada]]
BY DEF Deserializar, Lectura, EsLectura

LEMMA CodigoVuelve ==
  ASSUME NEW c \in Seq(Posiciones), NEW s \in Seq(Palabras), NEW C \in Nat, C = Len(c),
         C + 5 <= Len(s), \A j \in 1 .. C : s[5 + j] = c[j]
  PROVE  SubSeq(s, 6, 5 + C) = c
<1> DEFINE u == SubSeq(s, 6, 5 + C)
<1>1. u \in Seq(Palabras) /\ Len(u) = C /\ \A j \in 1 .. C : u[j] = s[6 + j - 1]
  <2>1. \A j \in 6 .. 5 + C : s[j] \in Palabras
    <3>1. PICK k \in Nat : k = Len(s)
      BY LenProperties
    <3>2. \A j \in 6 .. 5 + C : j \in 1 .. k
      BY <3>1
    <3> QED BY <3>1, <3>2, ElementOfSeq
  <2>2. /\ u \in Seq(Palabras) /\ Len(u) = IF 6 <= 5 + C THEN 5 + C - 6 + 1 ELSE 0
        /\ \A j \in 1 .. 5 + C - 6 + 1 : u[j] = s[6 + j - 1]
    BY <2>1, SubSeqProperties
  <2>3. 5 + C - 6 + 1 = C /\ (IF 6 <= 5 + C THEN 5 + C - 6 + 1 ELSE 0) = C
    OBVIOUS
  <2> QED BY <2>2, <2>3
<1> HIDE DEF u
<1>2. \A j \in 1 .. C : u[j] = c[j]
  <2> TAKE j \in 1 .. C
  <2>1. 6 + j - 1 = 5 + j
    OBVIOUS
  <2> QED BY <1>1, <2>1
<1>3. c \in Seq(Palabras)
  BY SonPalabras
<1>4. u = c
  BY <1>1, <1>2, <1>3, SeqEqual
<1> QED BY <1>4 DEF u

\* A PCB whose counters fit in a char comes back from the wire as it went
\* (serializar and deserializar of pcb.c), whatever its stack index holds.
THEOREM SerializacionExacta ==
  ASSUME NEW p \in Pcbs, PcbChico(p)
  PROVE  Viaje(p) = p
<1>1. /\ p.pid \in Nat /\ p.pc \in Nat /\ p.cant_pags_totales \in Nat
      /\ p.fin_stack \in Posiciones /\ p.indice_codigo \in Seq(Posiciones)
      /\ p.indice_etiquetas \in {"etiquetas"} /\ p.indice_stack \in Seq(EntradasDe)
      /\ p = [pid |-> p.pid, pc |-> p.pc, cant_pags_totales |-> p.cant_pags_totales,
              fin_stack |-> p.fin_stack, indice_codigo |-> p.indice_codigo,
              indice_etiquetas |-> p.indice_etiquetas, indice_stack |-> p.indice_stack]
  BY DEF Pcbs
<1>2. PICK C \in Nat, K \in Nat : C = Len(p.indice_codigo) /\ K = Len(p.indice_stack)
  BY <1>1, LenProperties
<1>3. PICK st : st = p.indice_stack
  OBVIOUS
<1>4. /\ DOMAIN st = 1 .. K /\ st = [n \in 1 .. K |-> st[n]]
      /\ \A n \in 1 .. K : st[n] \in EntradasDe /\ EntradaChica(st[n])
  BY <1>1, <1>2, <1>3, LenProperties, ElementOfSeq DEF PcbChico
<1>5. PICK ss : ss = EntradasAlCable(p)
  OBVIOUS
<1>6. ss = [n \in 1 .. K |-> SerializarEntrada(st[n])]
  BY <1>3, <1>4, <1>5 DEF EntradasAlCable
<1>7. \A n \in 1 .. K : EnPalabras(ss[n], st[n])
  BY <1>4, <1>6, Entradas
<1>8. ss \in Seq(Seq(Palabras)) /\ Len(ss) = K
  <2>1. \A n \in 1 .. K : ss[n] \in Seq(Palabras)
    BY <1>7 DEF EnPalabras
  <2>2. ss \in [1 .. K -> Seq(Palabras)]
    BY <1>6, <2>1
  <2> QED BY <1>2, <2>2
<1>9. PICK f : Juntas(Palabras, ss, f, Len(ss))
  BY <1>8, HayJuntas
<1>10. PICK F : F = f[Len(ss)] /\ F = FlattenSeq(ss)
  <2>1. FlattenSeq(ss) = f[Len(ss)]
    BY <1>8, <1>9, Aplanar, Zenon
  <2> QED BY <2>1
<1>11. F \in Seq(Palabras) /\ f[0] = <<>>
  <2>1. f \in [0 .. K -> Seq(Palabras)] /\ f[0] = <<>> /\ K \in 0 .. K
    BY <1>8, <1>9 DEF Juntas
  <2> QED BY <1>8, <1>10, <2>1
<1>12. PICK s \in Seq(Palabras) : TodoEnPalabras(s, p, F, C, K)
  <2>1. F = FlattenSeq(EntradasAlCable(p))
    BY <1>5, <1>10
  <2> QED BY <1>2, <1>11, <2>1, PcbEnPalabras, Zenon
<1>13. PICK k \in Nat : k = Len(F)
  BY <1>11, LenProperties
<1>14. /\ s = Serializar(p) /\ Len(s) = C + 7 + k
       /\ s[1] = p.pid /\ s[2] = p.pc /\ s[3] = p.cant_pags_totales
       /\ s[4] = p.fin_stack /\ s[5] = C
       /\ \A j \in 1 .. C : s[5 + j] = p.indice_codigo[j]
       /\ s[6 + C] = p.indice_etiquetas /\ s[7 + C] = K
       /\ \A j \in 1 .. k : s[7 + C + j] = F[j]
  BY <1>12, <1>13 DEF TodoEnPalabras
<1>15. /\ Char(p.pid) = p.pid /\ Char(p.pc) = p.pc
       /\ Char(p.cant_pags_totales) = p.cant_pags_totales /\ Char(C) = C /\ Char(K) = K
  BY <1>1, <1>2, CharFiel DEF PcbChico
<1>16. SubSeq(s, 6, 5 + C) = p.indice_codigo
  <2>1. C + 5 <= Len(s)
    BY <1>14
  <2>2. \A j \in 1 .. C : s[5 + j] = p.indice_codigo[j]
    BY <1>14, Zenon
  <2> QED BY <1>1, <1>2, <1>12, <2>1, <2>2, CodigoVuelve, Zenon
<1>17. PICK o : o = [n \in 0 .. K |-> (7 + C) + 1 + Len(f[n])]
  OBVIOUS
<1>18. Encadenadas(s, K, o, st)
  <2>1. PICK base \in Nat : base = 7 + C
    OBVIOUS
  <2>2. EstaEn(s, base, f[Len(ss)])
    BY <1>10, <1>13, <1>14, <2>1 DEF EstaEn
  <2>3. SonEntradas(ss, st)
    BY <1>4, <1>7, <1>8 DEF SonEntradas
  <2>4. ss \in Seq(Seq(Palabras)) /\ s \in Seq(Palabras)
    BY <1>8, <1>12
  <2>5. Juntas(Palabras, ss, f, Len(ss))
    BY <1>9
  <2>6. ASSUME NEW n \in 1 .. K
        PROVE  DeserializarEntrada(s, o[n - 1]) = [entrada |-> st[n], sigue |-> o[n]]
    <3>1. n \in 1 .. Len(ss)
      BY <1>8
    <3>2. Sigue(s, base, f, st[n], n)
      BY <2>1, <2>2, <2>3, <2>4, <2>5, <3>1, Sucesivas, Zenon
    <3>3. n - 1 \in 0 .. K /\ n \in 0 .. K
      OBVIOUS
    <3>4. o[n - 1] = base + 1 + Len(f[n - 1]) /\ o[n] = base + 1 + Len(f[n])
      BY <1>17, <2>1, <3>3
    <3> QED BY <3>2, <3>4 DEF Sigue
  <2> QED BY <2>6 DEF Encadenadas
<1>19. o[0] = 8 + C
  <2>1. Len(f[0]) = 0 /\ 0 \in 0 .. K
    BY <1>11, EmptySeq
  <2> QED BY <1>17, <2>1
<1>20. \A n \in 1 .. K : Lectura(s, K, 8 + C)[n].entrada = st[n]
  <2> TAKE n \in 1 .. K
  <2>1. Leida(s, K, o, st, n)
    BY <1>2, <1>18, Bucle, Zenon
  <2> QED BY <1>19, <2>1 DEF Leida
<1>21. Deserializar(s)
       = [pid |-> p.pid, pc |-> p.pc, cant_pags_totales |-> p.cant_pags_totales,
          fin_stack |-> p.fin_stack, indice_codigo |-> p.indice_codigo,
          indice_etiquetas |-> p.indice_etiquetas,
          indice_stack |-> [n \in 1 .. K |-> Lectura(s, K, 8 + C)[n].entrada]]
  <2>1. (6 + C) - 1 = 5 + C /\ (6 + C) + 1 = 7 + C /\ (6 + C) + 2 = 8 + C
    OBVIOUS
  <2>2. Char(s[5]) = C /\ Char(s[(6 + C) + 1]) = K
    BY <1>14, <1>15, <2>1
  <2> QED BY <1>14, <1>15, <1>16, <2>1, <2>2, DeserializarEs
<1>22. [n \in 1 .. K |-> Lectura(s, K, 8 + C)[n].entrada] = st
  BY <1>4, <1>20
<1> QED BY <1>1, <1>3, <1>14, <1>21, <1>22 DEF Viaje

-----------------------------------------------------------------------------
(* The inductive invariant *)

\* Every counter of the PCB fits in the char it is read through.
Cabe == PcbChico(pcb)

N == Len(Instrucciones)

\* A cell of the stack, as page and offset.
EsCelda(pos) == /\ pos \in Posiciones /\ pos.size = 4 /\ EsPos(pos)
                /\ pos.pag # PagsCodigo + TamStack
Dir(pos) == pos_fisica_a_logica(pos)

\* The end of the stack moves from cell to cell up to the page after the last.
FinBien(fin) == /\ EsPos(fin) /\ fin.size = 4
                /\ fin.pag = PagsCodigo + TamStack => fin.offset = 0

\* A cell that a definition took.
Tomada(p, pos) == EsCelda(pos) /\ Dir(pos) < Dir(p.fin_stack)

\* What a call may name for its result: any address a program can use.
EsDestino(pos) == /\ pos \in Posiciones /\ pos.offset \in 0 .. TamPag - 1
                  /\ Dir(pos) \in Direcciones

EntradaBien(p, n, e) ==
  /\ Len(e.argumentos) <= Len(Digitos)
  /\ BaseStack + 4 * Len(e.variables) <= Dir(p.fin_stack)
  /\ e.pos_retorno < N
  /\ n > 1 => EsDestino(e.pos_var_retorno)
  /\ \A i \in 1 .. Len(e.argumentos) : Tomada(p, e.argumentos[i])
  /\ \A i \in 1 .. Len(e.variables) : Tomada(p, e.variables[i].posicionVar)
EntradasBien(p) == \A n \in 1 .. Len(p.indice_stack) : EntradaBien(p, n, p.indice_stack[n])

\* Two variables, two arguments, a variable and an argument: never in one cell.
ParBien(n, m, e, g) ==
  /\ \A i \in 1 .. Len(e.argumentos), j \in 1 .. Len(g.argumentos) :
       Dir(e.argumentos[i]) = Dir(g.argumentos[j]) => n = m /\ i = j
  /\ \A i \in 1 .. Len(e.variables), j \in 1 .. Len(g.variables) :
       Dir(e.variables[i].posicionVar) = Dir(g.variables[j].posicionVar) => n = m /\ i = j
  /\ \A i \in 1 .. Len(e.argumentos), j \in 1 .. Len(g.variables) :
       Dir(e.argumentos[i]) # Dir(g.variables[j].posicionVar)
Separadas(p) ==
  \A n, m \in 1 .. Len(p.indice_stack) : ParBien(n, m, p.indice_stack[n], p.indice_stack[m])

PilaBien(p) == FinBien(p.fin_stack) /\ EntradasBien(p) /\ Separadas(p)

DelPrograma(p) ==
  /\ p \in Pcbs /\ p.pid = Pid /\ p.pc \in 0 .. N
  /\ p.cant_pags_totales = PagsCodigo + TamStack
  /\ p.indice_codigo = indice_codigo
  /\ Len(p.indice_stack) \in 1 .. MaxEntradas

\* The program runs past no line: only inside one is pc the line after it, which
\* may be none.
Marcha ==
  /\ lugar = "nucleo" => linea = "fuera"
  /\ lugar \in {"nucleo", "cpu"} /\ linea # "libre" => pcb.pc < N
  /\ paso_fetch # "nada" => lugar = "cpu" /\ linea = "fuera"

Globales ==
  /\ lugar \in {"nucleo", "cpu", "termino", "abortado", "pisado", "indefinido"}
  /\ linea \in {"fuera", "libre", "variables", "argumentos", "hecha"}
  /\ quantum_actual \in 0 .. Quantum
  /\ stack_overflow \in BOOLEAN /\ llego_sugus \in BOOLEAN /\ arranco \in BOOLEAN
  /\ memoria \in [Celdas -> Valores] /\ salida \in Valores \union {SinSalida}

CpuInv == Globales /\ Marcha /\ DelPrograma(pcb) /\ PilaBien(pcb)

-----------------------------------------------------------------------------
(* Positions of the stack *)

LEMMA DivisionUnica ==
  ASSUME NEW t \in Nat \ {0}, NEW a \in Nat, NEW b \in Nat, b < t
  PROVE  (a * t + b) \div t = a /\ (a * t + b) % t = b
<1> DEFINE i == a * t + b
<1>1. i \in Nat
  <2>1. a * t \in Nat
    OBVIOUS
  <2> QED BY <2>1
<1>2. PICK q \in Int, r \in Nat : q = i \div t /\ r = i % t
  BY <1>1
<1>3. i = q * t + r /\ r < t
  BY <1>1, <1>2
<1>4. a * t + b = q * t + r
  BY <1>3
<1> HIDE DEF i
<1>5. a = q
  <2>1. CASE a < q
    <3>1. PICK d \in Nat : q = a + 1 + d
      <4>1. q - a - 1 \in Nat /\ q = a + 1 + (q - a - 1)
        BY <2>1
      <4> QED BY <4>1
    <3>2. q * t = a * t + t + d * t
      BY <3>1
    <3>3. d * t \in Nat /\ a * t \in Nat
      OBVIOUS
    <3> QED BY <1>4, <3>2, <3>3
  <2>2. CASE q < a
    <3>1. PICK d \in Nat : a = q + 1 + d
      <4>1. a - q - 1 \in Nat /\ a = q + 1 + (a - q - 1)
        BY <2>2
      <4> QED BY <4>1
    <3>2. a * t = q * t + t + d * t
      BY <3>1
    <3>3. d * t \in Nat /\ q * t \in Int
      OBVIOUS
    <3> QED BY <1>3, <1>4, <3>2, <3>3
  <2> QED BY <2>1, <2>2
<1>6. r = b
  <2>1. q * t \in Int
    OBVIOUS
  <2> QED BY <1>4, <1>5, <2>1
<1> QED BY <1>2, <1>5, <1>6 DEF i

\* A page holds a whole number of cells.
LEMMA Celdas4 == \E q \in Nat \ {0} : TamPag = 4 * q /\ TamPag \div 4 = q
<1>1. TamPag \in Nat \ {0} /\ TamPag % 4 = 0
  BY TamPagAssumption, StackAssumption
<1>2. PICK q \in Int : q = TamPag \div 4
  BY <1>1
<1>3. TamPag = 4 * q
  BY <1>1, <1>2
<1> QED BY <1>1, <1>2, <1>3

\* What EsPos says, without the division.
LEMMA PosEs ==
  ASSUME NEW q \in Nat \ {0}, TamPag \div 4 = q, NEW pos, EsPos(pos)
  PROVE  \E d \in 0 .. TamStack, n \in 0 .. q - 1 :
           pos.pag = PagsCodigo + d /\ pos.offset = 4 * n
<1>1. PagsCodigo \in Nat /\ TamStack \in Nat
  BY StackAssumption
<1>2. PICK n \in 0 .. q - 1 : pos.offset = 4 * n
  BY DEF EsPos
<1>3. pos.pag \in PagsCodigo .. PagsCodigo + TamStack
  BY DEF EsPos
<1>4. pos.pag - PagsCodigo \in 0 .. TamStack /\ pos.pag = PagsCodigo + (pos.pag - PagsCodigo)
  BY <1>1, <1>3
<1> QED BY <1>2, <1>4

\* The logical position of a cell, in cells from the start of the stack.
EnCelda(pos, d, n) == pos.pag = PagsCodigo + d /\ pos.offset = 4 * n
DirDe(pos, q, d, n) == Dir(pos) = BaseStack + 4 * (d * q + n) /\ BaseStack \in Nat

LEMMA DirEs ==
  ASSUME NEW q \in Nat \ {0}, TamPag = 4 * q, NEW pos, NEW d \in Nat, NEW n \in Nat,
         EnCelda(pos, d, n)
  PROVE  DirDe(pos, q, d, n)
<1>1. PagsCodigo \in Nat
  BY StackAssumption
<1>2. Dir(pos) = (PagsCodigo + d) * TamPag + 4 * n
  BY DEF Dir, pos_fisica_a_logica, EnCelda
<1>3. (PagsCodigo + d) * TamPag = PagsCodigo * TamPag + d * TamPag
  BY <1>1
<1>4. d * TamPag = 4 * (d * q)
  OBVIOUS
<1>5. PagsCodigo * TamPag \in Nat /\ d * q \in Nat
  BY <1>1
<1> QED BY <1>2, <1>3, <1>4, <1>5 DEF BaseStack, DirDe

\* A cell of the stack has its logical position among those of the stack.
LEMMA CeldaEnPila ==
  ASSUME NEW pos, EsCelda(pos)
  PROVE  /\ Dir(pos) \in Celdas
         /\ Dir(pos) \in Nat /\ Dir(pos) < (PagsCodigo + TamStack) * TamPag
         /\ pos_logica_a_fisica(Dir(pos)) = pos
<1>1. PICK q \in Nat \ {0} : TamPag = 4 * q /\ TamPag \div 4 = q
  BY Celdas4
<1>2. PICK d \in 0 .. TamStack, n \in 0 .. q - 1 : pos.pag = PagsCodigo + d /\ pos.offset = 4 * n
  BY <1>1, PosEs DEF EsCelda
<1>3. PagsCodigo \in Nat /\ TamStack \in Nat \ {0}
  BY StackAssumption
<1>4. d \in 0 .. TamStack - 1
  BY <1>2, <1>3 DEF EsCelda
<1>5. Dir(pos) = BaseStack + 4 * (d * q + n) /\ BaseStack \in Nat
  <2>1. d \in Nat /\ n \in Nat /\ EnCelda(pos, d, n)
    BY <1>2, <1>4 DEF EnCelda
  <2>2. DirDe(pos, q, d, n)
    BY <1>1, <2>1, DirEs, Zenon
  <2> QED BY <2>2 DEF DirDe
<1>6. (TamStack * TamPag) \div 4 = TamStack * q
  <2>1. PICK c \in Nat : c = TamStack * q
    <3>1. TamStack * q \in Nat
      BY <1>3
    <3> QED BY <3>1
  <2>2. TamStack * TamPag = 4 * c
    BY <1>1, <1>3, <2>1
  <2>3. (4 * c) \div 4 = c
    OBVIOUS
  <2> QED BY <2>1, <2>2, <2>3
<1>7. d * q + n \in Nat /\ d * q + n <= TamStack * q - 1
  <2>1. PICK e \in Nat : TamStack = d + 1 + e
    <3>1. TamStack - d - 1 \in Nat /\ TamStack = d + 1 + (TamStack - d - 1)
      BY <1>3, <1>4
    <3> QED BY <3>1
  <2>2. TamStack * q = d * q + q + e * q
    BY <2>1, <1>4
  <2>3. d * q \in Nat /\ e * q \in Nat
    BY <1>4
  <2> QED BY <2>2, <2>3
<1>8. PICK c \in Nat : c = d * q + n
  BY <1>7
<1>9. c \in 0 .. TamStack * q - 1
  <2>1. TamStack * q \in Nat
    BY <1>3
  <2> QED BY <1>7, <1>8, <2>1
<1>10. Dir(pos) \in Celdas
  BY <1>5, <1>6, <1>8, <1>9 DEF Celdas
<1>11. Dir(pos) \in Nat /\ Dir(pos) < (PagsCodigo + TamStack) * TamPag
  <2>1. (PagsCodigo + TamStack) * TamPag = BaseStack + 4 * (TamStack * q)
    <3>1. (PagsCodigo + TamStack) * TamPag = PagsCodigo * TamPag + TamStack * TamPag
      BY <1>1, <1>3
    <3>2. TamStack * TamPag = 4 * (TamStack * q)
      BY <1>1, <1>3
    <3> QED BY <3>1, <3>2 DEF BaseStack
  <2>2. TamStack * q \in Nat
    BY <1>3
  <2> QED BY <1>5, <1>8, <1>9, <2>1, <2>2
<1>12. pos_logica_a_fisica(Dir(pos)) = pos
  <2>1. /\ pos = [pag |-> pos.pag, offset |-> pos.offset, size |-> 4]
        /\ pos.pag \in Nat /\ pos.offset \in Nat
    BY DEF EsCelda, Posiciones
  <2>2. pos.offset < TamPag
    BY <1>1, <1>2
  <2>3. Dir(pos) \div TamPag = pos.pag /\ Dir(pos) % TamPag = pos.offset
    BY <2>1, <2>2, TamPagAssumption, DivisionUnica DEF Dir, pos_fisica_a_logica
  <2> QED BY <2>1, <2>3 DEF pos_logica_a_fisica, Pos
<1> QED BY <1>10, <1>11, <1>12

\* The end of the stack moves by one cell.
LEMMA AvanzaUna ==
  ASSUME NEW pos \in Posiciones, EsPos(pos), pos.pag # PagsCodigo + TamStack
  PROVE  /\ Avanzar(pos) \in Posiciones /\ Avanzar(pos).size = 4 /\ EsPos(Avanzar(pos))
         /\ Avanzar(pos).pag = PagsCodigo + TamStack => Avanzar(pos).offset = 0
         /\ Dir(Avanzar(pos)) = Dir(pos) + 4
<1>1. PICK q \in Nat \ {0} : TamPag = 4 * q /\ TamPag \div 4 = q
  BY Celdas4
<1>2. PICK d \in 0 .. TamStack, n \in 0 .. q - 1 : pos.pag = PagsCodigo + d /\ pos.offset = 4 * n
  BY <1>1, PosEs
<1>3. PagsCodigo \in Nat /\ TamStack \in Nat \ {0}
  BY StackAssumption
<1>4. d \in 0 .. TamStack - 1
  BY <1>2, <1>3
<1>5. Dir(pos) = BaseStack + 4 * (d * q + n) /\ BaseStack \in Nat
  <2>1. d \in Nat /\ n \in Nat /\ EnCelda(pos, d, n)
    BY <1>2, <1>4 DEF EnCelda
  <2>2. DirDe(pos, q, d, n)
    BY <1>1, <2>1, DirEs, Zenon
  <2> QED BY <2>2 DEF DirDe
<1>6. CASE n = q - 1
  <2>1. Avanzar(pos) = [pag |-> pos.pag + 1, offset |-> 0, size |-> 4]
    BY <1>1, <1>2, <1>6 DEF Avanzar, Pos
  <2> DEFINE sig == Avanzar(pos)
  <2>2. sig.pag = PagsCodigo + (d + 1) /\ sig.offset = 4 * 0 /\ sig.size = 4
    BY <1>2, <1>3, <2>1
  <2>3. sig \in Posiciones
    BY <1>2, <1>3, <2>1 DEF Posiciones
  <2>4. EsPos(sig)
    <3>1. sig.pag \in PagsCodigo .. PagsCodigo + TamStack
      BY <1>3, <1>4, <2>2
    <3>2. 0 \in 0 .. TamPag \div 4 - 1
      BY <1>1
    <3> QED BY <2>2, <3>1, <3>2 DEF EsPos
  <2> HIDE DEF sig
  <2>5. Dir(sig) = BaseStack + 4 * ((d + 1) * q + 0)
    <3>1. d + 1 \in Nat /\ 0 \in Nat /\ EnCelda(sig, d + 1, 0)
      BY <1>4, <2>2 DEF EnCelda
    <3>2. DirDe(sig, q, d + 1, 0)
      BY <1>1, <3>1, DirEs, Zenon
    <3> QED BY <3>2 DEF DirDe
  <2>6. (d + 1) * q = d * q + q /\ d * q \in Nat
    OBVIOUS
  <2>7. Dir(sig) = Dir(pos) + 4
    BY <1>5, <1>6, <2>5, <2>6
  <2> QED BY <2>2, <2>3, <2>4, <2>7 DEF sig
<1>7. CASE n # q - 1
  <2>1. Avanzar(pos) = [pag |-> pos.pag, offset |-> pos.offset + 4, size |-> 4]
    BY <1>1, <1>2, <1>7 DEF Avanzar, Pos
  <2> DEFINE sig == Avanzar(pos)
  <2>2. sig.pag = PagsCodigo + d /\ sig.offset = 4 * (n + 1) /\ sig.size = 4
    BY <1>2, <2>1
  <2>3. sig \in Posiciones
    BY <1>2, <1>3, <2>1 DEF Posiciones
  <2>4. EsPos(sig)
    <3>1. sig.pag \in PagsCodigo .. PagsCodigo + TamStack
      BY <1>3, <1>4, <2>2
    <3>2. n + 1 \in 0 .. TamPag \div 4 - 1
      BY <1>1, <1>7
    <3> QED BY <2>2, <3>1, <3>2 DEF EsPos
  <2>5. sig.pag # PagsCodigo + TamStack
    BY <1>2, <2>1
  <2> HIDE DEF sig
  <2>6. Dir(sig) = BaseStack + 4 * (d * q + (n + 1))
    <3>1. d \in Nat /\ n + 1 \in Nat /\ EnCelda(sig, d, n + 1)
      BY <1>2, <1>4, <2>2 DEF EnCelda
    <3>2. DirDe(sig, q, d, n + 1)
      BY <1>1, <3>1, DirEs, Zenon
    <3> QED BY <3>2 DEF DirDe
  <2>7. d * q \in Nat
    OBVIOUS
  <2>8. Dir(sig) = Dir(pos) + 4
    BY <1>5, <2>6, <2>7
  <2> QED BY <2>2, <2>3, <2>4, <2>5, <2>8 DEF sig
<1> QED BY <1>6, <1>7

-----------------------------------------------------------------------------
(* Where a name leads *)

LEMMA HayMaximo ==
  ASSUME NEW k \in Nat, NEW S \in SUBSET (1 .. k), S # {}
  PROVE  Max(S) \in S
<1> DEFINE I == {m \in Nat : \A T \in SUBSET (1 .. m) : T # {} => \E x \in T : \A y \in T : x >= y}
<1>1. 0 \in I
  <2>1. 1 .. 0 = {}
    OBVIOUS
  <2> QED BY <2>1
<1>2. ASSUME NEW m \in I
      PROVE  m + 1 \in I
  <2>1. m \in Nat /\ \A T \in SUBSET (1 .. m) : T # {} => \E x \in T : \A y \in T : x >= y
    OBVIOUS
  <2>2. ASSUME NEW T \in SUBSET (1 .. m + 1), T # {}
        PROVE  \E x \in T : \A y \in T : x >= y
    <3>1. CASE m + 1 \in T
      <4>1. \A y \in T : m + 1 >= y
        BY <2>1, <2>2
      <4> QED BY <3>1, <4>1
    <3>2. CASE m + 1 \notin T
      <4>1. \A y \in T : y \in 1 .. m
        BY <2>1, <2>2, <3>2
      <4>2. T \in SUBSET (1 .. m)
        BY <4>1
      <4> QED BY <2>1, <2>2, <4>2
    <3> QED BY <3>1, <3>2
  <2> QED BY <2>1, <2>2
<1>3. k \in I
  <2>1. I \in SUBSET Nat
    OBVIOUS
  <2> HIDE DEF I
  <2> QED BY <1>1, <1>2, <2>1, Induccion
<1>4. \E x \in S : \A y \in S : x >= y
  BY <1>3
<1> QED BY <1>4 DEF Max

\* A name that the entry knows leads to one of its variables or arguments.
LEMMA NombreLleva ==
  ASSUME NEW e \in EntradasDe, Len(e.argumentos) <= Len(Digitos), NEW id \in Nombres(e)
  PROVE  \/ \E i \in 1 .. Len(e.variables) : PosicionEn(e, id) = e.variables[i].posicionVar
         \/ \E i \in 1 .. Len(e.argumentos) : PosicionEn(e, id) = e.argumentos[i]
<1>1. PICK k \in Nat, a \in Nat, d \in Nat :
             /\ k = Len(e.variables) /\ a = Len(e.argumentos) /\ d = Len(Digitos)
             /\ DOMAIN e.variables = 1 .. k /\ DOMAIN e.argumentos = 1 .. a
             /\ DOMAIN Digitos = 1 .. d
  <2>1. e.variables \in Seq(VariablesDe) /\ e.argumentos \in Seq(Posiciones)
    BY DEF EntradasDe
  <2>2. Digitos \in Seq(Range(Digitos))
    BY NombresAssumption
  <2> QED BY <2>1, <2>2, LenProperties
<1>2. a <= d
  BY <1>1
<1>3. \A n \in 1 .. a : Digitos[n] \notin Letras
  <2> TAKE n \in 1 .. a
  <2>1. n \in DOMAIN Digitos
    BY <1>1, <1>2
  <2>2. Digitos[n] \in Range(Digitos)
    BY <2>1 DEF Range
  <2> QED BY <2>2, NombresAssumption
<1>4. CASE id \in Letras
  <2>1. PICK n \in 1 .. k : e.variables[n].id = id
    BY <1>1, <1>3, <1>4 DEF Nombres
  <2>2. Variables(e, id) \in SUBSET (1 .. k) /\ Variables(e, id) # {}
    BY <1>1, <2>1 DEF Variables
  <2>3. Max(Variables(e, id)) \in 1 .. k
    BY <1>1, <2>2, HayMaximo
  <2> QED BY <1>1, <1>4, <2>3 DEF PosicionEn
<1>5. CASE id \notin Letras
  <2>1. \A n \in 1 .. k : e.variables[n].id \in Letras
    <3> TAKE n \in 1 .. k
    <3>1. e.variables[n] \in VariablesDe
      BY <1>1, ElementOfSeq DEF EntradasDe
    <3> QED BY <3>1 DEF VariablesDe
  <2>2. PICK n \in 1 .. a : Digitos[n] = id
    BY <1>1, <1>5, <2>1 DEF Nombres
  <2>3. Numero(id) = n
    <3>1. n \in DOMAIN Digitos
      BY <1>1, <1>2
    <3> QED BY <2>2, <3>1, NombresAssumption DEF Numero
  <2> QED BY <1>1, <1>5, <2>2, <2>3 DEF PosicionEn
<1> QED BY <1>4, <1>5

\* The entry that runs.
LEMMA EntradaQueCorre ==
  ASSUME NEW p, DelPrograma(p), PilaBien(p)
  PROVE  /\ Len(p.indice_stack) \in Nat \ {0}
         /\ p.indice_stack \in Seq(EntradasDe)
         /\ \A n \in 1 .. Len(p.indice_stack) : /\ p.indice_stack[n] \in EntradasDe
                                                /\ EntradaBien(p, n, p.indice_stack[n])
<1>1. p.indice_stack \in Seq(EntradasDe) /\ MaxEntradas \in Nat
  BY PidAssumption DEF DelPrograma, Pcbs
<1>2. \A n \in 1 .. Len(p.indice_stack) : p.indice_stack[n] \in EntradasDe
  BY <1>1, ElementOfSeq
<1> QED BY <1>1, <1>2 DEF PilaBien, EntradasBien, DelPrograma

\* So does obtenerPosicionVariable.
LEMMA NombreTomado ==
  ASSUME NEW p, DelPrograma(p), PilaBien(p),
         NEW e, e = p.indice_stack[Len(p.indice_stack)], NEW id \in Nombres(e)
  PROVE  Tomada(p, PosicionEn(e, id))
<1>1. PICK k \in Nat \ {0} : k = Len(p.indice_stack)
  BY EntradaQueCorre
<1>2. e \in EntradasDe /\ EntradaBien(p, k, e)
  BY <1>1, EntradaQueCorre
<1>3. Len(e.argumentos) <= Len(Digitos)
  BY <1>2 DEF EntradaBien
<1>4. \/ \E i \in 1 .. Len(e.variables) : PosicionEn(e, id) = e.variables[i].posicionVar
      \/ \E i \in 1 .. Len(e.argumentos) : PosicionEn(e, id) = e.argumentos[i]
  BY <1>2, <1>3, NombreLleva, Zenon
<1> QED BY <1>2, <1>4 DEF EntradaBien

-----------------------------------------------------------------------------
(* What each change of the stack index keeps *)

\* The end of the stack lies between its first cell and the end of its last page.
LEMMA FinEnPila ==
  ASSUME NEW fin, FinBien(fin)
  PROVE  /\ Dir(fin) \in Nat /\ BaseStack \in Nat /\ BaseStack <= Dir(fin)
         /\ Dir(fin) <= BaseStack + TamStack * TamPag
<1>1. PICK q \in Nat \ {0} : TamPag = 4 * q /\ TamPag \div 4 = q
  BY Celdas4
<1>2. PICK d \in 0 .. TamStack, n \in 0 .. q - 1 : fin.pag = PagsCodigo + d /\ fin.offset = 4 * n
  BY <1>1, PosEs DEF FinBien
<1>3. PagsCodigo \in Nat /\ TamStack \in Nat \ {0}
  BY StackAssumption
<1>4. Dir(fin) = BaseStack + 4 * (d * q + n) /\ BaseStack \in Nat
  <2>1. d \in Nat /\ n \in Nat /\ EnCelda(fin, d, n)
    BY <1>2, <1>3 DEF EnCelda
  <2>2. DirDe(fin, q, d, n)
    BY <1>1, <2>1, DirEs, Zenon
  <2> QED BY <2>2 DEF DirDe
<1>5. d = TamStack => n = 0
  BY <1>2, <1>3 DEF FinBien
<1>6. PICK c \in Nat : c = d * q
  <2>1. d * q \in Nat
    BY <1>3
  <2> QED BY <2>1
<1>7. TamStack * TamPag = 4 * (TamStack * q) /\ TamStack * q \in Nat
  BY <1>1, <1>3
<1>8. c + n <= TamStack * q
  <2>1. CASE d = TamStack
    BY <1>3, <1>5, <1>6, <2>1
  <2>2. CASE d # TamStack
    <3>1. PICK e \in Nat : TamStack = d + 1 + e
      <4>1. TamStack - d - 1 \in Nat /\ TamStack = d + 1 + (TamStack - d - 1)
        BY <1>3, <2>2
      <4> QED BY <4>1
    <3>2. TamStack * q = d * q + q + e * q
      BY <1>3, <3>1
    <3>3. e * q \in Nat
      OBVIOUS
    <3> QED BY <1>6, <3>2, <3>3
  <2> QED BY <2>1, <2>2
<1> QED BY <1>4, <1>6, <1>7, <1>8

LEMMA EntradaSigue ==
  ASSUME NEW p, NEW q, NEW n, NEW e, EntradaBien(p, n, e),
         FinBien(p.fin_stack), FinBien(q.fin_stack), Dir(p.fin_stack) <= Dir(q.fin_stack),
         Len(e.variables) \in Nat
  PROVE  EntradaBien(q, n, e)
<1>1. PICK a \in Nat, b \in Nat : a = Dir(p.fin_stack) /\ b = Dir(q.fin_stack)
  BY FinEnPila
<1>2. a <= b
  BY <1>1
<1>3. \A pos : Tomada(p, pos) => Tomada(q, pos)
  <2> SUFFICES ASSUME NEW pos, Tomada(p, pos) PROVE Tomada(q, pos)
    OBVIOUS
  <2>1. EsCelda(pos) /\ Dir(pos) < a
    BY <1>1 DEF Tomada
  <2>2. Dir(pos) \in Nat
    BY <2>1, CeldaEnPila
  <2> QED BY <1>1, <1>2, <2>1, <2>2 DEF Tomada
<1>4. BaseStack \in Nat
  BY FinEnPila
<1>5. BaseStack + 4 * Len(e.variables) <= Dir(q.fin_stack)
  BY <1>1, <1>2, <1>4 DEF EntradaBien
<1> QED BY <1>3, <1>5, Zenon DEF EntradaBien

\* What the lemmas below give: a good stack of k entries.
PilaDe(p, k) ==
  PilaBien(p) /\ p.indice_stack \in Seq(EntradasDe) /\ Len(p.indice_stack) = k
EntradaNueva(r, v) == [argumentos |-> <<>>, variables |-> <<>>, pos_retorno |-> r,
                       pos_var_retorno |-> v]

LEMMA PilaIgual ==
  ASSUME NEW p, NEW q, PilaBien(p),
         q.indice_stack = p.indice_stack, q.fin_stack = p.fin_stack
  PROVE  PilaBien(q)
<1>1. \A pos : Tomada(p, pos) => Tomada(q, pos)
  BY DEF Tomada
<1>2. \A n, e : EntradaBien(p, n, e) => EntradaBien(q, n, e)
  BY <1>1, Zenon DEF EntradaBien
<1>3. EntradasBien(q)
  BY <1>2, Zenon DEF PilaBien, EntradasBien
<1>4. Separadas(q)
  BY Zenon DEF PilaBien, Separadas
<1> QED BY <1>3, <1>4, Zenon DEF PilaBien

\* llamarConRetorno: an entry with nothing in it yet.
LEMMA PilaLlama ==
  ASSUME NEW p, DelPrograma(p), PilaBien(p), NEW q, q.fin_stack = p.fin_stack,
         NEW r \in Nat, r < N, NEW v, EsDestino(v),
         q.indice_stack = Append(p.indice_stack, EntradaNueva(r, v))
  PROVE  PilaDe(q, Len(p.indice_stack) + 1)
<1>1. PICK k \in Nat \ {0} : k = Len(p.indice_stack)
  BY EntradaQueCorre
<1>2. PICK s \in Seq(EntradasDe) : s = p.indice_stack
  BY EntradaQueCorre
<1>3. PICK g : g = EntradaNueva(r, v)
  OBVIOUS
<1>4. /\ g \in EntradasDe /\ Len(g.argumentos) = 0 /\ Len(g.variables) = 0
      /\ g.pos_retorno = r /\ g.pos_var_retorno = v
  <2>1. v \in Posiciones
    BY DEF EsDestino
  <2>2. <<>> \in Seq(Posiciones) /\ <<>> \in Seq(VariablesDe) /\ Len(<<>>) = 0
    BY EmptySeq
  <2> QED BY <1>3, <2>1, <2>2 DEF EntradasDe, EntradaNueva
<1>5. PICK t : t = q.indice_stack
  OBVIOUS
<1>6. t = Append(s, g)
  BY <1>2, <1>3, <1>5
<1>7. /\ t \in Seq(EntradasDe) /\ Len(t) = k + 1
      /\ \A n \in 1 .. k : t[n] = s[n]
      /\ t[k + 1] = g
  BY <1>1, <1>2, <1>4, <1>6, AppendProperties
<1>8. \A n \in 1 .. k + 1 : n \in 1 .. k \/ n = k + 1
  OBVIOUS
<1>9. EntradasBien(q)
  <2>1. ASSUME NEW n \in 1 .. k
        PROVE  EntradaBien(q, n, t[n])
    <3>1. EntradaBien(p, n, s[n])
      BY <1>1, <1>2, EntradaQueCorre
    <3> QED BY <1>7, <3>1 DEF EntradaBien, Tomada
  <2>2. EntradaBien(q, k + 1, g)
    <3>1. Len(Digitos) \in Nat
      BY NombresAssumption, LenProperties
    <3>2. BaseStack \in Nat /\ Dir(p.fin_stack) \in Nat /\ BaseStack <= Dir(p.fin_stack)
      BY FinEnPila DEF PilaBien
    <3> QED BY <1>4, <3>1, <3>2 DEF EntradaBien
  <2>3. \A n \in 1 .. k + 1 : EntradaBien(q, n, t[n])
    BY <1>7, <1>8, <2>1, <2>2
  <2> QED BY <1>5, <1>7, <2>3 DEF EntradasBien
<1>10. Separadas(q)
  <2>1. \A n, m \in 1 .. k : ParBien(n, m, s[n], s[m])
    BY <1>1, <1>2 DEF PilaBien, Separadas
  <2>2. \A n, m, e : ParBien(n, m, e, g) /\ ParBien(n, m, g, e)
    BY <1>4 DEF ParBien
  <2>3. ASSUME NEW n \in 1 .. k + 1, NEW m \in 1 .. k + 1
        PROVE  ParBien(n, m, t[n], t[m])
    <3>1. CASE n = k + 1 \/ m = k + 1
      BY <1>7, <2>2, <3>1
    <3>2. CASE n \in 1 .. k /\ m \in 1 .. k
      BY <1>7, <2>1, <3>2
    <3> QED BY <1>8, <3>1, <3>2
  <2> QED BY <1>5, <1>7, <2>3 DEF Separadas
<1>11. FinBien(q.fin_stack)
  BY DEF PilaBien
<1> QED BY <1>1, <1>5, <1>7, <1>9, <1>10, <1>11 DEF PilaBien, PilaDe

\* retornar: the last entry goes.
LEMMA PilaVuelve ==
  ASSUME NEW p, DelPrograma(p), PilaBien(p), NEW q, q.fin_stack = p.fin_stack,
         NEW k \in Nat, k = Len(p.indice_stack), k > 1,
         q.indice_stack = SubSeq(p.indice_stack, 1, k - 1)
  PROVE  PilaDe(q, k - 1)
<1>2. PICK s \in Seq(EntradasDe) : s = p.indice_stack
  BY EntradaQueCorre
<1>5. PICK t : t = q.indice_stack
  OBVIOUS
<1>6. t = SubSeq(s, 1, k - 1)
  BY <1>2, <1>5
<1>7. /\ t \in Seq(EntradasDe) /\ Len(t) = k - 1
      /\ \A n \in 1 .. k - 1 : t[n] = s[n]
  <2>1. \A n \in 1 .. k - 1 : s[n] \in EntradasDe
    <3>1. \A n \in 1 .. k - 1 : n \in 1 .. k
      OBVIOUS
    <3> QED BY <1>2, <3>1, ElementOfSeq
  <2>2. /\ t \in Seq(EntradasDe) /\ Len(t) = IF 1 <= k - 1 THEN k - 1 - 1 + 1 ELSE 0
        /\ \A i \in 1 .. k - 1 - 1 + 1 : t[i] = s[1 + i - 1]
    BY <1>6, <2>1, SubSeqProperties
  <2>3. k - 1 - 1 + 1 = k - 1 /\ 1 <= k - 1 /\ \A i \in 1 .. k - 1 : 1 + i - 1 = i
    OBVIOUS
  <2> QED BY <2>2, <2>3
<1>8. \A n \in 1 .. k - 1 : n \in 1 .. k
  OBVIOUS
<1>9. EntradasBien(q)
  <2>1. \A n \in 1 .. k : EntradaBien(p, n, s[n])
    BY <1>2, EntradaQueCorre
  <2>2. \A n \in 1 .. k - 1 : EntradaBien(q, n, t[n])
    BY <1>7, <1>8, <2>1 DEF EntradaBien, Tomada
  <2> QED BY <1>5, <1>7, <2>2 DEF EntradasBien
<1>10. Separadas(q)
  <2>1. \A n, m \in 1 .. k : ParBien(n, m, s[n], s[m])
    BY <1>2 DEF PilaBien, Separadas
  <2>2. \A n, m \in 1 .. k - 1 : ParBien(n, m, t[n], t[m])
    BY <1>7, <1>8, <2>1
  <2> QED BY <1>5, <1>7, <2>2 DEF Separadas
<1>11. FinBien(q.fin_stack)
  BY DEF PilaBien
<1> QED BY <1>5, <1>7, <1>9, <1>10, <1>11 DEF PilaBien, PilaDe

\* A definition: the entry g is e with one variable or one argument more, at pos.
MasVariable(e, g, pos) ==
  /\ g.argumentos = e.argumentos /\ Len(g.variables) = Len(e.variables) + 1
  /\ \A i \in 1 .. Len(e.variables) : g.variables[i] = e.variables[i]
  /\ g.variables[Len(e.variables) + 1].posicionVar = pos
MasArgumento(e, g, pos) ==
  /\ g.variables = e.variables /\ Len(g.argumentos) = Len(e.argumentos) + 1
  /\ \A i \in 1 .. Len(e.argumentos) : g.argumentos[i] = e.argumentos[i]
  /\ g.argumentos[Len(e.argumentos) + 1] = pos
Define(e, g, pos) ==
  /\ MasVariable(e, g, pos) \/ MasArgumento(e, g, pos)
  /\ Len(e.variables) \in Nat /\ Len(e.argumentos) \in Nat
  /\ g.pos_retorno = e.pos_retorno /\ g.pos_var_retorno = e.pos_var_retorno

\* All of the entry lies before the cell d.
Debajo(e, d) == /\ \A i \in 1 .. Len(e.argumentos) : Dir(e.argumentos[i]) # d
                /\ \A i \in 1 .. Len(e.variables) : Dir(e.variables[i].posicionVar) # d

LEMMA DebajoEs ==
  ASSUME NEW p, NEW n, NEW e, EntradaBien(p, n, e), FinBien(p.fin_stack)
  PROVE  Debajo(e, Dir(p.fin_stack))
<1>1. PICK a \in Nat : a = Dir(p.fin_stack)
  BY FinEnPila
<1>2. \A pos : Tomada(p, pos) => Dir(pos) # a
  <2> SUFFICES ASSUME NEW pos, Tomada(p, pos) PROVE Dir(pos) # a
    OBVIOUS
  <2>1. EsCelda(pos) /\ Dir(pos) < a
    BY <1>1 DEF Tomada
  <2>2. Dir(pos) \in Nat
    BY <2>1, CeldaEnPila
  <2> QED BY <2>1, <2>2
<1> QED BY <1>1, <1>2 DEF EntradaBien, Debajo

\* What g holds is what e held, or lies at pos.
ConVariable(e, g, pos) ==
  /\ g.argumentos = e.argumentos
  /\ \A i \in 1 .. Len(g.variables) :
       \/ i \in 1 .. Len(e.variables) /\ g.variables[i] = e.variables[i]
       \/ i = Len(e.variables) + 1 /\ g.variables[i].posicionVar = pos
ConArgumento(e, g, pos) ==
  /\ g.variables = e.variables
  /\ \A i \in 1 .. Len(g.argumentos) :
       \/ i \in 1 .. Len(e.argumentos) /\ g.argumentos[i] = e.argumentos[i]
       \/ i = Len(e.argumentos) + 1 /\ g.argumentos[i] = pos

LEMMA DefineEs ==
  ASSUME NEW e, NEW g, NEW pos, Define(e, g, pos)
  PROVE  ConVariable(e, g, pos) \/ ConArgumento(e, g, pos)
<1>1. \A l \in Nat : \A i \in 1 .. l + 1 : i \in 1 .. l \/ i = l + 1
  OBVIOUS
<1>2. CASE MasVariable(e, g, pos)
  BY <1>1, <1>2 DEF MasVariable, Define, ConVariable
<1>3. CASE MasArgumento(e, g, pos)
  BY <1>1, <1>3 DEF MasArgumento, Define, ConArgumento
<1> QED BY <1>2, <1>3 DEF Define

LEMMA ParDefine ==
  ASSUME NEW e, NEW g, NEW pos, Define(e, g, pos), NEW n, NEW k, n # k,
         NEW h, Debajo(h, Dir(pos)), ParBien(n, k, h, e), ParBien(k, n, e, h)
  PROVE  ParBien(n, k, h, g) /\ ParBien(k, n, g, h)
<1>1. CASE ConVariable(e, g, pos)
  <2>1. ParBien(n, k, h, g)
    BY <1>1, Zenon DEF ParBien, Debajo, ConVariable, ConArgumento
  <2>2. ParBien(k, n, g, h)
    BY <1>1, Zenon DEF ParBien, Debajo, ConVariable, ConArgumento
  <2> QED BY <2>1, <2>2
<1>2. CASE ConArgumento(e, g, pos)
  <2>1. ParBien(n, k, h, g)
    BY <1>2, Zenon DEF ParBien, Debajo, ConVariable, ConArgumento
  <2>2. ParBien(k, n, g, h)
    BY <1>2, Zenon DEF ParBien, Debajo, ConVariable, ConArgumento
  <2> QED BY <2>1, <2>2
<1> QED BY <1>1, <1>2, DefineEs, Zenon

LEMMA MismoDefine ==
  ASSUME NEW e, NEW g, NEW pos, Define(e, g, pos), NEW k,
         Debajo(e, Dir(pos)), ParBien(k, k, e, e)
  PROVE  ParBien(k, k, g, g)
<1>1. CASE ConVariable(e, g, pos)
  BY <1>1, Zenon DEF ParBien, Debajo, ConVariable, ConArgumento
<1>2. CASE ConArgumento(e, g, pos)
  BY <1>2, Zenon DEF ParBien, Debajo, ConVariable, ConArgumento
<1> QED BY <1>1, <1>2, DefineEs, Zenon

Cambiada(t, s, k, g) == t = [s EXCEPT ![k] = g]

\* definirVariable: the new cell is the end of the stack, which moves past it.
LEMMA PilaDefine ==
  ASSUME NEW p, DelPrograma(p), PilaBien(p), p.fin_stack.pag # PagsCodigo + TamStack,
         NEW k \in Nat, k = Len(p.indice_stack), NEW g \in EntradasDe,
         Define(p.indice_stack[k], g, p.fin_stack), Len(g.argumentos) <= Len(Digitos),
         NEW q, q.fin_stack = Avanzar(p.fin_stack),
         Cambiada(q.indice_stack, p.indice_stack, k, g)
  PROVE  PilaDe(q, k) /\ q.fin_stack \in Posiciones
<1>1. k \in Nat \ {0}
  BY EntradaQueCorre
<1>2. PICK s \in Seq(EntradasDe) : s = p.indice_stack
  BY EntradaQueCorre
<1>3. PICK e : e = s[k]
  OBVIOUS
<1>4. PICK t : t = q.indice_stack
  OBVIOUS
<1>5. PICK fin : fin = p.fin_stack
  OBVIOUS
<1>6. /\ t \in Seq(EntradasDe) /\ Len(t) = k /\ t[k] = g
      /\ \A n \in 1 .. k : n # k => t[n] = s[n]
  <2>1. t = [s EXCEPT ![k] = g]
    BY <1>2, <1>4 DEF Cambiada
  <2>2. DOMAIN s = 1 .. k
    BY <1>2, LenProperties
  <2> QED BY <1>1, <1>2, <2>1, <2>2, ExceptSeq
<1>7. /\ FinBien(fin) /\ fin \in Posiciones /\ EsPos(fin) /\ fin.size = 4
      /\ fin.pag # PagsCodigo + TamStack
  BY <1>5 DEF PilaBien, FinBien, DelPrograma, Pcbs
<1>8. /\ FinBien(q.fin_stack) /\ q.fin_stack \in Posiciones
      /\ Dir(q.fin_stack) = Dir(fin) + 4
  BY <1>5, <1>7, AvanzaUna DEF FinBien
<1>9. PICK d \in Nat : d = Dir(fin)
  BY <1>7, FinEnPila
<1>10. \A n \in 1 .. k : s[n] \in EntradasDe /\ EntradaBien(p, n, s[n])
  BY <1>2, EntradaQueCorre
<1>11. \A n \in 1 .. k : EntradaBien(q, n, s[n])
  <2> TAKE n \in 1 .. k
  <2>1. Len(s[n].variables) \in Nat
    BY <1>10, LenProperties DEF EntradasDe
  <2>2. Dir(p.fin_stack) <= Dir(q.fin_stack)
    BY <1>5, <1>8, <1>9
  <2> QED BY <1>5, <1>7, <1>8, <1>10, <2>1, <2>2, EntradaSigue, Zenon
<1>12. Tomada(q, fin)
  <2>1. EsCelda(fin)
    BY <1>7 DEF EsCelda
  <2> QED BY <1>8, <1>9, <2>1 DEF Tomada
<1>13. Define(e, g, fin)
  BY <1>2, <1>3, <1>5
<1>14. EntradaBien(q, k, g)
  <2>1. EntradaBien(q, k, e) /\ EntradaBien(p, k, e)
    BY <1>1, <1>3, <1>10, <1>11
  <2>2. /\ g.pos_retorno = e.pos_retorno /\ g.pos_var_retorno = e.pos_var_retorno
        /\ Len(e.variables) \in Nat /\ Len(e.argumentos) \in Nat
    BY <1>13 DEF Define
  <2>3. CASE MasVariable(e, g, fin)
    <3>1. PICK l \in Nat : l = Len(e.variables)
      BY <2>2
    <3>2. /\ g.argumentos = e.argumentos /\ Len(g.variables) = l + 1
          /\ \A i \in 1 .. l + 1 : i \in 1 .. l \/ i = l + 1
          /\ \A i \in 1 .. l : g.variables[i] = e.variables[i]
          /\ g.variables[l + 1].posicionVar = fin
      BY <2>3, <3>1 DEF MasVariable
    <3>3. BaseStack + 4 * (l + 1) <= Dir(q.fin_stack)
      <4>1. BaseStack \in Nat /\ BaseStack + 4 * l <= d
        BY <1>5, <1>7, <1>9, <2>1, <3>1, FinEnPila DEF EntradaBien
      <4> QED BY <1>8, <1>9, <4>1
    <3>4. \A i \in 1 .. Len(g.variables) : Tomada(q, g.variables[i].posicionVar)
      BY <1>12, <2>1, <3>1, <3>2 DEF EntradaBien
    <3> QED BY <2>1, <2>2, <3>2, <3>3, <3>4 DEF EntradaBien
  <2>4. CASE MasArgumento(e, g, fin)
    <3>1. PICK l \in Nat : l = Len(e.argumentos)
      BY <2>2
    <3>2. /\ g.variables = e.variables /\ Len(g.argumentos) = l + 1
          /\ \A i \in 1 .. l + 1 : i \in 1 .. l \/ i = l + 1
          /\ \A i \in 1 .. l : g.argumentos[i] = e.argumentos[i]
          /\ g.argumentos[l + 1] = fin
      BY <2>4, <3>1 DEF MasArgumento
    <3>3. \A i \in 1 .. Len(g.argumentos) : Tomada(q, g.argumentos[i])
      BY <1>12, <2>1, <3>1, <3>2 DEF EntradaBien
    <3> QED BY <2>1, <2>2, <3>2, <3>3 DEF EntradaBien
  <2> QED BY <1>13, <2>3, <2>4 DEF Define
<1>15. EntradasBien(q)
  <2>1. \A n \in 1 .. k : EntradaBien(q, n, t[n])
    BY <1>6, <1>11, <1>14
  <2> QED BY <1>4, <1>6, <2>1 DEF EntradasBien
<1>16. Separadas(q)
  <2>1. \A n, m \in 1 .. k : ParBien(n, m, s[n], s[m])
    BY <1>2 DEF PilaBien, Separadas
  <2>2. \A n \in 1 .. k : Debajo(s[n], Dir(fin))
    BY <1>5, <1>7, <1>10, DebajoEs
  <2>3. ParBien(k, k, g, g)
    BY <1>1, <1>3, <1>13, <2>1, <2>2, MismoDefine
  <2>4. ASSUME NEW n \in 1 .. k, n # k
        PROVE  ParBien(n, k, s[n], g) /\ ParBien(k, n, g, s[n])
    <3>1. Debajo(s[n], Dir(fin)) /\ ParBien(n, k, s[n], e) /\ ParBien(k, n, e, s[n])
      BY <1>1, <1>3, <2>1, <2>2
    <3> QED BY <1>13, <2>4, <3>1, ParDefine, Zenon
  <2>5. \A n, m \in 1 .. k : ParBien(n, m, t[n], t[m])
    BY <1>6, <2>1, <2>3, <2>4
  <2> QED BY <1>4, <1>6, <2>5 DEF Separadas
<1> QED BY <1>4, <1>6, <1>8, <1>15, <1>16 DEF PilaBien, PilaDe

-----------------------------------------------------------------------------
(* What each change of the PCB keeps *)

\* What the lemmas below give: a good PCB, with its program counter.
PcbBien(p, r) == DelPrograma(p) /\ PilaBien(p) /\ p.pc = r

\* The changes of the PCB.
Definida(p, k, g, q) == q = [p EXCEPT !.indice_stack[k] = g, !.fin_stack = Avanzar(@)]
Llamada(p, v, r, q) ==
  q = [p EXCEPT !.indice_stack = Append(p.indice_stack, EntradaNueva(p.pc, v)), !.pc = r]
Vuelta(p, k, r, q) == q = [p EXCEPT !.indice_stack = SubSeq(p.indice_stack, 1, k - 1), !.pc = r]

LEMMA IndiceCodigo == indice_codigo \in Seq(Posiciones)
<1>1. PICK n \in Nat : n = Len(Instrucciones) /\ DOMAIN Instrucciones = 1 .. n
  BY InstruccionesAssumption, LenProperties
<1>2. \A i \in 1 .. n : indice_codigo[i] \in Posiciones
  <2> TAKE i \in 1 .. n
  <2>1. EsPosicion(indice_codigo[i])
    BY <1>1, IndiceDePosiciones DEF indice_codigo
  <2> QED BY <2>1 DEF EsPosicion, Posiciones
<1>3. indice_codigo \in [1 .. n -> Posiciones]
  BY <1>1, <1>2 DEF indice_codigo
<1> QED BY <1>3

LEMMA LargoDelIndice == Len(indice_codigo) = N
<1>1. DOMAIN indice_codigo = DOMAIN Instrucciones
  BY DEF indice_codigo
<1>2. DOMAIN Instrucciones = 1 .. N /\ N \in Nat
  BY InstruccionesAssumption, LenProperties DEF N
<1>3. PICK n \in Nat : n = Len(indice_codigo) /\ DOMAIN indice_codigo = 1 .. n
  BY IndiceCodigo, LenProperties
<1>4. \A n1, n2 \in Nat : 1 .. n1 = 1 .. n2 => n1 = n2
  <2> SUFFICES ASSUME NEW n1 \in Nat, NEW n2 \in Nat, 1 .. n1 = 1 .. n2
               PROVE  n1 = n2
    OBVIOUS
  <2>1. n1 > 0 => n1 \in 1 .. n2
    OBVIOUS
  <2>2. n2 > 0 => n2 \in 1 .. n1
    OBVIOUS
  <2> QED BY <2>1, <2>2
<1> QED BY <1>1, <1>2, <1>3, <1>4

LEMMA Constantes ==
  /\ N \in Nat \ {0} /\ Pid \in Nat /\ PagsCodigo + TamStack \in Nat
  /\ Quantum \in Nat \ {0} /\ MaxEntradas \in Nat \ {0} /\ Inicio \in 0 .. N /\ Inicio < N
BY InstruccionesAssumption, ProgramaAssumption, PidAssumption, StackAssumption, LenProperties DEF N

LEMMA EsPcb ==
  ASSUME NEW a \in Nat, NEW b \in Nat, NEW c \in Nat, NEW fin \in Posiciones,
         NEW i \in Seq(Posiciones), NEW s \in Seq(EntradasDe)
  PROVE  [pid |-> a, pc |-> b, cant_pags_totales |-> c, fin_stack |-> fin, indice_codigo |-> i,
          indice_etiquetas |-> "etiquetas", indice_stack |-> s] \in Pcbs
BY DEF Pcbs

LEMMA PcbNuevoBien == DelPrograma(PcbNuevo) /\ PilaBien(PcbNuevo)
<1>1. PICK g : g = [argumentos |-> <<>>, variables |-> <<>>, pos_retorno |-> 0,
                    pos_var_retorno |-> [pag |-> 0, offset |-> 0, size |-> 0]]
  OBVIOUS
<1>2. PICK p : p = PcbNuevo
  OBVIOUS
<1>3. /\ p.pid = Pid /\ p.pc = Inicio /\ p.cant_pags_totales = PagsCodigo + TamStack
      /\ p.fin_stack = Pos(PagsCodigo, 0) /\ p.indice_codigo = indice_codigo
      /\ p.indice_etiquetas = "etiquetas" /\ p.indice_stack = <<g>>
      /\ p = [pid |-> Pid, pc |-> Inicio, cant_pags_totales |-> PagsCodigo + TamStack,
              fin_stack |-> Pos(PagsCodigo, 0), indice_codigo |-> indice_codigo,
              indice_etiquetas |-> "etiquetas", indice_stack |-> <<g>>]
  BY <1>1, <1>2 DEF PcbNuevo
<1>4. g \in EntradasDe
  <2>1. <<>> \in Seq(Posiciones) /\ <<>> \in Seq(VariablesDe)
    BY EmptySeq
  <2> QED BY <1>1, <2>1 DEF EntradasDe, Posiciones
<1>5. /\ <<g>> \in Seq(EntradasDe) /\ Len(<<g>>) = 1 /\ <<g>>[1] = g
      /\ Len(g.argumentos) = 0 /\ Len(g.variables) = 0 /\ g.pos_retorno = 0
  BY <1>1, <1>4, EmptySeq
<1>6. Pos(PagsCodigo, 0) \in Posiciones
  BY StackAssumption DEF Pos, Posiciones
<1>7. DelPrograma(p)
  <2>1. p \in Pcbs
    <3>1. Inicio \in Nat
      BY Constantes
    <3>2. [pid |-> Pid, pc |-> Inicio, cant_pags_totales |-> PagsCodigo + TamStack,
           fin_stack |-> Pos(PagsCodigo, 0), indice_codigo |-> indice_codigo,
           indice_etiquetas |-> "etiquetas", indice_stack |-> <<g>>] \in Pcbs
      BY <1>5, <1>6, <3>1, IndiceCodigo, Constantes, EsPcb, Zenon
    <3> QED BY <1>3, <3>2, Zenon
  <2> QED BY <1>3, <1>5, <2>1, Constantes DEF DelPrograma
<1>8. FinBien(p.fin_stack)
  <2>1. PICK q \in Nat \ {0} : TamPag \div 4 = q
    BY Celdas4
  <2>2. 0 \in 0 .. TamPag \div 4 - 1 /\ 4 * 0 = 0
    BY <2>1
  <2>3. PagsCodigo \in PagsCodigo .. PagsCodigo + TamStack
    BY StackAssumption
  <2>4. \E n \in 0 .. TamPag \div 4 - 1 : 0 = 4 * n
    BY <2>2
  <2> QED BY <1>3, <2>3, <2>4 DEF FinBien, EsPos, Pos
<1>9. EntradasBien(p)
  <2>1. EntradaBien(p, 1, g)
    <3>1. Len(Digitos) \in Nat
      BY NombresAssumption, LenProperties
    <3>2. BaseStack \in Nat /\ BaseStack <= Dir(p.fin_stack)
      BY <1>8, FinEnPila
    <3> QED BY <1>5, <3>1, <3>2, Constantes DEF EntradaBien
  <2> QED BY <1>3, <1>5, <2>1 DEF EntradasBien
<1>10. Separadas(p)
  <2>1. ParBien(1, 1, g, g)
    BY <1>5 DEF ParBien
  <2> QED BY <1>3, <1>5, <2>1 DEF Separadas
<1> QED BY <1>2, <1>7, <1>8, <1>9, <1>10 DEF PilaBien

LEMMA PcbCambia ==
  ASSUME NEW p \in Pcbs, NEW t \in Seq(EntradasDe), NEW r \in Nat,
         NEW q, q = [p EXCEPT !.indice_stack = t, !.pc = r]
  PROVE  q \in Pcbs
BY DEF Pcbs

\* Only the program counter.
LEMMA PcbSalta ==
  ASSUME NEW p, DelPrograma(p), PilaBien(p), NEW r \in 0 .. N,
         NEW q, q = [p EXCEPT !.pc = r]
  PROVE  DelPrograma(q) /\ PilaBien(q) /\ q.pc = r
<1>1. /\ q \in Pcbs /\ q.pc = r /\ q.pid = p.pid /\ q.fin_stack = p.fin_stack
      /\ q.cant_pags_totales = p.cant_pags_totales
      /\ q.indice_codigo = p.indice_codigo /\ q.indice_stack = p.indice_stack
  BY Constantes DEF DelPrograma, Pcbs
<1>2. PilaBien(q)
  BY <1>1, PilaIgual, Zenon
<1> QED BY <1>1, <1>2 DEF DelPrograma

\* A definition.
LEMMA PcbDefine ==
  ASSUME NEW p, DelPrograma(p), PilaBien(p), p.fin_stack.pag # p.cant_pags_totales,
         NEW k, k = Len(p.indice_stack), NEW g \in EntradasDe,
         Define(p.indice_stack[k], g, p.fin_stack), Len(g.argumentos) <= Len(Digitos),
         NEW q, Definida(p, k, g, q)
  PROVE  PcbBien(q, p.pc)
<1>1. k \in Nat
  BY EntradaQueCorre
<1>2. p \in Pcbs
  BY DEF DelPrograma
<1>3. /\ q.pc = p.pc /\ q.pid = p.pid /\ q.fin_stack = Avanzar(p.fin_stack)
      /\ q.cant_pags_totales = p.cant_pags_totales
      /\ q.indice_codigo = p.indice_codigo /\ q.indice_etiquetas = p.indice_etiquetas
      /\ q.indice_stack = [p.indice_stack EXCEPT ![k] = g]
  BY <1>2 DEF Pcbs, Definida
<1>4. p.fin_stack.pag # PagsCodigo + TamStack
  BY DEF DelPrograma
<1>5. /\ PilaBien(q) /\ q.indice_stack \in Seq(EntradasDe)
      /\ Len(q.indice_stack) = k /\ q.fin_stack \in Posiciones
  <2>1. Cambiada(q.indice_stack, p.indice_stack, k, g)
    BY <1>3 DEF Cambiada
  <2>2. PilaDe(q, k) /\ q.fin_stack \in Posiciones
    BY <1>1, <1>3, <1>4, <2>1, PilaDefine, Zenon
  <2> QED BY <2>2 DEF PilaDe
<1>6. q \in Pcbs
  BY <1>2, <1>3, <1>5 DEF Pcbs, Definida
<1> QED BY <1>3, <1>5, <1>6 DEF DelPrograma, PcbBien

\* A variable.
LEMMA UnaVariableMas ==
  ASSUME NEW e \in EntradasDe, NEW x \in Letras, NEW fin \in Posiciones,
         NEW g, g = [e EXCEPT !.variables = Append(@, [id |-> x, posicionVar |-> fin])]
  PROVE  g \in EntradasDe /\ Define(e, g, fin) /\ g.argumentos = e.argumentos
<1>1. PICK v \in Seq(VariablesDe) : v = e.variables
  BY DEF EntradasDe
<1>2. PICK z \in VariablesDe : z = [id |-> x, posicionVar |-> fin]
  BY DEF VariablesDe
<1>3. PICK w : w = Append(v, z)
  OBVIOUS
<1>4. PICK l \in Nat : l = Len(v)
  BY LenProperties
<1>5. /\ w \in Seq(VariablesDe) /\ Len(w) = l + 1 /\ w[l + 1] = z
      /\ \A i \in 1 .. l : w[i] = v[i]
  BY <1>1, <1>2, <1>3, <1>4, AppendProperties
<1>6. /\ g.variables = w /\ g.argumentos = e.argumentos
      /\ g.pos_retorno = e.pos_retorno /\ g.pos_var_retorno = e.pos_var_retorno
      /\ g \in EntradasDe
  BY <1>1, <1>2, <1>3, <1>5 DEF EntradasDe
<1>7. MasVariable(e, g, fin)
  BY <1>1, <1>2, <1>4, <1>5, <1>6 DEF MasVariable
<1>8. Len(e.variables) \in Nat /\ Len(e.argumentos) \in Nat
  BY LenProperties DEF EntradasDe
<1> QED BY <1>6, <1>7, <1>8 DEF Define

\* An argument.
LEMMA UnArgumentoMas ==
  ASSUME NEW e \in EntradasDe, NEW fin \in Posiciones,
         NEW g, g = [e EXCEPT !.argumentos = Append(@, fin)]
  PROVE  /\ g \in EntradasDe /\ Define(e, g, fin)
         /\ Len(g.argumentos) = Len(e.argumentos) + 1
<1>1. PICK v \in Seq(Posiciones) : v = e.argumentos
  BY DEF EntradasDe
<1>3. PICK w : w = Append(v, fin)
  OBVIOUS
<1>4. PICK l \in Nat : l = Len(v)
  BY LenProperties
<1>5. /\ w \in Seq(Posiciones) /\ Len(w) = l + 1 /\ w[l + 1] = fin
      /\ \A i \in 1 .. l : w[i] = v[i]
  BY <1>1, <1>3, <1>4, AppendProperties
<1>6. /\ g.argumentos = w /\ g.variables = e.variables
      /\ g.pos_retorno = e.pos_retorno /\ g.pos_var_retorno = e.pos_var_retorno
      /\ g \in EntradasDe
  BY <1>1, <1>3, <1>5 DEF EntradasDe
<1>7. MasArgumento(e, g, fin)
  BY <1>1, <1>4, <1>5, <1>6 DEF MasArgumento
<1>8. Len(e.variables) \in Nat /\ Len(e.argumentos) \in Nat
  BY LenProperties DEF EntradasDe
<1> QED BY <1>1, <1>4, <1>5, <1>6, <1>7, <1>8 DEF Define

\* A call.
LEMMA PcbLlama ==
  ASSUME NEW p, DelPrograma(p), PilaBien(p), p.pc < N, Len(p.indice_stack) < MaxEntradas,
         NEW v, EsDestino(v), NEW r \in 0 .. N,
         NEW q, Llamada(p, v, r, q)
  PROVE  PcbBien(q, r)
<1>6. PICK t : t = Append(p.indice_stack, EntradaNueva(p.pc, v))
  OBVIOUS
<1>7. q = [p EXCEPT !.indice_stack = t, !.pc = r]
  BY <1>6 DEF Llamada
<1>1. p \in Pcbs /\ p.pc \in Nat
  BY DEF DelPrograma, Pcbs
<1>2. /\ q.pc = r /\ q.pid = p.pid /\ q.fin_stack = p.fin_stack
      /\ q.cant_pags_totales = p.cant_pags_totales
      /\ q.indice_codigo = p.indice_codigo /\ q.indice_etiquetas = p.indice_etiquetas
      /\ q.indice_stack = t
  BY <1>1, <1>7 DEF Pcbs
<1>3. /\ PilaBien(q) /\ q.indice_stack \in Seq(EntradasDe)
      /\ Len(q.indice_stack) = Len(p.indice_stack) + 1
  <2>1. q.indice_stack = Append(p.indice_stack, EntradaNueva(p.pc, v))
    BY <1>2, <1>6
  <2>2. PilaDe(q, Len(p.indice_stack) + 1)
    BY <1>1, <1>2, <2>1, PilaLlama, Zenon
  <2> QED BY <2>2 DEF PilaDe
<1>4. q \in Pcbs
  <2>1. r \in Nat /\ t \in Seq(EntradasDe)
    BY <1>2, <1>3, Constantes
  <2> QED BY <1>1, <1>7, <2>1, PcbCambia, Zenon
<1>5. Len(q.indice_stack) \in 1 .. MaxEntradas
  BY <1>3, Constantes DEF DelPrograma
<1> QED BY <1>2, <1>3, <1>4, <1>5 DEF DelPrograma, PcbBien

\* A return.
LEMMA PcbVuelve ==
  ASSUME NEW p, DelPrograma(p), PilaBien(p), NEW k, k = Len(p.indice_stack), k > 1,
         NEW r \in 0 .. N, NEW q, Vuelta(p, k, r, q)
  PROVE  PcbBien(q, r)
<1>6. PICK t : t = SubSeq(p.indice_stack, 1, k - 1)
  OBVIOUS
<1>7. q = [p EXCEPT !.indice_stack = t, !.pc = r]
  BY <1>6 DEF Vuelta
<1>1. p \in Pcbs /\ k \in 1 .. MaxEntradas /\ k \in Nat
  BY Constantes DEF DelPrograma
<1>2. /\ q.pc = r /\ q.pid = p.pid /\ q.fin_stack = p.fin_stack
      /\ q.cant_pags_totales = p.cant_pags_totales
      /\ q.indice_codigo = p.indice_codigo /\ q.indice_etiquetas = p.indice_etiquetas
      /\ q.indice_stack = t
  BY <1>1, <1>7 DEF Pcbs
<1>3. /\ PilaBien(q) /\ q.indice_stack \in Seq(EntradasDe) /\ Len(q.indice_stack) = k - 1
  <2>1. q.indice_stack = SubSeq(p.indice_stack, 1, k - 1)
    BY <1>2, <1>6
  <2>2. PilaDe(q, k - 1)
    BY <1>1, <1>2, <2>1, PilaVuelve, Zenon
  <2> QED BY <2>2 DEF PilaDe
<1>4. q \in Pcbs
  <2>1. r \in Nat /\ t \in Seq(EntradasDe)
    BY <1>2, <1>3, Constantes
  <2> QED BY <1>1, <1>7, <2>1, PcbCambia, Zenon
<1>5. Len(q.indice_stack) \in 1 .. MaxEntradas
  BY <1>1, <1>3, Constantes
<1> QED BY <1>2, <1>3, <1>4, <1>5 DEF DelPrograma, PcbBien

-----------------------------------------------------------------------------
(* The steps *)

LEMMA ViajeFiel ==
  ASSUME CpuInv, Cabe
  PROVE  Viaje(pcb) = pcb
<1>1. PICK p : p = pcb
  OBVIOUS
<1>2. p \in Pcbs /\ PcbChico(p)
  BY <1>1 DEF CpuInv, DelPrograma, Cabe
<1>3. Viaje(p) = p
  BY <1>2, SerializacionExacta
<1> QED BY <1>1, <1>3

\* A write stays in the cells of the stack, or the program is gone.
LEMMA Escribe ==
  ASSUME Globales, NEW dir, NEW v \in Valores, Escribir(dir, v)
  PROVE  memoria' \in [Celdas -> Valores] /\ lugar' \in {lugar, "pisado"}
BY DEF Escribir, Globales

LEMMA Lee ==
  ASSUME Globales, NEW dir, Leer(dir)
  PROVE  salida' \in Valores \union {SinSalida} /\ lugar' \in {lugar, "pisado"}
BY DEF Leer, Globales

LEMMA Arranque == Init => CpuInv /\ FetchInv
<1> SUFFICES ASSUME Init PROVE CpuInv /\ FetchInv
  OBVIOUS
<1>1. pcb = PcbNuevo /\ linea = "fuera" /\ lugar = "nucleo" /\ paso_fetch = "nada"
  BY DEF Init, InitFetch
<1>2. DelPrograma(pcb) /\ PilaBien(pcb)
  BY <1>1, PcbNuevoBien
<1>3. Globales
  <2>1. /\ lugar = "nucleo" /\ linea = "fuera" /\ quantum_actual \in 0 .. Quantum
        /\ memoria \in [Celdas -> Valores] /\ salida = SinSalida
    BY Constantes DEF Init
  <2>2. stack_overflow = FALSE /\ llego_sugus = FALSE /\ arranco = FALSE
    BY DEF Init
  <2> QED BY <2>1, <2>2 DEF Globales
<1>4. Marcha
  <2>1. pcb.pc < N
    BY <1>1, Constantes DEF PcbNuevo
  <2> QED BY <1>1, <2>1 DEF Marcha
<1>5. InitFetch
  BY DEF Init
<1> QED BY <1>2, <1>3, <1>4, <1>5, InicioFetch DEF CpuInv

\* The steps that leave the PCB and the fetch alone.
MismoPcb == pcb' = pcb /\ paso_fetch' = paso_fetch

LEMMA PasoSinPcb ==
  ASSUME CpuInv, MismoPcb, Globales', Marcha'
  PROVE  CpuInv'
BY DEF CpuInv, MismoPcb

LEMMA PasoConPcb ==
  ASSUME NEW q, pcb' = q, DelPrograma(q), PilaBien(q), Globales', Marcha'
  PROVE  CpuInv'
BY DEF CpuInv

LEMMA PasoCorrerPcb ==
  ASSUME CpuInv, Cabe, CorrerPcb
  PROVE  CpuInv'
<1>1. pcb' = pcb
  BY ViajeFiel DEF CorrerPcb
<1>2. Globales'
  <2>1. /\ lugar' = "cpu" /\ linea' = linea /\ quantum_actual' \in 0 .. Quantum
        /\ memoria' = memoria /\ salida' = salida
    BY Constantes DEF CorrerPcb
  <2>2. /\ stack_overflow' = stack_overflow /\ llego_sugus' \in {llego_sugus, FALSE}
        /\ arranco' = TRUE
    BY DEF CorrerPcb
  <2> QED BY <2>1, <2>2 DEF CpuInv, Globales
<1>3. Marcha'
  BY <1>1 DEF CorrerPcb, CpuInv, Marcha, fetch
<1> QED BY <1>1, <1>2, <1>3, PasoSinPcb DEF MismoPcb, CorrerPcb, fetch

\* The PCB goes back to the kernel from inside a line.
LEMMA PasoEntregar ==
  ASSUME CpuInv, Cabe, Entregar, lugar = "cpu", pcb.pc < N,
         UNCHANGED <<memoria, salida, fetch>>, paso_fetch = "nada",
         {stack_overflow', llego_sugus', arranco'} \subseteq BOOLEAN
  PROVE  CpuInv'
<1>1. pcb' = pcb
  BY ViajeFiel DEF Entregar
<1>2. Globales'
  BY Constantes DEF Entregar, CpuInv, Globales
<1>3. Marcha'
  BY <1>1 DEF Entregar, Marcha, fetch
<1> QED BY <1>1, <1>2, <1>3, PasoSinPcb DEF MismoPcb, fetch

\* A line is under way: nothing is being fetched, and the program goes on after it
\* if its last line is not the one that runs.
LEMMA EnUnaLinea ==
  ASSUME CpuInv, lugar = "cpu", linea # "fuera"
  PROVE  /\ paso_fetch = "nada" /\ (linea # "libre" => pcb.pc < N)
         /\ (HayMas => pcb.pc < N)
<1>1. paso_fetch = "nada" /\ (linea # "libre" => pcb.pc < N)
  BY DEF CpuInv, Marcha
<1>2. Len(pcb.indice_codigo) = N
  BY LargoDelIndice DEF CpuInv, DelPrograma
<1> QED BY <1>1, <1>2 DEF HayMas

LEMMA PasoFinInstruccion ==
  ASSUME CpuInv, Cabe, FinInstruccion
  PROVE  CpuInv'
<1>1. /\ lugar = "cpu" /\ linea \in {"variables", "argumentos", "hecha"}
      /\ UNCHANGED <<memoria, definidas, salida, fetch>>
  BY DEF FinInstruccion
<1>2. paso_fetch = "nada" /\ pcb.pc < N
  BY <1>1, EnUnaLinea
<1>3. stack_overflow \in BOOLEAN /\ llego_sugus \in BOOLEAN /\ arranco \in BOOLEAN
  BY DEF CpuInv, Globales
<1>4. CASE Entregar /\ {stack_overflow', llego_sugus', arranco'} \subseteq BOOLEAN
  BY <1>1, <1>2, <1>4, PasoEntregar
<1>5. CASE /\ lugar' = "abortado" /\ linea' = "fuera" /\ stack_overflow' = FALSE
           /\ UNCHANGED <<pcb, quantum_actual, llego_sugus, arranco>>
  <2>1. Globales'
    BY <1>1, <1>5 DEF CpuInv, Globales
  <2>2. Marcha'
    BY <1>1, <1>2, <1>5 DEF CpuInv, Marcha, fetch
  <2> QED BY <1>1, <1>5, <2>1, <2>2, PasoSinPcb DEF MismoPcb, fetch
<1>6. CASE /\ quantum_actual < Quantum /\ quantum_actual' = quantum_actual + 1
           /\ linea' = "fuera"
           /\ UNCHANGED <<lugar, pcb, stack_overflow, llego_sugus, arranco>>
  <2>1. Globales'
    BY <1>1, <1>6, Constantes DEF CpuInv, Globales
  <2>2. Marcha'
    BY <1>1, <1>2, <1>6 DEF CpuInv, Marcha, fetch
  <2> QED BY <1>1, <1>6, <2>1, <2>2, PasoSinPcb DEF MismoPcb, fetch
<1> QED BY <1>3, <1>4, <1>5, <1>6 DEF FinInstruccion

\* The steps of the fetch.
LEMMA PasoBuscar ==
  ASSUME CpuInv, BuscarInstruccion \/ SeguirBuscando
  PROVE  CpuInv'
<1>1. /\ UNCHANGED <<lugar, pcb, linea, cpu, memoria, definidas, salida>>
      /\ lugar = "cpu" /\ linea = "fuera"
  BY DEF BuscarInstruccion, SeguirBuscando, PasoDeFetch, PedirPrimera, PedirResto, PedidoNegado,
         QuedaPorPedir, Completar, CpuInv, Marcha
<1>2. Globales' /\ Marcha' /\ pcb' = pcb
  BY <1>1 DEF CpuInv, Globales, Marcha, cpu
<1> QED BY <1>2, PasoConPcb DEF CpuInv

LEMMA PasoLeer ==
  ASSUME CpuInv, SinInstruccion \/ LeerLinea
  PROVE  CpuInv'
<1>1. CASE SinInstruccion
  <2>1. Globales' /\ Marcha' /\ pcb' = pcb
    BY <1>1 DEF CpuInv, Globales, Marcha, cpu, SinInstruccion, TerminarFetch
  <2> QED BY <2>1, PasoConPcb DEF CpuInv
<1>2. CASE LeerLinea
  <2>1. /\ lugar = "cpu" /\ paso_fetch = "completa" /\ paso_fetch' = "nada"
        /\ linea' = "libre" /\ salida' = SinSalida
        /\ UNCHANGED <<lugar, cpu, memoria, definidas>>
        /\ pcb' = [pcb EXCEPT !.pc = pcb.pc + 1]
    BY <1>2 DEF LeerLinea, TerminarFetch
  <2>2. linea = "fuera" /\ pcb.pc < N
    BY <2>1 DEF CpuInv, Marcha
  <2>3. pcb.pc + 1 \in 0 .. N
    BY <2>2, Constantes DEF CpuInv, DelPrograma
  <2>4. DelPrograma(pcb') /\ PilaBien(pcb')
    <3>1. PICK p : p = pcb
      OBVIOUS
    <3>2. PICK r \in 0 .. N : r = pcb.pc + 1
      BY <2>3
    <3>3. PICK q : q = pcb'
      OBVIOUS
    <3>4. DelPrograma(p) /\ PilaBien(p) /\ q = [p EXCEPT !.pc = r]
      BY <2>1, <3>1, <3>2, <3>3 DEF CpuInv
    <3> QED BY <3>2, <3>3, <3>4, PcbSalta
  <2>5. Globales'
    BY <2>1 DEF CpuInv, Globales, cpu
  <2>6. Marcha'
    BY <2>1 DEF Marcha
  <2> QED BY <2>4, <2>5, <2>6 DEF CpuInv
<1> QED BY <1>1, <1>2

LEMMA PasoSenal ==
  ASSUME CpuInv, Sigusr1
  PROVE  CpuInv'
<1>1. Globales' /\ Marcha' /\ pcb' = pcb
  BY DEF CpuInv, Globales, Marcha, Sigusr1, fetch
<1> QED BY <1>1, PasoConPcb DEF CpuInv

\* A definition, of a variable or of an argument.
LEMMA PcbConEntrada ==
  ASSUME CpuInv, ~StackLleno, NEW g \in EntradasDe, Define(Entrada, g, pcb.fin_stack),
         Len(g.argumentos) <= Len(Digitos), pcb' = ConEntrada(g)
  PROVE  DelPrograma(pcb') /\ PilaBien(pcb') /\ pcb'.pc = pcb.pc
<1>1. PICK p : p = pcb
  OBVIOUS
<1>2. PICK k : k = Len(p.indice_stack)
  OBVIOUS
<1>3. PICK q : q = pcb'
  OBVIOUS
<1>4. /\ DelPrograma(p) /\ PilaBien(p) /\ p.fin_stack.pag # p.cant_pags_totales
      /\ Define(p.indice_stack[k], g, p.fin_stack)
  BY <1>1, <1>2 DEF CpuInv, StackLleno, Entrada, Tope
<1>5. Definida(p, k, g, q)
  BY <1>1, <1>2, <1>3 DEF ConEntrada, Tope, Definida
<1>6. PcbBien(q, p.pc)
  BY <1>2, <1>4, <1>5, PcbDefine, Zenon
<1> QED BY <1>1, <1>3, <1>6 DEF PcbBien

LEMMA EntradaEs ==
  ASSUME CpuInv
  PROVE  /\ Entrada \in EntradasDe /\ EntradaBien(pcb, Tope, Entrada)
         /\ Len(Entrada.argumentos) \in Nat /\ Tope \in Nat \ {0}
         /\ pcb.fin_stack \in Posiciones
<1>1. PICK p : p = pcb
  OBVIOUS
<1>2. DelPrograma(p) /\ PilaBien(p)
  BY <1>1 DEF CpuInv
<1>3. PICK k \in Nat \ {0} : k = Len(p.indice_stack)
  BY <1>2, EntradaQueCorre
<1>4. p.indice_stack[k] \in EntradasDe /\ EntradaBien(p, k, p.indice_stack[k])
  BY <1>2, <1>3, EntradaQueCorre
<1>5. Len(p.indice_stack[k].argumentos) \in Nat
  BY <1>4, LenProperties DEF EntradasDe
<1>6. p.fin_stack \in Posiciones
  BY <1>2 DEF DelPrograma, Pcbs
<1> QED BY <1>1, <1>3, <1>4, <1>5, <1>6 DEF Entrada, Tope

LEMMA PasoDefinirVariable ==
  ASSUME CpuInv, NEW x \in Letras, DefinirVariable(x)
  PROVE  CpuInv'
<1>1. /\ lugar = "cpu" /\ linea # "fuera" /\ HayMas /\ linea' = "variables"
      /\ UNCHANGED <<lugar, quantum_actual, llego_sugus, arranco, memoria, salida, fetch>>
  BY DEF DefinirVariable, EnLinea
<1>2. paso_fetch = "nada" /\ pcb.pc < N
  BY <1>1, EnUnaLinea
<1>3. /\ stack_overflow' \in BOOLEAN
      /\ \/ pcb' = pcb
         \/ /\ ~StackLleno
            /\ pcb' = ConEntrada([Entrada EXCEPT !.variables =
                                    Append(@, [id |-> x, posicionVar |-> pcb.fin_stack])])
  BY DEF DefinirVariable, CpuInv, Globales
<1>4. DelPrograma(pcb') /\ PilaBien(pcb') /\ pcb'.pc = pcb.pc
  <2>1. CASE pcb' = pcb
    BY <2>1 DEF CpuInv
  <2>2. CASE pcb' # pcb
    <3>1. PICK e : e = Entrada
      OBVIOUS
    <3>2. PICK fin : fin = pcb.fin_stack
      OBVIOUS
    <3>3. PICK g : g = [e EXCEPT !.variables = Append(@, [id |-> x, posicionVar |-> fin])]
      OBVIOUS
    <3>4. e \in EntradasDe /\ fin \in Posiciones /\ EntradaBien(pcb, Tope, e)
      BY <3>1, <3>2, EntradaEs
    <3>5. g \in EntradasDe /\ Define(e, g, fin) /\ g.argumentos = e.argumentos
      BY <3>3, <3>4, UnaVariableMas
    <3>6. Len(g.argumentos) <= Len(Digitos)
      BY <3>4, <3>5 DEF EntradaBien
    <3>7. ~StackLleno /\ pcb' = ConEntrada(g)
      BY <1>3, <2>2, <3>1, <3>2, <3>3
    <3>8. Define(Entrada, g, pcb.fin_stack)
      BY <3>1, <3>2, <3>5
    <3> QED BY <3>5, <3>6, <3>7, <3>8, PcbConEntrada
  <2> QED BY <2>1, <2>2
<1>5. Globales'
  BY <1>1, <1>3 DEF CpuInv, Globales
<1>6. Marcha'
  BY <1>1, <1>2, <1>4 DEF Marcha, fetch
<1> QED BY <1>4, <1>5, <1>6 DEF CpuInv

LEMMA PasoDefinirArgumento ==
  ASSUME CpuInv, NEW v \in Valores, DefinirArgumento(v)
  PROVE  CpuInv'
<1>1. /\ lugar = "cpu" /\ linea = "argumentos" /\ linea' = linea
      /\ Len(Entrada.argumentos) < Len(Digitos)
      /\ UNCHANGED <<quantum_actual, llego_sugus, arranco, salida, fetch>>
  BY DEF DefinirArgumento, EnLinea
<1>2. paso_fetch = "nada" /\ pcb.pc < N
  BY <1>1, EnUnaLinea
<1>3. /\ stack_overflow' \in BOOLEAN
      /\ \/ pcb' = pcb /\ memoria' = memoria /\ lugar' = lugar
         \/ /\ ~StackLleno
            /\ pcb' = ConEntrada([Entrada EXCEPT !.argumentos = Append(@, pcb.fin_stack)])
            /\ Escribir(pos_fisica_a_logica(pcb.fin_stack), v)
  BY DEF DefinirArgumento, CpuInv, Globales
<1>4. memoria' \in [Celdas -> Valores] /\ lugar' \in {lugar, "pisado"}
  BY <1>3, Escribe DEF CpuInv, Globales
<1>5. DelPrograma(pcb') /\ PilaBien(pcb') /\ pcb'.pc = pcb.pc
  <2>1. CASE pcb' = pcb
    BY <2>1 DEF CpuInv
  <2>2. CASE pcb' # pcb
    <3>1. PICK e : e = Entrada
      OBVIOUS
    <3>2. PICK fin : fin = pcb.fin_stack
      OBVIOUS
    <3>3. PICK g : g = [e EXCEPT !.argumentos = Append(@, fin)]
      OBVIOUS
    <3>4. e \in EntradasDe /\ fin \in Posiciones /\ Len(e.argumentos) \in Nat
      BY <3>1, <3>2, EntradaEs
    <3>5. g \in EntradasDe /\ Define(e, g, fin) /\ Len(g.argumentos) = Len(e.argumentos) + 1
      BY <3>3, <3>4, UnArgumentoMas
    <3>6. Len(g.argumentos) <= Len(Digitos)
      <4>1. PICK n \in Nat : n = Len(Digitos)
        BY NombresAssumption, LenProperties
      <4> QED BY <1>1, <3>1, <3>4, <3>5, <4>1
    <3>7. ~StackLleno /\ pcb' = ConEntrada(g)
      BY <1>3, <2>2, <3>1, <3>2, <3>3
    <3>8. Define(Entrada, g, pcb.fin_stack)
      BY <3>1, <3>2, <3>5
    <3> QED BY <3>5, <3>6, <3>7, <3>8, PcbConEntrada
  <2> QED BY <2>1, <2>2
<1>6. Globales'
  BY <1>1, <1>3, <1>4 DEF CpuInv, Globales
<1>7. Marcha'
  BY <1>1, <1>2, <1>4, <1>5 DEF Marcha, fetch
<1> QED BY <1>5, <1>6, <1>7 DEF CpuInv

LEMMA NombreDeEntrada ==
  ASSUME CpuInv, NEW id \in Nombres(Entrada)
  PROVE  EsCelda(PosicionEn(Entrada, id))
<1>1. PICK p : p = pcb
  OBVIOUS
<1>2. PICK e : e = Entrada
  OBVIOUS
<1>3. DelPrograma(p) /\ PilaBien(p) /\ e = p.indice_stack[Len(p.indice_stack)]
  BY <1>1, <1>2 DEF CpuInv, Entrada, Tope
<1>4. Tomada(p, PosicionEn(e, id))
  BY <1>2, <1>3, NombreTomado
<1> QED BY <1>2, <1>4 DEF Tomada

\* Every address of a program is of a cell, or one that it computed; as page and
\* offset it is itself.
LEMMA DireccionEs ==
  ASSUME NEW dir \in Nat
  PROVE  /\ pos_logica_a_fisica(dir) \in Posiciones
         /\ pos_logica_a_fisica(dir).offset \in 0 .. TamPag - 1
         /\ Dir(pos_logica_a_fisica(dir)) = dir
<1>1. /\ dir \div TamPag \in Nat /\ dir % TamPag \in 0 .. TamPag - 1
      /\ dir = (dir \div TamPag) * TamPag + (dir % TamPag)
  <2>1. dir \div TamPag \in Nat /\ dir % TamPag \in Nat /\ dir % TamPag < TamPag
    BY Division
  <2>2. dir = (dir \div TamPag) * TamPag + (dir % TamPag)
    BY Division
  <2>3. dir % TamPag \in 0 .. TamPag - 1
    BY <2>1, TamPagAssumption
  <2> QED BY <2>1, <2>2, <2>3
<1>2. pos_logica_a_fisica(dir) = [pag |-> dir \div TamPag, offset |-> dir % TamPag, size |-> 4]
  BY DEF pos_logica_a_fisica, Pos
<1> QED BY <1>1, <1>2, TamPagAssumption DEF Posiciones, Dir, pos_fisica_a_logica

LEMMA DestinoPosible ==
  ASSUME CpuInv, NEW dir \in Destinos
  PROVE  dir \in Nat /\ dir \in Direcciones
<1>1. CASE dir \in Punteros
  BY <1>1, ProgramaAssumption DEF Direcciones
<1>2. CASE \E id \in Nombres(Entrada) : dir = obtenerPosicionVariable(id)
  <2>1. PICK id \in Nombres(Entrada) : dir = Dir(PosicionEn(Entrada, id))
    BY <1>2 DEF obtenerPosicionVariable, Dir
  <2>2. EsCelda(PosicionEn(Entrada, id))
    BY NombreDeEntrada
  <2> QED BY <2>1, <2>2, CeldaEnPila DEF Direcciones
<1> QED BY <1>1, <1>2 DEF Destinos

LEMMA PasoAsignar ==
  ASSUME CpuInv, NEW dir, NEW v \in Valores, Asignar(dir, v)
  PROVE  CpuInv'
<1>1. /\ lugar = "cpu" /\ linea = "libre" /\ HayMas /\ linea' = "hecha"
      /\ Escribir(dir, v)
      /\ UNCHANGED <<pcb, cpu, definidas, salida, fetch>>
  BY DEF Asignar, EnLinea
<1>2. paso_fetch = "nada" /\ pcb.pc < N
  BY <1>1, EnUnaLinea
<1>3. memoria' \in [Celdas -> Valores] /\ lugar' \in {lugar, "pisado"}
  BY <1>1, Escribe DEF CpuInv
<1>4. Globales'
  BY <1>1, <1>3 DEF CpuInv, Globales, cpu
<1>5. Marcha'
  BY <1>1, <1>2, <1>3 DEF Marcha, fetch
<1> QED BY <1>1, <1>4, <1>5, PasoSinPcb DEF MismoPcb, fetch

LEMMA PasoImprimir ==
  ASSUME CpuInv, NEW dir, Imprimir(dir)
  PROVE  CpuInv'
<1>1. /\ lugar = "cpu" /\ linea = "libre" /\ HayMas /\ linea' = "hecha"
      /\ Leer(dir)
      /\ UNCHANGED <<pcb, cpu, memoria, definidas, fetch>>
  BY DEF Imprimir, EnLinea
<1>2. paso_fetch = "nada" /\ pcb.pc < N
  BY <1>1, EnUnaLinea
<1>3. salida' \in Valores \union {SinSalida} /\ lugar' \in {lugar, "pisado"}
  BY <1>1, Lee DEF CpuInv
<1>4. Globales'
  BY <1>1, <1>3 DEF CpuInv, Globales, cpu
<1>5. Marcha'
  BY <1>1, <1>2, <1>3 DEF Marcha, fetch
<1> QED BY <1>1, <1>4, <1>5, PasoSinPcb DEF MismoPcb, fetch

LEMMA PasoNada ==
  ASSUME CpuInv, Nada
  PROVE  CpuInv'
<1>1. /\ lugar = "cpu" /\ linea = "libre" /\ HayMas /\ linea' = "hecha"
      /\ UNCHANGED <<lugar, pcb, cpu, memoria, definidas, salida, fetch>>
  BY DEF Nada, EnLinea
<1>2. paso_fetch = "nada" /\ pcb.pc < N
  BY <1>1, EnUnaLinea
<1>3. Globales'
  BY <1>1 DEF CpuInv, Globales, cpu
<1>4. Marcha'
  BY <1>1, <1>2 DEF Marcha, fetch
<1> QED BY <1>1, <1>3, <1>4, PasoSinPcb DEF MismoPcb, fetch

LEMMA PasoIrAlLabel ==
  ASSUME CpuInv, NEW etiqueta \in Etiquetas, IrAlLabel(etiqueta)
  PROVE  CpuInv'
<1>1. /\ lugar = "cpu" /\ linea = "libre" /\ linea' = "hecha"
      /\ pcb' = [pcb EXCEPT !.pc = etiqueta]
      /\ UNCHANGED <<lugar, cpu, memoria, definidas, salida, fetch>>
  BY DEF IrAlLabel, EnLinea
<1>2. paso_fetch = "nada"
  BY <1>1, EnUnaLinea
<1>3. etiqueta \in 0 .. N /\ etiqueta < N
  BY ProgramaAssumption, Constantes DEF N
<1>4. DelPrograma(pcb') /\ PilaBien(pcb') /\ pcb'.pc = etiqueta
  <2>1. PICK p : p = pcb
    OBVIOUS
  <2>2. PICK q : q = pcb'
    OBVIOUS
  <2>3. DelPrograma(p) /\ PilaBien(p) /\ q = [p EXCEPT !.pc = etiqueta]
    BY <1>1, <2>1, <2>2 DEF CpuInv
  <2> QED BY <1>3, <2>2, <2>3, PcbSalta
<1>5. Globales'
  BY <1>1 DEF CpuInv, Globales, cpu
<1>6. Marcha'
  BY <1>1, <1>2, <1>3, <1>4 DEF Marcha, fetch
<1> QED BY <1>4, <1>5, <1>6 DEF CpuInv

LEMMA PasoLlamar ==
  ASSUME CpuInv, NEW etiqueta \in Etiquetas, NEW dir, LlamarConRetorno(etiqueta, dir)
  PROVE  CpuInv'
<1>1. /\ lugar = "cpu" /\ linea = "libre" /\ HayMas /\ linea' = "argumentos"
      /\ dir \in Destinos /\ Tope < MaxEntradas
      /\ UNCHANGED <<lugar, cpu, memoria, definidas, salida, fetch>>
  BY DEF LlamarConRetorno, EnLinea
<1>2. paso_fetch = "nada" /\ pcb.pc < N
  BY <1>1, EnUnaLinea
<1>3. etiqueta \in 0 .. N /\ etiqueta < N
  BY ProgramaAssumption, Constantes DEF N
<1>4. PICK w : w = pos_logica_a_fisica(dir)
  OBVIOUS
<1>5. EsDestino(w)
  <2>1. dir \in Nat /\ dir \in Direcciones
    BY <1>1, DestinoPosible
  <2> QED BY <1>4, <2>1, DireccionEs DEF EsDestino
<1>6. DelPrograma(pcb') /\ PilaBien(pcb') /\ pcb'.pc = etiqueta
  <2>1. PICK p : p = pcb
    OBVIOUS
  <2>2. PICK q : q = pcb'
    OBVIOUS
  <2>3. DelPrograma(p) /\ PilaBien(p) /\ p.pc < N /\ Len(p.indice_stack) < MaxEntradas
    BY <1>1, <1>2, <2>1 DEF CpuInv, Tope
  <2>4. Llamada(p, w, etiqueta, q)
    BY <1>4, <2>1, <2>2 DEF LlamarConRetorno, EntradaNueva, Llamada
  <2>5. PcbBien(q, etiqueta)
    BY <1>3, <1>5, <2>3, <2>4, PcbLlama, Zenon
  <2> QED BY <2>2, <2>5 DEF PcbBien
<1>7. Globales'
  BY <1>1 DEF CpuInv, Globales, cpu
<1>8. Marcha'
  BY <1>1, <1>2, <1>3, <1>6 DEF Marcha, fetch
<1> QED BY <1>6, <1>7, <1>8 DEF CpuInv

LEMMA PasoRetornar ==
  ASSUME CpuInv, NEW v \in Valores, Retornar(v)
  PROVE  CpuInv'
<1>1. /\ lugar = "cpu" /\ linea = "libre" /\ Tope > 1 /\ linea' = "hecha"
      /\ Escribir(pos_fisica_a_logica(Entrada.pos_var_retorno), v)
      /\ UNCHANGED <<cpu, definidas, salida, fetch>>
  BY DEF Retornar, EnLinea
<1>2. paso_fetch = "nada"
  BY <1>1, EnUnaLinea
<1>3. memoria' \in [Celdas -> Valores] /\ lugar' \in {lugar, "pisado"}
  BY <1>1, Escribe DEF CpuInv
<1>4. PICK r : r = Entrada.pos_retorno
  OBVIOUS
<1>5. r \in 0 .. N /\ r < N
  <2>1. r \in Nat /\ r < N
    BY <1>4, EntradaEs DEF EntradasDe, EntradaBien
  <2> QED BY <2>1, Constantes
<1>6. DelPrograma(pcb') /\ PilaBien(pcb') /\ pcb'.pc = r
  <2>1. PICK p : p = pcb
    OBVIOUS
  <2>2. PICK q : q = pcb'
    OBVIOUS
  <2>3. PICK k : k = Len(p.indice_stack)
    OBVIOUS
  <2>4. DelPrograma(p) /\ PilaBien(p) /\ k > 1
    BY <1>1, <2>1, <2>3 DEF CpuInv, Tope
  <2>5. Vuelta(p, k, r, q)
    BY <1>4, <2>1, <2>2, <2>3 DEF Retornar, Tope, Vuelta
  <2>6. PcbBien(q, r)
    BY <1>5, <2>3, <2>4, <2>5, PcbVuelve, Zenon
  <2> QED BY <2>2, <2>6 DEF PcbBien
<1>7. Globales'
  BY <1>1, <1>3 DEF CpuInv, Globales, cpu
<1>8. Marcha'
  BY <1>1, <1>2, <1>3, <1>5, <1>6 DEF Marcha, fetch
<1> QED BY <1>6, <1>7, <1>8 DEF CpuInv

LEMMA PasoBloquear ==
  ASSUME CpuInv, Cabe, Bloquear
  PROVE  CpuInv'
<1>1. /\ lugar = "cpu" /\ linea = "libre" /\ HayMas
      /\ UNCHANGED <<stack_overflow, llego_sugus, arranco, memoria, definidas, salida, fetch>>
  BY DEF Bloquear, EnLinea
<1>2. paso_fetch = "nada" /\ pcb.pc < N
  BY <1>1, EnUnaLinea
<1>3. CASE Entregar
  <2>1. {stack_overflow', llego_sugus', arranco'} \subseteq BOOLEAN
    BY <1>1 DEF CpuInv, Globales
  <2> QED BY <1>1, <1>2, <1>3, <2>1, PasoEntregar
<1>4. CASE lugar' = "indefinido" /\ UNCHANGED <<pcb, linea, quantum_actual>>
  <2>1. Globales' /\ Marcha'
    BY <1>1, <1>2, <1>4 DEF CpuInv, Globales, Marcha, fetch
  <2> QED BY <1>1, <1>4, <2>1, PasoSinPcb DEF MismoPcb, fetch
<1> QED BY <1>3, <1>4 DEF Bloquear

LEMMA PasoFinalizar ==
  ASSUME CpuInv, Finalizar
  PROVE  CpuInv'
<1>1. /\ lugar = "cpu" /\ linea = "libre" /\ linea' = "fuera"
      /\ lugar' \in {"termino", "indefinido"}
      /\ UNCHANGED <<pcb, cpu, memoria, definidas, salida, fetch>>
  BY DEF Finalizar, EnLinea
<1>2. paso_fetch = "nada"
  BY <1>1, EnUnaLinea
<1>3. Globales'
  BY <1>1 DEF CpuInv, Globales, cpu
<1>4. Marcha'
  BY <1>1, <1>2 DEF Marcha, fetch
<1> QED BY <1>1, <1>3, <1>4, PasoSinPcb DEF MismoPcb, fetch

\* One step per action.
LEMMA PasoCpu == CpuInv /\ Cabe /\ [Next]_vars => CpuInv'
<1> SUFFICES ASSUME CpuInv, Cabe, [Next]_vars PROVE CpuInv'
  OBVIOUS
<1>1. CASE UNCHANGED vars
  BY <1>1 DEF vars, cpu, fetch, CpuInv, Globales, Marcha
<1>2. CASE CorrerPcb \/ BuscarInstruccion \/ SeguirBuscando \/ SinInstruccion \/ LeerLinea
  BY <1>2, PasoCorrerPcb, PasoBuscar, PasoLeer
<1>3. CASE FinInstruccion \/ Sigusr1 \/ Nada \/ Bloquear \/ Finalizar
  BY <1>3, PasoFinInstruccion, PasoSenal, PasoNada, PasoBloquear, PasoFinalizar
<1>4. CASE \E x \in Letras : DefinirVariable(x)
  BY <1>4, PasoDefinirVariable
<1>5. CASE \E dir \in Direcciones : \/ Imprimir(dir)
                                   \/ \E e \in Etiquetas : LlamarConRetorno(e, dir)
  BY <1>5, PasoImprimir, PasoLlamar
<1>6. CASE \E e \in Etiquetas : IrAlLabel(e)
  BY <1>6, PasoIrAlLabel
<1>7. CASE \E v \in Valores : \/ DefinirArgumento(v) \/ Retornar(v)
                              \/ \E dir \in Direcciones : Asignar(dir, v)
  BY <1>7, PasoDefinirArgumento, PasoRetornar, PasoAsignar
<1> QED BY <1>1, <1>2, <1>3, <1>4, <1>5, <1>6, <1>7 DEF Next

-----------------------------------------------------------------------------
(* The theorems *)

\* Seen from the fetch, each step of the interpreter is one of its own.
LEMMA PasoDeCpuEsDeFetch == CpuInv /\ [Next]_vars => [NextFetch]_fetch
<1> SUFFICES ASSUME CpuInv, [Next]_vars PROVE [NextFetch]_fetch
  OBVIOUS
<1>1. CASE BuscarInstruccion
  <2>1. pcb.pc < N
    BY <1>1 DEF BuscarInstruccion, CpuInv, Marcha
  <2>2. pcb.pc + 1 \in 1 .. N
    BY <2>1, Constantes DEF CpuInv, DelPrograma
  <2>3. 1 .. N = DOMAIN indice_codigo
    BY InstruccionesAssumption, LenProperties DEF N, indice_codigo
  <2>4. EmpezarFetch(indice_codigo[pcb.pc + 1])
    BY <1>1 DEF BuscarInstruccion, CpuInv, DelPrograma
  <2> QED BY <2>2, <2>3, <2>4 DEF NextFetch
<1>2. CASE SeguirBuscando
  BY <1>2 DEF SeguirBuscando, NextFetch
<1>3. CASE SinInstruccion \/ LeerLinea
  BY <1>3 DEF SinInstruccion, LeerLinea, NextFetch
<1>4. CASE UNCHANGED fetch
  BY <1>4
<1>5. ASSUME CorrerPcb \/ FinInstruccion \/ Sigusr1 \/ Nada \/ Bloquear \/ Finalizar
      PROVE  UNCHANGED fetch
  BY <1>5 DEF CorrerPcb, FinInstruccion, Sigusr1, Nada, Bloquear, Finalizar
<1>6. ASSUME \/ \E x \in Letras : DefinirVariable(x)
             \/ \E dir \in Direcciones : \/ Imprimir(dir)
                                       \/ \E e \in Etiquetas : LlamarConRetorno(e, dir)
             \/ \E e \in Etiquetas : IrAlLabel(e)
      PROVE  UNCHANGED fetch
  BY <1>6 DEF DefinirVariable, Imprimir, LlamarConRetorno, IrAlLabel
<1>7. ASSUME \E v \in Valores : \/ DefinirArgumento(v) \/ Retornar(v)
                                \/ \E dir \in Direcciones : Asignar(dir, v)
      PROVE  UNCHANGED fetch
  BY <1>7 DEF DefinirArgumento, Retornar, Asignar
<1>8. CASE UNCHANGED vars
  BY <1>8 DEF vars
<1> QED BY <1>1, <1>2, <1>3, <1>4, <1>5, <1>6, <1>7, <1>8 DEF Next

\* The invariant of the interpreter.  Cabe is what the wire asks for: without it
\* deserializar gives another PCB.
THEOREM InvarianteCpu == Spec /\ []Cabe => [](CpuInv /\ FetchInv)
<1>1. CpuInv /\ FetchInv /\ Cabe /\ [Next]_vars => (CpuInv /\ FetchInv)'
  BY PasoCpu, PasoDeCpuEsDeFetch, PasoFetch
<1> QED BY <1>1, Arranque, PTL DEF Spec

\* Types of the PCB and of the globals of the CPU: the program counter stays in
\* the program, the stack index in its bound, every position in the stack.
THEOREM TiposCpu == Spec /\ []Cabe => []TypeOK
<1>1. CpuInv => TypeOK
  <2> SUFFICES ASSUME CpuInv PROVE TypeOK
    OBVIOUS
  <2>1. PICK p : p = pcb
    OBVIOUS
  <2>2. DelPrograma(p) /\ PilaBien(p)
    BY <2>1 DEF CpuInv
  <2>3. ASSUME NEW n \in 1 .. Len(p.indice_stack)
        PROVE  /\ p.indice_stack[n].pos_retorno \in 0 .. N
               /\ n > 1 => p.indice_stack[n].pos_var_retorno.offset \in 0 .. TamPag - 1
               /\ \A i \in DOMAIN p.indice_stack[n].argumentos :
                    EsPos(p.indice_stack[n].argumentos[i])
               /\ \A i \in DOMAIN p.indice_stack[n].variables :
                    /\ p.indice_stack[n].variables[i].id \in Letras
                    /\ EsPos(p.indice_stack[n].variables[i].posicionVar)
    <3>1. PICK e : e = p.indice_stack[n]
      OBVIOUS
    <3>2. e \in EntradasDe /\ EntradaBien(p, n, e)
      BY <2>2, <3>1, EntradaQueCorre
    <3>3. e.pos_retorno \in 0 .. N
      BY <3>2, Constantes DEF EntradasDe, EntradaBien
    <3>4. n > 1 => e.pos_var_retorno.offset \in 0 .. TamPag - 1
      BY <3>2 DEF EntradaBien, EsDestino
    <3>5. \A i \in DOMAIN e.argumentos : EsPos(e.argumentos[i])
      <4>1. DOMAIN e.argumentos = 1 .. Len(e.argumentos)
        BY <3>2, LenProperties DEF EntradasDe
      <4> QED BY <3>2, <4>1 DEF EntradaBien, Tomada, EsCelda
    <3>6. ASSUME NEW i \in DOMAIN e.variables
          PROVE  e.variables[i].id \in Letras /\ EsPos(e.variables[i].posicionVar)
      <4>1. DOMAIN e.variables = 1 .. Len(e.variables) /\ e.variables \in Seq(VariablesDe)
        BY <3>2, LenProperties DEF EntradasDe
      <4>2. e.variables[i] \in VariablesDe
        BY <4>1, ElementOfSeq
      <4> QED BY <3>2, <4>1, <4>2 DEF EntradaBien, Tomada, EsCelda, VariablesDe
    <3> QED BY <3>1, <3>3, <3>4, <3>5, <3>6
  <2>4. /\ p.pid = Pid /\ p.pc \in 0 .. N /\ p.cant_pags_totales = PagsCodigo + TamStack
        /\ p.indice_codigo = indice_codigo /\ EsPos(p.fin_stack)
        /\ Len(p.indice_stack) \in 1 .. MaxEntradas
    BY <2>2 DEF DelPrograma, PilaBien, FinBien
  <2>5. /\ lugar \in {"nucleo", "cpu", "termino", "abortado", "pisado", "indefinido"}
        /\ linea \in {"fuera", "libre", "variables", "argumentos", "hecha"}
        /\ quantum_actual \in 0 .. Quantum
        /\ memoria \in [Celdas -> Valores] /\ salida \in Valores \union {SinSalida}
    BY DEF CpuInv, Globales
  <2>6. {stack_overflow, llego_sugus, arranco} \subseteq BOOLEAN
    BY DEF CpuInv, Globales
  <2> QED BY <2>1, <2>3, <2>4, <2>5, <2>6 DEF TypeOK, Tope, N
<1> QED BY <1>1, InvarianteCpu, PTL

\* No two variables or arguments of the calls under way share a cell, and all of
\* them lie before the end of the stack: fin_stack never goes back, so what
\* definirVariable takes is free, whatever calls, returns and CPUs came before.
THEOREM CeldasSeparadas == Spec /\ []Cabe => []VariablesSeparadas
<1>1. CpuInv => VariablesSeparadas
  <2> SUFFICES ASSUME CpuInv PROVE VariablesSeparadas
    OBVIOUS
  <2>1. PICK s : s = pcb.indice_stack
    OBVIOUS
  <2>2. PICK k \in Nat : k = Len(s) /\ DOMAIN s = 1 .. k
    <3>1. s \in Seq(EntradasDe)
      BY <2>1 DEF CpuInv, DelPrograma, Pcbs
    <3> QED BY <3>1, LenProperties
  <2>3. \A n \in 1 .. k : /\ s[n] \in EntradasDe /\ EntradaBien(pcb, n, s[n])
                          /\ DOMAIN s[n].argumentos = 1 .. Len(s[n].argumentos)
                          /\ DOMAIN s[n].variables = 1 .. Len(s[n].variables)
    <3> TAKE n \in 1 .. k
    <3>1. PICK p : p = pcb
      OBVIOUS
    <3>2. DelPrograma(p) /\ PilaBien(p) /\ s = p.indice_stack
      BY <2>1, <3>1 DEF CpuInv
    <3>3. s[n] \in EntradasDe /\ EntradaBien(p, n, s[n])
      BY <2>2, <3>2, EntradaQueCorre
    <3>4. s[n].argumentos \in Seq(Posiciones) /\ s[n].variables \in Seq(VariablesDe)
      BY <3>3 DEF EntradasDe
    <3> QED BY <3>1, <3>3, <3>4, LenProperties
  <2>4. \A n, m \in 1 .. k : ParBien(n, m, s[n], s[m])
    BY <2>1, <2>2 DEF CpuInv, PilaBien, Separadas
  <2> DEFINE EsArgumento(l, n, i) == /\ l = <<n, "argumento", i>> /\ n \in 1 .. k
                                     /\ i \in 1 .. Len(s[n].argumentos)
             EsVariable(l, n, i) == /\ l = <<n, "variable", i>> /\ n \in 1 .. k
                                    /\ i \in 1 .. Len(s[n].variables)
  <2>5. \A l \in Lugares : \E n, i : EsArgumento(l, n, i) \/ EsVariable(l, n, i)
    BY <2>1, <2>2, <2>3 DEF Lugares
  <2>6. \A l, n, i : EsArgumento(l, n, i) => Donde(l) = Dir(s[n].argumentos[i])
    BY <2>1 DEF Donde, Dir
  <2>7. \A l, n, i : EsVariable(l, n, i) => Donde(l) = Dir(s[n].variables[i].posicionVar)
    BY <2>1 DEF Donde, Dir
  <2> HIDE DEF EsArgumento, EsVariable
  <2>8. ASSUME NEW l \in Lugares, NEW m \in Lugares, Donde(l) = Donde(m)
        PROVE  l = m
    <3>1. PICK n, i : EsArgumento(l, n, i) \/ EsVariable(l, n, i)
      BY <2>5
    <3>2. PICK o, j : EsArgumento(m, o, j) \/ EsVariable(m, o, j)
      BY <2>5
    <3>3. ParBien(n, o, s[n], s[o]) /\ ParBien(o, n, s[o], s[n])
      BY <2>4, <3>1, <3>2 DEF EsArgumento, EsVariable
    <3>4. CASE EsArgumento(l, n, i) /\ EsArgumento(m, o, j)
      <4>1. Dir(s[n].argumentos[i]) = Dir(s[o].argumentos[j])
        BY <2>6, <2>8, <3>4, Zenon
      <4>2. n = o /\ i = j
        BY <3>3, <3>4, <4>1 DEF ParBien, EsArgumento
      <4> QED BY <3>4, <4>2 DEF EsArgumento
    <3>5. CASE EsVariable(l, n, i) /\ EsVariable(m, o, j)
      <4>1. Dir(s[n].variables[i].posicionVar) = Dir(s[o].variables[j].posicionVar)
        BY <2>7, <2>8, <3>5, Zenon
      <4>2. n = o /\ i = j
        BY <3>3, <3>5, <4>1 DEF ParBien, EsVariable
      <4> QED BY <3>5, <4>2 DEF EsVariable
    <3>6. CASE EsArgumento(l, n, i) /\ EsVariable(m, o, j)
      <4>1. Dir(s[n].argumentos[i]) = Dir(s[o].variables[j].posicionVar)
        <5>1. Donde(l) = Dir(s[n].argumentos[i])
          BY <2>6, <3>6, Zenon
        <5>2. Donde(m) = Dir(s[o].variables[j].posicionVar)
          BY <2>7, <3>6, Zenon
        <5> QED BY <2>8, <5>1, <5>2, Zenon
      <4>2. i \in 1 .. Len(s[n].argumentos) /\ j \in 1 .. Len(s[o].variables)
        BY <3>6 DEF EsArgumento, EsVariable
      <4> QED BY <3>3, <4>1, <4>2, Zenon DEF ParBien
    <3>7. CASE EsVariable(l, n, i) /\ EsArgumento(m, o, j)
      <4>1. Dir(s[o].argumentos[j]) = Dir(s[n].variables[i].posicionVar)
        <5>1. Donde(m) = Dir(s[o].argumentos[j])
          BY <2>6, <3>7, Zenon
        <5>2. Donde(l) = Dir(s[n].variables[i].posicionVar)
          BY <2>7, <3>7, Zenon
        <5> QED BY <2>8, <5>1, <5>2, Zenon
      <4>2. j \in 1 .. Len(s[o].argumentos) /\ i \in 1 .. Len(s[n].variables)
        BY <3>7 DEF EsArgumento, EsVariable
      <4> QED BY <3>3, <4>1, <4>2, Zenon DEF ParBien
    <3> QED BY <3>1, <3>2, <3>4, <3>5, <3>6, <3>7
  <2>9. ASSUME NEW l \in Lugares
        PROVE  Donde(l) \in Celdas /\ Donde(l) < pos_fisica_a_logica(pcb.fin_stack)
    <3>1. PICK n, i : EsArgumento(l, n, i) \/ EsVariable(l, n, i)
      BY <2>5
    <3>2. PICK pos : Tomada(pcb, pos) /\ Donde(l) = Dir(pos)
      <4>1. EntradaBien(pcb, n, s[n])
        BY <2>3, <3>1 DEF EsArgumento, EsVariable
      <4>2. CASE EsArgumento(l, n, i)
        <5>1. Tomada(pcb, s[n].argumentos[i]) /\ Donde(l) = Dir(s[n].argumentos[i])
          BY <2>6, <4>1, <4>2 DEF EntradaBien, EsArgumento
        <5> QED BY <5>1
      <4>3. CASE EsVariable(l, n, i)
        <5>1. /\ Tomada(pcb, s[n].variables[i].posicionVar)
              /\ Donde(l) = Dir(s[n].variables[i].posicionVar)
          BY <2>7, <4>1, <4>3 DEF EntradaBien, EsVariable
        <5> QED BY <5>1
      <4> QED BY <3>1, <4>2, <4>3
    <3> QED BY <3>2, CeldaEnPila DEF Tomada, Dir
  <2> QED BY <2>8, <2>9 DEF VariablesSeparadas
<1> QED BY <1>1, InvarianteCpu, PTL

\* The PCB that the other side builds is the one that was sent, wherever in the
\* program it is sent.
THEOREM PcbEntero == Spec /\ []Cabe => []IdaYVuelta
<1>1. CpuInv /\ Cabe => IdaYVuelta
  BY ViajeFiel DEF IdaYVuelta
<1> QED BY <1>1, InvarianteCpu, PTL

\* The line that the interpreter runs is the text of the instruction pc.
THEOREM LineaExacta == Spec /\ []Cabe => []InstruccionExacta
<1>1. FetchInv => InstruccionExacta
  BY DEF FetchInv, TrasPedido, Leidos, InstruccionExacta
<1> QED BY <1>1, InvarianteCpu, PTL

\* Page and offset of a cell.
LEMMA CeldaTiene ==
  ASSUME NEW dir \in Celdas
  PROVE  /\ EsCelda(pos_logica_a_fisica(dir)) /\ Dir(pos_logica_a_fisica(dir)) = dir
         /\ dir \in Nat
<1>1. PICK q \in Nat \ {0} : TamPag = 4 * q /\ TamPag \div 4 = q
  BY Celdas4
<1>2. PagsCodigo \in Nat /\ TamStack \in Nat \ {0}
  BY StackAssumption
<1>3. PICK c \in Nat : c = TamStack * q /\ (TamStack * TamPag) \div 4 = c
  <2>1. PICK c \in Nat : c = TamStack * q
    <3>1. TamStack * q \in Nat
      BY <1>2
    <3> QED BY <3>1
  <2>2. TamStack * TamPag = 4 * c
    BY <1>1, <1>2, <2>1
  <2>3. (4 * c) \div 4 = c
    OBVIOUS
  <2> QED BY <2>1, <2>2, <2>3
<1>4. PICK n \in 0 .. c - 1 : dir = BaseStack + 4 * n
  BY <1>3 DEF Celdas
<1>5. PICK d \in Nat, r \in Nat : n = d * q + r /\ r < q
  <2>1. n \in Nat /\ q \in Nat /\ q > 0
    BY <1>1, <1>3, <1>4
  <2>2. n \div q \in Nat /\ n % q \in Nat /\ n % q < q /\ n = (n \div q) * q + (n % q)
    BY <2>1
  <2> QED BY <2>2
<1>6. d < TamStack
  <2>1. CASE d >= TamStack
    <3>1. PICK o \in Nat : d = TamStack + o
      <4>1. d - TamStack \in Nat /\ d = TamStack + (d - TamStack)
        BY <1>2, <2>1
      <4> QED BY <4>1
    <3>2. d * q = TamStack * q + o * q /\ o * q \in Nat
      BY <1>2, <3>1
    <3> QED BY <1>3, <1>4, <1>5, <3>2
  <2> QED BY <1>2, <2>1
<1>7. PICK pos : pos = Pos(PagsCodigo + d, 4 * r)
  OBVIOUS
<1>8. EsCelda(pos)
  <2>1. pos.pag = PagsCodigo + d /\ pos.offset = 4 * r /\ pos.size = 4 /\ pos \in Posiciones
    BY <1>2, <1>7 DEF Pos, Posiciones
  <2>2. PagsCodigo + d \in PagsCodigo .. PagsCodigo + TamStack /\ PagsCodigo + d # PagsCodigo + TamStack
    BY <1>2, <1>6
  <2>3. r \in 0 .. TamPag \div 4 - 1
    BY <1>1, <1>5
  <2>4. EsPos(pos)
    BY <2>1, <2>2, <2>3 DEF EsPos
  <2> QED BY <2>1, <2>2, <2>4 DEF EsCelda
<1>9. Dir(pos) = dir
  <2>1. EnCelda(pos, d, r)
    BY <1>7 DEF Pos, EnCelda
  <2>2. DirDe(pos, q, d, r)
    BY <1>1, <2>1, DirEs, Zenon
  <2> QED BY <1>4, <1>5, <2>2 DEF DirDe
<1> QED BY <1>8, <1>9, CeldaEnPila

\* A program writes in its own stack and nowhere else: the position survives the
\* byte that deserializar_pedido_almacenar reads of page and offset.
Escrita(mem, x, v, mem2) == mem2 = [mem EXCEPT ![x] = v]

\* Where a cell lies.
LEMMA CeldaEnPagina ==
  ASSUME NEW pos, EsCelda(pos)
  PROVE  /\ pos.pag \in Nat /\ pos.offset \in Nat /\ pos.pag \in PagsStack
         /\ EntraEnPagina(pos.offset)
<1>1. PICK q \in Nat \ {0} : TamPag = 4 * q /\ TamPag \div 4 = q
  BY Celdas4
<1>2. PICK d \in 0 .. TamStack, n \in 0 .. q - 1 :
             pos.pag = PagsCodigo + d /\ pos.offset = 4 * n
  BY <1>1, PosEs DEF EsCelda
<1>3. d # TamStack
  BY <1>2 DEF EsCelda
<1> QED BY <1>1, <1>2, <1>3, StackAssumption DEF PagsStack, EntraEnPagina

LEMMA EscribeEnPila ==
  ASSUME CpuInv, Cabe, TamPag <= 128, NEW dir \in Celdas, NEW v, Escribir(dir, v)
  PROVE  lugar' = lugar /\ Escrita(memoria, dir, v, memoria')
<1>1. PICK pos : pos = pos_logica_a_fisica(dir)
  OBVIOUS
<1>2. EsCelda(pos) /\ Dir(pos) = dir
  BY <1>1, CeldaTiene
<1>3. /\ pos.pag \in Nat /\ pos.offset \in Nat /\ pos.pag \in PagsStack
      /\ EntraEnPagina(pos.offset)
  BY <1>2, CeldaEnPagina
<1>4. pos.pag < 128 /\ pos.offset < 128
  <2>1. PagsCodigo + TamStack < 128
    BY DEF Cabe, PcbChico, CpuInv, DelPrograma
  <2> QED BY <1>3, <2>1, StackAssumption, TamPagAssumption DEF PagsStack, EntraEnPagina
<1>5. Char(pos.pag) = pos.pag /\ Char(pos.offset) = pos.offset
  BY <1>3, <1>4, CharFiel
<1>6. PICK llega : llega = Pos(Char(pos.pag), Char(pos.offset))
  OBVIOUS
<1>7. /\ llega.pag \in PagsStack /\ EntraEnPagina(llega.offset)
      /\ pos_fisica_a_logica(llega) = dir
  BY <1>2, <1>3, <1>5, <1>6 DEF Pos, Dir, pos_fisica_a_logica
<1> QED BY <1>1, <1>6, <1>7 DEF Escribir, Escrita

\* A read of a cell finds it.
LEMMA LeeDePila ==
  ASSUME NEW dir \in Celdas, Leer(dir)
  PROVE  lugar' = lugar /\ salida' = memoria[dir]
<1>1. PICK pos : pos = pos_logica_a_fisica(dir)
  OBVIOUS
<1>2. EsCelda(pos)
  BY <1>1, CeldaTiene
<1>3. pos.pag \in 0 .. PagsCodigo + TamStack - 1 /\ EntraEnPagina(pos.offset)
  BY <1>2, CeldaEnPagina, StackAssumption DEF PagsStack
<1> QED BY <1>1, <1>3 DEF Leer

\* The use of an address that is no cell: by asignar or dereferenciar, or by
\* retornar when the call named it.
UsaPunteroPerdido ==
  \/ \E dir \in Punteros \ Celdas : Imprimir(dir) \/ \E v \in Valores : Asignar(dir, v)
  \/ Dir(Entrada.pos_var_retorno) \in Punteros \ Celdas /\ \E v \in Valores : Retornar(v)

LEMMA PasoPisa ==
  ASSUME CpuInv, Cabe, TamPag <= 128, [Next]_vars
  PROVE  lugar' = "pisado" => lugar = "pisado" \/ UsaPunteroPerdido
<1> SUFFICES ASSUME lugar # "pisado", ~UsaPunteroPerdido PROVE lugar' # "pisado"
  OBVIOUS
<1>1. CASE UNCHANGED vars
  BY <1>1 DEF vars
<1>2. CASE \/ CorrerPcb \/ BuscarInstruccion \/ SeguirBuscando \/ SinInstruccion \/ LeerLinea
           \/ FinInstruccion \/ Sigusr1 \/ Nada \/ Bloquear \/ Finalizar
  BY <1>2 DEF CorrerPcb, BuscarInstruccion, SeguirBuscando, SinInstruccion, LeerLinea,
              FinInstruccion, Sigusr1, Nada, Bloquear, Finalizar, Entregar
<1>3. CASE \/ \E x \in Letras : DefinirVariable(x)
           \/ \E dir \in Direcciones, e \in Etiquetas : LlamarConRetorno(e, dir)
           \/ \E e \in Etiquetas : IrAlLabel(e)
  BY <1>3 DEF DefinirVariable, LlamarConRetorno, IrAlLabel
<1>4. ASSUME NEW v \in Valores, DefinirArgumento(v)
      PROVE  lugar' # "pisado"
  <2>1. CASE ~StackLleno /\ Escribir(pos_fisica_a_logica(pcb.fin_stack), v)
    <3>1. EsCelda(pcb.fin_stack)
      BY <2>1, EntradaEs DEF StackLleno, CpuInv, DelPrograma, PilaBien, FinBien, EsCelda
    <3>2. Dir(pcb.fin_stack) \in Celdas
      BY <3>1, CeldaEnPila
    <3> QED BY <2>1, <3>2, EscribeEnPila DEF Dir
  <2> QED BY <1>4, <2>1 DEF DefinirArgumento
<1>5. ASSUME NEW v \in Valores, Retornar(v)
      PROVE  lugar' # "pisado"
  <2>1. PICK dir : dir = Dir(Entrada.pos_var_retorno)
    OBVIOUS
  <2>2. Tope > 1 /\ Escribir(dir, v)
    BY <1>5, <2>1 DEF Retornar, Dir
  <2>3. dir \in Direcciones
    BY <2>1, <2>2, EntradaEs DEF EntradaBien, EsDestino
  <2>4. dir \in Celdas
    BY <1>5, <2>1, <2>3 DEF Direcciones, UsaPunteroPerdido
  <2> QED BY <2>2, <2>4, EscribeEnPila
<1>6. ASSUME NEW dir \in Direcciones, NEW v \in Valores, Asignar(dir, v)
      PROVE  lugar' # "pisado"
  <2>1. Escribir(dir, v)
    BY <1>6 DEF Asignar
  <2>2. dir \in Celdas
    BY <1>6 DEF Direcciones, UsaPunteroPerdido
  <2> QED BY <2>1, <2>2, EscribeEnPila
<1>7. ASSUME NEW dir \in Direcciones, Imprimir(dir)
      PROVE  lugar' # "pisado"
  <2>1. Leer(dir)
    BY <1>7 DEF Imprimir
  <2>2. dir \in Celdas
    BY <1>7 DEF Direcciones, UsaPunteroPerdido
  <2> QED BY <2>1, <2>2, LeeDePila
<1> QED BY <1>1, <1>2, <1>3, <1>4, <1>5, <1>6, <1>7 DEF Next

\* The stack is left only in the step in which the program uses an address that it
\* computed and that is no cell: never by a name, by a call's result or an argument,
\* nor by a computed address of a variable, when a page has at most 128 bytes.  With
\* bigger pages the byte that deserializar_pedido_almacenar reads may lose it.
THEOREM SoloPisaUnPuntero ==
  ASSUME TamPag <= 128
  PROVE  Spec /\ []Cabe => [][lugar' = "pisado" => lugar = "pisado" \/ UsaPunteroPerdido]_vars
<1>1. CpuInv /\ Cabe /\ [Next]_vars
        => [lugar' = "pisado" => lugar = "pisado" \/ UsaPunteroPerdido]_vars
  BY PasoPisa
<1> QED BY <1>1, InvarianteCpu, PTL DEF Spec

\* A program whose computed addresses are all of cells (tests/vector.ansisop) never
\* overwrites its text nor another page, wherever it passes them.
THEOREM NuncaPisa ==
  ASSUME TamPag <= 128, Punteros \subseteq Celdas
  PROVE  Spec /\ []Cabe => [](lugar # "pisado")
<1>1. CpuInv /\ Cabe /\ lugar # "pisado" /\ [Next]_vars => (lugar # "pisado")'
  <2>1. ~UsaPunteroPerdido
    BY DEF UsaPunteroPerdido
  <2> QED BY <2>1, PasoPisa
<1>2. Init => lugar # "pisado"
  BY DEF Init
<1> QED BY <1>1, <1>2, InvarianteCpu, PTL DEF Spec

\* The counters do fit, whatever the program does, when the program and its stack
\* are small: the calls by their bound, the variables of a call by the cells of
\* the stack, since each took one.
THEOREM ContadoresCaben ==
  ASSUME Pid < 128, Len(Instrucciones) < 128, PagsCodigo + TamStack < 128,
         MaxEntradas < 128, TamStack * TamPag < 512
  PROVE  Spec => []Cabe
<1>1. CpuInv => Cabe
  <2> SUFFICES ASSUME CpuInv PROVE PcbChico(pcb)
    BY DEF Cabe
  <2>1. PICK p : p = pcb
    OBVIOUS
  <2>2. DelPrograma(p) /\ PilaBien(p)
    BY <2>1 DEF CpuInv
  <2>3. PICK m \in Nat : m = TamStack * TamPag
    <3>1. TamStack * TamPag \in Nat
      BY StackAssumption, TamPagAssumption
    <3> QED BY <3>1
  <2>4. ASSUME NEW n \in 1 .. Len(p.indice_stack)
        PROVE  EntradaChica(p.indice_stack[n])
    <3>1. PICK e : e = p.indice_stack[n]
      OBVIOUS
    <3>2. e \in EntradasDe /\ EntradaBien(p, n, e)
      BY <2>2, <3>1, EntradaQueCorre
    <3>3. PICK a \in Nat, l \in Nat : a = Len(e.argumentos) /\ l = Len(e.variables)
      BY <3>2, LenProperties DEF EntradasDe
    <3>4. PICK d \in Nat, c \in Nat : c = BaseStack /\ d = Dir(p.fin_stack) /\ d <= c + m
      BY <2>2, <2>3, FinEnPila DEF PilaBien
    <3>5. c + 4 * l <= d
      BY <3>2, <3>3, <3>4 DEF EntradaBien
    <3>6. l < 128
      BY <2>3, <3>4, <3>5
    <3>7. PICK b \in Nat : b = Len(Digitos) /\ b <= 10
      BY NombresAssumption, LenProperties
    <3>8. a <= b
      BY <3>2, <3>3, <3>7 DEF EntradaBien
    <3>9. e.pos_retorno \in Nat /\ e.pos_retorno < 128
      BY <3>2, Constantes DEF EntradasDe, EntradaBien, N
    <3> QED BY <3>1, <3>3, <3>6, <3>7, <3>8, <3>9 DEF EntradaChica
  <2>5. p.pid < 128 /\ p.pc < 128 /\ p.cant_pags_totales < 128
    BY <2>2, Constantes DEF DelPrograma, N
  <2>6. Len(p.indice_codigo) < 128
    BY <2>2, LargoDelIndice DEF DelPrograma, N
  <2>7. Len(p.indice_stack) < 128
    BY <2>2, Constantes DEF DelPrograma
  <2> QED BY <2>1, <2>4, <2>5, <2>6, <2>7 DEF PcbChico
<1>2. CpuInv /\ FetchInv /\ Cabe /\ [Next]_vars => (CpuInv /\ FetchInv)'
  BY PasoCpu, PasoDeCpuEsDeFetch, PasoFetch
<1> QED BY <1>1, <1>2, Arranque, PTL DEF Spec

-----------------------------------------------------------------------------
(* The program as its programmer sees it *)

\* What a name stands for, and where it leads.
Conduce(e, id, pos) ==
  \/ \E i \in 1 .. Len(e.variables) :
       id \in Letras /\ e.variables[i].id = id /\ pos = e.variables[i].posicionVar
  \/ \E i \in 1 .. Len(e.argumentos) : id = Digitos[i] /\ pos = e.argumentos[i]

LEMMA NombreConduce ==
  ASSUME NEW e \in EntradasDe, Len(e.argumentos) <= Len(Digitos), NEW id \in Nombres(e)
  PROVE  Conduce(e, id, PosicionEn(e, id))
<1>1. PICK k \in Nat, a \in Nat, d \in Nat :
             /\ k = Len(e.variables) /\ a = Len(e.argumentos) /\ d = Len(Digitos)
             /\ DOMAIN e.variables = 1 .. k /\ DOMAIN e.argumentos = 1 .. a
             /\ DOMAIN Digitos = 1 .. d
  <2>1. e.variables \in Seq(VariablesDe) /\ e.argumentos \in Seq(Posiciones)
    BY DEF EntradasDe
  <2>2. Digitos \in Seq(Range(Digitos))
    BY NombresAssumption
  <2> QED BY <2>1, <2>2, LenProperties
<1>2. a <= d
  BY <1>1
<1>3. \A n \in 1 .. a : Digitos[n] \notin Letras
  <2> TAKE n \in 1 .. a
  <2>1. n \in DOMAIN Digitos
    BY <1>1, <1>2
  <2>2. Digitos[n] \in Range(Digitos)
    BY <2>1 DEF Range
  <2> QED BY <2>2, NombresAssumption
<1>4. CASE id \in Letras
  <2>1. PICK n \in 1 .. k : e.variables[n].id = id
    BY <1>1, <1>3, <1>4 DEF Nombres
  <2>2. Variables(e, id) \in SUBSET (1 .. k) /\ Variables(e, id) # {}
    BY <1>1, <2>1 DEF Variables
  <2>3. PICK m : m = Max(Variables(e, id))
    OBVIOUS
  <2>4. m \in Variables(e, id)
    BY <2>2, <2>3, HayMaximo
  <2>5. m \in 1 .. k /\ e.variables[m].id = id
    BY <1>1, <2>4 DEF Variables
  <2>6. PosicionEn(e, id) = e.variables[m].posicionVar
    BY <1>4, <2>3 DEF PosicionEn
  <2> QED BY <1>1, <1>4, <2>5, <2>6 DEF Conduce
<1>5. CASE id \notin Letras
  <2>1. \A n \in 1 .. k : e.variables[n].id \in Letras
    <3> TAKE n \in 1 .. k
    <3>1. e.variables[n] \in VariablesDe
      BY <1>1, ElementOfSeq DEF EntradasDe
    <3> QED BY <3>1 DEF VariablesDe
  <2>2. PICK n \in 1 .. a : Digitos[n] = id
    BY <1>1, <1>5, <2>1 DEF Nombres
  <2>3. Numero(id) = n
    <3>1. n \in DOMAIN Digitos
      BY <1>1, <1>2
    <3> QED BY <2>2, <3>1, NombresAssumption DEF Numero
  <2>4. PosicionEn(e, id) = e.argumentos[n]
    BY <1>5, <2>3 DEF PosicionEn
  <2> QED BY <1>1, <2>2, <2>4 DEF Conduce
<1> QED BY <1>4, <1>5

\* A call: the addresses of its names, where it returns to, and the address that
\* gets its result.
NombresDe(e) == [id \in Nombres(e) |-> Dir(PosicionEn(e, id))]
Llamado(e) == [nombres |-> NombresDe(e), argumentos |-> Len(e.argumentos),
               vuelve |-> e.pos_retorno, destino |-> Dir(e.pos_var_retorno)]
Marcos(s) == [n \in 1 .. Len(s) |-> Llamado(s[n])]

\* Changes of a call.
Pone(h, x, v) == [y \in DOMAIN h \union {x} |-> IF y = x THEN v ELSE h[y]]
ConValor(f, x, v) == [f EXCEPT !.nombres = Pone(f.nombres, x, v)]

-----------------------------------------------------------------------------
(* The calls of AnsisopAbs *)

Llamadas == [n \in 1 .. Tope |-> MarcoDe(n)]

LEMMA LlamadasSon == Llamadas = Marcos(pcb.indice_stack)
<1>1. PICK s : s = pcb.indice_stack
  OBVIOUS
<1>2. ASSUME NEW n \in 1 .. Len(s)
      PROVE  MarcoDe(n) = Llamado(s[n])
  BY <1>1 DEF MarcoDe, Llamado, NombresDe, Dir
<1> QED BY <1>1, <1>2 DEF Marcos, Tope, Llamadas

\* They are a sequence.
EsSec(ms, k) == (\E S : ms \in Seq(S)) /\ Len(ms) = k /\ ms = [n \in 1 .. k |-> ms[n]]

LEMMA EsSecuencia ==
  ASSUME NEW k \in Nat, NEW ms, ms = [n \in 1 .. k |-> ms[n]]
  PROVE  EsSec(ms, k)
<1>1. PICK S : S = {ms[n] : n \in 1 .. k}
  OBVIOUS
<1>2. ms \in [1 .. k -> S]
  BY <1>1
<1>3. ms \in Seq(S)
  BY <1>2, SeqDef
<1>4. Len(ms) = k
  BY <1>2, <1>3, LenProperties
<1> QED BY <1>3, <1>4 DEF EsSec

LEMMA MarcosEnSecuencia ==
  ASSUME NEW s, Len(s) \in Nat
  PROVE  EsSec(Marcos(s), Len(s))
<1>1. PICK ms : ms = Marcos(s)
  OBVIOUS
<1>2. ms = [n \in 1 .. Len(s) |-> ms[n]]
  BY <1>1 DEF Marcos
<1> QED BY <1>1, <1>2, EsSecuencia, Zenon

\* Two sequences are the same calls if they are one by one.
LEMMA SonMarcos ==
  ASSUME NEW s, NEW ms, NEW k, k = Len(s), EsSec(ms, k),
         \A n \in 1 .. k : ms[n] = Llamado(s[n])
  PROVE  ms = Marcos(s)
BY DEF Marcos, EsSec

LEMMA ConEs ==
  ASSUME NEW ms, NEW k, EsSec(ms, k), k \in 1 .. k,
         NEW f, f = ms[k], NEW x, NEW v
  PROVE  Abs!Con(ms, x, v) = [ms EXCEPT ![k] = ConValor(f, x, v)]
<1>1. Len(ms) = k
  BY DEF EsSec
<1> QED BY <1>1 DEF Abs!Con, ConValor, Pone

\* The last call changes, the others are what they were.
UltimaCambia(ms, k, f, ns) ==
  EsSec(ns, k) /\ ns[k] = f /\ \A n \in 1 .. k : n # k => ns[n] = ms[n]

LEMMA CambiaLaUltima ==
  ASSUME NEW ms, NEW k \in Nat, EsSec(ms, k), NEW f
  PROVE  k > 0 => UltimaCambia(ms, k, f, [ms EXCEPT ![k] = f])
<1> SUFFICES ASSUME k > 0 PROVE UltimaCambia(ms, k, f, [ms EXCEPT ![k] = f])
  OBVIOUS
<1>1. PICK ns : ns = [ms EXCEPT ![k] = f]
  OBVIOUS
<1>2. DOMAIN ms = 1 .. k
  BY DEF EsSec
<1>3. /\ ns = [n \in 1 .. k |-> ns[n]] /\ ns[k] = f
      /\ \A n \in 1 .. k : n # k => ns[n] = ms[n]
  <2>1. ns = [n \in 1 .. k |-> IF n = k THEN f ELSE ms[n]]
    BY <1>1, <1>2
  <2>2. k \in 1 .. k
    OBVIOUS
  <2> QED BY <2>1, <2>2
<1>4. EsSec(ns, k)
  BY <1>3, EsSecuencia
<1> QED BY <1>1, <1>3, <1>4 DEF UltimaCambia

Llamada0(r, id) == [valores |-> <<>>, argumentos |-> 0, vuelve |-> r, destino |-> id]

LEMMA LlamadoVale ==
  ASSUME NEW e, NEW x, NEW v
  PROVE  ConValor(Llamado(e), x, v)
           = [nombres |-> Pone(NombresDe(e), x, v), argumentos |-> Len(e.argumentos),
              vuelve |-> e.pos_retorno, destino |-> Dir(e.pos_var_retorno)]
BY DEF ConValor, Llamado

\* llamarConRetorno.
LEMMA SinNombres ==
  ASSUME NEW e, Nombres(e) = {}
  PROVE  NombresDe(e) = <<>>
<1>1. PICK f : f = <<>>
  OBVIOUS
<1>2. f \in Seq(Nat) /\ Len(f) = 0
  BY <1>1, EmptySeq
<1>3. f \in [1 .. 0 -> Nat]
  BY <1>2, LenProperties
<1>4. 1 .. 0 = {}
  OBVIOUS
<1>5. f = [i \in {} |-> f[i]]
  BY <1>3, <1>4
<1> QED BY <1>1, <1>5 DEF NombresDe

LEMMA LlamadaNueva ==
  ASSUME NEW r, NEW w, NEW g, g \in EntradasDe, g = EntradaNueva(r, w)
  PROVE  Llamado(g) = Abs!Marco(r, Dir(w))
<1>1. /\ g.argumentos = <<>> /\ g.variables = <<>> /\ g.pos_retorno = r
      /\ g.pos_var_retorno = w
  BY DEF EntradaNueva
<1>2. Nombres(g) = {} /\ Len(g.argumentos) = 0
  <2>1. DOMAIN g.variables = {} /\ DOMAIN g.argumentos = {}
    <3>1. g.variables \in Seq(VariablesDe) /\ g.argumentos \in Seq(Posiciones)
      BY DEF EntradasDe
    <3>2. Len(g.variables) = 0 /\ Len(g.argumentos) = 0
      BY <1>1, EmptySeq
    <3>3. 1 .. 0 = {}
      OBVIOUS
    <3> QED BY <3>1, <3>2, <3>3, LenProperties
  <2> QED BY <1>1, <2>1, EmptySeq DEF Nombres
<1>3. NombresDe(g) = <<>>
  BY <1>2, SinNombres
<1> QED BY <1>1, <1>2, <1>3 DEF Llamado, Abs!Marco

LlamaMarcos(s, t, r, w) == Append(Marcos(s), Abs!Marco(r, Dir(w))) = Marcos(t)

LEMMA MarcosLlama ==
  ASSUME NEW p, DelPrograma(p), PilaBien(p), NEW k, k = Len(p.indice_stack),
         NEW r \in Nat, NEW t, NEW w \in Posiciones,
         t = Append(p.indice_stack, EntradaNueva(r, w))
  PROVE  LlamaMarcos(p.indice_stack, t, r, w)
<1>1. PICK s \in Seq(EntradasDe) : s = p.indice_stack
  BY EntradaQueCorre
<1>2. k \in Nat \ {0} /\ k = Len(s)
  BY <1>1, EntradaQueCorre
<1>3. PICK g : g = EntradaNueva(r, w)
  OBVIOUS
<1>4. g \in EntradasDe
  <2>1. <<>> \in Seq(Posiciones) /\ <<>> \in Seq(VariablesDe)
    BY EmptySeq
  <2> QED BY <1>3, <2>1 DEF EntradasDe, EntradaNueva
<1>5. /\ t \in Seq(EntradasDe) /\ Len(t) = k + 1 /\ t[k + 1] = g
      /\ \A n \in 1 .. k : t[n] = s[n]
  BY <1>1, <1>2, <1>3, <1>4, AppendProperties
<1>6. PICK ms : ms = Marcos(s)
  OBVIOUS
<1>7. EsSec(ms, k) /\ \A n \in 1 .. k : ms[n] = Llamado(s[n])
  <2>1. EsSec(ms, k)
    BY <1>2, <1>6, MarcosEnSecuencia
  <2>2. \A n \in 1 .. k : ms[n] = Llamado(s[n])
    BY <1>2, <1>6 DEF Marcos
  <2> QED BY <2>1, <2>2
<1>8. PICK f : f = Abs!Marco(r, Dir(w))
  OBVIOUS
<1>9. PICK ns : ns = Append(ms, f)
  OBVIOUS
<1>10. /\ EsSec(ns, k + 1) /\ ns[k + 1] = f
       /\ \A n \in 1 .. k : ns[n] = ms[n]
  <2>1. PICK S : ms \in Seq(S)
    BY <1>7 DEF EsSec
  <2>2. PICK T : T = S \union {f}
    OBVIOUS
  <2>3. ms \in Seq(T) /\ f \in T
    BY <2>1, <2>2, SeqMonotonic
  <2>4. Len(ms) = k
    BY <1>7 DEF EsSec
  <2>5. /\ ns \in Seq(T) /\ Len(ns) = k + 1 /\ ns[k + 1] = f
        /\ \A n \in 1 .. k : ns[n] = ms[n]
    BY <1>9, <2>3, <2>4, AppendProperties
  <2>6. ns = [n \in 1 .. k + 1 |-> ns[n]]
    <3>1. ns \in [1 .. k + 1 -> T]
      BY <2>5, LenProperties
    <3> QED BY <3>1
  <2> QED BY <2>5, <2>6 DEF EsSec
<1>11. f = Llamado(g)
  BY <1>3, <1>4, <1>8, LlamadaNueva
<1>12. \A n \in 1 .. k + 1 : ns[n] = Llamado(t[n])
  <2> TAKE n \in 1 .. k + 1
  <2>1. CASE n = k + 1
    BY <1>5, <1>10, <1>11, <2>1
  <2>2. CASE n # k + 1
    <3>1. n \in 1 .. k
      BY <1>2, <2>2
    <3> QED BY <1>5, <1>7, <1>10, <3>1
  <2> QED BY <2>1, <2>2
<1>13. ns = Marcos(t)
  <2>1. PICK m : m = k + 1
    OBVIOUS
  <2>2. m = Len(t) /\ EsSec(ns, m)
    BY <1>5, <1>10, <2>1
  <2>3. \A n \in 1 .. m : ns[n] = Llamado(t[n])
    BY <1>12, <2>1
  <2> QED BY <2>2, <2>3, SonMarcos, Zenon
<1> QED BY <1>1, <1>6, <1>8, <1>9, <1>13 DEF LlamaMarcos

\* retornar.
VuelveMarcos(s, t, k) ==
  /\ SubSeq(Marcos(s), 1, k - 1) = Marcos(t)
  /\ Marcos(s)[k].destino = Dir(s[k].pos_var_retorno)
  /\ Marcos(s)[k].vuelve = s[k].pos_retorno

LEMMA MarcosVuelve ==
  ASSUME NEW p, DelPrograma(p), PilaBien(p), NEW k, k = Len(p.indice_stack), k > 1,
         NEW t, t = SubSeq(p.indice_stack, 1, k - 1)
  PROVE  VuelveMarcos(p.indice_stack, t, k)
<1>1. PICK s \in Seq(EntradasDe) : s = p.indice_stack
  BY EntradaQueCorre
<1>2. k \in Nat /\ k = Len(s)
  BY <1>1, EntradaQueCorre
<1>3. t = SubSeq(s, 1, k - 1)
  BY <1>1
<1>4. /\ Len(t) = k - 1
      /\ \A n \in 1 .. k - 1 : t[n] = s[n]
  <2>1. \A n \in 1 .. k - 1 : s[n] \in EntradasDe
    <3>1. \A n \in 1 .. k - 1 : n \in 1 .. k
      BY <1>2
    <3> QED BY <1>1, <1>2, <3>1, ElementOfSeq
  <2>2. /\ Len(t) = IF 1 <= k - 1 THEN k - 1 - 1 + 1 ELSE 0
        /\ \A i \in 1 .. k - 1 - 1 + 1 : t[i] = s[1 + i - 1]
    <3>1. k - 1 \in Int
      BY <1>2
    <3> QED BY <1>3, <2>1, <3>1, SubSeqProperties
  <2>3. k - 1 - 1 + 1 = k - 1 /\ 1 <= k - 1 /\ \A i \in 1 .. k - 1 : 1 + i - 1 = i
    BY <1>2
  <2> QED BY <2>2, <2>3
<1>5. k \in 1 .. k
  BY <1>2
<1>6. PICK ms : ms = Marcos(s)
  OBVIOUS
<1>7. EsSec(ms, k) /\ \A n \in 1 .. k : ms[n] = Llamado(s[n])
  <2>1. EsSec(ms, k)
    BY <1>2, <1>6, MarcosEnSecuencia
  <2>2. \A n \in 1 .. k : ms[n] = Llamado(s[n])
    BY <1>2, <1>6 DEF Marcos
  <2> QED BY <2>1, <2>2
<1>8. PICK ns : ns = SubSeq(ms, 1, k - 1)
  OBVIOUS
<1>9. EsSec(ns, k - 1) /\ \A n \in 1 .. k - 1 : ns[n] = ms[n]
  <2>1. PICK S : ms \in Seq(S)
    BY <1>7 DEF EsSec
  <2>2. \A n \in 1 .. k - 1 : ms[n] \in S
    <3>1. Len(ms) = k
      BY <1>7 DEF EsSec
    <3>2. \A n \in 1 .. k - 1 : n \in 1 .. k
      BY <1>2
    <3> QED BY <2>1, <3>1, <3>2, ElementOfSeq
  <2>3. /\ ns \in Seq(S) /\ Len(ns) = IF 1 <= k - 1 THEN k - 1 - 1 + 1 ELSE 0
        /\ \A i \in 1 .. k - 1 - 1 + 1 : ns[i] = ms[1 + i - 1]
    <3>1. k - 1 \in Int
      BY <1>2
    <3> QED BY <1>8, <2>2, <3>1, SubSeqProperties
  <2>4. k - 1 - 1 + 1 = k - 1 /\ 1 <= k - 1 /\ \A i \in 1 .. k - 1 : 1 + i - 1 = i
    BY <1>2
  <2>5. Len(ns) = k - 1 /\ \A n \in 1 .. k - 1 : ns[n] = ms[n]
    BY <2>3, <2>4
  <2>6. ns = [n \in 1 .. k - 1 |-> ns[n]]
    <3>1. ns \in [1 .. k - 1 -> S]
      BY <2>3, <2>5, LenProperties
    <3> QED BY <3>1
  <2> QED BY <2>3, <2>5, <2>6 DEF EsSec
<1>10. ns = Marcos(t)
  <2>1. \A n \in 1 .. k - 1 : ns[n] = Llamado(t[n])
    <3> TAKE n \in 1 .. k - 1
    <3>1. n \in 1 .. k
      BY <1>2
    <3> QED BY <1>4, <1>7, <1>9, <3>1
  <2> QED BY <1>4, <1>9, <2>1, SonMarcos
<1>11. ms[k].destino = Dir(s[k].pos_var_retorno) /\ ms[k].vuelve = s[k].pos_retorno
  <2>1. ms[k] = Llamado(s[k])
    BY <1>5, <1>7
  <2> QED BY <2>1 DEF Llamado
<1> QED BY <1>1, <1>6, <1>8, <1>10, <1>11 DEF VuelveMarcos

\* definirVariable: a name more.
GanaNombre(e, g, x, fin) == NombresDe(g) = Pone(NombresDe(e), x, Dir(fin))

LEMMA EsMaximo ==
  ASSUME NEW k \in Nat, NEW S \in SUBSET (1 .. k), k \in S
  PROVE  Max(S) = k
<1>1. PICK m : m = Max(S)
  OBVIOUS
<1>2. \E x \in S : \A y \in S : x >= y
  <2>1. \A y \in S : k >= y
    OBVIOUS
  <2> QED BY <2>1
<1>3. m \in S /\ \A y \in S : m >= y
  BY <1>1, <1>2 DEF Max
<1>4. m \in 1 .. k /\ m >= k
  BY <1>3
<1> QED BY <1>1, <1>4

GanaSi(e, g, x, fin) ==
  /\ Nombres(g) = Nombres(e) \union {x}
  /\ PosicionEn(g, x) = fin
  /\ \A y \in Nombres(e) : y # x => PosicionEn(g, y) = PosicionEn(e, y)

LEMMA GanaValor ==
  ASSUME NEW e, NEW g, NEW x, NEW fin, GanaSi(e, g, x, fin)
  PROVE  GanaNombre(e, g, x, fin)
<1>1. PICK h : h = NombresDe(e)
  OBVIOUS
<1>2. DOMAIN h = Nombres(e) /\ \A y \in Nombres(e) : h[y] = Dir(PosicionEn(e, y))
  BY <1>1 DEF NombresDe
<1>3. \A y \in Nombres(g) : Dir(PosicionEn(g, y)) = IF y = x THEN Dir(fin) ELSE h[y]
  BY <1>2 DEF GanaSi
<1>4. Nombres(g) = DOMAIN h \union {x}
  BY <1>2 DEF GanaSi
<1>5. NombresDe(g) = Pone(h, x, Dir(fin))
  BY <1>3, <1>4 DEF NombresDe, Pone
<1> QED BY <1>1, <1>5 DEF GanaNombre

GanaVariable(e, g, x, fin) ==
  GanaSi(e, g, x, fin) /\ g \in EntradasDe /\ Define(e, g, fin) /\ g.argumentos = e.argumentos

LEMMA NombreDeVariable ==
  ASSUME NEW e \in EntradasDe, Len(e.argumentos) <= Len(Digitos), NEW x \in Letras,
         NEW fin \in Posiciones,
         NEW g, g = [e EXCEPT !.variables = Append(@, [id |-> x, posicionVar |-> fin])]
  PROVE  GanaVariable(e, g, x, fin)
<1>1. PICK v \in Seq(VariablesDe) : v = e.variables
  BY DEF EntradasDe
<1>2. PICK z \in VariablesDe : z = [id |-> x, posicionVar |-> fin]
  BY DEF VariablesDe
<1>3. PICK w : w = Append(v, z)
  OBVIOUS
<1>4. PICK l \in Nat : l = Len(v)
  BY LenProperties
<1>5. /\ w \in Seq(VariablesDe) /\ Len(w) = l + 1 /\ w[l + 1] = z
      /\ \A i \in 1 .. l : w[i] = v[i]
  BY <1>1, <1>2, <1>3, <1>4, AppendProperties
<1>6. g.variables = w /\ g.argumentos = e.argumentos
  BY <1>1, <1>2, <1>3, <1>5 DEF EntradasDe
<1>7. DOMAIN v = 1 .. l /\ DOMAIN w = 1 .. l + 1
  BY <1>4, <1>5, LenProperties
<1>8. /\ \A i \in 1 .. l : i \in 1 .. l + 1
      /\ l + 1 \in 1 .. l + 1
      /\ \A i \in 1 .. l + 1 : i \in 1 .. l \/ i = l + 1
  BY <1>4
<1>9. z.id = x /\ z.posicionVar = fin
  BY <1>2
<1>10. {w[i].id : i \in 1 .. l + 1} = {v[i].id : i \in 1 .. l} \union {x}
  BY <1>5, <1>8, <1>9
<1>11. Nombres(g) = Nombres(e) \union {x}
  <2>1. PICK D : D = {Digitos[n] : n \in DOMAIN e.argumentos}
    OBVIOUS
  <2>2. Nombres(e) = {v[i].id : i \in 1 .. l} \union D
    BY <1>1, <1>7, <2>1 DEF Nombres
  <2>3. Nombres(g) = {w[i].id : i \in 1 .. l + 1} \union D
    BY <1>6, <1>7, <2>1 DEF Nombres
  <2> QED BY <1>10, <2>2, <2>3
<1>12. PosicionEn(g, x) = fin
  <2>1. Variables(g, x) \in SUBSET (1 .. l + 1) /\ l + 1 \in Variables(g, x)
    BY <1>5, <1>6, <1>7, <1>8, <1>9 DEF Variables
  <2>2. Max(Variables(g, x)) = l + 1
    <3>1. PICK V, m : V = Variables(g, x) /\ m = l + 1
      OBVIOUS
    <3>2. V \in SUBSET (1 .. m) /\ m \in V
      BY <2>1, <3>1, Zenon
    <3>3. m \in Nat
      BY <1>4, <3>1
    <3>4. Max(V) = m
      BY <3>2, <3>3, EsMaximo, Zenon
    <3> QED BY <3>1, <3>4
  <2> QED BY <1>5, <1>6, <1>9, <2>2 DEF PosicionEn
<1>13. ASSUME NEW y \in Nombres(e), y # x
       PROVE  PosicionEn(g, y) = PosicionEn(e, y)
  <2>1. CASE y \notin Letras
    BY <1>6, <2>1 DEF PosicionEn
  <2>2. CASE y \in Letras
    <3>1. Variables(g, y) = {i \in 1 .. l + 1 : w[i].id = y}
      BY <1>6, <1>7 DEF Variables
    <3>2. Variables(e, y) = {i \in 1 .. l : v[i].id = y}
      BY <1>1, <1>7 DEF Variables
    <3>3. Variables(g, y) = Variables(e, y)
      BY <1>5, <1>8, <1>9, <1>13, <3>1, <3>2
    <3>4. PICK m : m = Max(Variables(e, y))
      OBVIOUS
    <3>5. Conduce(e, y, PosicionEn(e, y))
      BY NombreConduce, Zenon
    <3>6. Variables(e, y) # {}
      <4>1. CASE \E i \in 1 .. Len(e.variables) : e.variables[i].id = y
        BY <1>1, <1>4, <3>2, <4>1
      <4>2. CASE \E i \in 1 .. Len(e.argumentos) : y = Digitos[i]
        <5>1. PICK i \in 1 .. Len(e.argumentos) : y = Digitos[i]
          BY <4>2
        <5>2. Len(Digitos) \in Nat /\ DOMAIN Digitos = 1 .. Len(Digitos)
          BY NombresAssumption, LenProperties
        <5>3. Len(e.argumentos) \in Nat
          BY LenProperties DEF EntradasDe
        <5>4. i \in DOMAIN Digitos
          BY <5>2, <5>3
        <5>5. y \in Range(Digitos)
          BY <5>1, <5>4 DEF Range
        <5> QED BY <2>2, <5>5, NombresAssumption
      <4> QED BY <3>5, <4>1, <4>2 DEF Conduce
    <3>7. m \in Variables(e, y)
      BY <1>4, <3>2, <3>4, <3>6, HayMaximo
    <3>8. m \in 1 .. l
      BY <3>2, <3>7
    <3>9. PosicionEn(g, y) = w[m].posicionVar /\ PosicionEn(e, y) = v[m].posicionVar
      BY <1>1, <1>6, <2>2, <3>3, <3>4 DEF PosicionEn
    <3> QED BY <1>5, <3>8, <3>9
  <2> QED BY <2>1, <2>2
<1>14. GanaSi(e, g, x, fin)
  BY <1>11, <1>12, <1>13 DEF GanaSi
<1>15. g \in EntradasDe /\ Define(e, g, fin) /\ g.argumentos = e.argumentos
  BY UnaVariableMas
<1> QED BY <1>14, <1>15 DEF GanaVariable

LEMMA NombreDeArgumento ==
  ASSUME NEW e \in EntradasDe, NEW a, a = Len(e.argumentos), a < Len(Digitos),
         NEW fin \in Posiciones,
         NEW g, g = [e EXCEPT !.argumentos = Append(@, fin)]
  PROVE  GanaSi(e, g, Digitos[a + 1], fin)
<1>1. PICK v \in Seq(Posiciones) : v = e.argumentos
  BY DEF EntradasDe
<1>3. PICK w : w = Append(v, fin)
  OBVIOUS
<1>4. a \in Nat /\ a = Len(v)
  BY <1>1, LenProperties
<1>5. /\ w \in Seq(Posiciones) /\ Len(w) = a + 1 /\ w[a + 1] = fin
      /\ \A i \in 1 .. a : w[i] = v[i]
  BY <1>1, <1>3, <1>4, AppendProperties
<1>6. g.variables = e.variables /\ g.argumentos = w
  BY <1>1, <1>3, <1>5 DEF EntradasDe
<1>7. DOMAIN v = 1 .. a /\ DOMAIN w = 1 .. a + 1
  BY <1>4, <1>5, LenProperties
<1>8. /\ \A i \in 1 .. a : i \in 1 .. a + 1
      /\ a + 1 \in 1 .. a + 1
      /\ \A i \in 1 .. a + 1 : i \in 1 .. a \/ i = a + 1
  BY <1>4
<1>9. /\ \A i \in 1 .. a + 1 : i \in DOMAIN Digitos /\ Digitos[i] \notin Letras
      /\ Len(Digitos) \in Nat
  <2>1. Len(Digitos) \in Nat /\ DOMAIN Digitos = 1 .. Len(Digitos)
    BY NombresAssumption, LenProperties
  <2>2. \A i \in 1 .. a + 1 : i \in DOMAIN Digitos
    BY <1>4, <2>1
  <2>3. \A i \in DOMAIN Digitos : Digitos[i] \in Range(Digitos)
    BY DEF Range
  <2> QED BY <2>1, <2>2, <2>3, NombresAssumption
<1>10. PICK x : x = Digitos[a + 1]
  OBVIOUS
<1>11. \A i \in 1 .. a + 1 : Numero(Digitos[i]) = i
  <2> TAKE i \in 1 .. a + 1
  <2>1. i \in DOMAIN Digitos
    BY <1>9
  <2> QED BY <2>1, NombresAssumption DEF Numero
<1>12. {Digitos[i] : i \in 1 .. a + 1} = {Digitos[i] : i \in 1 .. a} \union {x}
  BY <1>8, <1>10
<1>13. Nombres(g) = Nombres(e) \union {x}
  BY <1>1, <1>6, <1>7, <1>12 DEF Nombres
<1>14. PosicionEn(g, x) = fin
  BY <1>5, <1>6, <1>8, <1>9, <1>10, <1>11 DEF PosicionEn
<1>15. ASSUME NEW y \in Nombres(e), y # x
       PROVE  PosicionEn(g, y) = PosicionEn(e, y)
  <2>1. CASE y \in Letras
    <3>1. Variables(g, y) = Variables(e, y)
      BY <1>6 DEF Variables
    <3> QED BY <1>6, <2>1, <3>1 DEF PosicionEn
  <2>2. CASE y \notin Letras
    <3>1. Len(e.argumentos) <= Len(Digitos)
      BY <1>4, <1>9
    <3>2. Conduce(e, y, PosicionEn(e, y))
      BY <3>1, NombreConduce, Zenon
    <3>3. PICK i \in 1 .. a : y = Digitos[i]
      BY <2>2, <3>2 DEF Conduce
    <3>4. Numero(y) = i
      BY <1>8, <1>11, <3>3
    <3>5. PosicionEn(g, y) = w[i] /\ PosicionEn(e, y) = v[i]
      BY <1>1, <1>6, <2>2, <3>4 DEF PosicionEn
    <3> QED BY <1>5, <3>3, <3>5
  <2> QED BY <2>1, <2>2
<1> QED BY <1>10, <1>13, <1>14, <1>15 DEF GanaSi

LEMMA UltimaUnica ==
  ASSUME NEW ms, NEW k \in Nat, EsSec(ms, k), NEW f, NEW ns, UltimaCambia(ms, k, f, ns)
  PROVE  ns = [ms EXCEPT ![k] = f]
<1>1. PICK D : D = DOMAIN ms
  OBVIOUS
<1>2. D = 1 .. k
  BY <1>1 DEF EsSec
<1>3. ns = [n \in D |-> ns[n]]
  BY <1>2 DEF UltimaCambia, EsSec
<1>4. \A n \in D : ns[n] = IF n = k THEN f ELSE ms[n]
  BY <1>2 DEF UltimaCambia
<1>5. PICK rs : rs = [ms EXCEPT ![k] = f]
  OBVIOUS
<1>6. rs = [n \in D |-> IF n = k THEN f ELSE ms[n]]
  BY <1>1, <1>5
<1> QED BY <1>3, <1>4, <1>5, <1>6

MismoRegreso(e, g) == g.pos_retorno = e.pos_retorno /\ g.pos_var_retorno = e.pos_var_retorno
UltimoLlamado(s, t, k, g) == Marcos(t) = [Marcos(s) EXCEPT ![k] = Llamado(g)]

LEMMA MarcosDefine ==
  ASSUME NEW p, DelPrograma(p), PilaBien(p), NEW k, k = Len(p.indice_stack),
         NEW g \in EntradasDe, NEW t, Cambiada(t, p.indice_stack, k, g)
  PROVE  UltimoLlamado(p.indice_stack, t, k, g)
<1>1. PICK s \in Seq(EntradasDe) : s = p.indice_stack
  BY EntradaQueCorre
<1>2. k \in Nat \ {0} /\ k = Len(s) /\ k \in 1 .. k
  BY <1>1, EntradaQueCorre
<1>3. /\ t \in Seq(EntradasDe) /\ Len(t) = k /\ t[k] = g
      /\ \A n \in 1 .. k : n # k => t[n] = s[n]
  <2>1. t = [s EXCEPT ![k] = g]
    BY <1>1 DEF Cambiada
  <2> QED BY <1>1, <1>2, <2>1, ExceptSeq
<1>4. PICK ms : ms = Marcos(s)
  OBVIOUS
<1>5. EsSec(ms, k) /\ \A n \in 1 .. k : ms[n] = Llamado(s[n])
  <2>1. EsSec(ms, k)
    BY <1>2, <1>4, MarcosEnSecuencia
  <2>2. \A n \in 1 .. k : ms[n] = Llamado(s[n])
    BY <1>2, <1>4 DEF Marcos
  <2> QED BY <2>1, <2>2
<1>6. PICK ns : ns = Marcos(t)
  OBVIOUS
<1>7. EsSec(ns, k) /\ \A n \in 1 .. k : ns[n] = Llamado(t[n])
  <2>1. EsSec(ns, k)
    BY <1>2, <1>3, <1>6, MarcosEnSecuencia
  <2>2. \A n \in 1 .. k : ns[n] = Llamado(t[n])
    BY <1>3, <1>6 DEF Marcos
  <2> QED BY <2>1, <2>2
<1>8. PICK f : f = Llamado(g)
  OBVIOUS
<1>9. UltimaCambia(ms, k, f, ns)
  <2>1. ns[k] = f
    BY <1>2, <1>3, <1>7, <1>8
  <2>2. \A n \in 1 .. k : n # k => ns[n] = ms[n]
    BY <1>3, <1>5, <1>7
  <2> QED BY <1>7, <2>1, <2>2 DEF UltimaCambia
<1>10. ns = [ms EXCEPT ![k] = f]
  BY <1>2, <1>5, <1>9, UltimaUnica
<1> QED BY <1>1, <1>4, <1>6, <1>8, <1>10 DEF UltimoLlamado

DefineVariable(s, t, x, fin) == Abs!Con(Marcos(s), x, Dir(fin)) = Marcos(t)

LEMMA MarcosDefineVariable ==
  ASSUME NEW p, DelPrograma(p), PilaBien(p), NEW k, k = Len(p.indice_stack),
         NEW e, e = p.indice_stack[k], NEW x \in Letras,
         NEW g, g = [e EXCEPT !.variables =
                       Append(@, [id |-> x, posicionVar |-> p.fin_stack])],
         NEW t, Cambiada(t, p.indice_stack, k, g)
  PROVE  DefineVariable(p.indice_stack, t, x, p.fin_stack)
<1>1. PICK s \in Seq(EntradasDe) : s = p.indice_stack
  BY EntradaQueCorre
<1>2. k \in Nat \ {0} /\ k = Len(s) /\ k \in 1 .. k
  BY <1>1, EntradaQueCorre
<1>3. PICK fin \in Posiciones : fin = p.fin_stack
  BY DEF DelPrograma, Pcbs
<1>4. e \in EntradasDe /\ Len(e.argumentos) <= Len(Digitos)
  <2>1. EntradaBien(p, k, e) /\ e \in EntradasDe
    BY <1>1, <1>2, EntradaQueCorre
  <2> QED BY <2>1 DEF EntradaBien
<1>5. g = [e EXCEPT !.variables = Append(@, [id |-> x, posicionVar |-> fin])]
  BY <1>3
<1>6. GanaVariable(e, g, x, fin)
  BY <1>4, <1>5, NombreDeVariable
<1>7. /\ GanaSi(e, g, x, fin) /\ g \in EntradasDe /\ Define(e, g, fin)
      /\ g.argumentos = e.argumentos
  BY <1>6 DEF GanaVariable
<1>8. PICK v : v = Dir(fin)
  OBVIOUS
<1>9. NombresDe(g) = Pone(NombresDe(e), x, v)
  BY <1>7, <1>8, GanaValor DEF GanaNombre
<1>10. UltimoLlamado(p.indice_stack, t, k, g)
  BY <1>7, MarcosDefine, Zenon
<1>11. PICK ms : ms = Marcos(s)
  OBVIOUS
<1>12. EsSec(ms, k) /\ ms[k] = Llamado(e)
  <2>1. EsSec(ms, k)
    BY <1>2, <1>11, MarcosEnSecuencia
  <2>2. ms[k] = Llamado(e)
    BY <1>1, <1>2, <1>11 DEF Marcos
  <2> QED BY <2>1, <2>2
<1>13. PICK c : c = ms[k]
  OBVIOUS
<1>14. Abs!Con(ms, x, v) = [ms EXCEPT ![k] = ConValor(c, x, v)]
  <2>1. EsSec(ms, k) /\ k \in 1 .. k
    BY <1>2, <1>12
  <2> QED BY <1>13, <2>1, ConEs
<1>15. ConValor(c, x, v) = Llamado(g)
  <2>1. /\ g.argumentos = e.argumentos /\ g.pos_retorno = e.pos_retorno
        /\ g.pos_var_retorno = e.pos_var_retorno
    BY <1>7 DEF Define
  <2> QED BY <1>9, <1>12, <1>13, <2>1, LlamadoVale DEF Llamado
<1>16. Abs!Con(ms, x, v) = Marcos(t)
  BY <1>1, <1>10, <1>11, <1>14, <1>15 DEF UltimoLlamado
<1> QED BY <1>1, <1>3, <1>8, <1>11, <1>16 DEF DefineVariable

DefineArgumento(s, t, k, x, fin) ==
  [Abs!Con(Marcos(s), x, Dir(fin)) EXCEPT ![k].argumentos = @ + 1] = Marcos(t)

LEMMA MarcosDefineArgumento ==
  ASSUME NEW p, DelPrograma(p), PilaBien(p), NEW k, k = Len(p.indice_stack),
         NEW e, e = p.indice_stack[k], NEW a, a = Len(e.argumentos), a < Len(Digitos),
         NEW g, g = [e EXCEPT !.argumentos = Append(@, p.fin_stack)],
         NEW t, Cambiada(t, p.indice_stack, k, g)
  PROVE  DefineArgumento(p.indice_stack, t, k, Digitos[a + 1], p.fin_stack)
<1>1. PICK s \in Seq(EntradasDe) : s = p.indice_stack
  BY EntradaQueCorre
<1>2. k \in Nat \ {0} /\ k = Len(s) /\ k \in 1 .. k
  BY <1>1, EntradaQueCorre
<1>3. PICK fin \in Posiciones : fin = p.fin_stack
  BY DEF DelPrograma, Pcbs
<1>4. e \in EntradasDe /\ a \in Nat
  <2>1. e \in EntradasDe
    BY <1>1, <1>2, EntradaQueCorre
  <2> QED BY <2>1, LenProperties DEF EntradasDe
<1>5. g = [e EXCEPT !.argumentos = Append(@, fin)]
  BY <1>3
<1>6. PICK x : x = Digitos[a + 1]
  OBVIOUS
<1>7. GanaSi(e, g, x, fin)
  BY <1>4, <1>5, <1>6, NombreDeArgumento
<1>8. g \in EntradasDe /\ Define(e, g, fin) /\ Len(g.argumentos) = a + 1
  BY <1>4, <1>5, UnArgumentoMas
<1>9. PICK v : v = Dir(fin)
  OBVIOUS
<1>10. NombresDe(g) = Pone(NombresDe(e), x, v)
  BY <1>7, <1>9, GanaValor DEF GanaNombre
<1>11. UltimoLlamado(p.indice_stack, t, k, g)
  BY <1>8, MarcosDefine, Zenon
<1>12. PICK ms : ms = Marcos(s)
  OBVIOUS
<1>13. EsSec(ms, k) /\ ms[k] = Llamado(e)
  <2>1. EsSec(ms, k)
    BY <1>2, <1>12, MarcosEnSecuencia
  <2>2. ms[k] = Llamado(e)
    BY <1>1, <1>2, <1>12 DEF Marcos
  <2> QED BY <2>1, <2>2
<1>14. PICK c : c = ms[k]
  OBVIOUS
<1>15. PICK f : f = ConValor(c, x, v)
  OBVIOUS
<1>16. Abs!Con(ms, x, v) = [ms EXCEPT ![k] = f]
  <2>1. EsSec(ms, k) /\ k \in 1 .. k
    BY <1>2, <1>13
  <2>2. Abs!Con(ms, x, v) = [ms EXCEPT ![k] = ConValor(c, x, v)]
    BY <1>14, <2>1, ConEs
  <2> QED BY <1>15, <2>2
<1>17. [f EXCEPT !.argumentos = @ + 1] = Llamado(g)
  <2>1. f = [nombres |-> Pone(NombresDe(e), x, v), argumentos |-> a,
             vuelve |-> e.pos_retorno, destino |-> Dir(e.pos_var_retorno)]
    BY <1>13, <1>14, <1>15, LlamadoVale
  <2>2. g.pos_retorno = e.pos_retorno /\ g.pos_var_retorno = e.pos_var_retorno
    BY <1>8 DEF Define
  <2> QED BY <1>8, <1>10, <2>1, <2>2 DEF Llamado
<1>18. [[ms EXCEPT ![k] = f] EXCEPT ![k].argumentos = @ + 1]
         = [ms EXCEPT ![k] = [f EXCEPT !.argumentos = @ + 1]]
  <2>1. k \in DOMAIN ms
    BY <1>2, <1>13 DEF EsSec
  <2> QED BY <2>1
<1>19. [Abs!Con(ms, x, v) EXCEPT ![k].argumentos = @ + 1] = Marcos(t)
  BY <1>1, <1>11, <1>12, <1>16, <1>17, <1>18 DEF UltimoLlamado
<1> QED BY <1>1, <1>3, <1>6, <1>9, <1>12, <1>19 DEF DefineArgumento

-----------------------------------------------------------------------------
(* The room of the stack *)

LEMMA CeldasSon ==
  ASSUME NEW q \in Nat \ {0}, TamPag = 4 * q
  PROVE  /\ TamStack * q \in Nat /\ Cardinality(Celdas) = TamStack * q
         /\ Celdas = {BaseStack + 4 * n : n \in 0 .. Cardinality(Celdas) - 1}
<1>1. PICK c \in Nat : c = TamStack * q
  <2>1. TamStack * q \in Nat
    BY StackAssumption
  <2> QED BY <2>1
<1>2. (TamStack * TamPag) \div 4 = c
  <2>1. TamStack * TamPag = 4 * c
    BY <1>1, StackAssumption
  <2> QED BY <2>1
<1>3. PICK b \in Nat : b = BaseStack
  <2>1. PagsCodigo * TamPag \in Nat
    BY StackAssumption
  <2> QED BY <2>1 DEF BaseStack
<1>4. Celdas = {b + 4 * n : n \in 0 .. c - 1}
  BY <1>2, <1>3 DEF Celdas
<1>5. PICK f : f = [n \in 0 .. c - 1 |-> b + 4 * n]
  OBVIOUS
<1>6. f \in Bijection(0 .. c - 1, Celdas)
  <2>1. f \in [0 .. c - 1 -> Celdas]
    BY <1>4, <1>5
  <2>2. \A n, m \in 0 .. c - 1 : f[n] = f[m] => n = m
    BY <1>5
  <2>3. \A d \in Celdas : \E n \in 0 .. c - 1 : f[n] = d
    BY <1>4, <1>5
  <2>4. f \in Injection(0 .. c - 1, Celdas)
    BY <2>1, <2>2 DEF Injection, IsInjective
  <2>5. f \in Surjection(0 .. c - 1, Celdas)
    BY <2>1, <2>3 DEF Surjection
  <2> QED BY <2>4, <2>5 DEF Bijection
<1>7. IsFiniteSet(0 .. c - 1) /\ Cardinality(0 .. c - 1) = c
  BY FS_Interval
<1>8. Cardinality(Celdas) = c
  BY <1>6, <1>7, FS_Bijection DEF ExistsBijection
<1> QED BY <1>1, <1>3, <1>4, <1>8

\* The cells are the places of AnsisopAbs.
LEMMA LugaresSon == Abs!Lugares = Celdas
<1>1. Celdas = {BaseStack + 4 * n : n \in 0 .. Cardinality(Celdas) - 1}
  BY Celdas4, CeldasSon
<1> QED BY <1>1 DEF Abs!Lugares, Abs!Direccion

LEMMA CapacidadEs == BaseStack \in Nat /\ Cardinality(Celdas) \in Nat
<1>1. BaseStack \in Nat
  BY StackAssumption, TamPagAssumption DEF BaseStack
<1> QED BY <1>1, Celdas4, CeldasSon

Lleno(fin) == fin.pag = PagsCodigo + TamStack
Cuenta(fin, d) == Dir(fin) = BaseStack + 4 * d

LEMMA LlenoEs ==
  ASSUME NEW fin, FinBien(fin), NEW d \in Nat, Cuenta(fin, d)
  PROVE  IF Lleno(fin) THEN d = Cardinality(Celdas) ELSE d < Cardinality(Celdas)
<1>1. PICK q \in Nat \ {0} : TamPag = 4 * q /\ TamPag \div 4 = q
  BY Celdas4
<1>2. PICK e \in 0 .. TamStack, n \in 0 .. q - 1 : fin.pag = PagsCodigo + e /\ fin.offset = 4 * n
  BY <1>1, PosEs DEF FinBien
<1>3. PagsCodigo \in Nat /\ TamStack \in Nat \ {0}
  BY StackAssumption
<1>4. Dir(fin) = BaseStack + 4 * (e * q + n) /\ BaseStack \in Nat
  <2>1. e \in Nat /\ n \in Nat /\ EnCelda(fin, e, n)
    BY <1>2, <1>3 DEF EnCelda
  <2>2. DirDe(fin, q, e, n)
    BY <1>1, <2>1, DirEs, Zenon
  <2> QED BY <2>2 DEF DirDe
<1>5. PICK c \in Nat : c = e * q
  <2>1. e * q \in Nat
    BY <1>3
  <2> QED BY <2>1
<1>6. d = c + n
  BY <1>4, <1>5 DEF Cuenta
<1>7. PICK t \in Nat : t = TamStack * q /\ t = Cardinality(Celdas)
  BY <1>1, CeldasSon
<1>8. CASE e = TamStack
  <2>1. n = 0 /\ Lleno(fin)
    BY <1>2, <1>3, <1>8 DEF FinBien, Lleno
  <2> QED BY <1>5, <1>6, <1>7, <1>8, <2>1
<1>9. CASE e # TamStack
  <2>1. PICK o \in Nat : TamStack = e + 1 + o
    <3>1. TamStack - e - 1 \in Nat /\ TamStack = e + 1 + (TamStack - e - 1)
      BY <1>3, <1>9
    <3> QED BY <3>1
  <2>2. TamStack * q = e * q + q + o * q
    BY <1>3, <2>1
  <2>3. o * q \in Nat
    OBVIOUS
  <2>4. t >= c + q
    BY <1>5, <1>7, <2>2, <2>3
  <2>5. d < t
    BY <1>6, <2>4
  <2>6. ~Lleno(fin)
    BY <1>2, <1>3, <1>9 DEF Lleno
  <2> QED BY <1>7, <2>5, <2>6
<1> QED BY <1>8, <1>9

-----------------------------------------------------------------------------
(* The invariant of the refinement *)

\* The definitions are counted by the end of the stack.
PcbCuenta(p, d) == d \in Nat /\ Cuenta(p.fin_stack, d)

\* An overflow is of the line that runs; a fetch without answer is a refusal.
Avisos ==
  /\ stack_overflow => lugar = "cpu" /\ linea \in {"variables", "argumentos"}
  /\ paso_fetch = "nula" => PuedeNegar

RefInv == PcbCuenta(pcb, definidas) /\ Avisos

LEMMA CuentaIgual ==
  ASSUME NEW p, NEW q, NEW d, PcbCuenta(p, d), q.fin_stack = p.fin_stack
  PROVE  PcbCuenta(q, d)
BY DEF PcbCuenta

LEMMA CuentaSalta ==
  ASSUME NEW p, p \in Pcbs, NEW d, PcbCuenta(p, d), NEW r, NEW q, q = [p EXCEPT !.pc = r]
  PROVE  PcbCuenta(q, d)
<1>1. q.fin_stack = p.fin_stack
  BY DEF Pcbs
<1> QED BY <1>1, CuentaIgual

LEMMA CuentaDefine ==
  ASSUME NEW p, DelPrograma(p), PilaBien(p), p.fin_stack.pag # PagsCodigo + TamStack,
         NEW d, PcbCuenta(p, d), NEW k, NEW g, NEW q, Definida(p, k, g, q)
  PROVE  PcbCuenta(q, d + 1)
<1>1. PICK fin : fin = p.fin_stack
  OBVIOUS
<1>2. q.fin_stack = Avanzar(fin)
  BY <1>1 DEF Definida, DelPrograma, Pcbs
<1>3. fin \in Posiciones /\ EsPos(fin)
  BY <1>1 DEF DelPrograma, Pcbs, PilaBien, FinBien
<1>4. Dir(q.fin_stack) = Dir(fin) + 4
  BY <1>1, <1>2, <1>3, AvanzaUna
<1>5. d \in Nat /\ Dir(fin) = BaseStack + 4 * d
  BY <1>1 DEF PcbCuenta, Cuenta
<1>6. PICK b \in Nat : b = BaseStack
  BY CapacidadEs
<1>7. Dir(q.fin_stack) = b + 4 * (d + 1)
  BY <1>4, <1>5, <1>6
<1> QED BY <1>5, <1>6, <1>7 DEF PcbCuenta, Cuenta

LEMMA CuentaLlama ==
  ASSUME NEW p, DelPrograma(p), NEW d, PcbCuenta(p, d),
         NEW v, NEW r, NEW q, Llamada(p, v, r, q)
  PROVE  PcbCuenta(q, d)
<1>1. q.fin_stack = p.fin_stack
  BY DEF Llamada, DelPrograma, Pcbs
<1> QED BY <1>1, CuentaIgual

LEMMA CuentaVuelve ==
  ASSUME NEW p, DelPrograma(p), NEW d, PcbCuenta(p, d),
         NEW k, NEW r, NEW q, Vuelta(p, k, r, q)
  PROVE  PcbCuenta(q, d)
<1>1. q.fin_stack = p.fin_stack
  BY DEF Vuelta, DelPrograma, Pcbs
<1> QED BY <1>1, CuentaIgual

-----------------------------------------------------------------------------
(* The invariant is kept *)

\* The steps that leave the stack alone.

LEMMA SigueCuenta ==
  ASSUME RefInv, pcb' = pcb, definidas' = definidas
  PROVE  PcbCuenta(pcb', definidas')
BY DEF RefInv

LEMMA ArranqueRef == Init => RefInv
<1> SUFFICES ASSUME Init PROVE RefInv
  OBVIOUS
<1>1. definidas = 0 /\ stack_overflow = FALSE /\ paso_fetch = "nada" /\ pcb = PcbNuevo
  BY DEF Init, InitFetch
<1>2. Avisos
  BY <1>1 DEF Avisos
<1>3. PICK p : p = pcb
  OBVIOUS
<1>4. p.fin_stack = Pos(PagsCodigo, 0)
  BY <1>1, <1>3 DEF PcbNuevo
<1>6. Cuenta(p.fin_stack, 0)
  <2>1. PICK b \in Nat : b = BaseStack
    <3>1. BaseStack \in Nat
      BY StackAssumption, TamPagAssumption DEF BaseStack
    <3> QED BY <3>1
  <2>2. Dir(p.fin_stack) = b
    BY <1>4, <2>1, TamPagAssumption, StackAssumption DEF Dir, Pos, pos_fisica_a_logica, BaseStack
  <2> QED BY <2>1, <2>2 DEF Cuenta
<1> QED BY <1>1, <1>2, <1>3, <1>6 DEF RefInv, PcbCuenta

LEMMA RefDelBucle ==
  ASSUME CpuInv, Cabe, RefInv,
         \/ CorrerPcb \/ BuscarInstruccion \/ SeguirBuscando \/ SinInstruccion
         \/ FinInstruccion \/ Sigusr1
  PROVE  RefInv'
<1>1. pcb' = pcb /\ definidas' = definidas
  BY ViajeFiel DEF CorrerPcb, BuscarInstruccion, SeguirBuscando, SinInstruccion,
                   FinInstruccion, Sigusr1, Entregar
<1>2. Avisos'
  <2>1. Avisos /\ Marcha
    BY DEF RefInv, CpuInv
  <2>2. CASE CorrerPcb \/ Sigusr1
    <3>1. /\ stack_overflow' = stack_overflow /\ paso_fetch' = paso_fetch
          /\ linea' = linea /\ (lugar' = lugar \/ lugar = "nucleo")
      BY <2>2 DEF CorrerPcb, Sigusr1, fetch
    <3>2. stack_overflow \in BOOLEAN
      BY DEF CpuInv, Globales
    <3> QED BY <2>1, <3>1, <3>2 DEF Avisos
  <2>3. CASE BuscarInstruccion
    BY <2>1, <2>3 DEF Avisos, BuscarInstruccion, EmpezarFetch, cpu
  <2>4. CASE SeguirBuscando
    BY <2>1, <2>4 DEF Avisos, SeguirBuscando, PasoDeFetch, PedirPrimera, PedirResto,
                      PedidoNegado, Completar, cpu
  <2>5. CASE SinInstruccion
    <3>1. linea = "fuera"
      BY <2>1, <2>5 DEF Marcha, SinInstruccion
    <3> QED BY <2>1, <2>5, <3>1 DEF Avisos, SinInstruccion, TerminarFetch, cpu
  <2>6. CASE FinInstruccion
    BY <2>1, <2>6 DEF Avisos, FinInstruccion, fetch, CpuInv, Globales
  <2> QED BY <2>2, <2>3, <2>4, <2>5, <2>6
<1> QED BY <1>1, <1>2, SigueCuenta DEF RefInv

LEMMA RefDeLeer ==
  ASSUME CpuInv, RefInv, LeerLinea
  PROVE  RefInv'
<1>1. /\ linea = "fuera" /\ paso_fetch' = "nada" /\ definidas' = definidas
      /\ stack_overflow' = stack_overflow
      /\ pcb' = [pcb EXCEPT !.pc = pcb.pc + 1]
  BY DEF LeerLinea, TerminarFetch, cpu, CpuInv, Marcha
<1>2. Avisos'
  BY <1>1 DEF Avisos, RefInv
<1>3. PcbCuenta(pcb', definidas)
  <2>1. PcbCuenta(pcb, definidas) /\ pcb \in Pcbs
    BY DEF RefInv, CpuInv, DelPrograma
  <2> QED BY <1>1, <2>1, CuentaSalta
<1> QED BY <1>1, <1>2, <1>3 DEF RefInv

LEMMA RefDeLinea ==
  ASSUME CpuInv, Cabe, RefInv, NEW dir, NEW e, NEW v,
         \/ Nada \/ Bloquear \/ Finalizar \/ Imprimir(dir) \/ IrAlLabel(e) \/ Asignar(dir, v)
  PROVE  RefInv'
<1>1. definidas' = definidas /\ stack_overflow' = stack_overflow
      /\ paso_fetch' = paso_fetch /\ linea = "libre"
  BY DEF Nada, Bloquear, Finalizar, Imprimir, IrAlLabel, Asignar, EnLinea, cpu, fetch
<1>2. Avisos'
  BY <1>1 DEF Avisos, RefInv
<1>3. PcbCuenta(pcb', definidas)
  <2>1. PcbCuenta(pcb, definidas) /\ pcb \in Pcbs
    BY DEF RefInv, CpuInv, DelPrograma
  <2>2. CASE IrAlLabel(e)
    BY <2>1, <2>2, CuentaSalta DEF IrAlLabel
  <2>3. CASE Nada \/ Bloquear \/ Finalizar \/ Imprimir(dir) \/ Asignar(dir, v)
    <3>1. pcb' = pcb
      BY <2>3, ViajeFiel DEF Nada, Bloquear, Finalizar, Imprimir, Asignar, Entregar
    <3> QED BY <2>1, <3>1
  <2> QED BY <2>2, <2>3
<1> QED BY <1>1, <1>2, <1>3 DEF RefInv

LEMMA CuentaConEntrada ==
  ASSUME CpuInv, RefInv, ~StackLleno, NEW g, pcb' = ConEntrada(g)
  PROVE  PcbCuenta(pcb', definidas + 1)
<1>1. PICK p : p = pcb
  OBVIOUS
<1>2. PICK k : k = Len(p.indice_stack)
  OBVIOUS
<1>3. PICK q : q = pcb'
  OBVIOUS
<1>4. PICK d : d = definidas
  OBVIOUS
<1>5. /\ DelPrograma(p) /\ PilaBien(p) /\ p.fin_stack.pag # PagsCodigo + TamStack
      /\ PcbCuenta(p, d)
  BY <1>1, <1>2, <1>4 DEF CpuInv, StackLleno, DelPrograma, RefInv
<1>6. Definida(p, k, g, q)
  BY <1>1, <1>2, <1>3 DEF ConEntrada, Tope, Definida
<1>7. PcbCuenta(q, d + 1)
  BY <1>5, <1>6, CuentaDefine, Zenon
<1> QED BY <1>3, <1>4, <1>7

LEMMA RefDeVariable ==
  ASSUME CpuInv, RefInv, NEW x \in Letras, DefinirVariable(x)
  PROVE  RefInv'
<1>1. /\ lugar' = "cpu" /\ linea' = "variables" /\ paso_fetch' = paso_fetch
      /\ \/ pcb' = pcb /\ definidas' = definidas
         \/ /\ ~StackLleno /\ definidas' = definidas + 1
            /\ \E g : pcb' = ConEntrada(g)
  BY DEF DefinirVariable, EnLinea, fetch
<1>2. Avisos'
  BY <1>1 DEF Avisos, RefInv
<1>3. PcbCuenta(pcb', definidas')
  BY <1>1, SigueCuenta, CuentaConEntrada
<1> QED BY <1>2, <1>3 DEF RefInv

LEMMA RefDeArgumento ==
  ASSUME CpuInv, RefInv, NEW v \in Valores, DefinirArgumento(v), lugar' = lugar
  PROVE  RefInv'
<1>1. /\ lugar' = "cpu" /\ linea' = "argumentos" /\ paso_fetch' = paso_fetch
      /\ \/ pcb' = pcb /\ definidas' = definidas
         \/ /\ ~StackLleno /\ definidas' = definidas + 1
            /\ \E g : pcb' = ConEntrada(g)
  BY DEF DefinirArgumento, EnLinea, fetch
<1>2. Avisos'
  BY <1>1 DEF Avisos, RefInv
<1>3. PcbCuenta(pcb', definidas')
  BY <1>1, SigueCuenta, CuentaConEntrada
<1> QED BY <1>2, <1>3 DEF RefInv

LEMMA RefDeLlamar ==
  ASSUME CpuInv, RefInv, NEW etiqueta, NEW dir, LlamarConRetorno(etiqueta, dir)
  PROVE  RefInv'
<1>1. /\ lugar = "cpu" /\ linea = "libre"
      /\ UNCHANGED <<lugar, cpu, memoria, definidas, salida, fetch>>
  BY DEF LlamarConRetorno, EnLinea
<1>2. Avisos'
  BY <1>1 DEF Avisos, RefInv, cpu, fetch
<1>3. PICK p : p = pcb
  OBVIOUS
<1>4. PICK q : q = pcb'
  OBVIOUS
<1>5. PICK w : w = pos_logica_a_fisica(dir)
  OBVIOUS
<1>6. Llamada(p, w, etiqueta, q)
  BY <1>3, <1>4, <1>5 DEF LlamarConRetorno, EntradaNueva, Llamada
<1>7. DelPrograma(p) /\ PcbCuenta(p, definidas)
  BY <1>3 DEF CpuInv, RefInv
<1>8. PcbCuenta(q, definidas)
  BY <1>6, <1>7, CuentaLlama, Zenon
<1> QED BY <1>1, <1>2, <1>4, <1>8 DEF RefInv

LEMMA RefDeRetornar ==
  ASSUME CpuInv, RefInv, NEW v \in Valores, Retornar(v)
  PROVE  RefInv'
<1>1. /\ lugar = "cpu" /\ linea = "libre"
      /\ UNCHANGED <<cpu, definidas, salida, fetch>>
  BY DEF Retornar, EnLinea
<1>2. Avisos'
  BY <1>1 DEF Avisos, RefInv, cpu, fetch
<1>3. PICK p : p = pcb
  OBVIOUS
<1>4. PICK q : q = pcb'
  OBVIOUS
<1>5. PICK k : k = Len(p.indice_stack)
  OBVIOUS
<1>6. PICK r : r = Entrada.pos_retorno
  OBVIOUS
<1>7. DelPrograma(p) /\ PcbCuenta(p, definidas)
  BY <1>3 DEF CpuInv, RefInv
<1>8. Vuelta(p, k, r, q)
  BY <1>3, <1>4, <1>5, <1>6 DEF Retornar, Tope, Vuelta
<1>9. PcbCuenta(q, definidas)
  BY <1>7, <1>8, CuentaVuelve, Zenon
<1> QED BY <1>1, <1>2, <1>4, <1>9 DEF RefInv

-----------------------------------------------------------------------------
(* What AnsisopAbs sees *)

Estado == IF lugar \in {"termino", "abortado", "pisado"} THEN lugar
          ELSE IF stack_overflow THEN "desbordado" ELSE "corre"

LEMMA LlamadasSonTras == Llamadas' = Marcos(pcb'.indice_stack)
<1>1. (Llamadas = Marcos(pcb.indice_stack))'
  BY LlamadasSon, PTL
<1> QED BY <1>1

LEMMA LlamadasIguales ==
  ASSUME pcb'.indice_stack = pcb.indice_stack
  PROVE  Llamadas' = Llamadas
BY LlamadasSon, LlamadasSonTras

LEMMA VeTartamudeo ==
  ASSUME Estado' = Estado, pcb'.pc = pcb.pc, linea' = linea, Llamadas' = Llamadas,
         memoria' = memoria, definidas' = definidas, salida' = salida
  PROVE  UNCHANGED Abs!programa
BY DEF Estado, Llamadas, Abs!programa

LEMMA VeLeerLinea ==
  ASSUME Estado = "corre", Estado' = "corre", linea = "fuera", linea' = "libre",
         pcb'.pc = pcb.pc + 1, salida' = SinSalida, Llamadas' = Llamadas,
         memoria' = memoria, definidas' = definidas
  PROVE  Abs!LeerLinea
BY DEF Estado, Llamadas, Abs!LeerLinea

LEMMA VeRechazar ==
  ASSUME PuedeNegar, Estado = "corre", Estado' = "abortado", linea = "fuera",
         linea' = "fuera", pcb'.pc = pcb.pc, Llamadas' = Llamadas, memoria' = memoria,
         definidas' = definidas, salida' = salida
  PROVE  Abs!Rechazar
BY DEF Estado, Llamadas, Abs!Rechazar

LEMMA VeFinLinea ==
  ASSUME linea \in {"variables", "argumentos", "hecha"}, linea' = "fuera",
         Estado' = IF Estado = "desbordado" /\ ~llego_sugus THEN "abortado" ELSE "corre",
         pcb'.pc = pcb.pc, Llamadas' = Llamadas, memoria' = memoria,
         definidas' = definidas, salida' = salida
  PROVE  Abs!FinLinea
BY DEF Estado, Llamadas, Abs!FinLinea

\* The lines that define nothing.
Termina(fase) == /\ Estado = "corre" /\ linea = "libre" /\ linea' = fase
                 /\ definidas' = definidas

LEMMA VeLinea ==
  ASSUME Llamadas' = Llamadas, NEW fase, Termina(fase), pcb'.pc = pcb.pc,
         memoria' = memoria, salida' = salida
  PROVE  /\ fase = "hecha" /\ Estado' = "corre" => Abs!Nada
         /\ fase = "fuera" /\ Estado' = "corre" => Abs!Bloquearse
         /\ fase = "fuera" /\ Estado' = "termino" => Abs!Terminar
BY DEF Termina, Estado, Llamadas, Abs!Nada, Abs!Bloquearse, Abs!Terminar, Abs!Ejecutar

LEMMA VeSaltar ==
  ASSUME Llamadas' = Llamadas, Termina("hecha"), Estado' = "corre", memoria' = memoria,
         salida' = salida
  PROVE  Abs!Saltar(pcb'.pc)
BY DEF Termina, Estado, Llamadas, Abs!Saltar, Abs!Ejecutar

VeLaUltima == Llamadas[Len(Llamadas)]

LEMMA LaUltimaEs ==
  ASSUME CpuInv
  PROVE  /\ Len(Llamadas) = Tope
         /\ VeLaUltima = Llamado(Entrada)
         /\ DOMAIN VeLaUltima.nombres = Nombres(Entrada)
         /\ \A id \in Nombres(Entrada) :
              VeLaUltima.nombres[id] = Dir(PosicionEn(Entrada, id))
<1>1. PICK p : p = pcb
  OBVIOUS
<1>2. PICK k \in Nat \ {0} : k = Len(p.indice_stack)
  BY <1>1, EntradaQueCorre DEF CpuInv
<1>3. PICK s : s = p.indice_stack
  OBVIOUS
<1>4. PICK ms : ms = Marcos(s)
  OBVIOUS
<1>5. Len(ms) = k
  <2>1. EsSec(ms, k)
    BY <1>2, <1>3, <1>4, MarcosEnSecuencia
  <2> QED BY <2>1 DEF EsSec
<1>6. ms[k] = Llamado(s[k])
  BY <1>2, <1>3, <1>4 DEF Marcos
<1>7. Llamadas = ms /\ k = Tope /\ s[k] = Entrada
  BY <1>1, <1>2, <1>3, <1>4, LlamadasSon DEF Tope, Entrada
<1>8. VeLaUltima = Llamado(Entrada)
  BY <1>5, <1>6, <1>7 DEF VeLaUltima
<1>9. VeLaUltima.nombres = NombresDe(Entrada)
  BY <1>8 DEF Llamado
<1> QED BY <1>5, <1>7, <1>8, <1>9 DEF NombresDe

\* The addresses that the program may use are those of its names, or computed.
LEMMA AlcanzableEs ==
  ASSUME CpuInv, NEW dir \in Destinos
  PROVE  Abs!Alcanzable(dir)
<1>1. PICK f : f = VeLaUltima.nombres
  OBVIOUS
<1>2. dir \in {f[x] : x \in DOMAIN f} \union Punteros
  <2>1. CASE dir \in Punteros
    BY <2>1
  <2>2. CASE \E id \in Nombres(Entrada) : dir = obtenerPosicionVariable(id)
    <3>1. PICK id \in Nombres(Entrada) : dir = Dir(PosicionEn(Entrada, id))
      BY <2>2 DEF obtenerPosicionVariable, Dir
    <3>2. id \in DOMAIN f /\ f[id] = dir
      BY <1>1, <3>1, LaUltimaEs
    <3> QED BY <3>2
  <2> QED BY <2>1, <2>2 DEF Destinos
<1> QED BY <1>1, <1>2 DEF VeLaUltima, Llamadas, Abs!Alcanzable, Abs!Actual

\* What is written and read.
VePoner(dir, v) ==
  \/ /\ dir \in Abs!Lugares
     /\ memoria' = [memoria EXCEPT ![dir] = v]
     /\ Estado' = Estado
  \/ /\ dir \notin Abs!Lugares
     /\ memoria' \in [Abs!Lugares -> Valores]
     /\ dir \in BaseStack .. Abs!Direccion(Cardinality(Celdas)) - 1 =>
          \A l \in Abs!Lugares :
             l + 4 <= dir \/ dir + 4 <= l => memoria'[l] = memoria[l]
     /\ Estado' \in {Estado, "pisado"}

LEMMA PonerEs ==
  ASSUME NEW dir, NEW v, VePoner(dir, v)
  PROVE  Abs!Poner(dir, v)
BY Zenon DEF VePoner, Estado, Abs!Poner

LEMMA VeAsignar ==
  ASSUME Termina("hecha"), NEW dir, NEW v, Abs!Alcanzable(dir), Abs!Poner(dir, v),
         Llamadas' = Llamadas, pcb'.pc = pcb.pc, salida' = salida
  PROVE  Abs!Asignar(dir, v)
BY DEF Termina, Estado, Llamadas, Abs!Asignar, Abs!Ejecutar

VeSacar(dir) ==
  \/ dir \in Celdas /\ salida' = memoria[dir] /\ Estado' = Estado
  \/ dir \notin Celdas /\ salida' \in Valores /\ Estado' = Estado
  \/ dir \notin Celdas /\ Estado' = "pisado" /\ salida' = salida

LEMMA VeImprimir ==
  ASSUME Termina("hecha"), NEW dir, Abs!Alcanzable(dir), VeSacar(dir),
         Llamadas' = Llamadas, pcb'.pc = pcb.pc, memoria' = memoria
  PROVE  Abs!Imprimir(dir)
BY LugaresSon DEF Termina, Estado, Llamadas, VeSacar, Abs!Imprimir, Abs!Ejecutar

LEMMA VeLlamar ==
  ASSUME Termina("argumentos"), Estado' = "corre", NEW dir, Abs!Alcanzable(dir),
         Llamadas' = Append(Llamadas, Abs!Marco(pcb.pc, dir)), salida' = salida,
         memoria' = memoria
  PROVE  Abs!Llamar(pcb'.pc, dir)
BY DEF Termina, Estado, Llamadas, Abs!Llamar, Abs!Ejecutar

LEMMA VeRetornar ==
  ASSUME Termina("hecha"), NEW v, Len(Llamadas) > 1, Abs!Poner(VeLaUltima.destino, v),
         Llamadas' = SubSeq(Llamadas, 1, Len(Llamadas) - 1),
         pcb'.pc = VeLaUltima.vuelve, salida' = salida
  PROVE  Abs!Retornar(v)
BY DEF Termina, Estado, Llamadas, VeLaUltima, Abs!Retornar, Abs!Ejecutar, Abs!Actual

\* A definition, or the one that does not fit.
OcupaUno(nuevos) ==
  /\ Estado = "corre" /\ Estado' = "corre" /\ definidas < Cardinality(Celdas)
  /\ Llamadas' = nuevos /\ definidas' = definidas + 1
Desborda ==
  /\ definidas = Cardinality(Celdas) \/ Estado = "desbordado"
  /\ Estado' = "desbordado" /\ Llamadas' = Llamadas /\ definidas' = definidas
  /\ memoria' = memoria

LEMMA VeOcupar ==
  ASSUME NEW nuevos, OcupaUno(nuevos), pcb'.pc = pcb.pc, salida' = salida
  PROVE  Abs!Ocupar(nuevos)
BY DEF OcupaUno, Estado, Llamadas, Abs!Ocupar, Abs!HayLugar

LEMMA VeDesbordar ==
  ASSUME Desborda, pcb'.pc = pcb.pc, salida' = salida
  PROVE  Abs!Desbordar
BY DEF Desborda, Estado, Llamadas, Abs!Desbordar

LaQueSigue == BaseStack + 4 * definidas

LEMMA VeDefinir ==
  ASSUME NEW x, pcb'.pc = pcb.pc, salida' = salida,
         linea \in {"libre", "variables"}, linea' = "variables",
         Desborda \/ (OcupaUno(Abs!Con(Llamadas, x, LaQueSigue)) /\ memoria' = memoria)
  PROVE  Abs!Definir(x)
<1>1. CASE Desborda
  BY <1>1, VeDesbordar DEF Abs!Definir
<1>2. CASE OcupaUno(Abs!Con(Llamadas, x, LaQueSigue)) /\ memoria' = memoria
  <2>1. Abs!Ocupar(Abs!Con(Llamadas, x, LaQueSigue))
    BY <1>2, VeOcupar
  <2> QED BY <1>2, <2>1 DEF Llamadas, LaQueSigue, Abs!Definir, Abs!Direccion
<1> QED BY <1>1, <1>2

LEMMA VeArgumento ==
  ASSUME NEW v, VeLaUltima.argumentos < Len(Digitos),
         pcb'.pc = pcb.pc, salida' = salida, linea = "argumentos", linea' = linea,
         \/ Desborda
         \/ /\ OcupaUno([Abs!Con(Llamadas, Digitos[VeLaUltima.argumentos + 1], LaQueSigue)
                           EXCEPT ![Len(Llamadas)].argumentos = @ + 1])
            /\ memoria' = [memoria EXCEPT ![LaQueSigue] = v]
  PROVE  Abs!Argumento(v)
<1>1. CASE Desborda
  BY <1>1, VeDesbordar DEF Llamadas, VeLaUltima, Abs!Argumento, Abs!Actual
<1>2. CASE ~Desborda
  <2>1. Abs!Ocupar([Abs!Con(Llamadas, Digitos[VeLaUltima.argumentos + 1], LaQueSigue)
                      EXCEPT ![Len(Llamadas)].argumentos = @ + 1])
    BY <1>2, VeOcupar
  <2> QED BY <1>2, <2>1 DEF Llamadas, VeLaUltima, LaQueSigue, Abs!Argumento, Abs!Actual,
                            Abs!Direccion
<1> QED BY <1>1, <1>2

Vivo == lugar \notin {"termino", "abortado", "pisado"}

LEMMA EstadoEs ==
  /\ Vivo /\ stack_overflow => Estado = "desbordado"
  /\ Vivo /\ ~stack_overflow => Estado = "corre"
BY DEF Vivo, Estado

LEMMA EstadoEsTras ==
  /\ Vivo' /\ stack_overflow' => Estado' = "desbordado"
  /\ Vivo' /\ ~stack_overflow' => Estado' = "corre"
BY DEF Vivo, Estado

LEMMA EstadoIgual ==
  ASSUME Vivo, Vivo', stack_overflow' = stack_overflow
  PROVE  Estado' = Estado
BY DEF Vivo, Estado

\* Between lines, and until the line overflows, the program runs.
LEMMA Corre ==
  ASSUME RefInv, CpuInv, lugar = "cpu", linea \in {"fuera", "libre", "hecha"}
  PROVE  ~stack_overflow /\ Vivo /\ Estado = "corre"
<1>1. ~stack_overflow /\ Vivo
  BY DEF RefInv, Avisos, Vivo
<1> QED BY <1>1, EstadoEs

LEMMA RefinaBucle ==
  ASSUME CpuInv, Cabe, RefInv,
         CorrerPcb \/ BuscarInstruccion \/ SeguirBuscando \/ Sigusr1
  PROVE  UNCHANGED Abs!programa
<1>1. /\ pcb' = pcb /\ linea' = linea /\ memoria' = memoria /\ definidas' = definidas
      /\ salida' = salida /\ stack_overflow' = stack_overflow
  BY ViajeFiel DEF CorrerPcb, BuscarInstruccion, SeguirBuscando, Sigusr1, cpu
<1>2. Vivo /\ Vivo'
  <2>1. CASE CorrerPcb \/ BuscarInstruccion \/ Sigusr1
    BY <2>1 DEF CorrerPcb, BuscarInstruccion, Sigusr1, Vivo
  <2>2. CASE SeguirBuscando
    BY <2>2 DEF SeguirBuscando, PasoDeFetch, PedirPrimera, PedirResto, PedidoNegado,
                QuedaPorPedir, Completar, CpuInv, Marcha, Vivo
  <2> QED BY <2>1, <2>2
<1>3. Estado' = Estado
  BY <1>1, <1>2, EstadoIgual
<1>4. Llamadas' = Llamadas
  BY <1>1, LlamadasIguales
<1> QED BY <1>1, <1>3, <1>4, VeTartamudeo

LEMMA RefinaSinInstruccion ==
  ASSUME CpuInv, RefInv, SinInstruccion
  PROVE  Abs!Rechazar
<1>1. /\ lugar = "cpu" /\ paso_fetch = "nula" /\ lugar' = "abortado"
      /\ UNCHANGED <<pcb, linea, cpu, memoria, definidas, salida>>
  BY DEF SinInstruccion
<1>2. linea = "fuera" /\ PuedeNegar
  BY <1>1 DEF CpuInv, Marcha, RefInv, Avisos
<1>3. Estado = "corre"
  BY <1>1, <1>2, Corre
<1>4. Estado' = "abortado"
  BY <1>1 DEF Estado
<1>5. Llamadas' = Llamadas
  BY <1>1, LlamadasIguales
<1> QED BY <1>1, <1>2, <1>3, <1>4, <1>5, VeRechazar

LEMMA RefinaLeerLinea ==
  ASSUME CpuInv, RefInv, LeerLinea
  PROVE  Abs!LeerLinea
<1>1. /\ lugar = "cpu" /\ linea = "fuera" /\ linea' = "libre" /\ salida' = SinSalida
      /\ lugar' = lugar /\ stack_overflow' = stack_overflow
      /\ memoria' = memoria /\ definidas' = definidas
  BY DEF LeerLinea, CpuInv, Marcha, cpu
<1>2. pcb'.pc = pcb.pc + 1 /\ pcb'.indice_stack = pcb.indice_stack
  BY DEF LeerLinea, CpuInv, DelPrograma, Pcbs
<1>3. ~stack_overflow /\ Vivo /\ Estado = "corre"
  BY <1>1, Corre
<1>4. Estado' = "corre"
  BY <1>1, <1>3, EstadoEsTras DEF Vivo
<1>5. Llamadas' = Llamadas
  BY <1>1, <1>2, LlamadasIguales
<1> QED BY <1>1, <1>2, <1>3, <1>4, <1>5, VeLeerLinea

LEMMA RefinaFinInstruccion ==
  ASSUME CpuInv, Cabe, RefInv, FinInstruccion
  PROVE  Abs!FinLinea
<1>1. /\ lugar = "cpu" /\ linea \in {"variables", "argumentos", "hecha"}
      /\ UNCHANGED <<memoria, definidas, salida, fetch>>
  BY DEF FinInstruccion
<1>2. linea' = "fuera" /\ pcb' = pcb
  BY ViajeFiel DEF FinInstruccion, Entregar
<1>3. Llamadas' = Llamadas
  BY <1>1, <1>2, LlamadasIguales
<1>4. Vivo
  BY <1>1 DEF Vivo
<1>5. stack_overflow \in BOOLEAN /\ llego_sugus \in BOOLEAN
  BY DEF CpuInv, Globales
<1>6. Estado' = IF Estado = "desbordado" /\ ~llego_sugus THEN "abortado" ELSE "corre"
  <2>1. CASE llego_sugus
    <3>1. lugar' = "nucleo" /\ stack_overflow' = FALSE
      BY <2>1 DEF FinInstruccion, Entregar
    <3>2. Estado' = "corre"
      BY <3>1, EstadoEsTras DEF Vivo
    <3> QED BY <2>1, <3>2
  <2>2. CASE ~llego_sugus /\ stack_overflow
    <3>1. lugar' = "abortado"
      BY <2>2 DEF FinInstruccion
    <3>2. Estado' = "abortado"
      BY <3>1 DEF Estado
    <3>3. Estado = "desbordado"
      BY <1>4, <2>2, EstadoEs
    <3> QED BY <2>2, <3>2, <3>3
  <2>3. CASE ~llego_sugus /\ ~stack_overflow
    <3>1. lugar' \in {"nucleo", "cpu"} /\ stack_overflow' = stack_overflow
      BY <1>1, <2>3 DEF FinInstruccion, Entregar
    <3>2. Estado' = "corre"
      BY <2>3, <3>1, EstadoEsTras DEF Vivo
    <3>3. Estado = "corre"
      BY <1>4, <2>3, EstadoEs
    <3> QED BY <3>2, <3>3
  <2> QED BY <1>5, <2>1, <2>2, <2>3
<1> QED BY <1>1, <1>2, <1>3, <1>6, VeFinLinea

\* The lines that change no call.
LEMMA RefinaNada ==
  ASSUME CpuInv, RefInv, Nada
  PROVE  Abs!Nada
<1>1. /\ lugar = "cpu" /\ linea = "libre" /\ linea' = "hecha"
      /\ lugar' = lugar /\ stack_overflow' = stack_overflow /\ pcb' = pcb
      /\ memoria' = memoria /\ definidas' = definidas /\ salida' = salida
  BY DEF Nada, EnLinea, cpu
<1>2. ~stack_overflow /\ Vivo /\ Estado = "corre"
  BY <1>1, Corre
<1>3. Estado' = "corre"
  BY <1>1, <1>2, EstadoEsTras DEF Vivo
<1>4. Llamadas' = Llamadas
  BY <1>1, LlamadasIguales
<1>5. Termina("hecha")
  BY <1>1, <1>2 DEF Termina
<1> QED BY <1>1, <1>3, <1>4, <1>5, VeLinea

LEMMA RefinaIrAlLabel ==
  ASSUME CpuInv, RefInv, NEW etiqueta \in Etiquetas, IrAlLabel(etiqueta)
  PROVE  Abs!Saltar(etiqueta)
<1>1. /\ lugar = "cpu" /\ linea = "libre" /\ linea' = "hecha"
      /\ lugar' = lugar /\ stack_overflow' = stack_overflow
      /\ memoria' = memoria /\ definidas' = definidas /\ salida' = salida
  BY DEF IrAlLabel, EnLinea, cpu
<1>2. ~stack_overflow /\ Vivo /\ Estado = "corre"
  BY <1>1, Corre
<1>3. Estado' = "corre"
  BY <1>1, <1>2, EstadoEsTras DEF Vivo
<1>4. pcb'.pc = etiqueta /\ pcb'.indice_stack = pcb.indice_stack
  BY DEF IrAlLabel, CpuInv, DelPrograma, Pcbs
<1>5. Llamadas' = Llamadas
  BY <1>1, <1>4, LlamadasIguales
<1>6. Termina("hecha")
  BY <1>1, <1>2 DEF Termina
<1>7. Abs!Saltar(pcb'.pc)
  BY <1>1, <1>3, <1>5, <1>6, VeSaltar
<1> QED BY <1>4, <1>7

\* A blocked or ended line; when SIGUSR1 came in it, what follows is the use of a
\* freed PCB, of which nothing is said.
LEMMA RefinaBloquear ==
  ASSUME CpuInv, Cabe, RefInv, Bloquear
  PROVE  Abs!Bloquearse \/ UNCHANGED Abs!programa
<1>1. /\ lugar = "cpu" /\ linea = "libre" /\ stack_overflow' = stack_overflow
      /\ memoria' = memoria /\ definidas' = definidas /\ salida' = salida
      /\ pcb' = pcb
      /\ \/ lugar' = "nucleo" /\ linea' = "fuera"
         \/ lugar' = "indefinido" /\ linea' = linea
  BY ViajeFiel DEF Bloquear, EnLinea, Entregar
<1>2. ~stack_overflow /\ Vivo /\ Estado = "corre"
  BY <1>1, Corre
<1>3. Estado' = "corre"
  BY <1>1, <1>2, EstadoEsTras DEF Vivo
<1>4. Llamadas' = Llamadas
  BY <1>1, LlamadasIguales
<1>5. CASE linea' = "fuera"
  <2>1. Termina("fuera")
    BY <1>1, <1>2, <1>5 DEF Termina
  <2> QED BY <1>1, <1>3, <1>4, <2>1, VeLinea
<1>6. CASE linea' = linea
  BY <1>1, <1>2, <1>3, <1>4, <1>6, VeTartamudeo
<1> QED BY <1>1, <1>5, <1>6

LEMMA RefinaFinalizar ==
  ASSUME CpuInv, RefInv, Finalizar
  PROVE  Abs!Terminar \/ Abs!Bloquearse
<1>1. /\ lugar = "cpu" /\ linea = "libre" /\ linea' = "fuera"
      /\ lugar' \in {"termino", "indefinido"} /\ stack_overflow' = stack_overflow
      /\ memoria' = memoria /\ definidas' = definidas /\ salida' = salida
      /\ pcb' = pcb
  BY DEF Finalizar, EnLinea, cpu
<1>2. ~stack_overflow /\ Vivo /\ Estado = "corre"
  BY <1>1, Corre
<1>3. Llamadas' = Llamadas
  BY <1>1, LlamadasIguales
<1>4. Termina("fuera")
  BY <1>1, <1>2 DEF Termina
<1>5. CASE lugar' = "termino"
  <2>1. Estado' = "termino"
    BY <1>5 DEF Estado
  <2> QED BY <1>1, <1>3, <1>4, <2>1, VeLinea
<1>6. CASE lugar' = "indefinido"
  <2>1. Estado' = "corre"
    BY <1>1, <1>2, <1>6, EstadoEsTras DEF Vivo
  <2> QED BY <1>1, <1>3, <1>4, <2>1, VeLinea
<1> QED BY <1>1, <1>5, <1>6

\* The pages of an address of the stack.
LEMMA PaginaDePila ==
  ASSUME NEW dir \in Nat, dir \in BaseStack .. Abs!Direccion(Cardinality(Celdas)) - 1
  PROVE  dir \div TamPag \in PagsStack
<1>1. PICK q \in Nat \ {0} : TamPag = 4 * q
  BY Celdas4
<1>2. PICK c \in Nat : c = Cardinality(Celdas) /\ c = TamStack * q
  BY <1>1, CeldasSon
<1>3. PagsCodigo \in Nat /\ TamStack \in Nat
  BY StackAssumption
<1>4. PICK t \in Nat \ {0} : t = TamPag
  BY TamPagAssumption
<1>5. PICK k \in Nat, r \in Nat : k = dir \div TamPag /\ dir = k * t + r /\ r < t
  <2>1. /\ dir \div TamPag \in Nat /\ dir % TamPag \in Nat /\ dir % TamPag < TamPag
        /\ (dir \div TamPag) * TamPag + (dir % TamPag) = dir
    BY Division
  <2> QED BY <1>4, <2>1
<1>6. PICK b \in Nat : b = PagsCodigo * t /\ b = BaseStack
  BY <1>4, CapacidadEs DEF BaseStack
<1>7. PICK s \in Nat : s = TamStack * t /\ s = 4 * c
  <2>1. TamStack * t = 4 * c
    BY <1>1, <1>2, <1>3, <1>4
  <2> QED BY <1>2, <2>1
<1>8. b <= dir /\ dir < b + s
  BY <1>2, <1>6, <1>7 DEF Abs!Direccion
<1>9. k >= PagsCodigo
  <2> SUFFICES ASSUME k < PagsCodigo PROVE FALSE
    BY <1>3
  <2>1. PICK o \in Nat : PagsCodigo = k + 1 + o
    <3>1. PagsCodigo - k - 1 \in Nat /\ PagsCodigo = k + 1 + (PagsCodigo - k - 1)
      BY <1>3
    <3> QED BY <3>1
  <2>2. b = k * t + t + o * t /\ o * t \in Nat
    BY <1>6, <2>1
  <2>3. PICK kt \in Nat : kt = k * t
    OBVIOUS
  <2>4. PICK ot \in Nat : ot = o * t
    BY <2>2
  <2>5. b = kt + t + ot /\ dir = kt + r
    <3>1. b = kt + t + ot
      BY <2>2, <2>3, <2>4, Zenon
    <3>2. dir = kt + r
      BY <1>5, <2>3, Zenon
    <3> QED BY <3>1, <3>2
  <2>6. dir < b
    <3>1. r < t
      BY <1>5, Zenon
    <3> QED BY <2>5, <3>1
  <2> QED BY <1>8, <2>6
<1>10. k < PagsCodigo + TamStack
  <2> SUFFICES ASSUME k >= PagsCodigo + TamStack PROVE FALSE
    BY <1>3
  <2>1. PICK o \in Nat : k = PagsCodigo + TamStack + o
    <3>1. k - (PagsCodigo + TamStack) \in Nat
      BY <1>3
    <3>2. k = PagsCodigo + TamStack + (k - (PagsCodigo + TamStack))
      BY <1>3
    <3> QED BY <3>1, <3>2
  <2>2. k * t = PagsCodigo * t + TamStack * t + o * t /\ o * t \in Nat
    BY <1>3, <2>1
  <2> QED BY <1>5, <1>6, <1>7, <1>8, <2>2
<1> QED BY <1>3, <1>5, <1>9, <1>10 DEF PagsStack

\* What asignar and retornar write is what AnsisopAbs puts.
LEMMA EscribirPone ==
  ASSUME CpuInv, Cabe, TamPag <= 128, NEW dir \in Direcciones, NEW v \in Valores,
         Escribir(dir, v), Vivo, stack_overflow' = stack_overflow
  PROVE  Abs!Poner(dir, v)
<1>1. memoria' \in [Celdas -> Valores] /\ memoria \in [Celdas -> Valores]
  BY Escribe DEF CpuInv, Globales
<1>2. lugar' = lugar => Estado' = Estado
  BY DEF Estado
<1>3. lugar' = "pisado" => Estado' = "pisado"
  BY DEF Estado
<1>4. CASE dir \in Celdas
  <2>1. lugar' = lugar /\ Escrita(memoria, dir, v, memoria')
    BY <1>4, EscribeEnPila
  <2>2. VePoner(dir, v)
    BY <1>2, <1>4, <2>1, LugaresSon DEF Escrita, VePoner
  <2> QED BY <2>2, PonerEs
<1>5. CASE dir \notin Celdas
  <2>1. dir \in Nat
    BY <1>5, ProgramaAssumption DEF Direcciones
  <2>2. Estado' \in {Estado, "pisado"}
    BY <1>2, <1>3, Escribe DEF CpuInv
  <2>3. ASSUME dir \in BaseStack .. Abs!Direccion(Cardinality(Celdas)) - 1,
               NEW l \in Celdas, l + 4 <= dir \/ dir + 4 <= l
        PROVE  memoria'[l] = memoria[l]
    <3>1. PICK pos : pos = pos_logica_a_fisica(dir)
      OBVIOUS
    <3>2. pos.pag = dir \div TamPag /\ pos.offset = dir % TamPag
      BY <3>1 DEF pos_logica_a_fisica, Pos
    <3>3. pos.pag \in PagsStack
      BY <2>1, <2>3, <3>2, PaginaDePila
    <3>4. pos.offset \in 0 .. TamPag - 1 /\ Dir(pos) = dir
      BY <2>1, <3>1, DireccionEs
    <3>5. pos.pag \in Nat /\ pos.pag < 128 /\ pos.offset \in Nat /\ pos.offset < 128
      <4>1. PagsCodigo + TamStack < 128
        BY DEF Cabe, PcbChico, CpuInv, DelPrograma
      <4> QED BY <3>3, <3>4, <4>1, StackAssumption, TamPagAssumption DEF PagsStack
    <3>6. Char(pos.pag) = pos.pag /\ Char(pos.offset) = pos.offset
      BY <3>5, CharFiel
    <3>7. PICK llega : llega = Pos(Char(pos.pag), Char(pos.offset))
      OBVIOUS
    <3>8. pos_fisica_a_logica(llega) = dir
      BY <3>4, <3>6, <3>7 DEF Pos, Dir, pos_fisica_a_logica
    <3>9. \/ memoria' = memoria
          \/ \A c \in CeldasLejosDe(dir) : memoria'[c] = memoria[c]
      BY <1>5, <3>1, <3>7, <3>8 DEF Escribir
    <3>10. l \in CeldasLejosDe(dir)
      BY <2>3 DEF CeldasLejosDe
    <3> QED BY <3>9, <3>10
  <2>4. VePoner(dir, v)
    BY <1>1, <1>5, <2>2, <2>3, LugaresSon DEF VePoner
  <2> QED BY <2>4, PonerEs
<1> QED BY <1>4, <1>5

LEMMA LeerSaca ==
  ASSUME Vivo, stack_overflow' = stack_overflow, NEW dir, Leer(dir)
  PROVE  VeSacar(dir)
<1>1. lugar' = lugar => Estado' = Estado
  BY DEF Estado
<1>2. lugar' = "pisado" => Estado' = "pisado"
  BY DEF Estado
<1>3. CASE dir \in Celdas
  BY <1>1, <1>3, LeeDePila DEF VeSacar
<1>4. CASE dir \notin Celdas
  BY <1>1, <1>2, <1>4 DEF Leer, VeSacar
<1> QED BY <1>3, <1>4

LEMMA RefinaImprimir ==
  ASSUME CpuInv, RefInv, NEW dir, Imprimir(dir)
  PROVE  Abs!Imprimir(dir)
<1>1. /\ lugar = "cpu" /\ linea = "libre" /\ linea' = "hecha"
      /\ stack_overflow' = stack_overflow /\ pcb' = pcb
      /\ memoria' = memoria /\ definidas' = definidas
      /\ dir \in Destinos /\ Leer(dir)
  BY DEF Imprimir, EnLinea, cpu
<1>2. ~stack_overflow /\ Vivo /\ Estado = "corre"
  BY <1>1, Corre
<1>3. VeSacar(dir)
  BY <1>1, <1>2, LeerSaca
<1>4. Llamadas' = Llamadas
  BY <1>1, LlamadasIguales
<1>5. Termina("hecha")
  BY <1>1, <1>2 DEF Termina
<1>6. Abs!Alcanzable(dir)
  BY <1>1, AlcanzableEs
<1> QED BY <1>1, <1>3, <1>4, <1>5, <1>6, VeImprimir

LEMMA RefinaAsignar ==
  ASSUME CpuInv, Cabe, RefInv, TamPag <= 128, NEW dir, NEW v \in Valores, Asignar(dir, v)
  PROVE  Abs!Asignar(dir, v)
<1>1. /\ lugar = "cpu" /\ linea = "libre" /\ linea' = "hecha"
      /\ stack_overflow' = stack_overflow /\ pcb' = pcb
      /\ definidas' = definidas /\ salida' = salida
      /\ dir \in Destinos /\ Escribir(dir, v)
  BY DEF Asignar, EnLinea, cpu
<1>2. ~stack_overflow /\ Vivo /\ Estado = "corre"
  BY <1>1, Corre
<1>3. Abs!Poner(dir, v)
  <2>1. dir \in Direcciones
    BY <1>1, DestinoPosible
  <2> QED BY <1>1, <1>2, <2>1, EscribirPone
<1>4. Llamadas' = Llamadas
  BY <1>1, LlamadasIguales
<1>5. Termina("hecha")
  BY <1>1, <1>2 DEF Termina
<1>6. Abs!Alcanzable(dir)
  BY <1>1, AlcanzableEs
<1> QED BY <1>1, <1>3, <1>4, <1>5, <1>6, VeAsignar

LEMMA RefinaLlamar ==
  ASSUME CpuInv, RefInv, NEW etiqueta \in Etiquetas, NEW dir, LlamarConRetorno(etiqueta, dir)
  PROVE  Abs!Llamar(etiqueta, dir)
<1>1. /\ lugar = "cpu" /\ linea = "libre" /\ linea' = "argumentos"
      /\ lugar' = lugar /\ stack_overflow' = stack_overflow
      /\ memoria' = memoria /\ definidas' = definidas /\ salida' = salida
      /\ dir \in Destinos
  BY DEF LlamarConRetorno, EnLinea, cpu
<1>2. ~stack_overflow /\ Vivo /\ Estado = "corre"
  BY <1>1, Corre
<1>3. Estado' = "corre"
  BY <1>1, <1>2, EstadoEsTras DEF Vivo
<1>4. PICK w : w = pos_logica_a_fisica(dir)
  OBVIOUS
<1>5. w \in Posiciones /\ Dir(w) = dir
  BY <1>1, <1>4, DestinoPosible, DireccionEs
<1>6. /\ pcb'.pc = etiqueta
      /\ pcb'.indice_stack = Append(pcb.indice_stack, EntradaNueva(pcb.pc, w))
  BY <1>4 DEF LlamarConRetorno, CpuInv, DelPrograma, Pcbs, EntradaNueva
<1>7. Llamadas' = Append(Llamadas, Abs!Marco(pcb.pc, dir))
  <2>1. PICK p : p = pcb
    OBVIOUS
  <2>2. PICK k : k = Len(p.indice_stack)
    OBVIOUS
  <2>3. PICK t : t = pcb'.indice_stack
    OBVIOUS
  <2>4. PICK r \in Nat : r = p.pc
    BY <2>1 DEF CpuInv, DelPrograma, Pcbs
  <2>5. DelPrograma(p) /\ PilaBien(p)
    BY <2>1 DEF CpuInv
  <2>6. t = Append(p.indice_stack, EntradaNueva(r, w))
    BY <1>6, <2>1, <2>3, <2>4
  <2>7. LlamaMarcos(p.indice_stack, t, r, w)
    BY <1>5, <2>2, <2>5, <2>6, MarcosLlama, Zenon
  <2>8. Llamadas = Marcos(p.indice_stack)
    BY <2>1, LlamadasSon
  <2>9. Llamadas' = Marcos(t)
    BY <2>3, LlamadasSonTras
  <2> QED BY <1>5, <2>1, <2>4, <2>7, <2>8, <2>9 DEF LlamaMarcos
<1>8. Termina("argumentos")
  BY <1>1, <1>2 DEF Termina
<1>9. Abs!Alcanzable(dir)
  BY <1>1, AlcanzableEs
<1>10. Abs!Llamar(pcb'.pc, dir)
  BY <1>1, <1>3, <1>7, <1>8, <1>9, VeLlamar
<1> QED BY <1>6, <1>10

LEMMA RefinaRetornar ==
  ASSUME CpuInv, Cabe, RefInv, TamPag <= 128, NEW v \in Valores, Retornar(v)
  PROVE  Abs!Retornar(v)
<1>1. /\ lugar = "cpu" /\ linea = "libre" /\ linea' = "hecha" /\ Tope > 1
      /\ stack_overflow' = stack_overflow
      /\ definidas' = definidas /\ salida' = salida
      /\ Escribir(Dir(Entrada.pos_var_retorno), v)
  BY DEF Retornar, EnLinea, cpu, Dir
<1>2. ~stack_overflow /\ Vivo /\ Estado = "corre"
  BY <1>1, Corre
<1>3. Abs!Poner(Dir(Entrada.pos_var_retorno), v)
  <2>1. Dir(Entrada.pos_var_retorno) \in Direcciones
    BY <1>1, EntradaEs DEF EntradaBien, EsDestino
  <2> QED BY <1>1, <1>2, <2>1, EscribirPone
<1>4. Termina("hecha")
  BY <1>1, <1>2 DEF Termina
<1>5. /\ Llamadas' = SubSeq(Llamadas, 1, Len(Llamadas) - 1)
      /\ VeLaUltima.destino = Dir(Entrada.pos_var_retorno)
      /\ pcb'.pc = VeLaUltima.vuelve /\ Len(Llamadas) > 1
  <2>1. PICK p : p = pcb
    OBVIOUS
  <2>2. PICK k : k = Len(p.indice_stack)
    OBVIOUS
  <2>3. PICK r : r = Entrada.pos_retorno
    OBVIOUS
  <2>4. PICK q : q = pcb'
    OBVIOUS
  <2>5. DelPrograma(p) /\ PilaBien(p) /\ k > 1
    BY <1>1, <2>1, <2>2 DEF CpuInv, Tope
  <2>6. q = [p EXCEPT !.indice_stack = SubSeq(p.indice_stack, 1, k - 1), !.pc = r]
    BY <2>1, <2>2, <2>3, <2>4 DEF Retornar, Tope
  <2>7. q.pc = r /\ q.indice_stack = SubSeq(p.indice_stack, 1, k - 1)
    BY <2>5, <2>6 DEF DelPrograma, Pcbs
  <2>8. VuelveMarcos(p.indice_stack, q.indice_stack, k)
    BY <2>2, <2>5, <2>7, MarcosVuelve
  <2>9. Llamadas = Marcos(p.indice_stack)
    BY <2>1, LlamadasSon
  <2>10. Llamadas' = Marcos(q.indice_stack)
    BY <2>4, LlamadasSonTras
  <2>11. Len(Llamadas) = k /\ VeLaUltima = Llamado(Entrada)
    BY <2>1, <2>2, LaUltimaEs DEF Tope
  <2>12. VeLaUltima.destino = Dir(Entrada.pos_var_retorno) /\ VeLaUltima.vuelve = r
    BY <2>3, <2>11 DEF Llamado
  <2>13. Llamadas' = SubSeq(Llamadas, 1, k - 1)
    BY <2>8, <2>9, <2>10 DEF VuelveMarcos
  <2> QED BY <2>4, <2>5, <2>7, <2>11, <2>12, <2>13
<1> QED BY <1>1, <1>3, <1>4, <1>5, VeRetornar

\* The stack is full exactly when the definitions are as many as its cells.
LEMMA LlenoSegunCuenta ==
  ASSUME CpuInv, RefInv
  PROVE  /\ StackLleno => definidas = Cardinality(Celdas)
         /\ ~StackLleno => definidas < Cardinality(Celdas)
<1>1. PICK fin : fin = pcb.fin_stack
  OBVIOUS
<1>2. PICK d \in Nat : d = definidas
  BY DEF RefInv, PcbCuenta
<1>3. FinBien(fin) /\ Cuenta(fin, d)
  BY <1>1, <1>2 DEF CpuInv, PilaBien, RefInv, PcbCuenta
<1>4. StackLleno <=> Lleno(fin)
  BY <1>1 DEF StackLleno, Lleno, CpuInv, DelPrograma
<1>5. IF Lleno(fin) THEN d = Cardinality(Celdas) ELSE d < Cardinality(Celdas)
  BY <1>3, LlenoEs
<1> QED BY <1>2, <1>4, <1>5

\* The line of a definition that does not fit.
LEMMA NoCabe ==
  ASSUME CpuInv, RefInv, lugar = "cpu", stack_overflow \/ StackLleno, stack_overflow' = TRUE,
         UNCHANGED <<lugar, pcb, memoria, definidas>>
  PROVE  Desborda
<1>1. Vivo /\ Vivo'
  BY DEF Vivo
<1>2. Estado' = "desbordado"
  BY <1>1, EstadoEsTras
<1>3. definidas = Cardinality(Celdas) \/ Estado = "desbordado"
  BY <1>1, EstadoEs, LlenoSegunCuenta
<1>4. Llamadas' = Llamadas
  BY LlamadasIguales
<1> QED BY <1>2, <1>3, <1>4 DEF Desborda

\* The line of one that does.
LEMMA SiCabe ==
  ASSUME CpuInv, RefInv, lugar = "cpu", lugar' = lugar, ~stack_overflow, ~StackLleno,
         stack_overflow' = stack_overflow, definidas' = definidas + 1,
         NEW nuevos, Llamadas' = nuevos
  PROVE  OcupaUno(nuevos)
<1>1. Vivo /\ Vivo'
  BY DEF Vivo
<1>2. Estado = "corre" /\ Estado' = "corre"
  BY <1>1, EstadoEs, EstadoEsTras
<1>3. definidas < Cardinality(Celdas)
  BY LlenoSegunCuenta
<1> QED BY <1>2, <1>3 DEF OcupaUno

LEMMA FinLibre ==
  ASSUME CpuInv, RefInv, ~StackLleno
  PROVE  /\ Dir(pcb.fin_stack) \in Celdas
         /\ Dir(pcb.fin_stack) = LaQueSigue
<1>1. EsCelda(pcb.fin_stack)
  BY EntradaEs DEF StackLleno, CpuInv, DelPrograma, PilaBien, FinBien, EsCelda
<1> QED BY <1>1, CeldaEnPila DEF RefInv, PcbCuenta, Cuenta, LaQueSigue

LEMMA RefinaDefinirVariable ==
  ASSUME CpuInv, RefInv, NEW x \in Letras, DefinirVariable(x)
  PROVE  Abs!Definir(x)
<1>1. /\ lugar = "cpu" /\ lugar' = lugar /\ linea \in {"libre", "variables"}
      /\ linea' = "variables" /\ memoria' = memoria /\ salida' = salida
  BY DEF DefinirVariable, EnLinea
<1>2. CASE /\ stack_overflow \/ StackLleno
           /\ stack_overflow' = TRUE /\ UNCHANGED <<pcb, definidas>>
  <2>1. Desborda
    BY <1>1, <1>2, NoCabe
  <2> QED BY <1>1, <1>2, <2>1, VeDefinir
<1>3. CASE /\ ~stack_overflow /\ ~StackLleno
           /\ pcb' = ConEntrada([Entrada EXCEPT !.variables =
                        Append(@, [id |-> x, posicionVar |-> pcb.fin_stack])])
           /\ definidas' = definidas + 1 /\ stack_overflow' = stack_overflow
  <2>1. PICK p : p = pcb
    OBVIOUS
  <2>2. PICK k : k = Len(p.indice_stack)
    OBVIOUS
  <2>3. PICK e : e = p.indice_stack[k]
    OBVIOUS
  <2>4. PICK g : g = [e EXCEPT !.variables =
                        Append(@, [id |-> x, posicionVar |-> p.fin_stack])]
    OBVIOUS
  <2>5. PICK t : t = pcb'.indice_stack
    OBVIOUS
  <2>6. e = Entrada /\ p \in Pcbs /\ DelPrograma(p) /\ PilaBien(p)
    BY <2>1, <2>2, <2>3 DEF CpuInv, DelPrograma, Entrada, Tope
  <2>7. pcb'.pc = pcb.pc /\ Cambiada(t, p.indice_stack, k, g)
    <3>1. pcb' = ConEntrada(g)
      BY <1>3, <2>1, <2>4, <2>6
    <3> QED BY <2>1, <2>2, <2>5, <2>6, <3>1 DEF ConEntrada, Tope, Cambiada, Pcbs
  <2>8. DefineVariable(p.indice_stack, t, x, p.fin_stack)
    BY <2>2, <2>3, <2>4, <2>6, <2>7, MarcosDefineVariable
  <2>9. Llamadas' = Abs!Con(Llamadas, x, LaQueSigue)
    <3>1. Llamadas = Marcos(p.indice_stack)
      BY <2>1, LlamadasSon
    <3>2. Llamadas' = Marcos(t)
      BY <2>5, LlamadasSonTras
    <3>3. Dir(p.fin_stack) = LaQueSigue
      BY <1>3, <2>1, FinLibre
    <3> QED BY <2>8, <3>1, <3>2, <3>3 DEF DefineVariable
  <2>10. OcupaUno(Abs!Con(Llamadas, x, LaQueSigue))
    BY <1>1, <1>3, <2>9, SiCabe
  <2> QED BY <1>1, <2>7, <2>10, VeDefinir
<1> QED BY <1>2, <1>3 DEF DefinirVariable

LEMMA RefinaDefinirArgumento ==
  ASSUME CpuInv, Cabe, RefInv, TamPag <= 128, NEW v \in Valores, DefinirArgumento(v)
  PROVE  Abs!Argumento(v) /\ lugar' = lugar
<1>1. /\ lugar = "cpu" /\ linea = "argumentos" /\ linea' = linea /\ salida' = salida
      /\ Len(Entrada.argumentos) < Len(Digitos)
  BY DEF DefinirArgumento, EnLinea
<1>2. PICK a : a = Len(Entrada.argumentos)
  OBVIOUS
<1>3. VeLaUltima.argumentos = a /\ Len(Llamadas) = Tope
  BY <1>2, LaUltimaEs DEF Llamado
<1>4. CASE /\ stack_overflow \/ StackLleno
           /\ stack_overflow' = TRUE /\ UNCHANGED <<lugar, pcb, memoria, definidas>>
  <2>1. Desborda
    BY <1>1, <1>4, NoCabe
  <2>2. Abs!Argumento(v)
    BY <1>1, <1>2, <1>3, <1>4, <2>1, VeArgumento
  <2> QED BY <1>4, <2>2
<1>5. CASE /\ ~stack_overflow /\ ~StackLleno
           /\ pcb' = ConEntrada([Entrada EXCEPT !.argumentos = Append(@, pcb.fin_stack)])
           /\ Escribir(pos_fisica_a_logica(pcb.fin_stack), v)
           /\ definidas' = definidas + 1 /\ stack_overflow' = stack_overflow
  <2>1. lugar' = lugar /\ Escrita(memoria, LaQueSigue, v, memoria')
    BY <1>5, FinLibre, EscribeEnPila DEF Dir
  <2>2. PICK p : p = pcb
    OBVIOUS
  <2>3. PICK k : k = Len(p.indice_stack)
    OBVIOUS
  <2>4. PICK e : e = p.indice_stack[k]
    OBVIOUS
  <2>5. PICK g : g = [e EXCEPT !.argumentos = Append(@, p.fin_stack)]
    OBVIOUS
  <2>6. PICK t : t = pcb'.indice_stack
    OBVIOUS
  <2>7. e = Entrada /\ p \in Pcbs /\ DelPrograma(p) /\ PilaBien(p) /\ k = Tope
    BY <2>2, <2>3, <2>4 DEF CpuInv, DelPrograma, Entrada, Tope
  <2>8. pcb'.pc = pcb.pc /\ Cambiada(t, p.indice_stack, k, g)
    <3>1. pcb' = ConEntrada(g)
      BY <1>5, <2>2, <2>5, <2>7
    <3> QED BY <2>2, <2>3, <2>6, <2>7, <3>1 DEF ConEntrada, Tope, Cambiada, Pcbs
  <2>9. a = Len(e.argumentos) /\ a < Len(Digitos)
    BY <1>1, <1>2, <2>7
  <2>10. DefineArgumento(p.indice_stack, t, k, Digitos[a + 1], p.fin_stack)
    BY <2>3, <2>4, <2>5, <2>7, <2>8, <2>9, MarcosDefineArgumento
  <2>11. Llamadas' = [Abs!Con(Llamadas, Digitos[a + 1], LaQueSigue) EXCEPT
                        ![k].argumentos = @ + 1]
    <3>1. Llamadas = Marcos(p.indice_stack)
      BY <2>2, LlamadasSon
    <3>2. Llamadas' = Marcos(t)
      BY <2>6, LlamadasSonTras
    <3>3. Dir(p.fin_stack) = LaQueSigue
      BY <1>5, <2>2, FinLibre
    <3> QED BY <2>10, <3>1, <3>2, <3>3 DEF DefineArgumento
  <2>12. OcupaUno([Abs!Con(Llamadas, Digitos[a + 1], LaQueSigue) EXCEPT
                     ![k].argumentos = @ + 1])
    BY <1>1, <1>5, <2>1, <2>11, SiCabe
  <2>13. OcupaUno([Abs!Con(Llamadas, Digitos[VeLaUltima.argumentos + 1], LaQueSigue) EXCEPT
                     ![Len(Llamadas)].argumentos = @ + 1])
    BY <1>3, <2>7, <2>12
  <2>14. memoria' = [memoria EXCEPT ![LaQueSigue] = v]
    BY <2>1 DEF Escrita
  <2>15. Abs!Argumento(v)
    BY <1>1, <1>2, <1>3, <2>8, <2>13, <2>14, VeArgumento
  <2> QED BY <2>1, <2>15
<1> QED BY <1>4, <1>5 DEF DefinirArgumento

-----------------------------------------------------------------------------
(* The refinement *)

LEMMA PasoRefInv ==
  ASSUME CpuInv, Cabe, RefInv, TamPag <= 128, [Next]_vars
  PROVE  RefInv'
<1>1. CASE UNCHANGED vars
  BY <1>1, SigueCuenta DEF vars, cpu, fetch, RefInv, Avisos
<1>2. CASE \/ CorrerPcb \/ BuscarInstruccion \/ SeguirBuscando \/ SinInstruccion
           \/ FinInstruccion \/ Sigusr1
  BY <1>2, RefDelBucle
<1>3. CASE LeerLinea
  BY <1>3, RefDeLeer
<1>4. CASE Nada \/ Bloquear \/ Finalizar
  BY <1>4, RefDeLinea
<1>5. CASE \E x \in Letras : DefinirVariable(x)
  BY <1>5, RefDeVariable
<1>6. CASE \E dir \in Direcciones : \/ Imprimir(dir)
                                 \/ \E e \in Etiquetas : LlamarConRetorno(e, dir)
  BY <1>6, RefDeLinea, RefDeLlamar
<1>7. CASE \E e \in Etiquetas : IrAlLabel(e)
  BY <1>7, RefDeLinea
<1>8. ASSUME NEW v \in Valores, DefinirArgumento(v)
      PROVE  RefInv'
  <2>1. lugar' = lugar
    BY <1>8, RefinaDefinirArgumento
  <2> QED BY <1>8, <2>1, RefDeArgumento
<1>9. CASE \E v \in Valores : Retornar(v) \/ \E dir \in Direcciones : Asignar(dir, v)
  BY <1>9, RefDeRetornar, RefDeLinea
<1> QED BY <1>1, <1>2, <1>3, <1>4, <1>5, <1>6, <1>7, <1>8, <1>9 DEF Next

LEMMA MismasDirecciones == Abs!Lugares \union Punteros = Direcciones
BY LugaresSon DEF Direcciones

\* One step per action.

LEMMA PasoRefina ==
  ASSUME CpuInv, CpuInv', Cabe, RefInv, TamPag <= 128, [Next]_vars
  PROVE  [Abs!Next]_(Abs!vars)
<1>1. llego_sugus' \in BOOLEAN
  BY DEF CpuInv, Globales
<1>2. Abs!Sigue => Abs!Next
  BY <1>1 DEF Abs!Next
<1>3. UNCHANGED Abs!programa => Abs!Next
  BY <1>1 DEF Abs!Next
<1>4. CASE CorrerPcb \/ BuscarInstruccion \/ SeguirBuscando \/ Sigusr1
  BY <1>3, <1>4, RefinaBucle
<1>5. CASE SinInstruccion \/ LeerLinea \/ FinInstruccion
  <2>1. Abs!Rechazar \/ Abs!LeerLinea \/ Abs!FinLinea
    BY <1>5, RefinaSinInstruccion, RefinaLeerLinea, RefinaFinInstruccion
  <2>2. Abs!Sigue
    BY <2>1 DEF Abs!Sigue
  <2> QED BY <1>2, <2>2
<1>6. CASE Nada \/ Finalizar
  <2>1. Abs!Nada \/ Abs!Terminar \/ Abs!Bloquearse
    BY <1>6, RefinaNada, RefinaFinalizar
  <2>2. Abs!Sigue
    BY <2>1 DEF Abs!Sigue
  <2> QED BY <1>2, <2>2
<1>7. CASE Bloquear
  <2>1. Abs!Bloquearse => Abs!Sigue
    BY DEF Abs!Sigue
  <2> QED BY <1>2, <1>3, <1>7, <2>1, RefinaBloquear
<1>8. ASSUME NEW x \in Letras, DefinirVariable(x)
      PROVE  Abs!Next
  <2>1. Abs!Definir(x)
    BY <1>8, RefinaDefinirVariable
  <2>2. Abs!Sigue
    BY <2>1 DEF Abs!Sigue
  <2> QED BY <1>2, <2>2
<1>9. ASSUME NEW dir \in Direcciones,
             Imprimir(dir) \/ \E e \in Etiquetas : LlamarConRetorno(e, dir)
      PROVE  Abs!Next
  <2>1. Abs!Imprimir(dir) \/ \E e \in Etiquetas : Abs!Llamar(e, dir)
    BY <1>9, RefinaImprimir, RefinaLlamar
  <2>2. Abs!Sigue
    BY <2>1, MismasDirecciones DEF Abs!Sigue
  <2> QED BY <1>2, <2>2
<1>10. ASSUME NEW e \in Etiquetas, IrAlLabel(e)
       PROVE  Abs!Next
  <2>1. Abs!Saltar(e)
    BY <1>10, RefinaIrAlLabel
  <2>2. Abs!Sigue
    BY <2>1 DEF Abs!Sigue
  <2> QED BY <1>2, <2>2
<1>11. ASSUME NEW v \in Valores,
              DefinirArgumento(v) \/ Retornar(v) \/ \E dir \in Direcciones : Asignar(dir, v)
       PROVE  Abs!Next
  <2>1. Abs!Argumento(v) \/ Abs!Retornar(v) \/ \E dir \in Direcciones : Abs!Asignar(dir, v)
    BY <1>11, RefinaDefinirArgumento, RefinaRetornar, RefinaAsignar
  <2>2. Abs!Sigue
    BY <2>1, MismasDirecciones DEF Abs!Sigue
  <2> QED BY <1>2, <2>2
<1>12. CASE UNCHANGED vars
  <2>1. /\ pcb' = pcb /\ linea' = linea /\ memoria' = memoria /\ definidas' = definidas
        /\ salida' = salida /\ stack_overflow' = stack_overflow /\ lugar' = lugar
    BY <1>12 DEF vars, cpu
  <2>2. Llamadas' = Llamadas
    BY <2>1, LlamadasIguales
  <2>3. Estado' = Estado
    BY <2>1 DEF Estado
  <2> QED BY <1>3, <2>1, <2>2, <2>3, VeTartamudeo
<1> QED BY <1>4, <1>5, <1>6, <1>7, <1>8, <1>9, <1>10, <1>11, <1>12 DEF Next

LEMMA ArranqueRefina == Init => Abs!Init
<1> SUFFICES ASSUME Init PROVE Abs!Init
  OBVIOUS
<1>1. /\ lugar = "nucleo" /\ stack_overflow = FALSE /\ llego_sugus = FALSE
      /\ linea = "fuera" /\ definidas = 0 /\ salida = SinSalida /\ pcb = PcbNuevo
  BY DEF Init
<1>2. Estado = "corre"
  BY <1>1 DEF Estado
<1>3. pcb.pc = Inicio
  BY <1>1 DEF PcbNuevo
<1>4. Llamadas = <<Abs!Marco(0, 0)>>
  <2>1. PICK g : g = [argumentos |-> <<>>, variables |-> <<>>, pos_retorno |-> 0,
                      pos_var_retorno |-> [pag |-> 0, offset |-> 0, size |-> 0]]
    OBVIOUS
  <2>2. PICK s : s = pcb.indice_stack
    OBVIOUS
  <2>3. s = <<g>>
    BY <1>1, <2>1, <2>2 DEF PcbNuevo
  <2>4. Len(s) = 1 /\ s[1] = g
    BY <2>3
  <2>5. Nombres(g) = {}
    <3>1. g.variables = <<>> /\ g.argumentos = <<>>
      BY <2>1
    <3>2. DOMAIN g.variables = {} /\ DOMAIN g.argumentos = {}
      BY <3>1
    <3> QED BY <3>2 DEF Nombres
  <2>6. NombresDe(g) = <<>>
    BY <2>5, SinNombres
  <2>7. PICK h : h = Llamado(g)
    OBVIOUS
  <2>8. h = Abs!Marco(0, 0)
    <3>1. g.pos_retorno = 0 /\ Len(g.argumentos) = 0
      BY <2>1
    <3>2. Dir(g.pos_var_retorno) = 0
      BY <2>1, TamPagAssumption DEF Dir, pos_fisica_a_logica
    <3> QED BY <3>2, <2>6, <2>7, <3>1 DEF Llamado, Abs!Marco
  <2>9. PICK ms : ms = Marcos(s)
    OBVIOUS
  <2>10. ms = [n \in 1 .. 1 |-> h]
    <3>1. \A n \in 1 .. 1 : Llamado(s[n]) = h
      BY <2>4, <2>7
    <3> QED BY <2>4, <2>9, <3>1 DEF Marcos
  <2>11. ms = <<h>>
    BY <2>10
  <2> QED BY <2>2, <2>8, <2>9, <2>11, LlamadasSon
<1>5. memoria \in [Abs!Lugares -> Valores]
  BY LugaresSon DEF Init
<1> QED BY <1>1, <1>2, <1>3, <1>4, <1>5 DEF Estado, Llamadas, Abs!Init

\* The interpreter is the machine that AnsisopAbs describes, with every address that
\* a program may compute: positions, pages, the PCB on the wire and the flags of the
\* CPU give the program the functions, the variables and the end that it wrote, and
\* what goes through a computed address of a variable is as safe as what goes
\* through its name.  The hypotheses name what the code asks for: a byte carries
\* each counter of the PCB and each offset.
THEOREM ImplementaAnsisop == ASSUME TamPag <= 128 PROVE Spec /\ []Cabe => ImplementaAbs
<1>1. Init => RefInv /\ Abs!Init
  BY ArranqueRef, ArranqueRefina
<1>2. CpuInv /\ Cabe /\ RefInv /\ [Next]_vars => RefInv'
  BY PasoRefInv
<1>3. CpuInv /\ CpuInv' /\ Cabe /\ RefInv /\ [Next]_vars => [Abs!Next]_(Abs!vars)
  BY PasoRefina
<1> QED BY <1>1, <1>2, <1>3, InvarianteCpu, PTL DEF Spec, ImplementaAbs, Abs!Spec

\* The same of every program that is small enough, whatever it does.
THEOREM ImplementaSiEsChico ==
  ASSUME Pid < 128, Len(Instrucciones) < 128, PagsCodigo + TamStack < 128,
         MaxEntradas < 128, TamStack * TamPag < 512, TamPag <= 128
  PROVE  Spec => ImplementaAbs
BY ContadoresCaben, ImplementaAnsisop, PTL

=============================================================================
