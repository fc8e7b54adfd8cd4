------------------------------- MODULE Fetch --------------------------------
(***************************************************************************)
(* How a CPU brings an instruction from the UMC (cpu/src/cpu.c,            *)
(* fetch_instruction), and where the kernel says it is (nucleo/src/        *)
(* nucleo.c, armar_nuevo_pcb).  The text of the program lies in the first  *)
(* pages; an instruction may start anywhere and cross several of them.     *)
(* The bytes of the text are named by their positions in it.               *)
(*                                                                         *)
(* Each request and its answer are one step: the UMC answers what the page *)
(* holds, or NO_OK, on which pedir_lectura_de_umc returns NULL.            *)
(***************************************************************************)
EXTENDS Integers, Sequences

CONSTANTS TamPag,                     \* bytes of a page
          Instrucciones,              \* the metadata of the program: where each
                                      \*   instruction starts and its length
          PuedeNegar                  \* the UMC may answer NO_OK

ASSUME TamPagAssumption == TamPag \in Nat \ {0}
ASSUME InstruccionesAssumption ==
  Instrucciones \in Seq([start : Nat, offset : Nat \ {0}]) /\ PuedeNegar \in BOOLEAN

VARIABLES
  paso_fetch,       \* "nada", "primera", "resto", "completa" or "nula"
  posicion,         \* posicion_instruccion_actual
  leido,
  off_pag_actual,
  instruccion       \* the buffer: the bytes 0 .. leido-1 read so far

fetch == <<paso_fetch, posicion, leido, off_pag_actual, instruccion>>

\* A t_posMemoria of the instruction index.
Posicion(i) == [pag |-> i.start \div TamPag, offset |-> i.start % TamPag,
                size |-> i.offset]
indice_codigo == [n \in DOMAIN Instrucciones |-> Posicion(Instrucciones[n])]

MinFetch(a, b) == IF a < b THEN a ELSE b

\* The next t_pedido_solicitarBytes.
Pedido ==
  IF paso_fetch = "primera"
  THEN [nroPagina |-> posicion.pag, offset |-> posicion.offset,
        tamanioDatos |-> MinFetch(posicion.size, TamPag - posicion.offset)]
  ELSE [nroPagina |-> posicion.pag + off_pag_actual, offset |-> 0,
        tamanioDatos |-> MinFetch(posicion.size - leido, TamPag)]

\* The bytes the UMC answers: those of the page, from the offset on.
Byte(pedido, k) == pedido.nroPagina * TamPag + pedido.offset + k

SinPosicion == [pag |-> 0, offset |-> 0, size |-> 0]

InitFetch ==
  /\ paso_fetch = "nada"
  /\ posicion = SinPosicion
  /\ leido = 0
  /\ off_pag_actual = 0
  /\ instruccion = <<>>

\* fetch_instruction starts with the entry of the index.
EmpezarFetch(pos) ==
  /\ paso_fetch = "nada"
  /\ paso_fetch' = "primera"
  /\ posicion' = pos
  /\ leido' = 0
  /\ off_pag_actual' = 0
  /\ instruccion' = <<>>

\* memcpy(instruccion+leido, ...), and the counters.
Copiar ==
  /\ instruccion' = [k \in 0 .. leido + Pedido.tamanioDatos - 1 |->
                       IF k < leido THEN instruccion[k] ELSE Byte(Pedido, k - leido)]
  /\ leido' = leido + Pedido.tamanioDatos
  /\ off_pag_actual' = off_pag_actual + 1
  /\ UNCHANGED posicion

\* Mutation: the pages after the first are read from the same offset.
PedirRestoConOffset ==
  /\ paso_fetch = "resto" /\ leido < posicion.size
  /\ instruccion' = [k \in 0 .. leido + Pedido.tamanioDatos - 1 |->
                       IF k < leido THEN instruccion[k]
                       ELSE Byte([Pedido EXCEPT !.offset = posicion.offset], k - leido)]
  /\ leido' = leido + Pedido.tamanioDatos
  /\ off_pag_actual' = off_pag_actual + 1
  /\ UNCHANGED <<paso_fetch, posicion>>

\* The first page.
PedirPrimera == paso_fetch = "primera" /\ Copiar /\ paso_fetch' = "resto"

\* One turn of the while.
PedirResto ==
  /\ paso_fetch = "resto" /\ leido < posicion.size
  /\ Copiar
  /\ UNCHANGED paso_fetch

QuedaPorPedir == paso_fetch = "primera" \/ (paso_fetch = "resto" /\ leido < posicion.size)

\* NO_OK, for any of the requests.
PedidoNegado ==
  /\ PuedeNegar /\ QuedaPorPedir
  /\ paso_fetch' = "nula"
  /\ UNCHANGED <<posicion, leido, off_pag_actual, instruccion>>

\* The while ends; the '\n' that ends the instruction becomes the end of the
\* string.
Completar ==
  /\ paso_fetch = "resto" /\ leido >= posicion.size
  /\ paso_fetch' = "completa"
  /\ UNCHANGED <<posicion, leido, off_pag_actual, instruccion>>

\* fetch_instruction returns: its variables are gone.
TerminarFetch ==
  /\ paso_fetch \in {"completa", "nula"}
  /\ paso_fetch' = "nada"
  /\ posicion' = SinPosicion
  /\ leido' = 0
  /\ off_pag_actual' = 0
  /\ instruccion' = <<>>

PasoDeFetch == PedirPrimera \/ PedirResto \/ PedidoNegado \/ Completar

NextFetch == \/ \E n \in DOMAIN indice_codigo : EmpezarFetch(indice_codigo[n])
             \/ PasoDeFetch \/ TerminarFetch

SpecFetch == InitFetch /\ [][NextFetch]_fetch

-----------------------------------------------------------------------------
(* Properties *)

\* Where the instruction lies in the text.
Comienzo == posicion.pag * TamPag + posicion.offset

\* What the parser gets is the text of the instruction, each byte once and in
\* order, whatever the pages it crosses.
InstruccionExacta ==
  paso_fetch = "completa" =>
    instruccion = [k \in 0 .. posicion.size - 1 |-> Comienzo + k]

\* Every request stays inside one page and asks for something: the UMC copies
\* tamanioDatos bytes from the frame without a look at its size.
PedidosEnSuPagina ==
  QuedaPorPedir =>
    /\ Pedido.tamanioDatos > 0
    /\ Pedido.offset + Pedido.tamanioDatos <= TamPag
    /\ leido + Pedido.tamanioDatos <= posicion.size
=============================================================================
