------------------------------ MODULE SwapAbs ------------------------------
(***************************************************************************)
(* What the swap promises to the UMC: every admitted process owns a        *)
(* private, fixed-size array of pages; a page holds what was last written  *)
(* to it, unless the UMC writes for a process it does not have; a process  *)
(* is admitted exactly when enough pages are free IN TOTAL, wherever they  *)
(* are.  Positions, the bitmap and the compaction of                       *)
(* swap/src/funciones_swap.c are below this level of detail: Swap refines  *)
(* this module.                                                            *)
(***************************************************************************)
EXTENDS Integers, Sequences

CONSTANTS CANTIDAD_PAGINAS,   \* pages of the swap file (swap.cfg)
          Ids,                \* process identifiers the swap can store
          Paginas,            \* page counts a program can ask for
          Codigos,            \* program texts, as sequences of page contents
          Contenidos,         \* what a page can hold
          Cero,               \* a page of zeros; also the padding of almacen
          UmcAlDia            \* TRUE: the UMC only asks about live processes

Celdas == 0 .. CANTIDAD_PAGINAS - 1

VARIABLES tam,        \* [Ids -> Nat]: pages of each process, 0 when unknown
          almacen,    \* [Ids -> [Celdas -> Contenidos]]: the pages themselves
          libres,     \* free pages in total
          ultimo      \* the last request served, with its answer

vars == <<tam, almacen, libres, ultimo>>

Intercambio(op, id, arg, dato, cod) ==
  [op |-> op, id |-> id, arg |-> arg, dato |-> dato, cod |-> cod]

Init == /\ tam = [id \in Ids |-> 0]
        /\ almacen = [id \in Ids |-> [k \in Celdas |-> Cero]]
        /\ libres = CANTIDAD_PAGINAS
        /\ ultimo = Intercambio("NINGUNO", 0, 0, Cero, "OK")

\* A program of n pages starts with its code; its stack pages hold anything.
Admitir(id, n, codigo) ==
  /\ ultimo' = Intercambio("NUEVO_PROGRAMA", id, n, codigo, "OK")
  /\ tam[id] = 0
  /\ n \in 1 .. libres
  /\ tam' = [tam EXCEPT ![id] = n]
  /\ libres' = libres - n
  /\ \E pags \in [Celdas -> Contenidos] :
       /\ \A k \in 1 .. Len(codigo) : pags[k - 1] = codigo[k]
       /\ \A k \in Celdas : k >= n => pags[k] = Cero
       /\ almacen' = [almacen EXCEPT ![id] = pags]

\* The only reason to refuse a program: not enough free pages in total.
Rechazar(id, n, codigo) ==
  /\ ultimo' = Intercambio("NUEVO_PROGRAMA", id, n, codigo, "NO_OK")
  /\ n > libres
  /\ UNCHANGED <<tam, almacen, libres>>

Leer(id, k) ==
  /\ ultimo' = Intercambio("LECTURA_PAGINA", id, k, almacen[id][k], "BUFFER_LEIDO")
  /\ k \in 0 .. tam[id] - 1
  /\ UNCHANGED <<tam, almacen, libres>>

Escribir(id, k, x) ==
  /\ ultimo' = Intercambio("ESCRITURA_PAGINA", id, k, x, "OK")
  /\ k \in 0 .. tam[id] - 1
  /\ almacen' = [almacen EXCEPT ![id][k] = x]
  /\ UNCHANGED <<tam, libres>>

Finalizar(id) ==
  /\ ultimo' = Intercambio("FINALIZA_PROGRAMA", id, 0, Cero, "OK")
  /\ tam[id] > 0
  /\ tam' = [tam EXCEPT ![id] = 0]
  /\ almacen' = [almacen EXCEPT ![id] = [k \in Celdas |-> Cero]]
  /\ libres' = libres + tam[id]

\* A request about a process the swap does not know changes nothing.
LeerDesconocido(id, k) ==
  /\ ultimo' = Intercambio("LECTURA_PAGINA", id, k, Cero, "NO_OK")
  /\ tam[id] = 0
  /\ UNCHANGED <<tam, almacen, libres>>

\* ... except a write, which is answered OK and may land on any page of anybody.
EscribirDesconocido(id, k, x) ==
  /\ ultimo' = Intercambio("ESCRITURA_PAGINA", id, k, x, "OK")
  /\ ~UmcAlDia
  /\ tam[id] = 0
  /\ \/ UNCHANGED almacen
     \/ \E otro \in Ids : \E g \in 0 .. tam[otro] - 1 :
          almacen' = [almacen EXCEPT ![otro][g] = x]
  /\ UNCHANGED <<tam, libres>>

FinalizarDesconocido(id) ==
  /\ ultimo' = Intercambio("FINALIZA_PROGRAMA", id, 0, Cero, "NO_OK")
  /\ tam[id] = 0
  /\ UNCHANGED <<tam, almacen, libres>>

Next ==
  \E id \in Ids :
     \/ \E n \in Paginas, codigo \in Codigos :
          Admitir(id, n, codigo) \/ Rechazar(id, n, codigo)
     \/ \E k \in Celdas : Leer(id, k) \/ LeerDesconocido(id, k)
     \/ \E k \in Celdas, x \in Contenidos :
          Escribir(id, k, x) \/ EscribirDesconocido(id, k, x)
     \/ Finalizar(id) \/ FinalizarDesconocido(id)

Spec == Init /\ [][Next]_vars
=============================================================================
