-------------------------------- MODULE Swap --------------------------------
(***************************************************************************)
(* The swap process (swap/src/funciones_swap.c, swap/src/swap.c): a single *)
(* loop serving the UMC, which keeps the pages of each process contiguous  *)
(* in one file and compacts the file when the free pages are scattered.    *)
(*                                                                         *)
(* A process is known by the identifier the swap STORES, which is the low  *)
(* byte of the UMC's pid read as a signed char                             *)
(* (general/operaciones_swap.c:37-48); writes truncate the same way        *)
(* (:22-35), reads and finalisations compare the whole int.                *)
(***************************************************************************)
EXTENDS Integers, Sequences, FiniteSets

CONSTANTS CANTIDAD_PAGINAS,   \* pages of the swap file (swap.cfg)
          Pids,               \* pids the kernel hands out
          Paginas,            \* page counts a program asks for
          Codigos,            \* program texts, as sequences of page contents
          Exactos,            \* the texts whose final NUL ends a page
          Contenidos,         \* what a page can hold
          Cero,               \* the page dd writes when the file is created
          UmcAlDia            \* TRUE: the UMC only asks about live processes

Celdas == 0 .. CANTIDAD_PAGINAS - 1

\* An int sent by the UMC and read back through a char* (signed on x86).
Char(x) == ((x + 128) % 256) - 128

Ids == {Char(p) : p \in Pids}

ASSUME CantidadAssumption == CANTIDAD_PAGINAS \in Nat \ {0}
ASSUME PidsAssumption == /\ Pids \subseteq Nat
                         /\ \A p, q \in Pids : Char(p) = Char(q) => p = q
\* The bound 127 is Char's: a larger count would arrive as another number.
ASSUME PaginasAssumption == Paginas \subseteq 1 .. 127
ASSUME ContenidosAssumption == /\ Cero \in Contenidos
                               /\ Codigos \subseteq Seq(Contenidos)
                               /\ Exactos \subseteq Codigos
ASSUME UmcAssumption == UmcAlDia \in BOOLEAN

VARIABLES bitarray,             \* [Celdas -> BOOLEAN]: TRUE when occupied
          lista_procesos,       \* the ids in the control list
          posicion,             \* first cell of each id (0 when not listed)
          cantPaginas,          \* pages of each id (0 when not listed)
          swapFile,             \* [Celdas -> Contenidos]
          cursor,               \* cell the FILE* points at; CANTIDAD_PAGINAS at the end
          fase,                 \* "espera", "compactando" or "terminado"
          pedido,               \* the NUEVO_PROGRAMA that waits for compactar()
          movidos,              \* the ids moverProcesos already moved
          primerPosicionVacia,  \* the global of the same name
          ultimo                \* the last request served, with its answer

control == <<lista_procesos, posicion, cantPaginas>>
compactacion == <<fase, pedido, movidos, primerPosicionVacia>>
vars == <<bitarray, control, swapFile, cursor, compactacion, ultimo>>

Region(id) == posicion[id] .. posicion[id] + cantPaginas[id] - 1
CeldasLibres == {c \in Celdas : ~bitarray[c]}

Intercambio(op, id, arg, dato, cod) ==
  [op |-> op, id |-> id, arg |-> arg, dato |-> dato, cod |-> cod]

SinPedido == [id |-> 0, pags |-> 0, codigo |-> <<>>]

Init == /\ bitarray = [c \in Celdas |-> FALSE]
        /\ lista_procesos = {}
        /\ posicion = [id \in Ids |-> 0]
        /\ cantPaginas = [id \in Ids |-> 0]
        /\ swapFile = [c \in Celdas |-> Cero]
        /\ cursor = 0
        /\ fase = "espera"
        /\ pedido = SinPedido
        /\ movidos = {}
        /\ primerPosicionVacia = 0
        /\ ultimo = Intercambio("NINGUNO", 0, 0, Cero, "OK")

-----------------------------------------------------------------------------
\* Mutation: the last free page does not count.
HayPaginasLibresDeMas(n) == n < Cardinality(CeldasLibres)

\* verificarPaginasLibres(n) = 0 for n > 0.
HayPaginasLibres(n) == n <= Cardinality(CeldasLibres)

\* Mutation: the last cell of the hole is not looked at.
CabeCorto(i, n) == /\ i + n <= CANTIDAD_PAGINAS
                   /\ \A c \in i .. i + n - 2 : ~bitarray[c]

\* n consecutive free cells start at i.
Cabe(i, n) == /\ i + n <= CANTIDAD_PAGINAS
              /\ \A c \in i .. i + n - 1 : ~bitarray[c]

\* encontrar_espacio(n) = i: the first hole that is large enough.
EncuentraEspacio(i, n) == /\ Cabe(i, n)
                          /\ \A j \in 0 .. i - 1 : ~Cabe(j, n)

\* encontrar_espacio(n) = -1.
SinEspacioContiguo(n) == \A i \in Celdas : ~Cabe(i, n)

Marcar(desde, n, valor, mapa) ==
  [c \in Celdas |-> IF c \in desde .. desde + n - 1 THEN valor ELSE mapa[c]]

\* What is written for a page of the text.  The loop that pads the last page
\* with zeros starts at offset_final, which is 0 when the text and its NUL fill
\* that page: it is then wiped.
PaginaGrabada(codigo, k) ==
  IF codigo \in Exactos /\ k = Len(codigo) THEN Cero ELSE codigo[k]

\* The pages of a program text, written from cell `desde' on.
Grabar(desde, codigo) ==
  [c \in Celdas |-> IF c \in desde .. desde + Len(codigo) - 1
                    THEN PaginaGrabada(codigo, c - desde + 1) ELSE swapFile[c]]

\* agregarNuevoProceso, the loop over grabarArchivo and the answer.
Agregar(i, id, n, codigo) ==
  /\ bitarray' = Marcar(i, n, TRUE, bitarray)
  /\ lista_procesos' = lista_procesos \union {id}
  /\ posicion' = [posicion EXCEPT ![id] = i]
  /\ cantPaginas' = [cantPaginas EXCEPT ![id] = n]
  /\ swapFile' = Grabar(i, codigo)
  /\ cursor' = i + Len(codigo)
  /\ ultimo' = Intercambio("NUEVO_PROGRAMA", id, n, codigo, "OK")

\* What the UMC may ask for: a new program has a pid of its own and room for
\* its code in the pages it requires.
PedidoNuevo(p, n, codigo) ==
  /\ Char(p) \notin lista_procesos
  /\ Len(codigo) \in 1 .. n

NuevoProgramaContiguo(p, n, codigo) ==
  /\ fase = "espera"
  /\ PedidoNuevo(p, n, codigo)
  /\ HayPaginasLibres(n)
  /\ \E i \in Celdas : /\ EncuentraEspacio(i, n)
                       /\ Agregar(i, Char(p), n, codigo)
  /\ UNCHANGED compactacion

NuevoProgramaSinLugar(p, n, codigo) ==
  /\ fase = "espera"
  /\ PedidoNuevo(p, n, codigo)
  /\ ~HayPaginasLibres(n)
  /\ ultimo' = Intercambio("NUEVO_PROGRAMA", Char(p), n, codigo, "NO_OK")
  /\ UNCHANGED <<bitarray, control, swapFile, cursor, compactacion>>

\* Mutation: the bitmap keeps the bits of the old positions.
EmpezarSinLimpiar(p, n, codigo) ==
  /\ fase = "espera"
  /\ PedidoNuevo(p, n, codigo)
  /\ HayPaginasLibres(n)
  /\ SinEspacioContiguo(n)
  /\ fase' = "compactando"
  /\ pedido' = [id |-> Char(p), pags |-> n, codigo |-> codigo]
  /\ movidos' = {}
  /\ primerPosicionVacia' = 0
  /\ UNCHANGED <<bitarray, control, swapFile, cursor, ultimo>>

\* compactar() up to list_iterate: sort by position, clear the whole bitmap.
EmpezarCompactacion(p, n, codigo) ==
  /\ fase = "espera"
  /\ PedidoNuevo(p, n, codigo)
  /\ HayPaginasLibres(n)
  /\ SinEspacioContiguo(n)
  /\ fase' = "compactando"
  /\ pedido' = [id |-> Char(p), pags |-> n, codigo |-> codigo]
  /\ movidos' = {}
  /\ primerPosicionVacia' = 0
  /\ bitarray' = [c \in Celdas |-> FALSE]
  /\ UNCHANGED <<control, swapFile, cursor, ultimo>>

\* Mutation: compactar() without list_sort.
SiguienteSinOrden(id) == id \in lista_procesos \ movidos

\* The next process in the order of ordenarPorPosicion.
EsSiguiente(id) ==
  /\ id \in lista_procesos \ movidos
  /\ \A otro \in lista_procesos \ movidos : posicion[id] <= posicion[otro]

\* moverProcesos: the pages are read as a block, then written as a block.
Mover(id) ==
  LET n == cantPaginas[id]
      hacia == primerPosicionVacia
      buffer == [k \in 0 .. n - 1 |-> swapFile[posicion[id] + k]]
  IN /\ swapFile' = [c \in Celdas |-> IF c \in hacia .. hacia + n - 1
                                      THEN buffer[c - hacia] ELSE swapFile[c]]
     /\ posicion' = [posicion EXCEPT ![id] = hacia]
     /\ bitarray' = Marcar(hacia, n, TRUE, bitarray)
     /\ primerPosicionVacia' = hacia + n
     /\ cursor' = hacia + n
     /\ movidos' = movidos \union {id}

MoverProceso(id) ==
  /\ fase = "compactando"
  /\ EsSiguiente(id)
  /\ Mover(id)
  /\ UNCHANGED <<lista_procesos, cantPaginas, fase, pedido, ultimo>>

\* Mutation: "while (posicion == -1) compactar()", never searching again.
VolverACompactar ==
  /\ fase = "compactando"
  /\ movidos = lista_procesos
  /\ movidos' = {}
  /\ primerPosicionVacia' = 0
  /\ bitarray' = [c \in Celdas |-> FALSE]
  /\ UNCHANGED <<control, swapFile, cursor, fase, pedido, ultimo>>

\* inicializarNuevoPrograma after compactar().  The code does not look at the
\* second encontrar_espacio: with -1 it would set bit -1.  The action is then
\* not enabled, and the run would stop here.
FinCompactacion ==
  /\ fase = "compactando"
  /\ movidos = lista_procesos
  /\ \E i \in Celdas : /\ EncuentraEspacio(i, pedido.pags)
                       /\ Agregar(i, pedido.id, pedido.pags, pedido.codigo)
  /\ fase' = "espera"
  /\ pedido' = SinPedido
  /\ movidos' = {}
  /\ UNCHANGED primerPosicionVacia

\* encontrar_posicion for a listed process; the UMC checks the page number.
PaginaValida(id, k) == id \in lista_procesos /\ k \in 0 .. cantPaginas[id] - 1

LeerPagina(p, k) ==
  /\ fase = "espera"
  /\ PaginaValida(p, k)
  /\ cursor' = posicion[p] + k + 1
  /\ ultimo' = Intercambio("LECTURA_PAGINA", p, k, swapFile[posicion[p] + k],
                           "BUFFER_LEIDO")
  /\ UNCHANGED <<bitarray, control, swapFile, compactacion>>

LeerPaginaDesconocida(p, k) ==
  /\ fase = "espera"
  /\ ~UmcAlDia
  /\ p \notin lista_procesos
  /\ ultimo' = Intercambio("LECTURA_PAGINA", p, k, Cero, "NO_OK")
  /\ UNCHANGED <<bitarray, control, swapFile, cursor, compactacion>>

EscribirPagina(p, k, x) ==
  LET id == Char(p) IN
  /\ fase = "espera"
  /\ PaginaValida(id, k)
  /\ swapFile' = [swapFile EXCEPT ![posicion[id] + k] = x]
  /\ cursor' = posicion[id] + k + 1
  /\ ultimo' = Intercambio("ESCRITURA_PAGINA", id, k, x, "OK")
  /\ UNCHANGED <<bitarray, control, compactacion>>

\* escribirPagina does not look at encontrar_posicion's -1: fseek(-1) fails and
\* the page goes wherever the FILE* is.
EscribirPaginaDesconocida(p, k, x) ==
  LET id == Char(p) IN
  /\ fase = "espera"
  /\ ~UmcAlDia
  /\ id \notin lista_procesos
  /\ swapFile' = [c \in Celdas |-> IF c = cursor THEN x ELSE swapFile[c]]
  /\ cursor' = IF cursor < CANTIDAD_PAGINAS THEN cursor + 1 ELSE cursor
  /\ ultimo' = Intercambio("ESCRITURA_PAGINA", id, k, x, "OK")
  /\ UNCHANGED <<bitarray, control, compactacion>>

\* Mutation: one page of the process stays marked in the bitmap.
FinalizarDejandoUna(p) ==
  /\ fase = "espera"
  /\ p \in lista_procesos
  /\ lista_procesos' = lista_procesos \ {p}
  /\ bitarray' = Marcar(posicion[p], cantPaginas[p] - 1, FALSE, bitarray)
  /\ posicion' = [posicion EXCEPT ![p] = 0]
  /\ cantPaginas' = [cantPaginas EXCEPT ![p] = 0]
  /\ ultimo' = Intercambio("FINALIZA_PROGRAMA", p, 0, Cero, "OK")
  /\ UNCHANGED <<swapFile, cursor, compactacion>>

FinalizarPrograma(p) ==
  /\ fase = "espera"
  /\ p \in lista_procesos
  /\ lista_procesos' = lista_procesos \ {p}
  /\ bitarray' = Marcar(posicion[p], cantPaginas[p], FALSE, bitarray)
  /\ posicion' = [posicion EXCEPT ![p] = 0]
  /\ cantPaginas' = [cantPaginas EXCEPT ![p] = 0]
  /\ ultimo' = Intercambio("FINALIZA_PROGRAMA", p, 0, Cero, "OK")
  /\ UNCHANGED <<swapFile, cursor, compactacion>>

FinalizarDesconocido(p) ==
  /\ fase = "espera"
  /\ p \notin lista_procesos
  /\ ultimo' = Intercambio("FINALIZA_PROGRAMA", p, 0, Cero, "NO_OK")
  /\ UNCHANGED <<bitarray, control, swapFile, cursor, compactacion>>

\* ERROR_COD_OP: the UMC is gone and the swap exits.
DesconexionUmc ==
  /\ fase = "espera"
  /\ fase' = "terminado"
  /\ UNCHANGED <<bitarray, control, swapFile, cursor, pedido, movidos,
                 primerPosicionVacia, ultimo>>

Terminado == fase = "terminado" /\ UNCHANGED vars

Compactar == (\E id \in Ids : MoverProceso(id)) \/ FinCompactacion

Next ==
  \/ \E p \in Pids, n \in Paginas, codigo \in Codigos :
       \/ NuevoProgramaContiguo(p, n, codigo)
       \/ NuevoProgramaSinLugar(p, n, codigo)
       \/ EmpezarCompactacion(p, n, codigo)
  \/ Compactar
  \/ \E p \in Pids, k \in Celdas : LeerPagina(p, k) \/ LeerPaginaDesconocida(p, k)
  \/ \E p \in Pids, k \in Celdas, x \in Contenidos :
       EscribirPagina(p, k, x) \/ EscribirPaginaDesconocida(p, k, x)
  \/ \E p \in Pids : FinalizarPrograma(p) \/ FinalizarDesconocido(p)
  \/ DesconexionUmc
  \/ Terminado

Spec == Init /\ [][Next]_vars

\* compactar() runs to its end in the swap's only thread.
SpecVivo == Spec /\ WF_vars(Compactar)

-----------------------------------------------------------------------------
(* Properties *)

\* The processes whose cells the bitmap shows: while compactar() runs, only
\* the ones it has already moved.
Asentados == IF fase = "compactando" THEN movidos ELSE lista_procesos

\* Every variable keeps its type, and the control data of an id that is not
\* in the list is empty.
TypeOK ==
  /\ bitarray \in [Celdas -> BOOLEAN]
  /\ lista_procesos \subseteq Ids
  /\ posicion \in [Ids -> Nat]
  /\ cantPaginas \in [Ids -> Nat]
  /\ swapFile \in [Celdas -> Contenidos]
  /\ cursor \in 0 .. CANTIDAD_PAGINAS
  /\ fase \in {"espera", "compactando", "terminado"}
  /\ pedido \in [id : Ids \union {0}, pags : Nat, codigo : Seq(Contenidos)]
  /\ movidos \subseteq Ids
  /\ primerPosicionVacia \in 0 .. CANTIDAD_PAGINAS
  /\ \A id \in Ids : id \in lista_procesos <=> cantPaginas[id] > 0

\* The pages of the listed processes lie inside the file and never overlap,
\* also between two steps of a compaction, when some processes are at their
\* new place and the others at their old one.
RegionesDisjuntas ==
  /\ \A id \in lista_procesos : Region(id) \subseteq Celdas
  /\ \A id, otro \in lista_procesos :
       id # otro => Region(id) \intersect Region(otro) = {}

\* The bitmap has a 1 exactly on the cells of a process: a finalisation, an
\* admission or a compaction that leaks or forgets a cell breaks it.
BitmapExacto ==
  \A c \in Celdas : bitarray[c] <=> \E id \in Asentados : c \in Region(id)

\* moverProcesos writes below every process it has still to move, so it never
\* overwrites pages that are not copied yet.
NoPisaPendientes ==
  fase = "compactando" =>
    \A id \in lista_procesos \ movidos : primerPosicionVacia <= posicion[id]

\* inicializarNuevoPrograma uses the position of the second encontrar_espacio
\* without looking at it: after compacting there is always a hole.
CompactarHaceLugar ==
  fase = "compactando" /\ movidos = lista_procesos =>
    ~SinEspacioContiguo(pedido.pags)

\* The UMC gets an answer to every request: a compaction comes to its end.
CompactacionTermina == fase = "compactando" ~> fase = "espera"

-----------------------------------------------------------------------------
(* The swap implements SwapAbs: the pages of a process are the cells of its *)
(* region, wherever compactar() has put it so far.                          *)

Ocupadas == UNION {Region(id) : id \in lista_procesos}

Almacen == [id \in Ids |-> [k \in Celdas |->
              IF k < cantPaginas[id] THEN swapFile[posicion[id] + k] ELSE Cero]]

Abs == INSTANCE SwapAbs WITH
         tam <- cantPaginas,
         almacen <- Almacen,
         libres <- Cardinality(Celdas \ Ocupadas)

\* Reads return the last write, compacting changes no page, and a program is
\* refused only when the free pages are too few in total.
ImplementaAbs == Abs!Spec

\* The reply OK to a new program means that the swap knows the program by the
\* pid the UMC will use (funciones_swap.c:162, "si hay lugar armar
\* t_control_swap y sumarlo a la lista de procesos").
AdmitidoEsConocido == lista_procesos \subseteq Pids

\* An admitted program finds its text in its first pages: padding the text to
\* whole pages (funciones_swap.c:171) changes its length, not its contents.
CodigoGrabado ==
  ultimo.op = "NUEVO_PROGRAMA" /\ ultimo.cod = "OK" =>
    \A k \in DOMAIN ultimo.dato :
      swapFile[posicion[ultimo.id] + k - 1] = ultimo.dato[k]
=============================================================================
