----------------------------- MODULE SwapProofs -----------------------------
(***************************************************************************)
(* The swap keeps its bitmap, its control list and its file in step for    *)
(* every size of the file, every set of pids and every program.  The run   *)
(* swap checks the same invariants on one instance.                        *)
(*                                                                         *)
(* RegionesDisjuntas and BitmapExacto are not inductive alone: between two *)
(* steps of compactar() they hold because moverProcesos writes below every *)
(* process it still has to move (NoPisaPendientes) and above the ones it   *)
(* has moved (CompactacionEnOrden).                                        *)
(***************************************************************************)
EXTENDS Swap, FiniteSetTheorems, TLAPS

Fin(id) == posicion[id] + cantPaginas[id]

\* RegionesDisjuntas as inequalities between the ends of the regions.
Separadas ==
  /\ \A id \in lista_procesos : Fin(id) <= CANTIDAD_PAGINAS
  /\ \A id, otro \in lista_procesos :
       id # otro => Fin(id) <= posicion[otro] \/ Fin(otro) <= posicion[id]

\* What moverProcesos leaves behind, and the request that waits.
CompactacionEnOrden ==
  fase = "compactando" =>
    /\ movidos \subseteq lista_procesos
    /\ \A id \in movidos : Fin(id) <= primerPosicionVacia
    /\ pedido.id \in Ids \ lista_procesos
    /\ pedido.pags \in Nat \ {0}
    /\ Len(pedido.codigo) <= pedido.pags

IInv == /\ TypeOK
        /\ Separadas
        /\ BitmapExacto
        /\ NoPisaPendientes
        /\ CompactacionEnOrden

-----------------------------------------------------------------------------
\* Two non-empty intervals of cells are disjoint exactly when one ends before
\* the other begins.
LEMMA IntervalosDisjuntos ==
  ASSUME NEW a \in Nat, NEW m \in Nat, NEW b \in Nat, NEW n \in Nat,
         m > 0, n > 0
  PROVE  (a .. a + m - 1) \intersect (b .. b + n - 1) = {}
           <=> a + m <= b \/ b + n <= a
<1>1. ASSUME a + m <= b \/ b + n <= a
      PROVE  (a .. a + m - 1) \intersect (b .. b + n - 1) = {}
  BY <1>1
<1>2. ASSUME ~(a + m <= b \/ b + n <= a)
      PROVE  (a .. a + m - 1) \intersect (b .. b + n - 1) # {}
  <2>1. CASE a <= b
    <3>1. b \in (a .. a + m - 1) \intersect (b .. b + n - 1)
      BY <1>2, <2>1
    <3> QED BY <3>1
  <2>2. CASE b < a
    <3>1. a \in (a .. a + m - 1) \intersect (b .. b + n - 1)
      BY <1>2, <2>2
    <3> QED BY <3>1
  <2> QED BY <2>1, <2>2
<1> QED BY <1>1, <1>2

\* The pages of a listed process lie inside the file (RegionesDisjuntas, first
\* part) and apart from the pages of the others (second part).
LEMMA SeparadasDisjuntas ==
  ASSUME TypeOK, Separadas
  PROVE  RegionesDisjuntas
<1>1. \A id \in lista_procesos : Region(id) \subseteq Celdas
  BY CantidadAssumption DEF TypeOK, Separadas, Fin, Region, Celdas
<1>2. ASSUME NEW id \in lista_procesos, NEW otro \in lista_procesos, id # otro
      PROVE  Region(id) \intersect Region(otro) = {}
  <2>1. /\ posicion[id] \in Nat /\ cantPaginas[id] \in Nat /\ cantPaginas[id] > 0
        /\ posicion[otro] \in Nat /\ cantPaginas[otro] \in Nat /\ cantPaginas[otro] > 0
    BY DEF TypeOK
  <2>2. Fin(id) <= posicion[otro] \/ Fin(otro) <= posicion[id]
    BY <1>2 DEF Separadas
  <2> QED BY <2>1, <2>2, IntervalosDisjuntos DEF Fin, Region
<1> QED BY <1>1, <1>2 DEF RegionesDisjuntas

\* Ids holds what the swap stores for each pid.
LEMMA CharEnIds == \A p \in Pids : Char(p) \in Ids
BY DEF Ids

-----------------------------------------------------------------------------
\* agregarNuevoProceso on a hole that encontrar_espacio found keeps the
\* invariant, with or without a compaction before it.
LEMMA AgregarPreserva ==
  ASSUME IInv,
         NEW i \in Celdas, NEW id \in Ids, NEW n \in Nat \ {0},
         NEW codigo \in Seq(Contenidos),
         id \notin lista_procesos, Len(codigo) <= n,
         Asentados = lista_procesos,
         Cabe(i, n), Agregar(i, id, n, codigo),
         fase' = "espera", movidos' \subseteq Ids,
         pedido' \in [id : Ids \union {0}, pags : Nat, codigo : Seq(Contenidos)],
         primerPosicionVacia' = primerPosicionVacia
  PROVE  IInv'
<1> USE CantidadAssumption DEF IInv
<1>1. /\ i \in Nat /\ i + n <= CANTIDAD_PAGINAS /\ i < CANTIDAD_PAGINAS
      /\ CANTIDAD_PAGINAS \in Nat /\ Len(codigo) \in Nat
  BY DEF Cabe, Celdas
<1>2. \A c \in Celdas : c \in i .. i + n - 1 => ~bitarray[c]
  BY DEF Cabe
<1>3. /\ lista_procesos' = lista_procesos \union {id}
      /\ \A otro \in Ids : posicion'[otro] = IF otro = id THEN i ELSE posicion[otro]
      /\ \A otro \in Ids : cantPaginas'[otro] = IF otro = id THEN n ELSE cantPaginas[otro]
      /\ \A c \in Celdas : bitarray'[c] = IF c \in i .. i + n - 1 THEN TRUE ELSE bitarray[c]
  BY DEF Agregar, Marcar, TypeOK
<1>4. TypeOK'
  <2>1. bitarray' \in [Celdas -> BOOLEAN]
    BY DEF Agregar, Marcar, TypeOK
  <2>2. posicion' \in [Ids -> Nat] /\ cantPaginas' \in [Ids -> Nat]
    BY <1>1 DEF Agregar, TypeOK
  <2>3. swapFile' \in [Celdas -> Contenidos]
    <3>1. ASSUME NEW c \in Celdas, c \in i .. i + Len(codigo) - 1
          PROVE  PaginaGrabada(codigo, c - i + 1) \in Contenidos
      <4>1. c - i + 1 \in 1 .. Len(codigo)
        BY <3>1, <1>1 DEF Celdas
      <4> QED BY <4>1, ContenidosAssumption DEF PaginaGrabada
    <3> QED BY <3>1 DEF Agregar, Grabar, TypeOK
  <2>4. cursor' \in 0 .. CANTIDAD_PAGINAS
    BY <1>1 DEF Agregar
  <2>5. \A otro \in Ids : otro \in lista_procesos' <=> cantPaginas'[otro] > 0
    BY <1>3 DEF TypeOK
  <2> QED BY <2>1, <2>2, <2>3, <2>4, <2>5, <1>3 DEF TypeOK
<1>5. \A otro \in lista_procesos : Fin(otro) <= i \/ i + n <= posicion[otro]
  <2> SUFFICES ASSUME NEW otro \in lista_procesos,
                      ~(Fin(otro) <= i \/ i + n <= posicion[otro])
               PROVE  FALSE
    OBVIOUS
  <2>1. /\ posicion[otro] \in Nat /\ cantPaginas[otro] \in Nat
        /\ cantPaginas[otro] > 0 /\ Fin(otro) <= CANTIDAD_PAGINAS
    BY DEF TypeOK, Separadas
  <2>2. \A c \in Region(otro) : c \in Celdas /\ bitarray[c]
    BY <2>1 DEF Region, Fin, Celdas, BitmapExacto
  <2>3. CASE posicion[otro] <= i
    <3>1. i \in Region(otro) /\ i \in i .. i + n - 1
      BY <2>1, <2>3, <1>1 DEF Region, Fin
    <3> QED BY <3>1, <2>2, <1>2
  <2>4. CASE i < posicion[otro]
    <3>1. posicion[otro] \in Region(otro) /\ posicion[otro] \in i .. i + n - 1
      BY <2>1, <2>4, <1>1 DEF Region
    <3> QED BY <3>1, <2>2, <1>2
  <2> QED BY <2>1, <2>3, <2>4, <1>1
<1>6. Separadas'
  BY <1>1, <1>3, <1>5 DEF Separadas, Fin, TypeOK
<1>7. BitmapExacto'
  <2>1. Asentados' = lista_procesos \union {id}
    BY <1>3 DEF Asentados
  <2>2. lista_procesos \subseteq Ids
    BY DEF TypeOK
  <2> QED BY <1>3, <2>1, <2>2 DEF BitmapExacto, Region
<1>8. NoPisaPendientes' /\ CompactacionEnOrden'
  BY DEF NoPisaPendientes, CompactacionEnOrden
<1> QED BY <1>4, <1>6, <1>7, <1>8

\* moverProcesos, on the listed process with the lowest position that is not
\* moved yet, keeps the invariant: it writes between the processes already
\* moved and the ones still to move.
LEMMA MoverPreserva ==
  ASSUME IInv, NEW id \in Ids, MoverProceso(id)
  PROVE  IInv'
<1> DEFINE n == cantPaginas[id]
           hacia == primerPosicionVacia
<1> USE CantidadAssumption DEF IInv
<1>1. /\ fase = "compactando" /\ fase' = "compactando"
      /\ id \in lista_procesos /\ id \notin movidos
      /\ movidos' = movidos \union {id} /\ movidos \subseteq lista_procesos
      /\ hacia' = hacia + n
      /\ UNCHANGED <<lista_procesos, cantPaginas, pedido>>
      /\ \A otro \in lista_procesos \ movidos : posicion[id] <= posicion[otro]
  BY DEF MoverProceso, EsSiguiente, Mover, CompactacionEnOrden
<1>2. /\ n \in Nat /\ n > 0 /\ hacia \in Nat /\ posicion[id] \in Nat
      /\ hacia <= posicion[id] /\ posicion[id] + n <= CANTIDAD_PAGINAS
      /\ CANTIDAD_PAGINAS \in Nat
  BY <1>1 DEF TypeOK, NoPisaPendientes, Separadas, Fin
<1>3. /\ \A otro \in Ids : posicion'[otro] = IF otro = id THEN hacia ELSE posicion[otro]
      /\ \A c \in Celdas : bitarray'[c] =
           IF c \in hacia .. hacia + n - 1 THEN TRUE ELSE bitarray[c]
  BY DEF MoverProceso, Mover, Marcar, TypeOK
<1>4. \A otro \in lista_procesos : /\ posicion[otro] \in Nat
                                   /\ cantPaginas[otro] \in Nat
                                   /\ cantPaginas[otro] > 0
  BY DEF TypeOK
<1>5. \A otro \in lista_procesos \ movidos :
        otro # id => posicion[id] + n <= posicion[otro]
  BY <1>1, <1>2, <1>4 DEF Separadas, Fin
<1>6. \A otro \in movidos : Fin(otro) <= hacia
  BY <1>1 DEF CompactacionEnOrden
<1>7. TypeOK'
  <2>1. bitarray' \in [Celdas -> BOOLEAN]
    BY DEF MoverProceso, Mover, Marcar, TypeOK
  <2>2. posicion' \in [Ids -> Nat] /\ cantPaginas' \in [Ids -> Nat]
    BY <1>1, <1>2 DEF MoverProceso, Mover, TypeOK
  <2>3. swapFile' \in [Celdas -> Contenidos]
    <3>1. ASSUME NEW k \in 0 .. n - 1
          PROVE  swapFile[posicion[id] + k] \in Contenidos
      BY <1>2 DEF TypeOK, Celdas
    <3>2. ASSUME NEW c \in Celdas, c \in hacia .. hacia + n - 1
          PROVE  c - hacia \in 0 .. n - 1
      BY <3>2, <1>2 DEF Celdas
    <3> QED BY <3>1, <3>2 DEF MoverProceso, Mover, TypeOK
  <2>4. cursor' \in 0 .. CANTIDAD_PAGINAS /\ hacia' \in 0 .. CANTIDAD_PAGINAS
    BY <1>2 DEF MoverProceso, Mover
  <2> QED BY <2>1, <2>2, <2>3, <2>4, <1>1 DEF TypeOK
<1>8. Separadas'
  <2>1. \A otro \in lista_procesos :
          otro \in Ids /\ posicion'[otro] + cantPaginas[otro] <= CANTIDAD_PAGINAS
    <3>1. \A otro \in lista_procesos : otro \in Ids /\ Fin(otro) <= CANTIDAD_PAGINAS
      BY DEF TypeOK, Separadas
    <3>2. hacia + n <= CANTIDAD_PAGINAS
      BY <1>2
    <3> QED BY <3>1, <3>2, <1>3 DEF Fin
  <2>2. ASSUME NEW otro \in lista_procesos, otro # id
        PROVE  Fin(otro) <= hacia \/ hacia + n <= posicion[otro]
    <3>1. CASE otro \in movidos
      BY <3>1, <1>6
    <3>2. CASE otro \notin movidos
      <4>1. posicion[id] + n <= posicion[otro] /\ posicion[otro] \in Nat
        BY <2>2, <3>2, <1>4, <1>5
      <4> QED BY <4>1, <1>2
    <3> QED BY <3>1, <3>2
  <2> QED BY <1>1, <1>3, <1>4, <2>1, <2>2 DEF Separadas, Fin, TypeOK
<1>9. BitmapExacto'
  <2>1. Asentados = movidos /\ Asentados' = movidos \union {id}
    BY <1>1 DEF Asentados
  <2>2. movidos \subseteq Ids
    BY DEF TypeOK
  <2> QED BY <1>1, <1>3, <2>1, <2>2 DEF BitmapExacto, Region
<1>10. NoPisaPendientes'
  <2>1. ASSUME NEW otro \in lista_procesos \ (movidos \union {id})
        PROVE  hacia + n <= posicion'[otro]
    BY <1>1, <1>2, <1>3, <1>4, <1>5 DEF TypeOK
  <2> QED BY <1>1, <2>1 DEF NoPisaPendientes
<1>11. CompactacionEnOrden'
  <2>1. \A otro \in movidos \union {id} : Fin(otro)' <= hacia + n
    BY <1>1, <1>2, <1>3, <1>4, <1>6 DEF Fin, TypeOK
  <2> QED BY <1>1, <2>1 DEF CompactacionEnOrden
<1> QED BY <1>7, <1>8, <1>9, <1>10, <1>11

-----------------------------------------------------------------------------
\* The initial file is empty and so is the control list.
LEMMA InicioCumple == Init => IInv
<1> SUFFICES ASSUME Init PROVE IInv OBVIOUS
<1>1. TypeOK
  BY CantidadAssumption, ContenidosAssumption DEF Init, SinPedido, TypeOK, Celdas
<1>2. Separadas /\ NoPisaPendientes /\ CompactacionEnOrden
  BY DEF Init, Separadas, NoPisaPendientes, CompactacionEnOrden
<1>3. BitmapExacto
  BY DEF Init, BitmapExacto, Asentados
<1> QED BY <1>1, <1>2, <1>3 DEF IInv

\* A step that leaves the bitmap, the control list and the state of the
\* compaction alone needs to be looked at for its types only.
LEMMA SoloDatosPreserva ==
  ASSUME IInv, UNCHANGED <<bitarray, control, compactacion>>,
         swapFile' \in [Celdas -> Contenidos], cursor' \in 0 .. CANTIDAD_PAGINAS
  PROVE  IInv'
<1>1. TypeOK'
  BY DEF IInv, TypeOK, control, compactacion
<1>2. Separadas' /\ NoPisaPendientes' /\ CompactacionEnOrden'
  BY DEF IInv, Separadas, Fin, NoPisaPendientes, CompactacionEnOrden, control,
         compactacion
<1>3. BitmapExacto'
  BY DEF IInv, BitmapExacto, Asentados, Region, control, compactacion
<1> QED BY <1>1, <1>2, <1>3 DEF IInv

\* Every step of the swap keeps the invariant: one case per action.
LEMMA PasoPreserva == IInv /\ [Next]_vars => IInv'
<1> SUFFICES ASSUME IInv, [Next]_vars PROVE IInv' OBVIOUS
<1> USE CantidadAssumption
<1>1. ASSUME NEW p \in Pids, NEW n \in Paginas, NEW codigo \in Codigos,
             NuevoProgramaContiguo(p, n, codigo)
      PROVE  IInv'
  <2>1. PICK i \in Celdas : EncuentraEspacio(i, n) /\ Agregar(i, Char(p), n, codigo)
    BY <1>1 DEF NuevoProgramaContiguo
  <2>2. /\ Char(p) \in Ids /\ Char(p) \notin lista_procesos
        /\ n \in Nat \ {0} /\ codigo \in Seq(Contenidos) /\ Len(codigo) <= n
    BY <1>1, CharEnIds, PaginasAssumption, ContenidosAssumption
       DEF NuevoProgramaContiguo, PedidoNuevo
  <2>3. /\ Asentados = lista_procesos /\ fase' = "espera"
        /\ movidos' = movidos /\ pedido' = pedido
        /\ primerPosicionVacia' = primerPosicionVacia
    BY <1>1 DEF NuevoProgramaContiguo, Asentados, compactacion
  <2>4. /\ movidos' \subseteq Ids
        /\ pedido' \in [id : Ids \union {0}, pags : Nat, codigo : Seq(Contenidos)]
    BY <2>3 DEF IInv, TypeOK
  <2> QED BY <2>1, <2>2, <2>3, <2>4, AgregarPreserva DEF EncuentraEspacio
<1>2. ASSUME NEW p \in Pids, NEW n \in Paginas, NEW codigo \in Codigos,
             NuevoProgramaSinLugar(p, n, codigo)
      PROVE  IInv'
  BY <1>2, SoloDatosPreserva DEF NuevoProgramaSinLugar, IInv, TypeOK, compactacion
<1>3. ASSUME NEW p \in Pids, NEW n \in Paginas, NEW codigo \in Codigos,
             EmpezarCompactacion(p, n, codigo)
      PROVE  IInv'
  <2>1. /\ fase' = "compactando" /\ movidos' = {} /\ primerPosicionVacia' = 0
        /\ bitarray' = [c \in Celdas |-> FALSE]
        /\ pedido' = [id |-> Char(p), pags |-> n, codigo |-> codigo]
        /\ UNCHANGED <<lista_procesos, posicion, cantPaginas, swapFile, cursor>>
    BY <1>3 DEF EmpezarCompactacion, control
  <2>2. /\ Char(p) \in Ids /\ Char(p) \notin lista_procesos
        /\ n \in Nat \ {0} /\ codigo \in Seq(Contenidos) /\ Len(codigo) <= n
    BY <1>3, CharEnIds, PaginasAssumption, ContenidosAssumption
       DEF EmpezarCompactacion, PedidoNuevo
  <2>3. TypeOK'
    BY <2>1, <2>2 DEF IInv, TypeOK
  <2>4. Separadas'
    BY <2>1 DEF IInv, Separadas, Fin
  <2>5. BitmapExacto'
    BY <2>1 DEF BitmapExacto, Asentados
  <2>6. NoPisaPendientes'
    BY <2>1 DEF IInv, TypeOK, NoPisaPendientes
  <2>7. CompactacionEnOrden'
    BY <2>1, <2>2 DEF CompactacionEnOrden
  <2> QED BY <2>3, <2>4, <2>5, <2>6, <2>7 DEF IInv
<1>4. ASSUME NEW id \in Ids, MoverProceso(id)
      PROVE  IInv'
  BY <1>4, MoverPreserva
<1>5. ASSUME FinCompactacion
      PROVE  IInv'
  <2>1. PICK i \in Celdas : /\ EncuentraEspacio(i, pedido.pags)
                            /\ Agregar(i, pedido.id, pedido.pags, pedido.codigo)
    BY <1>5 DEF FinCompactacion
  <2>2. /\ pedido.id \in Ids /\ pedido.id \notin lista_procesos
        /\ pedido.pags \in Nat \ {0} /\ pedido.codigo \in Seq(Contenidos)
        /\ Len(pedido.codigo) <= pedido.pags
    BY <1>5 DEF FinCompactacion, IInv, TypeOK, CompactacionEnOrden
  <2>3. /\ Asentados = lista_procesos /\ fase' = "espera"
        /\ movidos' = {} /\ pedido' = SinPedido
        /\ primerPosicionVacia' = primerPosicionVacia
    BY <1>5 DEF FinCompactacion, Asentados
  <2>4. /\ movidos' \subseteq Ids
        /\ pedido' \in [id : Ids \union {0}, pags : Nat, codigo : Seq(Contenidos)]
    BY <2>3 DEF SinPedido
  <2> QED BY <2>1, <2>2, <2>3, <2>4, AgregarPreserva DEF EncuentraEspacio
<1>6. ASSUME NEW p \in Pids, NEW k \in Celdas,
             LeerPagina(p, k) \/ LeerPaginaDesconocida(p, k)
      PROVE  IInv'
  <2>1. cursor' \in 0 .. CANTIDAD_PAGINAS
    <3>1. CASE LeerPagina(p, k)
      BY <3>1 DEF LeerPagina, PaginaValida, IInv, TypeOK, Separadas, Fin
    <3>2. CASE LeerPaginaDesconocida(p, k)
      BY <3>2 DEF LeerPaginaDesconocida, IInv, TypeOK
    <3> QED BY <1>6, <3>1, <3>2
  <2> QED BY <1>6, <2>1, SoloDatosPreserva
          DEF LeerPagina, LeerPaginaDesconocida, IInv, TypeOK
<1>7. ASSUME NEW p \in Pids, NEW k \in Celdas, NEW x \in Contenidos,
             EscribirPagina(p, k, x) \/ EscribirPaginaDesconocida(p, k, x)
      PROVE  IInv'
  <2>1. swapFile' \in [Celdas -> Contenidos]
    BY <1>7 DEF EscribirPagina, EscribirPaginaDesconocida, IInv, TypeOK
  <2>2. cursor' \in 0 .. CANTIDAD_PAGINAS
    <3>1. CASE EscribirPagina(p, k, x)
      BY <3>1, CharEnIds DEF EscribirPagina, PaginaValida, IInv, TypeOK, Separadas, Fin
    <3>2. CASE EscribirPaginaDesconocida(p, k, x)
      BY <3>2 DEF EscribirPaginaDesconocida, IInv, TypeOK
    <3> QED BY <1>7, <3>1, <3>2
  <2> QED BY <1>7, <2>1, <2>2, SoloDatosPreserva
          DEF EscribirPagina, EscribirPaginaDesconocida
<1>8. ASSUME NEW p \in Pids, FinalizarPrograma(p)
      PROVE  IInv'
  <2>1. /\ fase = "espera" /\ p \in lista_procesos /\ p \in Ids
        /\ lista_procesos' = lista_procesos \ {p}
        /\ \A id \in Ids : posicion'[id] = IF id = p THEN 0 ELSE posicion[id]
        /\ \A id \in Ids : cantPaginas'[id] = IF id = p THEN 0 ELSE cantPaginas[id]
        /\ \A c \in Celdas :
             bitarray'[c] = IF c \in Region(p) THEN FALSE ELSE bitarray[c]
        /\ UNCHANGED <<fase, pedido, movidos, primerPosicionVacia, swapFile, cursor>>
    BY <1>8 DEF FinalizarPrograma, Marcar, Region, IInv, TypeOK, compactacion
  <2>2. TypeOK'
    <3>1. bitarray' \in [Celdas -> BOOLEAN]
      BY <1>8 DEF FinalizarPrograma, Marcar, IInv, TypeOK
    <3>2. posicion' \in [Ids -> Nat] /\ cantPaginas' \in [Ids -> Nat]
      BY <1>8 DEF FinalizarPrograma, IInv, TypeOK
    <3> QED BY <2>1, <3>1, <3>2 DEF IInv, TypeOK
  <2>3. Separadas'
    BY <2>1 DEF IInv, TypeOK, Separadas, Fin
  <2>4. BitmapExacto'
    <3>1. Asentados = lista_procesos /\ Asentados' = lista_procesos \ {p}
      BY <2>1 DEF Asentados
    <3>2. \A id \in lista_procesos : id # p => Region(id) \intersect Region(p) = {}
      BY <2>1, SeparadasDisjuntas DEF IInv, RegionesDisjuntas
    <3>3. lista_procesos \subseteq Ids
      BY DEF IInv, TypeOK
    <3> QED BY <2>1, <3>1, <3>2, <3>3 DEF IInv, BitmapExacto, Region
  <2> QED BY <2>1, <2>2, <2>3, <2>4
          DEF IInv, NoPisaPendientes, CompactacionEnOrden
<1>9. ASSUME NEW p \in Pids, FinalizarDesconocido(p)
      PROVE  IInv'
  BY <1>9, SoloDatosPreserva DEF FinalizarDesconocido, IInv, TypeOK
<1>10. ASSUME DesconexionUmc
       PROVE  IInv'
  <2>1. /\ fase = "espera" /\ fase' = "terminado"
        /\ UNCHANGED <<bitarray, lista_procesos, posicion, cantPaginas, swapFile,
                       cursor, pedido, movidos, primerPosicionVacia>>
    BY <1>10 DEF DesconexionUmc, control
  <2>2. TypeOK'
    BY <2>1 DEF IInv, TypeOK
  <2>3. Separadas' /\ NoPisaPendientes' /\ CompactacionEnOrden'
    BY <2>1 DEF IInv, Separadas, Fin, NoPisaPendientes, CompactacionEnOrden
  <2>4. BitmapExacto'
    BY <2>1 DEF IInv, BitmapExacto, Asentados, Region
  <2> QED BY <2>2, <2>3, <2>4 DEF IInv
<1>11. CASE Terminado \/ UNCHANGED vars
  BY <1>11, SoloDatosPreserva DEF Terminado, vars, IInv, TypeOK
<1> QED BY <1>1, <1>2, <1>3, <1>4, <1>5, <1>6, <1>7, <1>8, <1>9, <1>10, <1>11
        DEF Next, Compactar

\* The inductive invariant holds in every reachable state of the swap.
THEOREM Invariante == Spec => []IInv
BY InicioCumple, PasoPreserva, PTL DEF Spec

\* Every variable of the swap keeps its type (inicializaSwapFile and the five
\* handlers of manejarOperaciones).
THEOREM Tipos == Spec => []TypeOK
<1>1. IInv => TypeOK
  BY DEF IInv
<1> QED BY <1>1, Invariante, PTL

\* The pages of two programs never overlap nor leave the file, also while
\* compactar() is moving them (funciones_swap.c:369-424).
THEOREM PaginasPrivadas == Spec => []RegionesDisjuntas
<1>1. IInv => RegionesDisjuntas
  BY SeparadasDisjuntas DEF IInv
<1> QED BY <1>1, Invariante, PTL

\* The bitmap neither leaks nor forgets a page (funciones_swap.c:294-300,
\* 352-357, 384-388, 449-455).
THEOREM BitmapSinFugas == Spec => []BitmapExacto
<1>1. IInv => BitmapExacto
  BY DEF IInv
<1> QED BY <1>1, Invariante, PTL

\* moverProcesos never writes over pages it has still to copy.
THEOREM CompactarNoPisa == Spec => []NoPisaPendientes
<1>1. IInv => NoPisaPendientes
  BY DEF IInv
<1> QED BY <1>1, Invariante, PTL
-----------------------------------------------------------------------------
(* compactar() always makes room: the pages moved so far fill the beginning *)
(* of the file without gaps, and moving a process frees as many cells as it *)
(* takes.                                                                   *)

Compactas == UNION {Region(id) : id \in movidos}

Cuenta ==
  fase = "compactando" =>
    /\ Compactas = 0 .. primerPosicionVacia - 1
    /\ Cardinality(Ocupadas) + pedido.pags <= CANTIDAD_PAGINAS

\* The cells of the control list are cells of the file.
LEMMA OcupadasFinitas ==
  ASSUME IInv
  PROVE  /\ IsFiniteSet(Celdas) /\ Cardinality(Celdas) = CANTIDAD_PAGINAS
         /\ Ocupadas \subseteq Celdas
         /\ IsFiniteSet(Ocupadas) /\ Cardinality(Ocupadas) \in Nat
<1>1. IsFiniteSet(Celdas) /\ Cardinality(Celdas) = CANTIDAD_PAGINAS
  BY CantidadAssumption, FS_Interval DEF Celdas
<1>2. Ocupadas \subseteq Celdas
  BY SeparadasDisjuntas DEF IInv, RegionesDisjuntas, Ocupadas
<1> QED BY <1>1, <1>2, FS_Subset, FS_CardinalityType

\* Outside a compaction the free cells of the bitmap are the cells of nobody.
LEMMA LibresSonElResto ==
  ASSUME IInv, fase = "espera"
  PROVE  Cardinality(CeldasLibres) = CANTIDAD_PAGINAS - Cardinality(Ocupadas)
<1>1. CeldasLibres = Celdas \ Ocupadas
  BY DEF IInv, BitmapExacto, Asentados, CeldasLibres, Ocupadas
<1>2. Celdas \intersect Ocupadas = Ocupadas
  BY OcupadasFinitas
<1>3. Cardinality(Celdas \ Ocupadas) =
        Cardinality(Celdas) - Cardinality(Celdas \intersect Ocupadas)
  BY OcupadasFinitas, FS_Difference
<1> QED BY <1>1, <1>2, <1>3, OcupadasFinitas

\* n cells in a row are n cells.
LEMMA TamanoDeRegion ==
  ASSUME NEW a \in Nat, NEW n \in Nat, n > 0
  PROVE  IsFiniteSet(a .. a + n - 1) /\ Cardinality(a .. a + n - 1) = n
<1> DEFINE b == a + n - 1
<1>1. b \in Int /\ ~(a > b) /\ b - a + 1 = n
  OBVIOUS
<1> HIDE DEF b
<1>2. IsFiniteSet(a .. b) /\ Cardinality(a .. b) = b - a + 1
  BY <1>1, FS_Interval
<1> QED BY <1>1, <1>2 DEF b

\* moverProcesos on id: as many cells as before are occupied, and the prefix of
\* the file that is already compact grows by the pages of id.
LEMMA MoverOcupa ==
  ASSUME IInv, NEW id \in Ids, MoverProceso(id)
  PROVE  /\ Cardinality(Ocupadas') = Cardinality(Ocupadas)
         /\ Compactas' = Compactas \union
              (primerPosicionVacia .. primerPosicionVacia + cantPaginas[id] - 1)
<1> DEFINE n == cantPaginas[id]
           hacia == primerPosicionVacia
           Otras == UNION {Region(o) : o \in lista_procesos \ {id}}
           Vieja == posicion[id] .. posicion[id] + n - 1
           Nueva == hacia .. hacia + n - 1
<1>1. /\ fase = "compactando" /\ id \in lista_procesos /\ id \notin movidos
      /\ movidos' = movidos \union {id} /\ movidos \subseteq lista_procesos
      /\ UNCHANGED <<lista_procesos, cantPaginas>>
      /\ lista_procesos \subseteq Ids
      /\ n \in Nat /\ n > 0 /\ hacia \in Nat /\ posicion[id] \in Nat
      /\ \A o \in Ids : posicion'[o] = IF o = id THEN hacia ELSE posicion[o]
  BY DEF IInv, TypeOK, MoverProceso, EsSiguiente, Mover, CompactacionEnOrden
<1>2. IInv'
  BY MoverPreserva
<1>3. /\ Ocupadas = Otras \union Vieja
      /\ Ocupadas' = Otras \union Nueva
      /\ Compactas' = Compactas \union Nueva
  <2>1. Ocupadas = Otras \union Vieja
    BY <1>1 DEF Ocupadas, Region
  <2>2. Ocupadas' = Otras \union Nueva
    BY <1>1 DEF Ocupadas, Region
  <2>3. \A o \in movidos : posicion'[o] = posicion[o]
    BY <1>1
  <2>4. posicion'[id] = hacia
    BY <1>1
  <2>5. Compactas' = Compactas \union Nueva
    BY <1>1, <2>3, <2>4 DEF Compactas, Region
  <2> QED BY <2>1, <2>2, <2>5
<1>4. Otras \intersect Vieja = {}
  BY <1>1, SeparadasDisjuntas DEF IInv, RegionesDisjuntas, Region
<1>5. Otras \intersect Nueva = {}
  <2>1. RegionesDisjuntas'
    <3>1. TypeOK' /\ Separadas'
      BY <1>2 DEF IInv
    <3> QED BY <3>1, SeparadasDisjuntas, PTL
  <2> QED BY <1>1, <2>1 DEF RegionesDisjuntas, Region
<1>6. Cardinality(Ocupadas') = Cardinality(Ocupadas)
  <2> HIDE DEF Otras, Vieja, Nueva
  <2>1. IsFiniteSet(Vieja) /\ Cardinality(Vieja) = n
    BY <1>1, TamanoDeRegion DEF Vieja
  <2>2. IsFiniteSet(Nueva) /\ Cardinality(Nueva) = n
    BY <1>1, TamanoDeRegion DEF Nueva
  <2>3. IsFiniteSet(Otras)
    <3>1. Otras \in SUBSET Ocupadas
      BY <1>3
    <3> QED BY <3>1, OcupadasFinitas, FS_Subset
  <2>4. Cardinality(Otras \union Vieja) = Cardinality(Otras) + n - Cardinality({})
    BY <1>4, <2>1, <2>3, FS_Union
  <2>5. Cardinality(Otras \union Nueva) = Cardinality(Otras) + n - Cardinality({})
    BY <1>5, <2>2, <2>3, FS_Union
  <2> QED BY <1>3, <2>4, <2>5
<1> QED BY <1>3, <1>6

\* So the request that waits still fits, and the compact prefix has no gaps.
LEMMA MoverCuenta ==
  ASSUME IInv, Cuenta, NEW id \in Ids, MoverProceso(id)
  PROVE  Cuenta'
<1> DEFINE n == cantPaginas[id]
           hacia == primerPosicionVacia
<1>1. /\ fase = "compactando" /\ hacia' = hacia + n /\ pedido' = pedido
      /\ n \in Nat /\ n > 0 /\ hacia \in Nat
  BY DEF IInv, TypeOK, MoverProceso, EsSiguiente, Mover
<1>2. Compactas' = 0 .. hacia' - 1
  <2>1. Compactas = 0 .. hacia - 1
    BY <1>1 DEF Cuenta
  <2>2. (0 .. hacia - 1) \union (hacia .. hacia + n - 1) = 0 .. hacia + n - 1
    BY <1>1
  <2>3. Compactas' = Compactas \union (hacia .. hacia + n - 1)
    BY MoverOcupa
  <2> QED BY <1>1, <2>1, <2>2, <2>3
<1>3. Cardinality(Ocupadas') + pedido'.pags <= CANTIDAD_PAGINAS
  BY <1>1, MoverOcupa DEF Cuenta
<1> QED BY <1>2, <1>3 DEF Cuenta

\* The count is kept by every step of the swap.
LEMMA PasoCuenta == IInv /\ Cuenta /\ [Next]_vars => Cuenta'
<1> SUFFICES ASSUME IInv, Cuenta, [Next]_vars PROVE Cuenta' OBVIOUS
<1>1. ASSUME NEW p \in Pids, NEW n \in Paginas, NEW codigo \in Codigos,
             EmpezarCompactacion(p, n, codigo)
      PROVE  Cuenta'
  <2>1. /\ fase = "espera" /\ movidos' = {} /\ primerPosicionVacia' = 0
        /\ UNCHANGED <<lista_procesos, posicion, cantPaginas>>
        /\ pedido'.pags = n /\ n <= Cardinality(CeldasLibres)
    BY <1>1 DEF EmpezarCompactacion, HayPaginasLibres, control
  <2>2. n \in Nat
    BY PaginasAssumption
  <2>3. Ocupadas' = Ocupadas
    BY <2>1 DEF Ocupadas, Region
  <2>4. Compactas' = {} /\ 0 .. primerPosicionVacia' - 1 = {}
    BY <2>1 DEF Compactas
  <2>5. Cardinality(Ocupadas) + n <= CANTIDAD_PAGINAS
    BY <2>1, <2>2, LibresSonElResto, OcupadasFinitas, CantidadAssumption
  <2> QED BY <2>1, <2>3, <2>4, <2>5 DEF Cuenta
<1>2. ASSUME NEW id \in Ids, MoverProceso(id)
      PROVE  Cuenta'
  BY <1>2, MoverCuenta
<1>3. ASSUME fase' # "compactando"
      PROVE  Cuenta'
  BY <1>3 DEF Cuenta
<1>4. ASSUME UNCHANGED <<control, compactacion>>
      PROVE  Cuenta'
  <2>1. Ocupadas' = Ocupadas /\ Compactas' = Compactas
    BY <1>4 DEF Ocupadas, Compactas, Region, control, compactacion
  <2> QED BY <1>4, <2>1 DEF Cuenta, compactacion
<1>5. ASSUME NEW p \in Pids, NEW n \in Paginas, NEW codigo \in Codigos,
             \/ NuevoProgramaContiguo(p, n, codigo)
             \/ NuevoProgramaSinLugar(p, n, codigo)
      PROVE  fase' # "compactando"
  BY <1>5 DEF NuevoProgramaContiguo, NuevoProgramaSinLugar, compactacion
<1>6. ASSUME FinCompactacion \/ DesconexionUmc
      PROVE  fase' # "compactando"
  BY <1>6 DEF FinCompactacion, DesconexionUmc
<1>7. ASSUME NEW p \in Pids, NEW k \in Celdas, NEW x \in Contenidos,
             \/ LeerPagina(p, k) \/ LeerPaginaDesconocida(p, k)
             \/ EscribirPagina(p, k, x) \/ EscribirPaginaDesconocida(p, k, x)
             \/ FinalizarPrograma(p) \/ FinalizarDesconocido(p)
      PROVE  fase' # "compactando"
  BY <1>7 DEF LeerPagina, LeerPaginaDesconocida, EscribirPagina,
              EscribirPaginaDesconocida, FinalizarPrograma, FinalizarDesconocido,
              compactacion
<1>8. CASE Terminado \/ UNCHANGED vars
  BY <1>4, <1>8 DEF Terminado, vars
<1>9. Cero \in Contenidos /\ 0 \in Celdas
  BY ContenidosAssumption, CantidadAssumption DEF Celdas
<1> QED BY <1>1, <1>2, <1>3, <1>5, <1>6, <1>7, <1>8, <1>9 DEF Next, Compactar

\* After compactar() the hole is there: the program that waits fits behind the
\* last page that was moved.
LEMMA HayHueco ==
  ASSUME IInv, Cuenta, fase = "compactando", movidos = lista_procesos
  PROVE  ~SinEspacioContiguo(pedido.pags)
<1> DEFINE i == primerPosicionVacia
<1>1. /\ i \in Nat /\ CANTIDAD_PAGINAS \in Nat
      /\ pedido.pags \in Nat \ {0}
  BY CantidadAssumption DEF IInv, TypeOK, CompactacionEnOrden
<1>2. Ocupadas = 0 .. i - 1
  BY DEF Cuenta, Compactas, Ocupadas
<1>3. Cardinality(Ocupadas) = i
  <2>1. CASE i = 0
    BY <2>1, <1>2, FS_Interval
  <2>2. CASE i > 0
    <3>1. Cardinality(0 .. 0 + i - 1) = i
      BY <1>1, <2>2, TamanoDeRegion
    <3> QED BY <1>1, <1>2, <3>1
  <2> QED BY <1>1, <2>1, <2>2
<1>4. i + pedido.pags <= CANTIDAD_PAGINAS
  BY <1>3 DEF Cuenta
<1>5. \A c \in Celdas : c \notin Ocupadas => ~bitarray[c]
  BY DEF IInv, BitmapExacto, Asentados, Ocupadas
<1>6. \A c \in i .. i + pedido.pags - 1 : c \in Celdas /\ c \notin 0 .. i - 1
  BY <1>1, <1>4 DEF Celdas
<1>7. i \in Celdas /\ Cabe(i, pedido.pags)
  BY <1>1, <1>2, <1>4, <1>5, <1>6 DEF Celdas, Cabe
<1> QED BY <1>7 DEF SinEspacioContiguo

\* inicializarNuevoPrograma may use the second encontrar_espacio without looking
\* at it (funciones_swap.c:155-160): it never returns -1.
THEOREM SiempreHayHueco == Spec => []CompactarHaceLugar
<1>1. Init => Cuenta
  BY DEF Init, Cuenta
<1>2. IInv /\ Cuenta => CompactarHaceLugar
  BY HayHueco DEF CompactarHaceLugar
<1> QED BY <1>1, <1>2, InicioCumple, PasoPreserva, PasoCuenta, PTL DEF Spec

-----------------------------------------------------------------------------
(***************************************************************************)
(* The swap implements SwapAbs for every size of the file, every set of    *)
(* programs and every set of pids below 128, as long as no text fills its  *)
(* last page exactly: a compaction is a stutter, an admission after it the *)
(* same step as an admission without it, and everything else step by step. *)
(***************************************************************************)

\* Where funciones_swap.c:178 and the char of operaciones_swap.c:41 do no harm.
SinDesbordes == Exactos = {} /\ Pids \subseteq 0 .. 127

\* The request that waits for compactar() is one the UMC made.
PedidoEnPie ==
  fase = "compactando" =>
    /\ pedido.pags \in Paginas
    /\ pedido.codigo \in Codigos
    /\ Len(pedido.codigo) <= pedido.pags

Libres == Cardinality(Celdas \ Ocupadas)

-----------------------------------------------------------------------------
(* The refinement mapping *)

\* A page of a process is a cell of the file, and of its region.
LEMMA PaginaEnCelda ==
  ASSUME IInv, NEW id \in Ids, NEW k \in Nat, k < cantPaginas[id]
  PROVE  /\ id \in lista_procesos
         /\ posicion[id] + k \in Celdas
         /\ posicion[id] + k \in Region(id)
<1>1. /\ posicion[id] \in Nat /\ cantPaginas[id] \in Nat /\ id \in lista_procesos
  BY DEF IInv, TypeOK
<1>2. posicion[id] + cantPaginas[id] <= CANTIDAD_PAGINAS
  BY <1>1 DEF IInv, Separadas, Fin
<1> QED BY <1>1, <1>2, CantidadAssumption DEF Region, Celdas

\* Two pages that lie in one cell are one page.
LEMMA PaginaUnica ==
  ASSUME IInv, NEW id \in Ids, NEW k \in Nat, k < cantPaginas[id],
         NEW otro \in Ids, NEW g \in Nat, g < cantPaginas[otro],
         posicion[id] + k = posicion[otro] + g
  PROVE  id = otro /\ k = g
<1>1. /\ id \in lista_procesos /\ otro \in lista_procesos
      /\ posicion[id] \in Nat /\ cantPaginas[id] \in Nat
      /\ posicion[otro] \in Nat /\ cantPaginas[otro] \in Nat
  BY PaginaEnCelda DEF IInv, TypeOK
<1>2. id = otro
  BY <1>1 DEF IInv, Separadas, Fin
<1> QED BY <1>1, <1>2

AlmacenOK == Almacen \in [Ids -> [Celdas -> Contenidos]]
LibresOK == Libres = CANTIDAD_PAGINAS - Cardinality(Ocupadas)

\* Pages hold contents.
LEMMA AlmacenTipo ==
  ASSUME IInv
  PROVE  AlmacenOK
<1>1. ASSUME NEW id \in Ids, NEW k \in Celdas, k < cantPaginas[id]
      PROVE  swapFile[posicion[id] + k] \in Contenidos
  <2>1. k \in Nat
    BY DEF Celdas
  <2> QED BY <1>1, <2>1, PaginaEnCelda DEF IInv, TypeOK
<1> QED BY <1>1, ContenidosAssumption DEF Almacen, AlmacenOK

\* The free pages of the specification are those that verificarPaginasLibres
\* counts.
LEMMA LibresCuenta ==
  ASSUME IInv
  PROVE  /\ LibresOK
         /\ fase = "espera" => Libres = Cardinality(CeldasLibres)
<1>1. Celdas \intersect Ocupadas = Ocupadas
  BY OcupadasFinitas
<1>2. Cardinality(Celdas \ Ocupadas) =
        Cardinality(Celdas) - Cardinality(Celdas \intersect Ocupadas)
  BY OcupadasFinitas, FS_Difference
<1>3. LibresOK
  BY <1>1, <1>2, OcupadasFinitas DEF Libres, LibresOK
<1> QED BY <1>3, LibresSonElResto DEF LibresOK

-----------------------------------------------------------------------------
(* Steps *)

\* agregarNuevoProceso is an admission, whether or not compactar() came before:
\* the text goes to the first pages of the program and no page of the others
\* changes.
LEMMA AgregarAdmite ==
  ASSUME SinDesbordes, IInv, IInv',
         NEW i \in Celdas, NEW id \in Ids, NEW n \in Nat \ {0},
         NEW codigo \in Seq(Contenidos),
         id \notin lista_procesos, Len(codigo) <= n, n <= Libres,
         Cabe(i, n), Agregar(i, id, n, codigo)
  PROVE  Abs!Admitir(id, n, codigo)
<1> DEFINE pags == Almacen'[id]
<1>1. /\ lista_procesos' = lista_procesos \union {id}
      /\ \A o \in Ids : posicion'[o] = IF o = id THEN i ELSE posicion[o]
      /\ \A o \in Ids : cantPaginas'[o] = IF o = id THEN n ELSE cantPaginas[o]
      /\ cantPaginas' = [cantPaginas EXCEPT ![id] = n]
      /\ cantPaginas[id] = 0
      /\ lista_procesos \subseteq Ids
      /\ i \in Nat /\ i + n <= CANTIDAD_PAGINAS
  BY CantidadAssumption DEF Agregar, IInv, TypeOK, Cabe, Celdas
<1>2. n \in 1 .. Libres
  BY LibresCuenta, OcupadasFinitas, CantidadAssumption DEF LibresOK
<1>3. \A c \in Celdas : swapFile'[c] = IF c \in i .. i + Len(codigo) - 1
                                       THEN codigo[c - i + 1] ELSE swapFile[c]
  BY DEF Agregar, Grabar, PaginaGrabada, SinDesbordes
<1>4. ASSUME NEW o \in Ids, o # id, NEW k \in Celdas
      PROVE  Almacen'[o][k] = Almacen[o][k]
  <2>1. CASE k < cantPaginas[o]
    <3>1. /\ o \in lista_procesos /\ k \in Nat /\ posicion[o] + k \in Celdas
          /\ posicion[o] + k \in Region(o)
      BY <2>1, PaginaEnCelda DEF Celdas
    <3>2. posicion[o] + k \notin i .. i + n - 1
      <4>1. id \in lista_procesos' /\ o \in lista_procesos'
        BY <1>1, <3>1
      <4>2. \/ i + n <= posicion[o]
            \/ posicion[o] + cantPaginas[o] <= i
        BY <1>1, <1>4, <4>1 DEF IInv, Separadas, Fin
      <4>3. posicion[o] \in Nat /\ cantPaginas[o] \in Nat
        BY DEF IInv, TypeOK
      <4> QED BY <1>1, <2>1, <3>1, <4>2, <4>3
    <3>3. posicion[o] + k \notin i .. i + Len(codigo) - 1
      <4>1. Len(codigo) \in Nat /\ posicion[o] + k \in Nat
        BY <3>1 DEF Celdas
      <4> QED BY <1>1, <3>2, <4>1
    <3> QED BY <1>1, <1>3, <1>4, <2>1, <3>1, <3>3 DEF Almacen
  <2>2. CASE ~(k < cantPaginas[o])
    BY <1>1, <1>4, <2>2 DEF Almacen
  <2> QED BY <2>1, <2>2
<1>5. /\ \A k \in 1 .. Len(codigo) : pags[k - 1] = codigo[k]
      /\ \A k \in Celdas : k >= n => pags[k] = Cero
      /\ pags \in [Celdas -> Contenidos]
  <2>1. pags = [k \in Celdas |-> IF k < n THEN swapFile'[i + k] ELSE Cero]
    BY <1>1 DEF Almacen
  <2>2. ASSUME NEW k \in 1 .. Len(codigo)
        PROVE  pags[k - 1] = codigo[k]
    <3>1. /\ k - 1 \in Celdas /\ k - 1 < n /\ i + (k - 1) \in Celdas
          /\ i + (k - 1) \in i .. i + Len(codigo) - 1
          /\ (i + (k - 1)) - i + 1 = k
      BY <1>1, CantidadAssumption DEF Celdas
    <3> QED BY <1>3, <2>1, <3>1
  <2>3. \A k \in Celdas : k >= n => pags[k] = Cero
    BY <2>1 DEF Celdas
  <2>4. pags \in [Celdas -> Contenidos]
    <3>1. AlmacenOK'
      BY AlmacenTipo, PTL
    <3> QED BY <3>1 DEF AlmacenOK
  <2> QED BY <2>2, <2>3, <2>4
<1>6. Almacen' = [Almacen EXCEPT ![id] = pags]
  <2> DEFINE otro == [Almacen EXCEPT ![id] = pags]
  <2>1. \A o \in Ids : Almacen'[o] = otro[o]
    <3>1. ASSUME NEW o \in Ids, o # id PROVE Almacen'[o] = Almacen[o]
      BY <1>4, <3>1 DEF Almacen
    <3> QED BY <3>1 DEF Almacen
  <2> QED BY <2>1 DEF Almacen
<1>7. Libres' = Libres - n
  <2> DEFINE Nueva == i .. i + n - 1
  <2>1. Ocupadas' = Ocupadas \union Nueva
    <3>1. \A o \in lista_procesos : posicion'[o] = posicion[o]
                                    /\ cantPaginas'[o] = cantPaginas[o]
      BY <1>1
    <3>2. posicion'[id] = i /\ cantPaginas'[id] = n
      BY <1>1
    <3> QED BY <1>1, <3>1, <3>2 DEF Ocupadas, Region
  <2>2. Ocupadas \intersect Nueva = {}
    <3>1. RegionesDisjuntas'
      <4>1. TypeOK' /\ Separadas'
        BY DEF IInv
      <4> QED BY <4>1, SeparadasDisjuntas, PTL
    <3> QED BY <1>1, <3>1 DEF RegionesDisjuntas, Region, Ocupadas
  <2>3. IsFiniteSet(Nueva) /\ Cardinality(Nueva) = n
    BY <1>1, TamanoDeRegion
  <2> HIDE DEF Nueva
  <2>4. Cardinality(Ocupadas \union Nueva)
          = Cardinality(Ocupadas) + Cardinality(Nueva) - Cardinality({})
    BY <2>2, <2>3, OcupadasFinitas, FS_Union
  <2>5. Cardinality(Ocupadas') = Cardinality(Ocupadas) + n
    BY <2>1, <2>3, <2>4, FS_EmptySet, OcupadasFinitas
  <2>6. LibresOK'
    BY LibresCuenta, PTL
  <2> QED BY <2>5, <2>6, LibresCuenta, OcupadasFinitas, CantidadAssumption DEF LibresOK
<1>8. ultimo' = Intercambio("NUEVO_PROGRAMA", id, n, codigo, "OK")
  BY DEF Agregar
<1> QED BY <1>1, <1>2, <1>5, <1>6, <1>7, <1>8
        DEF Abs!Admitir, Abs!Intercambio, Intercambio, Libres, Abs!Celdas, Celdas

\* moverProcesos changes no page of anybody: a step of compactar() is a stutter.
LEMMA MoverTartamudea ==
  ASSUME IInv, IInv', NEW id \in Ids, MoverProceso(id)
  PROVE  UNCHANGED Abs!vars
<1> DEFINE n == cantPaginas[id]
           hacia == primerPosicionVacia
<1>1. /\ id \in lista_procesos /\ id \notin movidos /\ fase = "compactando"
      /\ n \in Nat /\ hacia \in Nat /\ posicion[id] \in Nat
      /\ hacia <= posicion[id]
      /\ \A o \in lista_procesos \ movidos : posicion[id] <= posicion[o]
      /\ \A o \in Ids : posicion'[o] = IF o = id THEN hacia ELSE posicion[o]
      /\ UNCHANGED <<lista_procesos, cantPaginas, ultimo>>
      /\ \A c \in Celdas : swapFile'[c] = IF c \in hacia .. hacia + n - 1
                                          THEN swapFile[posicion[id] + (c - hacia)]
                                          ELSE swapFile[c]
  BY DEF MoverProceso, EsSiguiente, Mover, IInv, TypeOK, NoPisaPendientes
<1>2. ASSUME NEW o \in Ids, NEW k \in Celdas
      PROVE  Almacen'[o][k] = Almacen[o][k]
  <2>1. CASE k < cantPaginas[o] /\ o = id
    <3>1. /\ k \in Nat /\ hacia + k \in Celdas /\ hacia + k \in hacia .. hacia + n - 1
          /\ (hacia + k) - hacia = k
      BY <1>1, <2>1, PaginaEnCelda, CantidadAssumption DEF Celdas
    <3> QED BY <1>1, <2>1, <3>1 DEF Almacen
  <2>2. CASE k < cantPaginas[o] /\ o # id
    <3>1. /\ o \in lista_procesos /\ k \in Nat /\ posicion[o] + k \in Celdas
      BY <2>2, PaginaEnCelda DEF Celdas
    <3>2. posicion[o] + k \notin hacia .. hacia + n - 1
      <4>1. /\ id \in lista_procesos' /\ o \in lista_procesos'
            /\ posicion'[id] = hacia /\ posicion'[o] = posicion[o]
            /\ cantPaginas' = cantPaginas
        BY <1>1, <2>2, <3>1
      <4>2. \/ hacia + n <= posicion[o]
            \/ posicion[o] + cantPaginas[o] <= hacia
        BY <2>2, <4>1 DEF IInv, Separadas, Fin
      <4>3. posicion[o] \in Nat /\ cantPaginas[o] \in Nat
        BY DEF IInv, TypeOK
      <4> QED BY <1>1, <2>2, <3>1, <4>2, <4>3
    <3> QED BY <1>1, <2>2, <3>1, <3>2 DEF Almacen
  <2>3. CASE ~(k < cantPaginas[o])
    BY <1>1, <2>3 DEF Almacen
  <2> QED BY <2>1, <2>2, <2>3
<1>3. Almacen' = Almacen
  BY <1>2 DEF Almacen
<1>4. Libres' = Libres
  <2>1. LibresOK /\ LibresOK'
    <3>1. LibresOK'
      BY LibresCuenta, PTL
    <3> QED BY <3>1, LibresCuenta
  <2>2. Cardinality(Ocupadas') = Cardinality(Ocupadas)
    BY MoverOcupa
  <2> QED BY <2>1, <2>2 DEF LibresOK
<1> QED BY <1>1, <1>3, <1>4 DEF Abs!vars, Libres

\* So is a step that leaves alone the control list and the file.
LEMMA SinDatosTartamudea ==
  ASSUME UNCHANGED <<control, swapFile>>
  PROVE  Almacen' = Almacen /\ Libres' = Libres
BY DEF control, Almacen, Libres, Ocupadas, Region

\* Writing cell c writes page k of id and no other page, when c is that page.
LEMMA EscribirCelda ==
  ASSUME IInv, NEW id \in Ids, NEW k \in Nat, k < cantPaginas[id],
         NEW x \in Contenidos, UNCHANGED control,
         \A c \in Celdas : swapFile'[c] = IF c = posicion[id] + k THEN x ELSE swapFile[c]
  PROVE  Almacen' = [Almacen EXCEPT ![id][k] = x] /\ Libres' = Libres
<1> DEFINE despues == [Almacen EXCEPT ![id][k] = x]
<1>1. ASSUME NEW o \in Ids, NEW g \in Celdas
      PROVE  Almacen'[o][g] = IF o = id /\ g = k THEN x ELSE Almacen[o][g]
  <2>1. CASE g < cantPaginas[o]
    <3>1. g \in Nat
      BY DEF Celdas
    <3>2. posicion[o] + g \in Celdas
      BY <2>1, <3>1, PaginaEnCelda
    <3>3. posicion[o] + g = posicion[id] + k <=> o = id /\ g = k
      BY <2>1, <3>1, PaginaUnica
    <3>4. Almacen'[o][g] = swapFile'[posicion[o] + g]
      BY <2>1 DEF Almacen, control
    <3>5. Almacen[o][g] = swapFile[posicion[o] + g]
      BY <2>1 DEF Almacen
    <3> QED BY <3>2, <3>3, <3>4, <3>5
  <2>2. CASE ~(g < cantPaginas[o])
    BY <2>2 DEF Almacen, control
  <2> QED BY <2>1, <2>2
<1>3. ASSUME NEW o \in Ids
      PROVE  Almacen'[o] = IF o = id THEN [Almacen[id] EXCEPT ![k] = x] ELSE Almacen[o]
  <2>1. Almacen'[o] \in [Celdas -> {Almacen'[o][g] : g \in Celdas}]
    BY DEF Almacen
  <2>2. Almacen[o] \in [Celdas -> {Almacen[o][g] : g \in Celdas}]
    BY DEF Almacen
  <2>3. CASE o = id
    BY <1>1, <2>1, <2>2, <2>3
  <2>4. CASE o # id
    BY <1>1, <2>1, <2>2, <2>4
  <2> QED BY <2>3, <2>4
<1>4. Almacen' = despues
  BY <1>3 DEF Almacen
<1>5. Libres' = Libres
  BY DEF control, Libres, Ocupadas, Region
<1> QED BY <1>4, <1>5

\* Below 128 the swap stores the pid itself.
LEMMA PidsSonIds ==
  ASSUME SinDesbordes
  PROVE  \A p \in Pids : Char(p) = p /\ p \in Ids
<1>1. ASSUME NEW p \in Pids PROVE Char(p) = p
  <2>1. p + 128 \in 128 .. 255
    BY DEF SinDesbordes
  <2>2. (p + 128) % 256 = p + 128
    BY <2>1
  <2> QED BY <2>1, <2>2 DEF Char, SinDesbordes
<1> QED BY <1>1, CharEnIds

-----------------------------------------------------------------------------
(* The specification *)

\* An empty file has no pages of anybody.
LEMMA InicioRefina == Init => Abs!Init
<1> SUFFICES ASSUME Init PROVE Abs!Init OBVIOUS
<1>1. cantPaginas = [id \in Ids |-> 0] /\ lista_procesos = {}
  BY DEF Init
<1>2. Almacen = [id \in Ids |-> [k \in Celdas |-> Cero]]
  <2>1. ASSUME NEW id \in Ids, NEW k \in Celdas PROVE ~(k < cantPaginas[id])
    BY <1>1 DEF Celdas
  <2> QED BY <2>1 DEF Almacen
<1>3. Libres = CANTIDAD_PAGINAS
  <2>1. Celdas \ Ocupadas = Celdas
    BY <1>1 DEF Ocupadas
  <2>2. Cardinality(Celdas) = CANTIDAD_PAGINAS
    BY InicioCumple, OcupadasFinitas
  <2> QED BY <2>1, <2>2 DEF Libres
<1>4. ultimo = Intercambio("NINGUNO", 0, 0, Cero, "OK")
  BY DEF Init
<1> QED BY <1>1, <1>2, <1>3, <1>4
        DEF Abs!Init, Abs!Celdas, Celdas, Abs!Intercambio, Intercambio, Libres

\* The request that waits does not change until it is served.
LEMMA PasoPedido == PedidoEnPie /\ [Next]_vars => PedidoEnPie'
<1> SUFFICES ASSUME PedidoEnPie, [Next]_vars PROVE PedidoEnPie' OBVIOUS
<1>1. ASSUME NEW p \in Pids, NEW n \in Paginas, NEW codigo \in Codigos,
             EmpezarCompactacion(p, n, codigo)
      PROVE  PedidoEnPie'
  <2>1. pedido'.pags = n /\ pedido'.codigo = codigo
    BY <1>1 DEF EmpezarCompactacion
  <2>2. Len(codigo) <= n
    BY <1>1, PaginasAssumption, ContenidosAssumption DEF EmpezarCompactacion, PedidoNuevo
  <2> QED BY <2>1, <2>2 DEF PedidoEnPie
<1>2. ASSUME UNCHANGED <<fase, pedido>> PROVE PedidoEnPie'
  BY <1>2 DEF PedidoEnPie
<1>3. ASSUME fase' # "compactando" PROVE PedidoEnPie'
  BY <1>3 DEF PedidoEnPie
<1>4. ASSUME NEW p \in Pids, NEW n \in Paginas, NEW codigo \in Codigos,
             \/ NuevoProgramaContiguo(p, n, codigo)
             \/ NuevoProgramaSinLugar(p, n, codigo)
      PROVE  UNCHANGED <<fase, pedido>>
  BY <1>4 DEF NuevoProgramaContiguo, NuevoProgramaSinLugar, compactacion
<1>5. ASSUME NEW p \in Pids, NEW k \in Celdas, NEW x \in Contenidos,
             \/ LeerPagina(p, k) \/ LeerPaginaDesconocida(p, k)
             \/ EscribirPagina(p, k, x) \/ EscribirPaginaDesconocida(p, k, x)
             \/ FinalizarPrograma(p) \/ FinalizarDesconocido(p)
      PROVE  UNCHANGED <<fase, pedido>>
  BY <1>5 DEF LeerPagina, LeerPaginaDesconocida, EscribirPagina,
              EscribirPaginaDesconocida, FinalizarPrograma, FinalizarDesconocido,
              compactacion
<1>6. ASSUME NEW id \in Ids, MoverProceso(id) PROVE UNCHANGED <<fase, pedido>>
  BY <1>6 DEF MoverProceso
<1>7. ASSUME FinCompactacion \/ DesconexionUmc PROVE fase' # "compactando"
  BY <1>7 DEF FinCompactacion, DesconexionUmc
<1>8. CASE Terminado \/ UNCHANGED vars
  BY <1>2, <1>8 DEF Terminado, vars, compactacion
<1>9. Cero \in Contenidos /\ 0 \in Celdas
  BY ContenidosAssumption, CantidadAssumption DEF Celdas
<1> QED BY <1>1, <1>2, <1>3, <1>4, <1>5, <1>6, <1>7, <1>8, <1>9 DEF Next, Compactar

\* Every step of the swap is a step of SwapAbs, or none.
LEMMA PasoRefina ==
  ASSUME SinDesbordes, IInv, IInv', Cuenta, PedidoEnPie, [Next]_vars
  PROVE  [Abs!Next]_(Abs!vars)
<1> USE DEF Abs!Next
<1>1. ASSUME NEW p \in Pids, NEW n \in Paginas, NEW codigo \in Codigos,
             NuevoProgramaContiguo(p, n, codigo)
      PROVE  Abs!Next
  <2>1. PICK i \in Celdas : EncuentraEspacio(i, n) /\ Agregar(i, Char(p), n, codigo)
    BY <1>1 DEF NuevoProgramaContiguo
  <2>2. /\ Char(p) \in Ids /\ Char(p) \notin lista_procesos
        /\ n \in Nat \ {0} /\ codigo \in Seq(Contenidos) /\ Len(codigo) <= n
        /\ n <= Libres
    BY <1>1, CharEnIds, PaginasAssumption, ContenidosAssumption, LibresCuenta
       DEF NuevoProgramaContiguo, PedidoNuevo, HayPaginasLibres
  <2>3. Abs!Admitir(Char(p), n, codigo)
    BY <2>1, <2>2, AgregarAdmite DEF EncuentraEspacio
  <2> QED BY <2>2, <2>3
<1>2. ASSUME NEW p \in Pids, NEW n \in Paginas, NEW codigo \in Codigos,
             NuevoProgramaSinLugar(p, n, codigo)
      PROVE  Abs!Next
  <2>1. /\ UNCHANGED <<control, swapFile, cantPaginas>> /\ fase = "espera"
        /\ ~(n <= Libres)
        /\ ultimo' = Intercambio("NUEVO_PROGRAMA", Char(p), n, codigo, "NO_OK")
    BY <1>2, LibresCuenta DEF NuevoProgramaSinLugar, HayPaginasLibres, control
  <2>2. n \in Nat /\ Libres \in Int
    BY PaginasAssumption, LibresCuenta, OcupadasFinitas, CantidadAssumption DEF LibresOK
  <2>3. Abs!Rechazar(Char(p), n, codigo)
    BY <2>1, <2>2, SinDatosTartamudea DEF Abs!Rechazar, Abs!Intercambio, Intercambio,
                                          Libres
  <2> QED BY <2>3, CharEnIds
<1>3. ASSUME NEW p \in Pids, NEW n \in Paginas, NEW codigo \in Codigos,
             EmpezarCompactacion(p, n, codigo)
      PROVE  UNCHANGED Abs!vars
  BY <1>3, SinDatosTartamudea DEF EmpezarCompactacion, control, Abs!vars, Libres
<1>4. ASSUME NEW id \in Ids, MoverProceso(id)
      PROVE  UNCHANGED Abs!vars
  BY <1>4, MoverTartamudea
<1>5. ASSUME FinCompactacion
      PROVE  Abs!Next
  <2>1. PICK i \in Celdas : /\ EncuentraEspacio(i, pedido.pags)
                            /\ Agregar(i, pedido.id, pedido.pags, pedido.codigo)
    BY <1>5 DEF FinCompactacion
  <2>2. /\ pedido.id \in Ids /\ pedido.id \notin lista_procesos
        /\ pedido.pags \in Nat \ {0} /\ pedido.codigo \in Seq(Contenidos)
        /\ Len(pedido.codigo) <= pedido.pags
        /\ pedido.pags \in Paginas /\ pedido.codigo \in Codigos
    BY <1>5, ContenidosAssumption
       DEF FinCompactacion, IInv, TypeOK, CompactacionEnOrden, PedidoEnPie
  <2>3. pedido.pags <= Libres
    BY <1>5, <2>2, LibresCuenta, OcupadasFinitas, CantidadAssumption
       DEF FinCompactacion, Cuenta, LibresOK
  <2>4. Abs!Admitir(pedido.id, pedido.pags, pedido.codigo)
    BY <2>1, <2>2, <2>3, AgregarAdmite DEF EncuentraEspacio
  <2> QED BY <2>2, <2>4
<1>6. ASSUME NEW p \in Pids, NEW k \in Celdas, LeerPagina(p, k)
      PROVE  Abs!Next
  <2>1. /\ UNCHANGED <<control, swapFile, cantPaginas>>
        /\ p \in Ids /\ k \in 0 .. cantPaginas[p] - 1
        /\ ultimo' = Intercambio("LECTURA_PAGINA", p, k, swapFile[posicion[p] + k],
                                 "BUFFER_LEIDO")
    BY <1>6, PidsSonIds DEF LeerPagina, PaginaValida, control
  <2>2. Almacen[p][k] = swapFile[posicion[p] + k]
    BY <2>1 DEF Almacen, IInv, TypeOK
  <2>3. Abs!Leer(p, k)
    BY <2>1, <2>2, SinDatosTartamudea DEF Abs!Leer, Abs!Intercambio, Intercambio, Libres
  <2> QED BY <2>1, <2>3 DEF Abs!Celdas, Celdas
<1>7. ASSUME NEW p \in Pids, NEW k \in Celdas, LeerPaginaDesconocida(p, k)
      PROVE  Abs!Next
  <2>1. /\ UNCHANGED <<control, swapFile, cantPaginas>>
        /\ p \in Ids /\ cantPaginas[p] = 0
        /\ ultimo' = Intercambio("LECTURA_PAGINA", p, k, Cero, "NO_OK")
    BY <1>7, PidsSonIds DEF LeerPaginaDesconocida, control, IInv, TypeOK
  <2>2. Abs!LeerDesconocido(p, k)
    BY <2>1, SinDatosTartamudea
       DEF Abs!LeerDesconocido, Abs!Intercambio, Intercambio, Libres
  <2> QED BY <2>1, <2>2 DEF Abs!Celdas, Celdas
<1>8. ASSUME NEW p \in Pids, NEW k \in Celdas, NEW x \in Contenidos,
             EscribirPagina(p, k, x)
      PROVE  Abs!Next
  <2>1. /\ UNCHANGED control /\ UNCHANGED cantPaginas
        /\ p \in Ids /\ k \in 0 .. cantPaginas[p] - 1 /\ k \in Nat
        /\ k < cantPaginas[p]
        /\ \A c \in Celdas : swapFile'[c] = IF c = posicion[p] + k THEN x ELSE swapFile[c]
        /\ ultimo' = Intercambio("ESCRITURA_PAGINA", p, k, x, "OK")
    BY <1>8, PidsSonIds DEF EscribirPagina, PaginaValida, control, IInv, TypeOK
  <2>2. Almacen' = [Almacen EXCEPT ![p][k] = x] /\ Libres' = Libres
    BY <2>1, EscribirCelda
  <2>3. Abs!Escribir(p, k, x)
    BY <2>1, <2>2 DEF Abs!Escribir, Abs!Intercambio, Intercambio, Libres
  <2> QED BY <2>1, <2>3 DEF Abs!Celdas, Celdas
<1>9. ASSUME NEW p \in Pids, NEW k \in Celdas, NEW x \in Contenidos,
             EscribirPaginaDesconocida(p, k, x)
      PROVE  Abs!Next
  <2>1. /\ UNCHANGED control /\ UNCHANGED cantPaginas /\ ~UmcAlDia
        /\ p \in Ids /\ cantPaginas[p] = 0
        /\ swapFile' = [c \in Celdas |-> IF c = cursor THEN x ELSE swapFile[c]]
        /\ ultimo' = Intercambio("ESCRITURA_PAGINA", p, k, x, "OK")
    BY <1>9, PidsSonIds DEF EscribirPaginaDesconocida, control, IInv, TypeOK
  <2>2. CASE \E otro \in Ids : \E g \in 0 .. cantPaginas[otro] - 1 :
                cursor = posicion[otro] + g
    <3>0. PICK otro \in Ids : \E g \in 0 .. cantPaginas[otro] - 1 :
            cursor = posicion[otro] + g
      BY <2>2
    <3>1. PICK g \in 0 .. cantPaginas[otro] - 1 : cursor = posicion[otro] + g
      BY <3>0
    <3>2. g \in Nat /\ g < cantPaginas[otro]
      BY DEF IInv, TypeOK
    <3>3. Almacen' = [Almacen EXCEPT ![otro][g] = x] /\ Libres' = Libres
      BY <2>1, <3>1, <3>2, EscribirCelda
    <3>4. Abs!EscribirDesconocido(p, k, x)
      BY <2>1, <3>3 DEF Abs!EscribirDesconocido, Abs!Intercambio, Intercambio, Libres
    <3> QED BY <2>1, <3>4 DEF Abs!Celdas, Celdas
  <2>3. CASE \A otro \in Ids : \A g \in 0 .. cantPaginas[otro] - 1 :
                cursor # posicion[otro] + g
    <3>1. ASSUME NEW o \in Ids, NEW g \in Celdas
          PROVE  Almacen'[o][g] = Almacen[o][g]
      <4>1. CASE g < cantPaginas[o]
        <5>1. g \in Nat /\ g \in 0 .. cantPaginas[o] - 1
          BY <4>1 DEF Celdas, IInv, TypeOK
        <5>2. posicion[o] + g \in Celdas /\ posicion[o] + g # cursor
          BY <2>3, <4>1, <5>1, PaginaEnCelda
        <5> QED BY <2>1, <4>1, <5>2 DEF Almacen, control
      <4>2. CASE ~(g < cantPaginas[o])
        BY <2>1, <4>2 DEF Almacen
      <4> QED BY <4>1, <4>2
    <3>2. Almacen' = Almacen
      BY <3>1 DEF Almacen
    <3>3. Libres' = Libres
      BY <2>1 DEF control, Libres, Ocupadas, Region
    <3>4. Abs!EscribirDesconocido(p, k, x)
      BY <2>1, <3>2, <3>3 DEF Abs!EscribirDesconocido, Abs!Intercambio, Intercambio, Libres
    <3> QED BY <2>1, <3>4 DEF Abs!Celdas, Celdas
  <2> QED BY <2>2, <2>3
<1>10. ASSUME NEW p \in Pids, FinalizarPrograma(p)
       PROVE  Abs!Next
  <2> DEFINE vacias == [k \in Celdas |-> Cero]
  <2>1. /\ p \in Ids /\ p \in lista_procesos /\ lista_procesos \subseteq Ids
        /\ lista_procesos' = lista_procesos \ {p}
        /\ cantPaginas' = [cantPaginas EXCEPT ![p] = 0]
        /\ \A o \in Ids : posicion'[o] = IF o = p THEN 0 ELSE posicion[o]
        /\ \A o \in Ids : cantPaginas'[o] = IF o = p THEN 0 ELSE cantPaginas[o]
        /\ swapFile' = swapFile
        /\ cantPaginas[p] \in Nat /\ cantPaginas[p] > 0 /\ posicion[p] \in Nat
        /\ ultimo' = Intercambio("FINALIZA_PROGRAMA", p, 0, Cero, "OK")
    BY <1>10, PidsSonIds DEF FinalizarPrograma, IInv, TypeOK
  <2>2. Almacen' = [Almacen EXCEPT ![p] = vacias]
    <3>1. \A k \in Celdas : ~(k < 0)
      BY DEF Celdas
    <3>2. ASSUME NEW o \in Ids
          PROVE  Almacen'[o] = IF o = p THEN vacias ELSE Almacen[o]
      BY <2>1, <3>1 DEF Almacen
    <3> QED BY <3>2 DEF Almacen
  <2>3. Libres' = Libres + cantPaginas[p]
    <3> DEFINE Suyas == posicion[p] .. posicion[p] + cantPaginas[p] - 1
    <3>1. Ocupadas = Ocupadas' \union Suyas
      BY <2>1 DEF Ocupadas, Region
    <3>2. Ocupadas' \intersect Suyas = {}
      BY <2>1, SeparadasDisjuntas DEF IInv, RegionesDisjuntas, Ocupadas, Region
    <3>3. IsFiniteSet(Suyas) /\ Cardinality(Suyas) = cantPaginas[p]
      BY <2>1, TamanoDeRegion
    <3> HIDE DEF Suyas
    <3>4. IsFiniteSet(Ocupadas') /\ Cardinality(Ocupadas') \in Nat
      <4>1. Ocupadas' \in SUBSET Ocupadas
        BY <3>1
      <4> QED BY <4>1, OcupadasFinitas, FS_Subset, FS_CardinalityType
    <3>5. Cardinality(Ocupadas' \union Suyas)
            = Cardinality(Ocupadas') + Cardinality(Suyas) - Cardinality({})
      BY <3>2, <3>3, <3>4, FS_Union
    <3>6. Cardinality(Ocupadas) = Cardinality(Ocupadas') + cantPaginas[p]
      BY <3>1, <3>3, <3>4, <3>5, <2>1, FS_EmptySet
    <3>7. LibresOK'
      BY LibresCuenta, PTL
    <3> QED BY <2>1, <3>4, <3>6, <3>7, LibresCuenta, CantidadAssumption DEF LibresOK
  <2>4. Abs!Finalizar(p)
    BY <2>1, <2>2, <2>3
       DEF Abs!Finalizar, Abs!Intercambio, Intercambio, Libres, Abs!Celdas, Celdas
  <2> QED BY <2>1, <2>4
<1>11. ASSUME NEW p \in Pids, FinalizarDesconocido(p)
       PROVE  Abs!Next
  <2>1. /\ UNCHANGED <<control, swapFile, cantPaginas>>
        /\ p \in Ids /\ cantPaginas[p] = 0
        /\ ultimo' = Intercambio("FINALIZA_PROGRAMA", p, 0, Cero, "NO_OK")
    BY <1>11, PidsSonIds DEF FinalizarDesconocido, control, IInv, TypeOK
  <2>2. Abs!FinalizarDesconocido(p)
    BY <2>1, SinDatosTartamudea
       DEF Abs!FinalizarDesconocido, Abs!Intercambio, Intercambio, Libres
  <2> QED BY <2>1, <2>2
<1>12. ASSUME DesconexionUmc \/ Terminado \/ UNCHANGED vars
       PROVE  UNCHANGED Abs!vars
  BY <1>12, SinDatosTartamudea DEF DesconexionUmc, Terminado, vars, control, Abs!vars,
                                   Libres
<1> HIDE DEF Abs!Next
<1> QED BY <1>1, <1>2, <1>3, <1>4, <1>5, <1>6, <1>7, <1>8, <1>9, <1>10, <1>11, <1>12
        DEF Next, Compactar

\* The swap is the memory of private pages that SwapAbs describes, wherever
\* compactar() has put them.  The hypothesis names the two places where the code
\* does not keep the promise: a text that fills its last page, and the char that
\* carries a pid.
THEOREM Implementa == SinDesbordes => (Spec => ImplementaAbs)
<1> SUFFICES ASSUME SinDesbordes PROVE Spec => ImplementaAbs
  OBVIOUS
<1>1. Init => Cuenta /\ PedidoEnPie
  BY DEF Init, Cuenta, PedidoEnPie
<1>2. IInv /\ IInv' /\ Cuenta /\ PedidoEnPie /\ [Next]_vars => [Abs!Next]_(Abs!vars)
  BY PasoRefina
<1> QED BY <1>1, <1>2, InicioCumple, InicioRefina, PasoPreserva, PasoCuenta, PasoPedido,
           PTL DEF Spec, ImplementaAbs, Abs!Spec
=============================================================================
