----------------------------- MODULE RelojBucle -----------------------------
(***************************************************************************)
(* The loops of elegir_victima_clock (estructuras_umc.c:276-324) and       *)
(* elegir_victima_clock_m (:326-418), one action per iteration, on every   *)
(* page table of N pages.                                                  *)
(***************************************************************************)
EXTENDS Reloj

CONSTANT N     \* pages of the process

ASSUME NAssumption == N \in Nat \ {0}

Paginas == 0 .. N - 1
Entradas == [presencia : BOOLEAN, uso : BOOLEAN, modificado : BOOLEAN]

VARIABLES esClockM, tabla, manecilla,
          bucle,             \* "uno": the while of CLOCK or the first for of
                             \*   CLOCK-M; "dos": its second for; "fin"
          cantidad_entradas, \* the counter of both for loops
          victima,           \* entrada_pag_victima
          alEntrar           \* history: the table and the hand at the call

vars == <<esClockM, tabla, manecilla, bucle, cantidad_entradas, victima,
          alEntrar>>

\* reemplazarPagina is called for a process with at least one page in memory;
\* a page that left memory had lost its bit of use.
Init == /\ esClockM \in BOOLEAN
        /\ tabla \in [Paginas -> {e \in Entradas : e.uso => e.presencia}]
        /\ Presentes(tabla) # {}
        /\ manecilla \in Paginas
        /\ bucle = "uno" /\ cantidad_entradas = 0 /\ victima = 0
        /\ alEntrar = [tabla |-> tabla, manecilla |-> manecilla]

\* The entry under the hand.
actual == tabla[manecilla]

\* Mutation: the hand stays on the victim.
ElegirSinAvanzar ==
  /\ victima' = manecilla /\ bucle' = "fin"
  /\ UNCHANGED <<esClockM, tabla, manecilla, cantidad_entradas, alEntrar>>

\* encontro_pag_victima = true, and the hand moves on.
Elegir == /\ victima' = manecilla
          /\ bucle' = "fin"
          /\ manecilla' = Avanzar(tabla, manecilla)
          /\ UNCHANGED <<esClockM, tabla, cantidad_entradas, alEntrar>>

\* Go past the page, clearing its bit of use or not, to the next iteration.
Seguir(despejar, cantidad, siguiente) ==
  /\ tabla' = IF despejar THEN [tabla EXCEPT ![manecilla].uso = FALSE] ELSE tabla
  /\ manecilla' = Avanzar(tabla, manecilla)
  /\ victima' = manecilla
  /\ cantidad_entradas' = cantidad /\ bucle' = siguiente
  /\ UNCHANGED <<esClockM, alEntrar>>

\* The while of CLOCK.
IterarClock ==
  /\ ~esClockM /\ bucle = "uno"
  /\ \/ actual.presencia /\ ~actual.uso /\ Elegir
     \/ ~(actual.presencia /\ ~actual.uso) /\ Seguir(actual.presencia, 0, "uno")

\* Mutation: the first for also clears the bits of use.
PrimerForDespejando ==
  /\ esClockM /\ bucle = "uno"
  /\ IF actual.presencia /\ ~actual.uso /\ ~actual.modificado
     THEN Elegir
     ELSE IF cantidad_entradas + 1 < N THEN Seguir(actual.presencia, cantidad_entradas + 1, "uno")
     ELSE Seguir(actual.presencia, 0, "dos")

\* CLOCK-M, first for: uso 0, modificado 0.
PrimerFor ==
  /\ esClockM /\ bucle = "uno"
  /\ LET elegible == actual.presencia /\ ~actual.uso /\ ~actual.modificado
     IN  \/ elegible /\ Elegir
         \/ /\ ~elegible /\ cantidad_entradas + 1 < N
            /\ Seguir(FALSE, cantidad_entradas + 1, "uno")
         \/ /\ ~elegible /\ cantidad_entradas + 1 = N
            /\ Seguir(FALSE, 0, "dos")

\* Mutation: the second for gives no second chance.
SegundoForSinDespejar ==
  /\ esClockM /\ bucle = "dos"
  /\ IF actual.presencia /\ ~actual.uso /\ actual.modificado
     THEN Elegir
     ELSE IF cantidad_entradas + 1 < N THEN Seguir(FALSE, cantidad_entradas + 1, "dos")
     ELSE Seguir(FALSE, 0, "uno")

\* CLOCK-M, second for: uso 0, modificado 1.  The enclosing while then starts
\* the first for again.
SegundoFor ==
  /\ esClockM /\ bucle = "dos"
  /\ LET elegible == actual.presencia /\ ~actual.uso /\ actual.modificado
     IN  \/ elegible /\ Elegir
         \/ /\ ~elegible /\ cantidad_entradas + 1 < N
            /\ Seguir(actual.presencia, cantidad_entradas + 1, "dos")
         \/ /\ ~elegible /\ cantidad_entradas + 1 = N
            /\ Seguir(actual.presencia, 0, "uno")

Next == IterarClock \/ PrimerFor \/ SegundoFor

\* The loops run in one thread that nothing else waits for.
Spec == Init /\ [][Next]_vars /\ WF_vars(Next)

-----------------------------------------------------------------------------
(* Properties *)

\* The victim, the bits of use and the hand that the loops leave are those of
\* Reloj, the definition the model of the UMC uses.
EligeLaDelReloj ==
  bucle = "fin" =>
    LET t == alEntrar.tabla
        m == alEntrar.manecilla
    IN  /\ victima = Victima(t, m, esClockM)
        /\ tabla = TrasElegir(t, m, esClockM)
        /\ manecilla = ManecillaTrasElegir(t, m, esClockM)

\* CLOCK-M prefers: a page that was used leaves memory only when every page in
\* memory was used, and a modified one only when no page of its class of use is
\* clean (the order of the two for loops).
RespetaLasClases ==
  bucle = "fin" =>
    LET t == alEntrar.tabla
    IN  /\ t[victima].presencia
        /\ t[victima].uso => SinUso(t) = {}
        /\ esClockM /\ t[victima].modificado
             => \A p \in Limpias(t) : t[p].uso /\ ~t[victima].uso

\* Both searches end: one turn of the hand clears what keeps them going.
SiempreElige == <>(bucle = "fin")
=============================================================================
