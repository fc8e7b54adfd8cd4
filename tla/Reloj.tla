------------------------------- MODULE Reloj --------------------------------
(***************************************************************************)
(* What the two replacement algorithms of the UMC choose                   *)
(* (umc/src/estructuras_umc.c, elegir_victima_clock and                    *)
(* elegir_victima_clock_m), said without their loops: the victim, the bits *)
(* of use that are left, and where the hand (manecilla) stops.  RelojBucle *)
(* has the loops, and checks that they compute this.                       *)
(*                                                                         *)
(* A page table is a function from 0 .. n-1 to entries with the fields     *)
(* presencia, uso and modificado.                                          *)
(***************************************************************************)
EXTENDS Integers, FiniteSets

Presentes(tabla) == {p \in DOMAIN tabla : tabla[p].presencia}
SinUso(tabla) == {p \in Presentes(tabla) : ~tabla[p].uso}
Limpias(tabla) == {p \in Presentes(tabla) : ~tabla[p].modificado}

\* incrementarManecilla.
Avanzar(tabla, m) == IF m + 1 = Cardinality(DOMAIN tabla) THEN 0 ELSE m + 1

\* p comes before q for a hand that stands at m: the pages from m to the end,
\* then those from 0 on.
Antes(m, p, q) == IF (p >= m) = (q >= m) THEN p < q ELSE p >= m

\* The page of the set S that the hand meets first.
Primera(S, m) == CHOOSE p \in S : \A q \in S \ {p} : Antes(m, p, q)

\* CLOCK: the first present page not in use; when all are, the first one, after
\* a whole turn that clears every bit.
VictimaClock(tabla, m) ==
  Primera(IF SinUso(tabla) # {} THEN SinUso(tabla) ELSE Presentes(tabla), m)

\* CLOCK-M: classes (uso, modificado) = 00, 01, and after a turn that clears
\* the bits of use the same two classes again.
VictimaClockM(tabla, m) ==
  LET candidatas == IF SinUso(tabla) # {} THEN SinUso(tabla) ELSE Presentes(tabla)
      limpias == candidatas \intersect Limpias(tabla)
  IN  Primera(IF limpias # {} THEN limpias ELSE candidatas, m)

\* The present pages that lose their bit of use (their "segunda oportunidad").
\* CLOCK-M clears none while it looks for a page of class 00.
Pasadas(tabla, m, esClockM) ==
  IF SinUso(tabla) = {} THEN Presentes(tabla)
  ELSE IF esClockM /\ SinUso(tabla) \intersect Limpias(tabla) # {} THEN {}
  ELSE {p \in Presentes(tabla) :
          Antes(m, p, IF esClockM THEN VictimaClockM(tabla, m)
                                  ELSE VictimaClock(tabla, m))}

Victima(tabla, m, esClockM) ==
  IF esClockM THEN VictimaClockM(tabla, m) ELSE VictimaClock(tabla, m)

\* The table as the search leaves it.
TrasElegir(tabla, m, esClockM) ==
  [p \in DOMAIN tabla |->
     [tabla[p] EXCEPT !.uso = @ /\ p \notin Pasadas(tabla, m, esClockM)]]

ManecillaTrasElegir(tabla, m, esClockM) ==
  Avanzar(tabla, Victima(tabla, m, esClockM))
=============================================================================
