----------------------------- MODULE AnsisopAbs -----------------------------
(***************************************************************************)
(* What an AnSISOP program is promised: functions with variables and       *)
(* arguments of their own, a place to return to, prints of what was last   *)
(* assigned, and an end when it has defined more than the stack holds.     *)
(* Variables and arguments have addresses, one after the other in the      *)
(* order they are defined, so that a program may compute one from another  *)
(* ("*&a+i"). Nothing of pages, serialised PCBs, quanta, or the CPU it      *)
(* happens to run on.                                                      *)
(***************************************************************************)
EXTENDS Integers, Sequences

CONSTANTS Letras,          \* names of variables
          Digitos,         \* names of arguments, in order
          Etiquetas,       \* instructions a label or a function stands for
          Valores,         \* what a variable can hold
          SinSalida,
          Punteros,        \* addresses the program may compute
          Base,            \* address of the first variable
          Capacidad,       \* definitions the stack has room for
          Inicio,          \* first instruction
          PuedeNegar       \* the memory may refuse the program

VARIABLES
  estado,    \* "corre", "desbordado" (in the line that overflowed),
             \*   "termino", "abortado" or "pisado" (it used a pointer
             \*   to nowhere: nothing is promised any more)
  pc,
  linea,     \* "fuera" (between lines), "libre", "variables", "argumentos"
             \*   or "hecha"
  marcos,    \* the function calls: [nombres, argumentos, vuelve, destino],
             \*   nombres gives the address of each name, destino that of
             \*   what the caller wants the result in
  celdas,    \* what each address holds
  usadas,    \* definitions made so far
  salida,    \* what the line printed
  senal      \* the CPU was told to stop after this line (environment)

programa == <<estado, pc, linea, marcos, celdas, usadas, salida>>
vars == <<programa, senal>>

Direccion(n) == Base + 4 * n
Lugares == {Direccion(n) : n \in 0 .. Capacidad - 1}

Marco(vuelve, destino) ==
  [nombres |-> <<>>, argumentos |-> 0, vuelve |-> vuelve, destino |-> destino]

Init ==
  /\ estado = "corre"
  /\ pc = Inicio
  /\ linea = "fuera"
  /\ marcos = <<Marco(0, 0)>>
  /\ celdas \in [Lugares -> Valores]     \* what a variable holds first is
                                        \*   not promised
  /\ usadas = 0
  /\ salida = SinSalida
  /\ senal = FALSE

Actual == marcos[Len(marcos)]

\* An address the program can come by.
Alcanzable(dir) == dir \in {Actual.nombres[x] : x \in DOMAIN Actual.nombres} \union Punteros

\* The calls ms with x for the name of dir in the last one.
Con(ms, x, dir) ==
  [ms EXCEPT ![Len(ms)].nombres =
     [y \in DOMAIN @ \union {x} |-> IF y = x THEN dir ELSE @[y]]]

\* Only the address written changes.  One that is no place may spoil those it
\* overlaps, or any when it is out of the stack, or be the end of all promises.
Poner(dir, v) ==
  \/ /\ dir \in Lugares
     /\ celdas' = [celdas EXCEPT ![dir] = v]
     /\ UNCHANGED estado
  \/ /\ dir \notin Lugares
     /\ celdas' \in [Lugares -> Valores]
     /\ dir \in Base .. Direccion(Capacidad) - 1 =>
          \A l \in Lugares : l + 4 <= dir \/ dir + 4 <= l => celdas'[l] = celdas[l]
     /\ estado' \in {estado, "pisado"}

\* An instruction is read.
LeerLinea ==
  /\ estado = "corre" /\ linea = "fuera"
  /\ linea' = "libre"
  /\ pc' = pc + 1
  /\ salida' = SinSalida
  /\ UNCHANGED <<estado, marcos, celdas, usadas>>

\* A definition takes room that is never given back.  The one that does not fit
\* is the end of the program; what the line still defines is ignored.
HayLugar == estado = "corre" /\ usadas < Capacidad

Ocupar(nuevos) ==
  /\ HayLugar
  /\ marcos' = nuevos
  /\ usadas' = usadas + 1
  /\ UNCHANGED <<estado, pc, salida>>

Desbordar ==
  /\ usadas = Capacidad \/ estado = "desbordado"
  /\ estado' = "desbordado"
  /\ UNCHANGED <<pc, marcos, celdas, usadas, salida>>

\* variables x, y, ...
Definir(x) ==
  /\ linea \in {"libre", "variables"} /\ linea' = "variables"
  /\ \/ Ocupar(Con(marcos, x, Direccion(usadas))) /\ UNCHANGED celdas
     \/ Desbordar

\* The next argument of a call.
Argumento(v) ==
  /\ linea = "argumentos" /\ Actual.argumentos < Len(Digitos)
  /\ \/ /\ Ocupar([Con(marcos, Digitos[Actual.argumentos + 1], Direccion(usadas)) EXCEPT
                     ![Len(marcos)].argumentos = @ + 1])
        /\ celdas' = [celdas EXCEPT ![Direccion(usadas)] = v]
     \/ Desbordar
  /\ UNCHANGED linea

Ejecutar(fase) == estado = "corre" /\ linea = "libre" /\ linea' = fase

\* x = v, *p = v.
Asignar(dir, v) ==
  /\ Ejecutar("hecha") /\ Alcanzable(dir)
  /\ Poner(dir, v)
  /\ UNCHANGED <<pc, marcos, usadas, salida>>

\* print x, print *p.
Imprimir(dir) ==
  /\ Ejecutar("hecha") /\ Alcanzable(dir)
  /\ \/ dir \in Lugares /\ salida' = celdas[dir] /\ UNCHANGED estado
     \/ dir \notin Lugares /\ salida' \in Valores /\ UNCHANGED estado
     \/ dir \notin Lugares /\ estado' = "pisado" /\ UNCHANGED salida
  /\ UNCHANGED <<pc, marcos, celdas, usadas>>

\* Anything that neither touches the variables nor jumps.
Nada == Ejecutar("hecha") /\ UNCHANGED <<estado, pc, marcos, celdas, usadas, salida>>

\* io and wait: the program goes on later, as it was.
Bloquearse == Ejecutar("fuera") /\ UNCHANGED <<estado, pc, marcos, celdas, usadas, salida>>

\* goto, jz, jnz.
Saltar(etiqueta) ==
  /\ Ejecutar("hecha")
  /\ pc' = etiqueta
  /\ UNCHANGED <<estado, marcos, celdas, usadas, salida>>

\* x <- etiqueta ..., *p <- etiqueta ...; the arguments follow.
Llamar(etiqueta, dir) ==
  /\ Ejecutar("argumentos") /\ Alcanzable(dir)
  /\ marcos' = Append(marcos, Marco(pc, dir))
  /\ pc' = etiqueta
  /\ UNCHANGED <<estado, celdas, usadas, salida>>

\* return v: what the caller named gets v.
Retornar(v) ==
  /\ Ejecutar("hecha") /\ Len(marcos) > 1
  /\ Poner(Actual.destino, v)
  /\ marcos' = SubSeq(marcos, 1, Len(marcos) - 1)
  /\ pc' = Actual.vuelve
  /\ UNCHANGED <<usadas, salida>>

\* end.
Terminar ==
  /\ Ejecutar("fuera")
  /\ estado' = "termino"
  /\ UNCHANGED <<pc, marcos, celdas, usadas, salida>>

\* The line is over.  A program that overflowed ends here, unless its CPU stops
\* with the same line: then it goes on without what it could not define.
FinLinea ==
  /\ linea \in {"variables", "argumentos", "hecha"}
  /\ linea' = "fuera"
  /\ estado' = IF estado = "desbordado" /\ ~senal THEN "abortado" ELSE "corre"
  /\ UNCHANGED <<pc, marcos, celdas, usadas, salida>>

\* The instruction could not be read.
Rechazar ==
  /\ PuedeNegar /\ estado = "corre" /\ linea = "fuera"
  /\ estado' = "abortado"
  /\ UNCHANGED <<pc, linea, marcos, celdas, usadas, salida>>

Sigue ==
  \/ LeerLinea \/ Nada \/ Bloquearse \/ Terminar \/ FinLinea \/ Rechazar
  \/ \E x \in Letras : Definir(x)
  \/ \E dir \in Lugares \union Punteros :
       Imprimir(dir) \/ \E e \in Etiquetas : Llamar(e, dir)
  \/ \E e \in Etiquetas : Saltar(e)
  \/ \E v \in Valores : \/ Argumento(v) \/ Retornar(v)
                        \/ \E dir \in Lugares \union Punteros : Asignar(dir, v)

Next == senal' \in BOOLEAN /\ (Sigue \/ UNCHANGED programa)

Spec == Init /\ [][Next]_vars
=============================================================================
