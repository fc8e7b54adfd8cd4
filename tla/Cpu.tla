-------------------------------- MODULE Cpu ---------------------------------
(***************************************************************************)
(* The interpreter of the CPU (cpu/src/cpu.c, correr_pcb;                  *)
(* cpu/src/primitivas.c) and the PCB that travels between it and the       *)
(* kernel (general/pcb.c): one program from its first line to its end, on  *)
(* as many CPUs as the scheduler and SIGUSR1 make it change.               *)
(*                                                                         *)
(* The parser of the commons library cuts the text into lines and calls    *)
(* the primitives of each; a line is one of                                *)
(*    definitions (definirVariable, once or more),                         *)
(*    a call (llamarConRetorno, then definirVariable and asignar for each  *)
(*    argument), or one primitive.                                         *)
(* Programs are well formed: they name what they defined, return only from *)
(* functions, and do not run past their last line.  An address need not be *)
(* that of a name: a program may compute it ("*&a+i"), and no primitive    *)
(* looks at what it is.                                                    *)
(*                                                                         *)
(* The UMC is a memory where each cell keeps what was last written         *)
(* (MemoriaAbs, which Umc implements); it refuses only a program that has  *)
(* no frame yet, so only a fetch (Umc, NoOkSoloAlEmpezar).                 *)
(***************************************************************************)
EXTENDS Fetch, SequencesExt

CONSTANTS PagsCodigo,            \* pages of the text (roundup)
          TamStack,              \* TAMANO_STACK of nucleo.cfg
          Pid,
          Quantum,
          Inicio,                \* metadata->instruccion_inicio
          Letras, Digitos, Etiquetas, Valores, SinSalida,
          Punteros,              \* addresses the program may compute
          MaxEntradas,           \* bound: nested calls
          Fallas                 \* {} or {"sigusr1"}

\* definirVariable moves by 4 and starts a page when the last one is full.
ASSUME StackAssumption == /\ TamPag % 4 = 0 /\ TamStack \in Nat \ {0}
                          /\ PagsCodigo \in Nat \ {0}
ASSUME PidAssumption == /\ Pid \in Nat /\ Quantum \in Nat \ {0}
                        /\ MaxEntradas \in Nat \ {0}
ASSUME ProgramaAssumption == /\ Len(Instrucciones) > 0
                             /\ Etiquetas \subseteq 0 .. Len(Instrucciones) - 1
                             /\ Inicio \in 0 .. Len(Instrucciones) - 1
                             /\ Punteros \subseteq Nat
                             /\ SinSalida \notin Valores
\* The arguments are named by the characters '0' to '9', a variable by a letter.
ASSUME NombresAssumption ==
  /\ Digitos \in Seq(Range(Digitos)) /\ Len(Digitos) <= 10
  /\ \A n, m \in DOMAIN Digitos : Digitos[n] = Digitos[m] => n = m
  /\ Range(Digitos) \intersect Letras = {}
ASSUME FallasAssumption == Fallas \subseteq {"sigusr1"}

VARIABLES
  lugar,            \* where the program is: "nucleo", "cpu", "termino",
                    \*   "abortado", "pisado" (it wrote outside its stack or
                    \*   read outside its pages; what follows is not
                    \*   modelled) or "indefinido" (a PCB is used that was
                    \*   freed)
  pcb,              \* pcb_ejecutandose, or the kernel's copy
  linea,            \* "fuera", "libre", "variables", "argumentos" or "hecha"
  quantum_actual,
  stack_overflow,
  llego_sugus,
  arranco,          \* this CPU process ran a PCB before (pcb_ejecutandose is
                    \*   not NULL, and never is again)
  memoria,          \* the cells of the stack, by logical position
  definidas,        \* history: definitions made
  salida            \* what IMPRIMIR_VARIABLE sent to the console

cpu == <<quantum_actual, stack_overflow, llego_sugus, arranco>>
vars == <<lugar, pcb, linea, cpu, memoria, definidas, salida, fetch>>

-----------------------------------------------------------------------------
(* Positions *)

Pos(pag, offset) == [pag |-> pag, offset |-> offset, size |-> 4]

pos_fisica_a_logica(pos) == pos.pag * TamPag + pos.offset
pos_logica_a_fisica(dir) == Pos(dir \div TamPag, dir % TamPag)

BaseStack == PagsCodigo * TamPag
Celdas == {BaseStack + 4 * n : n \in 0 .. (TamStack * TamPag) \div 4 - 1}
PagsStack == PagsCodigo .. PagsCodigo + TamStack - 1

\* A word at this offset ends where the page does, or before.
EntraEnPagina(offset) == offset \in 0 .. TamPag - 4

\* The cells that a word at dir has no byte of.
CeldasLejosDe(dir) == {c \in Celdas : c + 4 <= dir \/ dir + 4 <= c}

\* A 32-bit word that is read back through a pointer to char.
Char(n) == LET byte == n % 256 IN IF byte < 128 THEN byte ELSE byte - 256

-----------------------------------------------------------------------------
(* The PCB on the wire: serializar and deserializar *)

\* Words are numbers; a t_posMemoria, a t_variable and the labels are copied
\* whole.  posicion of an entry is never set nor used.
SerializarEntrada(e) ==
  <<0, Len(e.argumentos)>> \o e.argumentos \o <<Len(e.variables)>> \o e.variables
    \o <<e.pos_retorno, e.pos_var_retorno>>

Serializar(p) ==
  <<p.pid, p.pc, p.cant_pags_totales, p.fin_stack, Len(p.indice_codigo)>>
    \o p.indice_codigo \o <<p.indice_etiquetas, Len(p.indice_stack)>>
    \o FlattenSeq([n \in DOMAIN p.indice_stack |-> SerializarEntrada(p.indice_stack[n])])

\* The entry of the stack index at place i, and the place after it.
DeserializarEntrada(s, i) ==
  LET args == Char(s[i + 1])
      vs == Char(s[i + 2 + args])
      fin == i + 3 + args + vs
  IN  [entrada |-> [argumentos |-> SubSeq(s, i + 2, i + 1 + args),
                    variables |-> SubSeq(s, i + 3 + args, fin - 1),
                    pos_retorno |-> Char(s[fin]),
                    pos_var_retorno |-> s[fin + 1]],
       sigue |-> fin + 2]

\* Mutation: the entries of the stack index come back without the last variable.
DeserializarCorto(s) ==
  LET instrucciones == Char(s[5])
      i == 6 + instrucciones
      entradas[n \in 1 .. Char(s[i + 1])] ==
        DeserializarEntrada(s, IF n = 1 THEN i + 2 ELSE entradas[n - 1].sigue)
  IN  [pid |-> Char(s[1]), pc |-> Char(s[2]), cant_pags_totales |-> Char(s[3]),
       fin_stack |-> s[4], indice_codigo |-> SubSeq(s, 6, i - 1),
       indice_etiquetas |-> s[i],
       indice_stack |-> [n \in 1 .. Char(s[i + 1]) - 1 |-> entradas[n].entrada]]

Deserializar(s) ==
  LET instrucciones == Char(s[5])
      i == 6 + instrucciones
      entradas[n \in 1 .. Char(s[i + 1])] ==
        DeserializarEntrada(s, IF n = 1 THEN i + 2 ELSE entradas[n - 1].sigue)
  IN  [pid |-> Char(s[1]), pc |-> Char(s[2]), cant_pags_totales |-> Char(s[3]),
       fin_stack |-> s[4], indice_codigo |-> SubSeq(s, 6, i - 1),
       indice_etiquetas |-> s[i],
       indice_stack |-> [n \in 1 .. Char(s[i + 1]) |-> entradas[n].entrada]]

Viaje(p) == Deserializar(Serializar(p))

-----------------------------------------------------------------------------
\* armar_nuevo_pcb.
PcbNuevo ==
  [pid |-> Pid, pc |-> Inicio, cant_pags_totales |-> PagsCodigo + TamStack,
   fin_stack |-> Pos(PagsCodigo, 0), indice_codigo |-> indice_codigo,
   indice_etiquetas |-> "etiquetas",
   indice_stack |-> <<[argumentos |-> <<>>, variables |-> <<>>, pos_retorno |-> 0,
                       pos_var_retorno |-> [pag |-> 0, offset |-> 0, size |-> 0]]>>]

Init ==
  /\ lugar = "nucleo"
  /\ pcb = PcbNuevo
  /\ linea = "fuera"
  /\ quantum_actual = 0
  /\ stack_overflow = FALSE
  /\ llego_sugus = FALSE
  /\ arranco = FALSE
  /\ memoria \in [Celdas -> Valores]   \* the swap does not clear what others left
  /\ definidas = 0
  /\ salida = SinSalida
  /\ InitFetch

-----------------------------------------------------------------------------
(* The loop of correr_pcb *)

\* CORRER_PCB: the kernel serialises, the CPU deserialises; it is the one of
\* before, or another that SIGUSR1 did not reach.
CorrerPcb ==
  /\ lugar = "nucleo"
  /\ lugar' = "cpu"
  /\ pcb' = Viaje(pcb)
  /\ quantum_actual' = 1
  /\ arranco' = TRUE
  /\ llego_sugus' \in {llego_sugus, FALSE}
  /\ UNCHANGED <<linea, stack_overflow, memoria, definidas, salida, fetch>>

\* The next instruction is asked for.
BuscarInstruccion ==
  /\ lugar = "cpu" /\ linea = "fuera"
  /\ EmpezarFetch(pcb.indice_codigo[pcb.pc + 1])
  /\ UNCHANGED <<lugar, pcb, linea, cpu, memoria, definidas, salida>>

SeguirBuscando ==
  /\ PasoDeFetch
  /\ UNCHANGED <<lugar, pcb, linea, cpu, memoria, definidas, salida>>

\* The PCB goes back to the kernel.
Entregar == /\ pcb' = Viaje(pcb) /\ lugar' = "nucleo"
            /\ linea' = "fuera" /\ quantum_actual' = 0

\* fetch_instruction returned NULL: ERROR_FALTA_MEMORIA.
SinInstruccion ==
  /\ lugar = "cpu" /\ paso_fetch = "nula" /\ TerminarFetch
  /\ lugar' = "abortado"
  /\ UNCHANGED <<pcb, linea, cpu, memoria, definidas, salida>>

\* pc++, and the parser gets the line.
LeerLinea ==
  /\ lugar = "cpu" /\ paso_fetch = "completa" /\ TerminarFetch
  /\ linea' = "libre"
  /\ pcb' = [pcb EXCEPT !.pc = @ + 1]
  /\ salida' = SinSalida
  /\ UNCHANGED <<lugar, cpu, memoria, definidas>>

\* After the line, in this order: SIGUSR1 (TERMINO_MAL_PROGRAMA; the process
\* ends and the kernel runs the program elsewhere), stack_overflow
\* (ERROR_FALTA_MEMORIA; the flag is reset), the quantum (FIN_QUANTUM).
FinInstruccion ==
  /\ lugar = "cpu" /\ linea \in {"variables", "argumentos", "hecha"}
  /\ \/ /\ llego_sugus
        /\ Entregar
        /\ stack_overflow' = FALSE /\ llego_sugus' = FALSE /\ arranco' = FALSE
     \/ /\ ~llego_sugus /\ stack_overflow
        /\ lugar' = "abortado" /\ linea' = "fuera"
        /\ stack_overflow' = FALSE
        /\ UNCHANGED <<pcb, quantum_actual, llego_sugus, arranco>>
     \/ /\ ~llego_sugus /\ ~stack_overflow /\ quantum_actual < Quantum
        /\ quantum_actual' = quantum_actual + 1
        /\ linea' = "fuera"
        /\ UNCHANGED <<lugar, pcb, stack_overflow, llego_sugus, arranco>>
     \/ /\ ~llego_sugus /\ ~stack_overflow /\ quantum_actual = Quantum
        /\ Entregar
        /\ UNCHANGED <<stack_overflow, llego_sugus, arranco>>
  /\ UNCHANGED <<memoria, definidas, salida, fetch>>

\* sugus(): the flag waits for the end of a line; without a PCB, ever, the
\* process ends at once.
Sigusr1 ==
  /\ "sigusr1" \in Fallas /\ lugar \in {"nucleo", "cpu"}
  /\ arranco /\ ~llego_sugus
  /\ llego_sugus' = TRUE
  /\ UNCHANGED <<lugar, pcb, linea, quantum_actual, stack_overflow, arranco, memoria,
                 definidas, salida, fetch>>

-----------------------------------------------------------------------------
(* The primitives *)

EnLinea(fases) == lugar = "cpu" /\ linea \in fases
Tope == Len(pcb.indice_stack)
Entrada == pcb.indice_stack[Tope]
\* The program may go on after this line.
HayMas == pcb.pc < Len(pcb.indice_codigo)

\* The position of id in an entry: the last variable of that name, or the
\* argument of that number (obtenerPosicionVariable).
Variables(e, id) == {n \in DOMAIN e.variables : e.variables[n].id = id}
Numero(id) == CHOOSE n \in DOMAIN Digitos : Digitos[n] = id
Nombres(e) == {e.variables[n].id : n \in DOMAIN e.variables}
                \union {Digitos[n] : n \in DOMAIN e.argumentos}
PosicionEn(e, id) ==
  IF id \in Letras THEN e.variables[Max(Variables(e, id))].posicionVar
  ELSE e.argumentos[Numero(id)]
obtenerPosicionVariable(id) == pos_fisica_a_logica(PosicionEn(Entrada, id))

\* Mutation: the end of the page is noticed one variable late.
AvanzarTarde(pos) == IF pos.offset + 4 > TamPag THEN Pos(pos.pag + 1, 0)
                     ELSE Pos(pos.pag, pos.offset + 4)

\* fin_stack after a definition.
Avanzar(pos) == IF pos.offset + 4 >= TamPag THEN Pos(pos.pag + 1, 0)
                ELSE Pos(pos.pag, pos.offset + 4)

\* What a program may take for an address.
Destinos == {obtenerPosicionVariable(id) : id \in Nombres(Entrada)} \union Punteros

\* The write of asignar: page and offset lose all but one byte on the way
\* (deserializar_pedido_almacenar), and the UMC copies the word to where they
\* say.  A word that is no cell leaves in those it touches a part of each.
Escribir(dir, v) ==
  LET pos == pos_logica_a_fisica(dir)
      llega == Pos(Char(pos.pag), Char(pos.offset))
      celda == pos_fisica_a_logica(llega)
      enStack == llega.pag \in PagsStack /\ EntraEnPagina(llega.offset)
  IN  \/ /\ enStack /\ celda \in Celdas
         /\ memoria' = [memoria EXCEPT ![celda] = v]
         /\ UNCHANGED lugar
      \/ /\ enStack /\ celda \notin Celdas
         /\ memoria' \in [Celdas -> Valores]
         /\ \A c \in CeldasLejosDe(celda) : memoria'[c] = memoria[c]
         /\ UNCHANGED lugar
      \/ /\ ~enStack
         /\ lugar' = "pisado"
         /\ UNCHANGED memoria

\* The value that dereferenciar gives: the request is copied whole, and the word
\* may be one of the text or parts of two cells.
Leer(dir) ==
  LET pos == pos_logica_a_fisica(dir)
      enPaginas == pos.pag \in 0 .. PagsCodigo + TamStack - 1 /\ EntraEnPagina(pos.offset)
  IN  \/ /\ dir \in Celdas
         /\ salida' = memoria[dir]
         /\ UNCHANGED lugar
      \/ /\ enPaginas /\ dir \notin Celdas
         /\ salida' \in Valores
         /\ UNCHANGED lugar
      \/ /\ ~enPaginas
         /\ lugar' = "pisado"
         /\ UNCHANGED salida

StackLleno == pcb.fin_stack.pag = pcb.cant_pags_totales

\* The PCB with one definition more: e is the entry that runs, changed.
ConEntrada(e) == [pcb EXCEPT !.indice_stack[Tope] = e, !.fin_stack = Avanzar(@)]

\* definirVariable of a letter.
DefinirVariable(x) ==
  /\ EnLinea({"libre", "variables"}) /\ HayMas
  /\ linea' = "variables"
  /\ \/ /\ stack_overflow \/ StackLleno
        /\ stack_overflow' = TRUE
        /\ UNCHANGED <<pcb, definidas>>
     \/ /\ ~stack_overflow /\ ~StackLleno
        /\ pcb' = ConEntrada([Entrada EXCEPT !.variables =
                     Append(@, [id |-> x, posicionVar |-> pcb.fin_stack])])
        /\ definidas' = definidas + 1
        /\ UNCHANGED stack_overflow
  /\ UNCHANGED <<lugar, quantum_actual, llego_sugus, arranco, memoria, salida, fetch>>

\* definirVariable of a digit and the asignar that follows; both return at once
\* after an overflow in the same line.
DefinirArgumento(v) ==
  /\ EnLinea({"argumentos"}) /\ Len(Entrada.argumentos) < Len(Digitos)
  /\ \/ /\ stack_overflow \/ StackLleno
        /\ stack_overflow' = TRUE
        /\ UNCHANGED <<lugar, pcb, memoria, definidas>>
     \/ /\ ~stack_overflow /\ ~StackLleno
        /\ pcb' = ConEntrada([Entrada EXCEPT !.argumentos = Append(@, pcb.fin_stack)])
        /\ Escribir(pos_fisica_a_logica(pcb.fin_stack), v)
        /\ definidas' = definidas + 1
        /\ UNCHANGED stack_overflow
  /\ UNCHANGED <<linea, quantum_actual, llego_sugus, arranco, salida, fetch>>

\* asignar: "x = v" and "*p = v".  v is any value, those of other reads too.
Asignar(dir, v) ==
  /\ EnLinea({"libre"}) /\ HayMas /\ dir \in Destinos
  /\ linea' = "hecha"
  /\ Escribir(dir, v)
  /\ UNCHANGED <<pcb, cpu, definidas, salida, fetch>>

\* dereferenciar and imprimir: "print x" and "print *p".
Imprimir(dir) ==
  /\ EnLinea({"libre"}) /\ HayMas /\ dir \in Destinos
  /\ linea' = "hecha"
  /\ Leer(dir)
  /\ UNCHANGED <<pcb, cpu, memoria, definidas, fetch>>

\* imprimirTexto, signall, the shared variables, a wait that does not block.
Nada ==
  /\ EnLinea({"libre"}) /\ HayMas
  /\ linea' = "hecha"
  /\ UNCHANGED <<lugar, pcb, cpu, memoria, definidas, salida, fetch>>

\* irAlLabel.
IrAlLabel(etiqueta) ==
  /\ EnLinea({"libre"})
  /\ linea' = "hecha"
  /\ pcb' = [pcb EXCEPT !.pc = etiqueta]
  /\ UNCHANGED <<lugar, cpu, memoria, definidas, salida, fetch>>

\* llamarConRetorno: a new entry of the stack index.
LlamarConRetorno(etiqueta, dir) ==
  /\ EnLinea({"libre"}) /\ HayMas /\ dir \in Destinos /\ Tope < MaxEntradas
  /\ linea' = "argumentos"
  /\ pcb' = [pcb EXCEPT
       !.indice_stack = Append(@, [argumentos |-> <<>>, variables |-> <<>>,
                                   pos_retorno |-> pcb.pc,
                                   pos_var_retorno |-> pos_logica_a_fisica(dir)]),
       !.pc = etiqueta]
  /\ UNCHANGED <<lugar, cpu, memoria, definidas, salida, fetch>>

\* Mutation: the value is given back, but the call stays on the stack.
RetornarSinSacar(v) ==
  /\ EnLinea({"libre"}) /\ Tope > 1
  /\ linea' = "hecha"
  /\ Escribir(pos_fisica_a_logica(Entrada.pos_var_retorno), v)
  /\ pcb' = [pcb EXCEPT !.pc = Entrada.pos_retorno]
  /\ UNCHANGED <<cpu, definidas, salida, fetch>>

\* retornar: fin_stack stays where it is.
Retornar(v) ==
  /\ EnLinea({"libre"}) /\ Tope > 1
  /\ linea' = "hecha"
  /\ Escribir(pos_fisica_a_logica(Entrada.pos_var_retorno), v)
  /\ pcb' = [pcb EXCEPT !.indice_stack = SubSeq(@, 1, Tope - 1),
                        !.pc = Entrada.pos_retorno]
  /\ UNCHANGED <<cpu, definidas, salida, fetch>>

\* entradaSalida, or a wait that blocks: the kernel keeps the PCB until the
\* device or the semaphore lets it go.  The PCB of the CPU is freed; with
\* llego_sugus set, correr_pcb would serialise it again.
Bloquear ==
  /\ EnLinea({"libre"}) /\ HayMas
  /\ \/ ~llego_sugus /\ Entregar
     \/ /\ llego_sugus /\ lugar' = "indefinido"
        /\ UNCHANGED <<pcb, linea, quantum_actual>>
  /\ UNCHANGED <<stack_overflow, llego_sugus, arranco, memoria, definidas, salida, fetch>>

\* finalizar.
Finalizar ==
  /\ EnLinea({"libre"})
  /\ lugar' = IF llego_sugus THEN "indefinido" ELSE "termino"
  /\ linea' = "fuera"
  /\ UNCHANGED <<pcb, cpu, memoria, definidas, salida, fetch>>

-----------------------------------------------------------------------------
\* The addresses a program may use: of a cell, or computed.
Direcciones == Celdas \union Punteros

Next ==
  \/ CorrerPcb \/ BuscarInstruccion \/ SeguirBuscando \/ SinInstruccion \/ LeerLinea
  \/ FinInstruccion \/ Sigusr1 \/ Nada \/ Bloquear \/ Finalizar
  \/ \E x \in Letras : DefinirVariable(x)
  \/ \E dir \in Direcciones : \/ Imprimir(dir)
                              \/ \E e \in Etiquetas : LlamarConRetorno(e, dir)
  \/ \E e \in Etiquetas : IrAlLabel(e)
  \/ \E v \in Valores : \/ DefinirArgumento(v) \/ Retornar(v)
                        \/ \E dir \in Direcciones : Asignar(dir, v)

Spec == Init /\ [][Next]_vars

-----------------------------------------------------------------------------
(* Properties *)

EsPos(pos) == /\ pos.pag \in PagsCodigo .. PagsCodigo + TamStack
              /\ pos.offset \in {4 * n : n \in 0 .. TamPag \div 4 - 1}

\* Types of the PCB and of the globals of the CPU.
TypeOK ==
  /\ lugar \in {"nucleo", "cpu", "termino", "abortado", "pisado", "indefinido"}
  /\ pcb.pid = Pid /\ pcb.pc \in 0 .. Len(Instrucciones)
  /\ pcb.cant_pags_totales = PagsCodigo + TamStack
  /\ pcb.indice_codigo = indice_codigo
  /\ EsPos(pcb.fin_stack)
  /\ Tope \in 1 .. MaxEntradas
  /\ \A n \in 1 .. Tope :
       LET e == pcb.indice_stack[n]
       IN  /\ e.pos_retorno \in 0 .. Len(Instrucciones)
           /\ n > 1 => e.pos_var_retorno.offset \in 0 .. TamPag - 1
           /\ \A i \in DOMAIN e.argumentos : EsPos(e.argumentos[i])
           /\ \A i \in DOMAIN e.variables : /\ e.variables[i].id \in Letras
                                           /\ EsPos(e.variables[i].posicionVar)
  /\ linea \in {"fuera", "libre", "variables", "argumentos", "hecha"}
  /\ quantum_actual \in 0 .. Quantum
  /\ {stack_overflow, llego_sugus, arranco} \subseteq BOOLEAN
  /\ memoria \in [Celdas -> Valores] /\ salida \in Valores \union {SinSalida}

\* What lives in the stack: <<entry, kind, number>> of each variable and argument.
Lugares ==
  UNION {{<<n, "argumento", i>> : i \in DOMAIN pcb.indice_stack[n].argumentos}
           \union {<<n, "variable", i>> : i \in DOMAIN pcb.indice_stack[n].variables}
           : n \in DOMAIN pcb.indice_stack}
Donde(l) ==
  LET e == pcb.indice_stack[l[1]]
  IN  pos_fisica_a_logica(IF l[2] = "argumento" THEN e.argumentos[l[3]]
                          ELSE e.variables[l[3]].posicionVar)

\* No two variables or arguments of the calls under way share a cell, all lie
\* in the pages of the stack and before its end, after any mixture of calls,
\* returns, changes of CPU and of quantum.
VariablesSeparadas ==
  /\ \A l, m \in Lugares : Donde(l) = Donde(m) => l = m
  /\ \A l \in Lugares : /\ Donde(l) \in Celdas
                        /\ Donde(l) < pos_fisica_a_logica(pcb.fin_stack)

\* The PCB survives serializar and deserializar, at every point of the program
\* where it may be sent.
IdaYVuelta == Viaje(pcb) = pcb

\* The call n as the programmer sees it.
MarcoDe(n) ==
  LET e == pcb.indice_stack[n]
  IN  [nombres |-> [id \in Nombres(e) |-> pos_fisica_a_logica(PosicionEn(e, id))],
       argumentos |-> Len(e.argumentos),
       vuelve |-> e.pos_retorno,
       destino |-> pos_fisica_a_logica(e.pos_var_retorno)]

Abs == INSTANCE AnsisopAbs
         WITH estado <- IF lugar \in {"termino", "abortado", "pisado"} THEN lugar
                        ELSE IF stack_overflow THEN "desbordado" ELSE "corre",
              pc <- pcb.pc,
              marcos <- [n \in 1 .. Tope |-> MarcoDe(n)],
              celdas <- memoria,
              usadas <- definidas,
              senal <- llego_sugus,
              Base <- BaseStack,
              Capacidad <- Cardinality(Celdas)

\* Positions, pages, the serialised PCB and the flags of the CPU together give
\* the program the functions and variables it wrote, one after the other in
\* memory, and end it exactly when it defines more than the stack holds
\* (AnsisopAbs).  What goes through a pointer to a variable is as safe as what
\* goes through its name, in a later call and on another CPU too; a pointer to
\* none may spoil its neighbours or leave the stack, and it is the only thing
\* that does.  Nothing is said of what follows that, or the use of a freed PCB.
ImplementaAbs == Abs!Spec

\* A PCB that was freed is not used.  It is, when SIGUSR1 arrives in the line
\* that blocks or ends the program.
SinUsarLiberado == lugar # "indefinido"
=============================================================================
