----------------------------- MODULE MemoriaAbs -----------------------------
(***************************************************************************)
(* What the UMC promises a CPU: each process owns its pages, a read        *)
(* answers what was last written, and a request is answered once.  There   *)
(* are no frames, no TLB and no swap here; NO_OK is the one way in which   *)
(* their scarcity may be seen.                                             *)
(***************************************************************************)
EXTENDS Integers

CONSTANTS Pids, Cpus,
          CantPaginas,    \* pages of each program
          Datos,          \* what a page can hold
          Cero,           \* what a page holds before it is written
          SinProceso, SinDato

Pags(p) == 0 .. CantPaginas[p] - 1
EnBlanco(p) == [g \in Pags(p) |-> Cero]

VARIABLES procesos,    \* pids whose pages the UMC keeps
          paginas,     \* their pages
          pedido,      \* the request of each CPU that was not answered yet
          respuesta    \* the last answer to each CPU

vars == <<procesos, paginas, pedido, respuesta>>

SinPedido == [op |-> "NINGUNO", pid |-> SinProceso, pag |-> 0, dato |-> SinDato]
Pedido(op, p, g, d) == [op |-> op, pid |-> p, pag |-> g, dato |-> d]

Init == /\ procesos = {}
        /\ paginas = [p \in Pids |-> EnBlanco(p)]
        /\ pedido = [c \in Cpus |-> SinPedido]
        /\ respuesta = [c \in Cpus |-> SinDato]

\* NUEVO_PROGRAMA answered OK.
Admitir(p) == /\ p \notin procesos
              /\ procesos' = procesos \union {p}
              /\ UNCHANGED <<paginas, pedido, respuesta>>

\* LECTURA_PAGINA or ESCRITURA_PAGINA arrives.
Pedir(c, p, g) ==
  /\ pedido[c] = SinPedido
  /\ p \in procesos /\ \A k \in Cpus : pedido[k].pid # p
  /\ \/ pedido' = [pedido EXCEPT ![c] = Pedido("LECTURA_PAGINA", p, g, SinDato)]
     \/ \E d \in Datos :
          pedido' = [pedido EXCEPT ![c] = Pedido("ESCRITURA_PAGINA", p, g, d)]
  /\ respuesta' = [respuesta EXCEPT ![c] = SinDato]
  /\ UNCHANGED <<procesos, paginas>>

\* BUFFER_LEIDO: the page as it was last written.
Leer(c) ==
  /\ pedido[c].op = "LECTURA_PAGINA"
  /\ respuesta' = [respuesta EXCEPT ![c] = paginas[pedido[c].pid][pedido[c].pag]]
  /\ pedido' = [pedido EXCEPT ![c] = SinPedido]
  /\ UNCHANGED <<procesos, paginas>>

\* OK: the page, and no other page of anybody, has changed.
Escribir(c) ==
  /\ pedido[c].op = "ESCRITURA_PAGINA"
  /\ paginas' = [paginas EXCEPT ![pedido[c].pid][pedido[c].pag] = pedido[c].dato]
  /\ respuesta' = [respuesta EXCEPT ![c] = "OK"]
  /\ pedido' = [pedido EXCEPT ![c] = SinPedido]
  /\ UNCHANGED procesos

\* NO_OK: the process has no page in memory and there is no free frame.
Negar(c) ==
  /\ pedido[c] # SinPedido
  /\ respuesta' = [respuesta EXCEPT ![c] = "NO_OK"]
  /\ pedido' = [pedido EXCEPT ![c] = SinPedido]
  /\ UNCHANGED <<procesos, paginas>>

\* The CPU takes the answer.
Recibir(c) == /\ pedido[c] = SinPedido
              /\ respuesta' = [respuesta EXCEPT ![c] = SinDato]
              /\ UNCHANGED <<procesos, paginas, pedido>>

\* FINALIZA_PROGRAMA of a process nobody is asking for.
Olvidar(p) == /\ p \in procesos /\ \A c \in Cpus : pedido[c].pid # p
              /\ procesos' = procesos \ {p}
              /\ paginas' = [paginas EXCEPT ![p] = EnBlanco(p)]
              /\ UNCHANGED <<pedido, respuesta>>

Next == \/ \E p \in Pids : Admitir(p) \/ Olvidar(p)
        \/ \E c \in Cpus : \/ \E p \in Pids : \E g \in Pags(p) : Pedir(c, p, g)
                           \/ Leer(c) \/ Escribir(c) \/ Negar(c) \/ Recibir(c)

Spec == Init /\ [][Next]_vars
=============================================================================
