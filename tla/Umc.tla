-------------------------------- MODULE Umc ---------------------------------
(***************************************************************************)
(* The paging of the UMC (umc/src/Conexiones_Umc.c,                        *)
(* umc/src/estructuras_umc.c): a thread per CPU and one for the kernel     *)
(* serve requests over shared page tables, frames and TLB.                 *)
(*                                                                         *)
(* A request is cut where another thread can get in: at the mutex of the   *)
(* TLB (mutex_tlb), of the frames (memoriaposta) and of the conversation   *)
(* with the swap (mutex).  The exchange with the swap is one step: only    *)
(* the holder of `mutex' talks to it.  The kernel, the CPUs and the swap   *)
(* appear by what they send and answer.                                    *)
(*                                                                         *)
(* The pids of a run have different keys in tablasDePagina: i_to_s keeps   *)
(* two characters, which holds for pids below 100.                         *)
(***************************************************************************)
EXTENDS Reloj, SequencesExt

CONSTANTS Pids,           \* pids the kernel hands out, never twice
          Cpus,           \* CPUs that completed the handshake
          CantPaginas,    \* pages of each program
          CANT_MARCOS, MARCO_X_PROC, ENTRADAS_TLB, ES_CLOCKM,   \* umc.cfg
          Datos,          \* what a page can hold
          Cero,           \* what a page holds before it is written
          Comandos,       \* subset of {"flush tlb", "flush memory"}
          Fallas,         \* {} or {"cpu"}: CPUs that die
          SinProceso, SinDato, Nadie

Marcos == 0 .. CANT_MARCOS - 1
Pags(p) == 0 .. CantPaginas[p] - 1
EnBlanco(p) == [g \in Pags(p) |-> Cero]

ASSUME PaginasAssumption == CantPaginas \in [Pids -> Nat \ {0}]
ASSUME MarcosAssumption == CANT_MARCOS \in Nat \ {0}
\* With MARCO_X_PROC = 0 the search for a victim would never end.
ASSUME MarcoXProcAssumption == MARCO_X_PROC \in Nat \ {0}
ASSUME TlbAssumption == ENTRADAS_TLB \in Nat /\ ES_CLOCKM \in BOOLEAN
ASSUME EntornoAssumption == /\ Comandos \subseteq {"flush tlb", "flush memory"}
                            /\ Fallas \in SUBSET {"cpu"}
ASSUME NombresAssumption == /\ SinProceso \notin Pids
                            /\ Nadie \notin Cpus
                            /\ Cero \in Datos
                            /\ {SinDato, "OK", "NO_OK"} \intersect Datos = {}
                            /\ SinDato \notin {"OK", "NO_OK"}

VARIABLES
  umc,              \* "viva", "muerta" (exit, NULL dereference) or
                    \*   "indefinida": it used a freed entry, and the model
                    \*   says nothing of what follows
  tablasDePagina,   \* pids with an entry in the dictionary
  tabla,            \* the page table of each pid
  manecilla,        \* its hand
  bitmap_frames,    \* occupied frames
  memoria_principal,
  tlb,              \* sequence of [pid, nroPagina]: the entry pointed at
  memoriaposta,     \* who holds that mutex
  hilos,            \* the thread of each CPU: see HiloEnEspera
  proceso_activo,   \* local of atender_conexion
  finalizador,      \* the kernel's thread: [paso, pid, pag, marco]
  enSwap,           \* the pages the swap keeps, for the pids in procesosEnSwap
  procesosEnSwap,
  programa,         \* what the kernel knows of each pid: "nuevo", "admitido",
                    \*   "abortado" (to be finished) or "final"
  corre,            \* the process each CPU has
  conectada,        \* CPUs that are alive
  respuesta         \* the last answer to each CPU, until it goes on

paginacion == <<tablasDePagina, tabla, manecilla>>
marcos == <<bitmap_frames, memoria_principal, memoriaposta>>
swap == <<enSwap, procesosEnSwap>>
nucleo == <<finalizador, programa>>
cpus == <<proceso_activo, corre, conectada>>
vars == <<umc, paginacion, marcos, tlb, hilos, swap, nucleo, cpus, respuesta>>

\* A thread between requests.  In a request `paso' says what it does next:
\* "tabla", "marco", "primerMarco", "victima", "leer", "instalar", "pisar",
\* "sacarTlb", "cargarTlb" or "acceder".  `leido' is what leerDeSwap returned.
HiloEnEspera == [paso |-> "espera", op |-> "NINGUNO", pag |-> 0, dato |-> SinDato,
                 marco |-> -1, victima |-> -1, leido |-> SinDato]
FinalizadorLibre == [paso |-> "espera", pid |-> SinProceso, pag |-> 0, marco |-> -1]

\* nuevaTablaDePaginas.
TablaNueva(p) == [g \in Pags(p) |-> [nro_marco |-> -1, presencia |-> FALSE,
                                     modificado |-> FALSE, uso |-> FALSE]]

\* proceso_activo is not initialised: it may be anybody's pid, or nobody's.
Init ==
  /\ umc = "viva"
  /\ tablasDePagina = {}
  /\ tabla = [p \in Pids |-> TablaNueva(p)]
  /\ manecilla = [p \in Pids |-> 0]
  /\ bitmap_frames = {}
  /\ memoria_principal = [m \in Marcos |-> Cero]
  /\ tlb = <<>>
  /\ memoriaposta = Nadie
  /\ hilos = [c \in Cpus |-> HiloEnEspera]
  /\ proceso_activo \in [Cpus -> Pids \union {SinProceso}]
  /\ finalizador = FinalizadorLibre
  /\ enSwap = [p \in Pids |-> EnBlanco(p)]
  /\ procesosEnSwap = {}
  /\ programa = [p \in Pids |-> "nuevo"]
  /\ corre = [c \in Cpus |-> SinProceso]
  /\ conectada = Cpus
  /\ respuesta = [c \in Cpus |-> SinDato]

-----------------------------------------------------------------------------
(* Threads *)

EnEspera(c) == hilos[c].paso = "espera"
EnPaso(c, paso) == umc = "viva" /\ hilos[c].paso = paso
Va(c, paso) == hilos' = [hilos EXCEPT ![c].paso = paso]

\* After a page was found or brought: with a TLB, cargar_en_TLB comes first.
ConPagina == IF ENTRADAS_TLB > 0 THEN "cargarTlb" ELSE "acceder"

Responder(c, r) == /\ respuesta' = [respuesta EXCEPT ![c] = r]
                   /\ hilos' = [hilos EXCEPT ![c] = HiloEnEspera]

resto == <<paginacion, marcos, tlb, hilos, swap, nucleo, cpus, respuesta>>

\* exit(EXIT_FAILURE), or a NULL pointer.
Morir == umc' = "muerta" /\ UNCHANGED resto

\* The process, the page and the entry the request of c is about.
Activo(c) == proceso_activo[c]
Pagina(c) == hilos[c].pag
Entrada(c) == tabla[Activo(c)][Pagina(c)]

\* free() ran over the entry of page g of p (eliminarPaginas).
Liberada(p, g) ==
  /\ programa[p] = "final"
  /\ finalizador.pid = p => g < finalizador.pag

-----------------------------------------------------------------------------
(* The kernel and the CPUs: what they send *)

\* NUEVO_PROGRAMA: the swap is asked first; its OK creates the page table.
NuevoPrograma(p) ==
  /\ umc = "viva" /\ finalizador.paso = "espera"
  /\ programa[p] = "nuevo"
  /\ \/ /\ programa' = [programa EXCEPT ![p] = "admitido"]
        /\ procesosEnSwap' = procesosEnSwap \union {p}
        /\ tablasDePagina' = tablasDePagina \union {p}
        /\ UNCHANGED <<tabla, manecilla>>
     \/ /\ programa' = [programa EXCEPT ![p] = "final"]
        /\ UNCHANGED <<procesosEnSwap, paginacion>>
  /\ UNCHANGED <<umc, marcos, tlb, hilos, finalizador, enSwap, cpus, respuesta>>

\* eliminarPaginasEnTLB: list_remove_and_destroy_by_condition takes out the
\* first entry of the process, and only that one.
QuitarPrimera(p) == RemoveFirstMatch(tlb, LAMBDA e : e.pid = p)

\* The kernel gave p to c, and c tells the UMC (CAMBIO_PROCESO_ACTIVO).
CambioProcesoActivo(c, p) ==
  /\ umc = "viva" /\ EnEspera(c)
  /\ c \in conectada /\ corre[c] = SinProceso
  /\ programa[p] = "admitido" /\ \A k \in Cpus : corre[k] # p
  /\ tlb' = IF ENTRADAS_TLB > 0 THEN QuitarPrimera(Activo(c)) ELSE tlb
  /\ proceso_activo' = [proceso_activo EXCEPT ![c] = p]
  /\ corre' = [corre EXCEPT ![c] = p]
  /\ UNCHANGED <<umc, paginacion, marcos, hilos, swap, nucleo, conectada, respuesta>>

\* buscar_pagina_en_TLB moves what it finds to the end (LRU).  It does not
\* touch the bit of use.
EnTlb(p, g) == [pid |-> p, nroPagina |-> g]

\* The CPU asks for a page of its process: the TLB is looked up.
Pedir(c, op, g, d) ==
  /\ umc = "viva" /\ EnEspera(c)
  /\ c \in conectada /\ corre[c] # SinProceso /\ respuesta[c] # "NO_OK"
  /\ LET e == EnTlb(Activo(c), g)
         pedido == [HiloEnEspera EXCEPT !.op = op, !.pag = g, !.dato = d]
     IN  IF Contains(tlb, e)
         THEN /\ tlb' = Append(RemoveFirst(tlb, e), e)
              /\ hilos' = [hilos EXCEPT ![c] = [pedido EXCEPT !.paso = "acceder"]]
         ELSE /\ hilos' = [hilos EXCEPT ![c] = [pedido EXCEPT !.paso = "tabla"]]
              /\ UNCHANGED tlb
  /\ respuesta' = [respuesta EXCEPT ![c] = SinDato]
  /\ UNCHANGED <<umc, paginacion, marcos, swap, nucleo, cpus>>

\* End of quantum, of the program, I/O, ...: the process goes back to the
\* kernel.  A NO_OK ends the program (TERMINO_MAL_PROGRAMA).
Devolver(c) ==
  /\ umc = "viva" /\ EnEspera(c) /\ c \in conectada /\ corre[c] # SinProceso
  /\ corre' = [corre EXCEPT ![c] = SinProceso]
  /\ respuesta' = [respuesta EXCEPT ![c] = SinDato]
  /\ programa' = IF respuesta[c] = "NO_OK"
                 THEN [programa EXCEPT ![corre[c]] = "abortado"] ELSE programa
  /\ UNCHANGED <<umc, paginacion, marcos, tlb, hilos, swap, finalizador,
                 proceso_activo, conectada>>

\* The CPU process dies, at any point of its request; the kernel will finish
\* its program.  The thread of the UMC finishes the request all the same.
CpuMuere(c) ==
  /\ umc = "viva" /\ "cpu" \in Fallas /\ c \in conectada
  /\ conectada' = conectada \ {c}
  /\ corre' = [corre EXCEPT ![c] = SinProceso]
  /\ programa' = IF corre[c] # SinProceso
                 THEN [programa EXCEPT ![corre[c]] = "abortado"] ELSE programa
  /\ UNCHANGED <<umc, paginacion, marcos, tlb, hilos, swap, finalizador,
                 proceso_activo, respuesta>>

-----------------------------------------------------------------------------
(* A page fault: buscar_pagina_en_tabla and reemplazarPagina *)

\* Mutation: the limit is noticed one page late.
BuscarPaginaPasada(c) ==
  /\ EnPaso(c, "tabla") /\ Activo(c) \in tablasDePagina
  /\ IF Entrada(c).presencia
     THEN /\ tabla' = [tabla EXCEPT ![Activo(c)][Pagina(c)].uso = TRUE]
          /\ Va(c, ConPagina)
     ELSE /\ LET usadas == Cardinality(Presentes(tabla[Activo(c)]))
             IN  Va(c, IF usadas > MARCO_X_PROC THEN "victima"
                       ELSE IF usadas > 0 THEN "marco" ELSE "primerMarco")
          /\ UNCHANGED tabla
  /\ UNCHANGED <<umc, tablasDePagina, manecilla, marcos, tlb, swap, nucleo, cpus,
                 respuesta>>

\* Mutation: a process with one page is treated as one with none.
BuscarPaginaPocas(c) ==
  /\ EnPaso(c, "tabla") /\ Activo(c) \in tablasDePagina
  /\ IF Entrada(c).presencia
     THEN /\ tabla' = [tabla EXCEPT ![Activo(c)][Pagina(c)].uso = TRUE]
          /\ Va(c, ConPagina)
     ELSE /\ LET usadas == Cardinality(Presentes(tabla[Activo(c)]))
             IN  Va(c, IF usadas = MARCO_X_PROC THEN "victima"
                       ELSE IF usadas > 1 THEN "marco" ELSE "primerMarco")
          /\ UNCHANGED tabla
  /\ UNCHANGED <<umc, tablasDePagina, manecilla, marcos, tlb, swap, nucleo, cpus,
                 respuesta>>

\* mutex_pags covers only dictionary_get: without an entry it returns NULL.
BuscarPaginaEnTabla(c) ==
  /\ EnPaso(c, "tabla")
  /\ \/ Activo(c) \notin tablasDePagina /\ Morir
     \/ /\ Activo(c) \in tablasDePagina
        /\ \/ /\ Entrada(c).presencia
              /\ tabla' = [tabla EXCEPT ![Activo(c)][Pagina(c)].uso = TRUE]
              /\ Va(c, ConPagina)
           \/ /\ ~Entrada(c).presencia
              /\ LET usadas == Cardinality(Presentes(tabla[Activo(c)]))
                 IN  Va(c, IF usadas = MARCO_X_PROC THEN "victima"
                           ELSE IF usadas > 0 THEN "marco" ELSE "primerMarco")
              /\ UNCHANGED tabla
        /\ UNCHANGED <<umc, tablasDePagina, manecilla, marcos, tlb, swap, nucleo,
                       cpus, respuesta>>

\* paginasUsadas is below MARCO_X_PROC; it is 0 in "primerMarco".
PideMarco(c) == EnPaso(c, "marco") \/ EnPaso(c, "primerMarco")

\* Mutation: the branch without frames returns with memoriaposta taken.
ElegirMarcoSinSoltar(c) ==
  /\ PideMarco(c) /\ memoriaposta = Nadie
  /\ LET libres == Marcos \ bitmap_frames
     IN  \/ /\ libres # {}
            /\ memoriaposta' = c
            /\ hilos' = [hilos EXCEPT ![c].paso = "leer", ![c].marco = Min(libres)]
            /\ UNCHANGED respuesta
         \/ /\ libres = {} /\ EnPaso(c, "marco")
            /\ Va(c, "victima")
            /\ UNCHANGED <<memoriaposta, respuesta>>
         \/ /\ libres = {} /\ EnPaso(c, "primerMarco")
            /\ memoriaposta' = c
            /\ Responder(c, "NO_OK")
  /\ UNCHANGED <<umc, paginacion, bitmap_frames, memoria_principal, tlb, swap,
                 nucleo, cpus>>

\* Fewer pages than MARCO_X_PROC: under memoriaposta, the first free frame;
\* without any, a page of the process is replaced or the CPU gets NO_OK.
ElegirMarco(c) ==
  /\ PideMarco(c) /\ memoriaposta = Nadie
  /\ LET libres == Marcos \ bitmap_frames
     IN  \/ /\ libres # {}
            /\ memoriaposta' = c
            /\ hilos' = [hilos EXCEPT ![c].paso = "leer", ![c].marco = Min(libres)]
            /\ UNCHANGED respuesta
         \/ /\ libres = {} /\ EnPaso(c, "marco")
            /\ Va(c, "victima")
            /\ UNCHANGED <<memoriaposta, respuesta>>
         \/ /\ libres = {} /\ EnPaso(c, "primerMarco")
            /\ Responder(c, "NO_OK")
            /\ UNCHANGED memoriaposta
  /\ UNCHANGED <<umc, paginacion, bitmap_frames, memoria_principal, tlb, swap,
                 nucleo, cpus>>

\* Mutation: the victim is not written back.
ElegirVictimaSinGuardar(c) ==
  /\ EnPaso(c, "victima")
  /\ LET p == Activo(c)
         v == Victima(tabla[p], manecilla[p], ES_CLOCKM)
     IN  /\ hilos' = [hilos EXCEPT ![c].paso = "leer", ![c].victima = v]
         /\ tabla' = [tabla EXCEPT ![p] = TrasElegir(@, manecilla[p], ES_CLOCKM)]
         /\ manecilla' = [manecilla EXCEPT ![p] =
                            ManecillaTrasElegir(tabla[p], @, ES_CLOCKM)]
  /\ UNCHANGED <<umc, tablasDePagina, marcos, tlb, swap, nucleo, cpus, respuesta>>

\* What the swap keeps after a write of d to page g of p.  For a process it
\* forgot it answers OK too, and wrote d where the file was: on any page, or
\* on none (escribirPagina, SwapAbs!EscribirDesconocido).
TrasEscribir(p, g, d) ==
  IF p \in procesosEnSwap THEN {[enSwap EXCEPT ![p][g] = d]}
  ELSE {enSwap} \union
       UNION {{[enSwap EXCEPT ![q][h] = d] : h \in Pags(q)} : q \in procesosEnSwap}

\* The victim, written back when modified.  The clock reads every entry of the
\* process: none may have been freed.
ElegirVictima(c) ==
  /\ EnPaso(c, "victima")
  /\ LET p == Activo(c)
         v == Victima(tabla[p], manecilla[p], ES_CLOCKM)
     IN  \/ Liberada(p, 0) /\ umc' = "indefinida" /\ UNCHANGED resto
         \/ /\ ~Liberada(p, 0)
            /\ hilos' = [hilos EXCEPT ![c].paso = "leer", ![c].victima = v]
            /\ tabla' = [tabla EXCEPT ![p] = TrasElegir(@, manecilla[p], ES_CLOCKM)]
            /\ manecilla' = [manecilla EXCEPT ![p] =
                               ManecillaTrasElegir(tabla[p], @, ES_CLOCKM)]
            /\ enSwap' \in IF tabla[p][v].modificado
                           THEN TrasEscribir(p, v, memoria_principal[tabla[p][v].nro_marco])
                           ELSE {enSwap}
            /\ UNCHANGED <<umc, tablasDePagina, marcos, tlb, procesosEnSwap, nucleo,
                           cpus, respuesta>>

\* leerDeSwap; it exits when the swap does not know the process.
LeerDeSwap(c) ==
  /\ EnPaso(c, "leer")
  /\ \/ Activo(c) \notin procesosEnSwap /\ Morir
     \/ /\ Activo(c) \in procesosEnSwap
        /\ hilos' = [hilos EXCEPT ![c].leido = enSwap[Activo(c)][Pagina(c)],
                       ![c].paso = IF hilos[c].victima = -1 THEN "instalar" ELSE "pisar"]
        /\ UNCHANGED <<umc, paginacion, marcos, tlb, swap, nucleo, cpus, respuesta>>

\* Mutation: the bit of presence is forgotten.
InstalarSinPresencia(c) ==
  /\ EnPaso(c, "instalar")
  /\ memoria_principal' = [memoria_principal EXCEPT ![hilos[c].marco] = hilos[c].leido]
  /\ tabla' = [tabla EXCEPT ![Activo(c)][Pagina(c)] =
                 [@ EXCEPT !.nro_marco = hilos[c].marco, !.uso = TRUE]]
  /\ bitmap_frames' = bitmap_frames \union {hilos[c].marco}
  /\ memoriaposta' = Nadie
  /\ Va(c, ConPagina)
  /\ UNCHANGED <<umc, tablasDePagina, manecilla, tlb, swap, nucleo, cpus, respuesta>>

\* The page goes into the free frame; modificado stays as it was.  memoriaposta
\* is released.
InstalarEnMarco(c) ==
  /\ EnPaso(c, "instalar")
  /\ memoria_principal' = [memoria_principal EXCEPT ![hilos[c].marco] = hilos[c].leido]
  /\ tabla' = [tabla EXCEPT ![Activo(c)][Pagina(c)] =
                 [@ EXCEPT !.nro_marco = hilos[c].marco, !.presencia = TRUE,
                           !.uso = TRUE]]
  /\ bitmap_frames' = bitmap_frames \union {hilos[c].marco}
  /\ memoriaposta' = Nadie
  /\ Va(c, ConPagina)
  /\ UNCHANGED <<umc, tablasDePagina, manecilla, tlb, swap, nucleo, cpus, respuesta>>

\* Mutation: the victim keeps its bit of presence.
PisarVictimaSinBajarPresencia(c) ==
  /\ EnPaso(c, "pisar")
  /\ LET p == Activo(c)
         m == tabla[p][hilos[c].victima].nro_marco
     IN  /\ memoria_principal' = [memoria_principal EXCEPT ![m] = hilos[c].leido]
         /\ tabla' = [tabla EXCEPT ![p][Pagina(c)] =
                        [nro_marco |-> m, presencia |-> TRUE,
                         modificado |-> FALSE, uso |-> TRUE]]
  /\ Va(c, IF ENTRADAS_TLB > 0 THEN "sacarTlb" ELSE "acceder")
  /\ UNCHANGED <<umc, tablasDePagina, manecilla, bitmap_frames, memoriaposta, tlb,
                 swap, nucleo, cpus, respuesta>>

\* The page goes into the frame of the victim, which keeps modificado.  Nothing
\* protects the entries: they may have been freed.
PisarVictima(c) ==
  /\ EnPaso(c, "pisar")
  /\ LET p == Activo(c)
         v == hilos[c].victima
         m == tabla[p][v].nro_marco
     IN  \/ /\ Liberada(p, v) \/ Liberada(p, Pagina(c))
            /\ umc' = "indefinida" /\ UNCHANGED resto
         \/ /\ ~Liberada(p, v) /\ ~Liberada(p, Pagina(c))
            /\ memoria_principal' = [memoria_principal EXCEPT ![m] = hilos[c].leido]
            /\ tabla' = [tabla EXCEPT
                 ![p][Pagina(c)] = [nro_marco |-> m, presencia |-> TRUE,
                                    modificado |-> FALSE, uso |-> TRUE],
                 ![p][v].presencia = FALSE, ![p][v].nro_marco = -1]
            /\ Va(c, IF ENTRADAS_TLB > 0 THEN "sacarTlb" ELSE "acceder")
            /\ UNCHANGED <<umc, tablasDePagina, manecilla, bitmap_frames, memoriaposta,
                           tlb, swap, nucleo, cpus, respuesta>>

-----------------------------------------------------------------------------
(* The TLB, and the end of a request *)

\* Mutation: the entry of the victim stays.
SacarDeTlbNada(c) ==
  /\ EnPaso(c, "sacarTlb") /\ Va(c, "cargarTlb")
  /\ UNCHANGED <<umc, paginacion, marcos, tlb, swap, nucleo, cpus, respuesta>>

\* eliminar_pagina_TLB: the entry of the victim.
EliminarPaginaTLB(c) ==
  /\ EnPaso(c, "sacarTlb")
  /\ tlb' = RemoveFirst(tlb, EnTlb(Activo(c), hilos[c].victima))
  /\ Va(c, "cargarTlb")
  /\ UNCHANGED <<umc, paginacion, marcos, swap, nucleo, cpus, respuesta>>

\* cargar_en_TLB, after eliminar_menos_usado_en_TLB when it is full.
CargarEnTLB(c) ==
  /\ EnPaso(c, "cargarTlb")
  /\ tlb' = Append(IF Len(tlb) = ENTRADAS_TLB THEN Tail(tlb) ELSE tlb,
                   EnTlb(Activo(c), Pagina(c)))
  /\ Va(c, "acceder")
  /\ UNCHANGED <<umc, paginacion, marcos, swap, nucleo, cpus, respuesta>>

\* BUFFER_LEIDO, or the write and its OK.  The frame is the one the entry names
\* now.
Acceder(c) ==
  /\ EnPaso(c, "acceder")
  /\ LET m == Entrada(c).nro_marco
     IN  \/ /\ Liberada(Activo(c), Pagina(c))
            /\ umc' = "indefinida" /\ UNCHANGED resto
         \/ /\ ~Liberada(Activo(c), Pagina(c))
            /\ hilos[c].op = "LECTURA_PAGINA"
            /\ Responder(c, memoria_principal[m])
            /\ UNCHANGED <<umc, paginacion, marcos, tlb, swap, nucleo, cpus>>
         \/ /\ ~Liberada(Activo(c), Pagina(c))
            /\ hilos[c].op = "ESCRITURA_PAGINA"
            /\ memoria_principal' = [memoria_principal EXCEPT ![m] = hilos[c].dato]
            /\ tabla' = [tabla EXCEPT ![Activo(c)][Pagina(c)].modificado = TRUE]
            /\ Responder(c, "OK")
            /\ UNCHANGED <<umc, tablasDePagina, manecilla, bitmap_frames, memoriaposta,
                           tlb, swap, nucleo, cpus>>

-----------------------------------------------------------------------------
(* FINALIZA_PROGRAMA, in the kernel's thread *)

\* The kernel finishes a program no CPU runs; the swap forgets it.
FinalizaPrograma(p) ==
  /\ umc = "viva" /\ finalizador.paso = "espera"
  /\ programa[p] \in {"admitido", "abortado"} /\ \A c \in Cpus : corre[c] # p
  /\ programa' = [programa EXCEPT ![p] = "final"]
  /\ procesosEnSwap' = procesosEnSwap \ {p}
  /\ enSwap' = [enSwap EXCEPT ![p] = EnBlanco(p)]
  /\ finalizador' = [FinalizadorLibre EXCEPT !.paso = "quitar", !.pid = p]
  /\ UNCHANGED <<umc, paginacion, marcos, tlb, hilos, cpus, respuesta>>

\* dictionary_remove, and eliminarPaginasEnTLB without mutex_tlb.
QuitarTabla ==
  /\ umc = "viva" /\ finalizador.paso = "quitar"
  /\ tablasDePagina' = tablasDePagina \ {finalizador.pid}
  /\ tlb' = IF ENTRADAS_TLB > 0 THEN QuitarPrimera(finalizador.pid) ELSE tlb
  /\ finalizador' = [finalizador EXCEPT !.paso = "mirar"]
  /\ UNCHANGED <<umc, tabla, manecilla, marcos, hilos, swap, programa, cpus, respuesta>>

\* eliminarPaginas reads nro_marco before it takes memoriaposta.
MirarMarco ==
  /\ umc = "viva" /\ finalizador.paso = "mirar"
  /\ finalizador' = [finalizador EXCEPT !.paso = "liberar",
                       !.marco = tabla[finalizador.pid][finalizador.pag].nro_marco]
  /\ UNCHANGED <<umc, paginacion, marcos, tlb, hilos, swap, programa, cpus, respuesta>>

\* The bit of the frame, free(pagina), and the next page.  For a page that is
\* not in memory the bit is the one before the first, which is nobody's.
EliminarPaginas ==
  /\ umc = "viva" /\ finalizador.paso = "liberar" /\ memoriaposta = Nadie
  /\ LET p == finalizador.pid
         g == finalizador.pag
     IN  /\ bitmap_frames' = bitmap_frames \ {finalizador.marco}
         /\ tabla' = [tabla EXCEPT ![p][g] = TablaNueva(p)[g]]
         /\ manecilla' = [manecilla EXCEPT ![p] = 0]
         /\ finalizador' = IF g + 1 = CantPaginas[p] THEN FinalizadorLibre
                           ELSE [finalizador EXCEPT !.paso = "mirar", !.pag = g + 1]
  /\ UNCHANGED <<umc, tablasDePagina, memoria_principal, memoriaposta, tlb, hilos,
                 swap, programa, cpus, respuesta>>

-----------------------------------------------------------------------------
(* The console of the UMC: it takes every permit of programasquepuedencorrer,
   so no thread is inside a request (Consola_Umc.c:252-272) *)

NadieCorre == umc = "viva" /\ finalizador.paso = "espera" /\ \A c \in Cpus : EnEspera(c)

\* "flush tlb".
LimpiarTLB ==
  /\ "flush tlb" \in Comandos /\ NadieCorre
  /\ tlb # <<>> /\ tlb' = <<>>
  /\ UNCHANGED <<umc, paginacion, marcos, hilos, swap, nucleo, cpus, respuesta>>

\* "flush memory": every page of p that has a frame.
MarcarPaginas(p) ==
  /\ "flush memory" \in Comandos /\ NadieCorre
  /\ p \in tablasDePagina
  /\ tabla' = [tabla EXCEPT ![p] = [g \in Pags(p) |->
                 [tabla[p][g] EXCEPT !.modificado = tabla[p][g].modificado
                                                    \/ tabla[p][g].nro_marco # -1]]]
  /\ UNCHANGED <<umc, tablasDePagina, manecilla, marcos, tlb, hilos, swap, nucleo,
                 cpus, respuesta>>

-----------------------------------------------------------------------------
PasoDelHilo(c) ==
  \/ BuscarPaginaEnTabla(c) \/ ElegirMarco(c) \/ ElegirVictima(c)
  \/ LeerDeSwap(c) \/ InstalarEnMarco(c) \/ PisarVictima(c)
  \/ EliminarPaginaTLB(c) \/ CargarEnTLB(c) \/ Acceder(c)

Finalizar == QuitarTabla \/ MirarMarco \/ EliminarPaginas

Pide(c) == \E g \in Pags(corre[c]) :
             \/ Pedir(c, "LECTURA_PAGINA", g, SinDato)
             \/ \E d \in Datos : Pedir(c, "ESCRITURA_PAGINA", g, d)

Next == \/ \E p \in Pids : \/ NuevoPrograma(p) \/ FinalizaPrograma(p)
                           \/ MarcarPaginas(p)
                           \/ \E c \in Cpus : CambioProcesoActivo(c, p)
        \/ \E c \in Cpus : \/ corre[c] # SinProceso /\ Pide(c)
                           \/ Devolver(c) \/ CpuMuere(c) \/ PasoDelHilo(c)
        \/ Finalizar \/ LimpiarTLB

Spec == Init /\ [][Next]_vars

-----------------------------------------------------------------------------
(* Properties *)

TablaOK(p) == /\ DOMAIN tabla[p] = Pags(p)
              /\ \A g \in Pags(p) :
                   tabla[p][g] \in [nro_marco : Marcos \union {-1}, presencia : BOOLEAN,
                                    modificado : BOOLEAN, uso : BOOLEAN]
              /\ manecilla[p] \in Pags(p)

\* Types of the state of atender_conexion and estructuras_umc; a page is present
\* exactly when it names a frame, and one that left memory lost its bit of use.
TypeOK ==
  /\ umc \in {"viva", "muerta", "indefinida"}
  /\ tablasDePagina \subseteq Pids /\ procesosEnSwap \subseteq Pids
  /\ \A p \in Pids :
       /\ TablaOK(p) /\ enSwap[p] \in [Pags(p) -> Datos]
       /\ \A g \in Pags(p) : /\ tabla[p][g].presencia <=> tabla[p][g].nro_marco # -1
                             /\ tabla[p][g].uso => tabla[p][g].presencia
  /\ bitmap_frames \subseteq Marcos /\ memoria_principal \in [Marcos -> Datos]
  /\ memoriaposta \in Cpus \union {Nadie}
  /\ \A c \in Cpus :
       /\ hilos[c].paso \in {"espera", "tabla", "marco", "primerMarco", "victima", "leer",
                             "instalar", "pisar", "sacarTlb", "cargarTlb", "acceder"}
       /\ hilos[c].dato \in Datos \union {SinDato}
       /\ respuesta[c] \in Datos \union {SinDato, "OK", "NO_OK"}

EnMemoria == UNION {{<<p, g>> : g \in Presentes(tabla[p])} : p \in Pids}
MarcoDe(x) == tabla[x[1]][x[2]].nro_marco

\* No two pages share a frame, and the frames marked in the bitmap are exactly
\* those of some page, whatever the threads do between buscar_pagina_en_tabla,
\* reemplazarPagina and eliminarPaginas (the frame found under memoriaposta is
\* taken before anyone else looks; a victim gives its frame up once; a program
\* that ends gives its frames back one by one while faults go on).
MarcosExclusivos ==
  /\ \A x, y \in EnMemoria : MarcoDe(x) = MarcoDe(y) => x = y
  /\ bitmap_frames = {MarcoDe(x) : x \in EnMemoria}

\* Every frame of a process that lives is marked, whatever happened to the CPUs of
\* the others: Conexiones_Umc.c:337 says that FINALIZA_PROGRAMA marks as free the
\* frames assigned to the program that ends.
MarcosDeLosVivos ==
  \A x \in EnMemoria : x[1] \in procesosEnSwap => MarcoDe(x) \in bitmap_frames

\* MARCO_X_PROC bounds the frames of a process across faults, replacements and
\* CPUs (the test of buscar_pagina_en_tabla is ==, not >=).
LimiteDeMarcos == \A p \in Pids : Cardinality(Presentes(tabla[p])) <= MARCO_X_PROC

\* An entry of the TLB of a process that lives points at a page in memory, but
\* for the victim of a replacement whose thread has not called
\* eliminar_pagina_TLB yet; no page is there twice and the TLB never outgrows
\* ENTRADAS_TLB (it is evicted on ==, not >=).
TlbCoherente ==
  /\ Len(tlb) <= ENTRADAS_TLB
  /\ \A i, j \in DOMAIN tlb : tlb[i] = tlb[j] => i = j
  /\ \A i \in DOMAIN tlb :
       LET p == tlb[i].pid
           g == tlb[i].nroPagina
       IN  \/ p \notin procesosEnSwap \/ tabla[p][g].presencia
           \/ \E c \in Cpus : /\ hilos[c].paso = "sacarTlb" /\ Activo(c) = p
                             /\ hilos[c].victima = g

\* The frame that encontrarPrimerVacio found stays free while the thread talks to
\* the swap: memoriaposta is taken exactly from the choice to bitarray_set_bit,
\* and every branch that chose no frame gave it back.
MarcoReservado ==
  umc = "viva" =>
    \A c \in Cpus :
      LET reserva == hilos[c].paso \in {"leer", "instalar"} /\ hilos[c].victima = -1
      IN  /\ memoriaposta = c <=> reserva
          /\ reserva => hilos[c].marco \in Marcos \ bitmap_frames

\* A program that got its first frame is never refused again: NO_OK goes only to
\* one without a page in memory, and whoever has a page keeps one until it is
\* finished, whatever replacements and other faults come between the count of
\* its pages and the search for a frame.  On this rests asignar() of the CPU,
\* whose NO_OK is marked "no se me ocurre por que pasaria esto"
\* (primitivas.c:173), and dereferenciar(), which does not test for NULL.
NoOkSoloAlEmpezar ==
  [][/\ \A c \in Cpus : respuesta'[c] = "NO_OK" /\ respuesta[c] # "NO_OK"
                        => Presentes(tabla[Activo(c)]) = {}
     /\ \A p \in Pids : Presentes(tabla[p]) # {} /\ programa[p] # "final"
                        => Presentes(tabla'[p]) # {}]_vars

\* The memory the CPUs see: a page is what its frame holds, or its copy in the
\* swap.
Visible(p) == [g \in Pags(p) |->
                 IF tabla[p][g].presencia THEN memoria_principal[tabla[p][g].nro_marco]
                 ELSE enSwap[p][g]]

PedidoDe(c) ==
  IF EnEspera(c) THEN [op |-> "NINGUNO", pid |-> SinProceso, pag |-> 0, dato |-> SinDato]
  ELSE [op |-> hilos[c].op, pid |-> Activo(c), pag |-> hilos[c].pag, dato |-> hilos[c].dato]

Abs == INSTANCE MemoriaAbs
         WITH procesos <- procesosEnSwap,
              paginas <- [p \in Pids |-> IF p \in procesosEnSwap THEN Visible(p)
                                         ELSE EnBlanco(p)],
              pedido <- [c \in Cpus |-> PedidoDe(c)]

\* Frames, replacement, write-back, TLB and swap together are a memory where each
\* process reads what it last wrote (MemoriaAbs).
ImplementaAbs == Abs!Spec
=============================================================================
