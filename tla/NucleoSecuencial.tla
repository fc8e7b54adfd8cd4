--------------------------- MODULE NucleoSecuencial ---------------------------
(***************************************************************************)
(* Proofs about Nucleo when nobody but the holder of mutexKernel calls     *)
(* enviar_a_cpu(): no program does I/O and no CPU gets SIGUSR1.  The       *)
(* programs use semaphores.  TInv and LInv are those of NucleoProofs.      *)
(*   SInv  what the kernel and each CPU are saying to each other, while    *)
(*         consoles and CPUs die at any moment;                            *)
(*   CInv  the semaphores and the dispatching, when no console dies before *)
(*         its program ends;                                               *)
(*   VInv  nothing hangs, when no CPU dies either.                         *)
(***************************************************************************)
EXTENDS NucleoProofs

-----------------------------------------------------------------------------
(* The conversation of the kernel with one CPU *)

Avisos == {"IMPRIMIR", "SIGNAL"}
Preguntas == {"WAIT", "OBTENER"}
Sueltas == {"FIN_QUANTUM", "FINALIZA", "ERROR_MEM"}
Vivas == {"apagada", "libre", "corriendo", "espera"}
Solo(s, O) == \A i \in DOMAIN s : s[i].op \in O
En(h, paso, c) == h.paso = paso /\ h.cpu = c

\* h wrote down that CPU c gets a PCB, and has not sent it yet.
Da(h, c) == h.paso \in {"ejecutar", "enviar"} /\ h.cpu = c

\* The answers and the PCB that a CPU may find waiting for it.
Ok == Mensaje("OK", 0, Nadie)
NoOk == Mensaje("NO_OK", 0, Nadie)
Correr(p) == Mensaje("CORRER", p, Nadie)

Ociosa(c, s, m, R, h) ==
  /\ Solo(s, {"HS"} \union Avisos \union Sueltas)
  /\ m # <<>> => /\ \E p \in R : m = <<Correr(p)>>
                 /\ Solo(s, {"HS"}) /\ ~Da(h, c)

Corriendo(c, e, s, m, R, h) ==
  e.pid \in R /\ Solo(s, {"HS"} \union Avisos) /\ m = <<>> /\ ~Da(h, c)

\* A CPU in wait(): its question was not read, is being answered or was
\* answered; after a NO_OK another PCB may come behind.
Esperando(c, e, s, m, R, h) ==
  \/ /\ m = <<>> /\ s # <<>>
     /\ s[Len(s)].op \in Preguntas /\ s[Len(s)].pid = e.pid
  \/ m = <<>> /\ s = <<>> /\ En(h, "responder", c)
  \/ s = <<>> /\ m = <<Ok>> /\ e.pid \in R /\ ~Da(h, c)
  \/ s = <<>> /\ m = <<NoOk>>
  \/ s = <<>> /\ (\E p \in R : m = <<NoOk, Correr(p)>>) /\ ~Da(h, c)

\* CPU c is e, s is what it sent and m what it was sent, R the PCBs it has in
\* lista_relacion, h the holder of mutexKernel.
Charla(c, e, s, m, R, h) ==
  /\ \A i \in DOMAIN s : s[i].op # "HS" => s[i].pid \in R
  /\ \A i \in DOMAIN s : i # Len(s) => s[i].op \in {"HS"} \union Avisos
  /\ Da(h, c) => Solo(s, {"HS"})
  /\ En(h, "responder", c) => /\ s = <<>>
                              /\ e.est \in Vivas => e.est = "espera" /\ m = <<>>
  /\ e.est = "apagada" => s = <<>>
  /\ e.est \in {"apagada", "libre"} => Ociosa(c, s, m, R, h)
  /\ e.est = "corriendo" => Corriendo(c, e, s, m, R, h)
  /\ e.est = "espera" => Esperando(c, e, s, m, R, h)

\* The holder of the mutex goes on with something that is not about c.
LEMMA CharlaOtroHilo ==
  ASSUME NEW c, NEW e, NEW s, NEW m, NEW R, NEW h, NEW g, Charla(c, e, s, m, R, h),
         ~En(h, "responder", c), ~En(g, "responder", c), ~Da(g, c)
  PROVE  Charla(c, e, s, m, R, g)
BY DEF Charla, Ociosa, Corriendo, Esperando

LEMMA CharlaHS ==
  ASSUME NEW c, NEW e, NEW s \in Seq(MensajesDeCpu), NEW m, NEW R, NEW h,
         Charla(c, e, s, m, R, h), s # <<>>, Head(s).op \in {"HS"} \union Avisos
  PROVE  Charla(c, e, Tail(s), m, R, h)
<1>1. PICK t : t = Tail(s)
  OBVIOUS
<1>2. /\ t \in Seq(MensajesDeCpu) /\ Len(s) \in Nat \ {0} /\ DOMAIN s = 1 .. Len(s)
      /\ DOMAIN t = 1 .. Len(s) - 1 /\ Len(t) = Len(s) - 1
      /\ \A i \in DOMAIN t : t[i] = s[i + 1] /\ i + 1 \in DOMAIN s
      /\ s[1].op \in {"HS"} \union Avisos
  BY <1>1, ColaEs
<1> SUFFICES Charla(c, e, t, m, R, h)
  BY <1>1
<1>3. ~En(h, "responder", c)
  BY DEF Charla
<1>4. /\ \A i \in DOMAIN t : t[i].op # "HS" => t[i].pid \in R
      /\ \A i \in DOMAIN t : i # Len(t) => t[i].op \in {"HS"} \union Avisos
  BY <1>2 DEF Charla
<1>5. \A O : Solo(s, O) => Solo(t, O)
  BY <1>2 DEF Solo
<1>6. e.est # "apagada"
  BY DEF Charla
<1>7. CASE e.est = "libre"
  BY <1>3, <1>4, <1>5, <1>7 DEF Charla, Ociosa
<1>8. CASE e.est = "corriendo"
  BY <1>3, <1>4, <1>5, <1>8 DEF Charla, Corriendo
<1>9. CASE e.est = "espera"
  <2>1. m = <<>> /\ s[Len(s)].op \in Preguntas /\ s[Len(s)].pid = e.pid
    BY <1>3, <1>9 DEF Charla, Esperando
  <2>2. Len(s) # 1
    BY <1>2, <2>1 DEF Avisos, Preguntas
  <2>3. Len(t) \in DOMAIN t /\ Len(t) + 1 = Len(s) /\ t # <<>>
    BY <1>2, <2>2
  <2>4. t[Len(t)] = s[Len(s)]
    BY <1>2, <2>3
  <2>5. Esperando(c, e, t, m, R, h)
    BY <2>1, <2>3, <2>4 DEF Esperando
  <2> QED BY <1>3, <1>4, <1>5, <1>9, <2>5 DEF Charla
<1>10. CASE e.est \notin Vivas
  BY <1>3, <1>4, <1>5, <1>10 DEF Charla, Vivas
<1> QED BY <1>6, <1>7, <1>8, <1>9, <1>10 DEF Vivas

LEMMA UltimaCola ==
  ASSUME NEW S, NEW s \in Seq(S), Len(s) = 1
  PROVE  Tail(s) = <<>>
<1>1. PICK t : t = Tail(s)
  OBVIOUS
<1>2. t \in Seq(S) /\ Len(t) = 0
  <2>1. s # <<>>
    OBVIOUS
  <2> QED BY <1>1, <2>1, ColaEs
<1> QED BY <1>1, <1>2, EmptySeq

\* A question or a farewell is the last message the CPU sent.
Final(c, e, s, m, R, h) ==
  /\ Tail(s) = <<>> /\ Head(s).pid \in R
  /\ ~En(h, "responder", c) /\ ~Da(h, c)
  /\ e.est \notin {"apagada", "corriendo"}
  /\ e.est = "espera" => /\ Head(s).op \in Preguntas
                         /\ m = <<>> /\ Head(s).pid = e.pid
  /\ e.est = "libre" => Head(s).op \in Sueltas /\ m = <<>>

LEMMA CharlaFinal ==
  ASSUME NEW c, NEW e, NEW s \in Seq(MensajesDeCpu), NEW m, NEW R, NEW h,
         Charla(c, e, s, m, R, h), s # <<>>, Head(s).op \in Preguntas \union Sueltas
  PROVE  Final(c, e, s, m, R, h)
<1>1. /\ Len(s) \in Nat \ {0} /\ DOMAIN s = 1 .. Len(s) /\ Head(s) = s[1] /\ 1 \in DOMAIN s
      /\ Tail(s) \in Seq(MensajesDeCpu) /\ Len(Tail(s)) = Len(s) - 1
  BY ColaEs
<1>2. s[1].op # "HS" /\ s[1].op \notin Avisos
  BY <1>1 DEF Preguntas, Sueltas, Avisos
<1>3. Len(s) = 1
  BY <1>1, <1>2 DEF Charla
<1>4. Tail(s) = <<>>
  BY <1>3, UltimaCola
<1>5. Head(s).pid \in R /\ ~En(h, "responder", c) /\ ~Da(h, c)
  BY <1>1, <1>2 DEF Charla, Solo
<1>6. e.est # "apagada" /\ e.est # "corriendo"
  BY <1>1, <1>2 DEF Charla, Corriendo, Solo
<1>7. ASSUME e.est = "espera"
      PROVE  Head(s).op \in Preguntas /\ m = <<>> /\ Head(s).pid = e.pid
  BY <1>1, <1>3, <1>7 DEF Charla, Esperando
<1>8. ASSUME e.est = "libre"
      PROVE  Head(s).op \in Sueltas /\ m = <<>>
  <2>1. Ociosa(c, s, m, R, h)
    BY <1>8 DEF Charla
  <2>2. s[1].op \in {"HS"} \union Avisos \union Sueltas
    BY <1>1, <2>1 DEF Ociosa, Solo
  <2>3. m = <<>>
    BY <1>1, <1>2, <2>1 DEF Ociosa, Solo
  <2> QED BY <1>1, <1>2, <2>2, <2>3
<1> QED BY <1>4, <1>5, <1>6, <1>7, <1>8 DEF Final

\* The farewell was read and the relation freed.
LEMMA CharlaSoltada ==
  ASSUME NEW c, NEW e, NEW m, NEW R, NEW g, e.est \notin {"apagada", "corriendo", "espera"},
         e.est = "libre" => m = <<>>, ~En(g, "responder", c), ~Da(g, c)
  PROVE  Charla(c, e, <<>>, m, R, g)
BY DEF Charla, Ociosa, Solo, Vivas

\* The CPU sends something and goes on.
LEMMA CharlaManda ==
  ASSUME NEW c, NEW e, NEW s \in Seq(MensajesDeCpu), NEW m, NEW R, NEW h,
         Charla(c, e, s, m, R, h), NEW x \in MensajesDeCpu, NEW f,
         \/ /\ e.est = "apagada" /\ x.op = "HS" /\ f.est = "libre"
         \/ /\ e.est = "corriendo" /\ x.pid = e.pid /\ x.op \in Avisos /\ f = e
         \/ /\ e.est = "corriendo" /\ x.pid = e.pid /\ x.op \in Preguntas
            /\ f.est = "espera" /\ f.pid = e.pid
         \/ /\ e.est = "corriendo" /\ x.pid = e.pid /\ x.op \in Sueltas /\ f.est = "libre"
  PROVE  Charla(c, f, Append(s, x), m, R, h)
<1>1. PICK t : t = Append(s, x)
  OBVIOUS
<1>2. /\ DOMAIN t = 1 .. Len(s) + 1 /\ t[Len(s) + 1] = x /\ Len(t) = Len(s) + 1 /\ t # <<>>
      /\ \A i \in DOMAIN s : t[i] = s[i]
      /\ Len(s) \in Nat /\ DOMAIN s = 1 .. Len(s)
  BY <1>1, AgregarEs
<1>3. \A O : Solo(s, O) /\ x.op \in O => Solo(t, O)
  BY <1>2 DEF Solo
<1>4. ~En(h, "responder", c)
  BY DEF Charla, Vivas
<1>5. CASE e.est = "apagada" /\ x.op = "HS" /\ f.est = "libre"
  <2>1. s = <<>> /\ Len(s) = 0 /\ Ociosa(c, s, m, R, h)
    BY <1>2, <1>5 DEF Charla
  <2>2. Solo(t, {"HS"})
    BY <1>2, <1>5, <2>1 DEF Solo
  <2>3. Solo(t, {"HS"} \union Avisos \union Sueltas)
    BY <2>2 DEF Solo
  <2>4. Ociosa(c, t, m, R, h)
    BY <2>1, <2>2, <2>3 DEF Ociosa
  <2>5. /\ \A i \in DOMAIN t : t[i].op # "HS" => t[i].pid \in R
        /\ \A i \in DOMAIN t : i # Len(t) => t[i].op \in {"HS"} \union Avisos
    BY <1>2, <2>2 DEF Solo
  <2> QED BY <1>1, <1>4, <1>5, <2>2, <2>4, <2>5 DEF Charla
<1>6. CASE e.est = "corriendo" /\ x.pid = e.pid
  <2>1. Corriendo(c, e, s, m, R, h)
    BY <1>6 DEF Charla
  <2>2. /\ \A i \in DOMAIN t : t[i].op # "HS" => t[i].pid \in R
    BY <1>2, <1>6, <2>1 DEF Charla, Corriendo
  <2>3. \A i \in DOMAIN t : i # Len(t) => t[i].op \in {"HS"} \union Avisos
    BY <1>2, <2>1 DEF Corriendo, Solo
  <2>4. CASE x.op \in Avisos /\ f = e
    <3>1. Solo(t, {"HS"} \union Avisos)
      BY <1>3, <2>1, <2>4 DEF Corriendo
    <3>2. Corriendo(c, e, t, m, R, h)
      BY <2>1, <3>1 DEF Corriendo
    <3> QED BY <1>1, <1>4, <1>6, <2>1, <2>2, <2>3, <2>4, <3>2 DEF Charla, Corriendo
  <2>5. CASE x.op \in Preguntas /\ f.est = "espera" /\ f.pid = e.pid
    <3>1. Esperando(c, f, t, m, R, h)
      BY <1>2, <1>6, <2>1, <2>5 DEF Corriendo, Esperando
    <3> QED BY <1>1, <1>4, <2>1, <2>2, <2>3, <2>5, <3>1 DEF Charla, Corriendo
  <2>6. CASE x.op \in Sueltas /\ f.est = "libre"
    <3>1. Solo(t, {"HS"} \union Avisos \union Sueltas)
      BY <1>2, <2>1, <2>6 DEF Corriendo, Solo
    <3>2. Ociosa(c, t, m, R, h)
      BY <2>1, <3>1 DEF Corriendo, Ociosa
    <3> QED BY <1>1, <1>4, <2>1, <2>2, <2>3, <2>6, <3>2 DEF Charla, Corriendo
  <2> QED BY <1>5, <1>6, <2>4, <2>5, <2>6
<1> QED BY <1>5, <1>6

LEMMA CharlaMuere ==
  ASSUME NEW c, NEW e, NEW s, NEW m, NEW R, NEW h, Charla(c, e, s, m, R, h), NEW f,
         f.est \notin Vivas
  PROVE  Charla(c, f, s, m, R, h)
BY DEF Charla, Vivas

\* A dead CPU: what it is sent does not matter.
LEMMA CharlaMuerta ==
  ASSUME NEW c, NEW e, NEW s, NEW m, NEW n, NEW R, NEW h, Charla(c, e, s, m, R, h),
         e.est \notin Vivas
  PROVE  Charla(c, e, s, n, R, h)
BY DEF Charla, Vivas

\* The CPU takes what it was sent.
LEMMA CharlaRecibe ==
  ASSUME NEW c, NEW e, NEW s, NEW m \in Seq(MensajesDelNucleo), NEW R, NEW h,
         Charla(c, e, s, m, R, h), m # <<>>, e.est \in {"libre", "espera"}
  PROVE  /\ e.est = "libre" => /\ Head(m).op = "CORRER" /\ Head(m).pid \in R
                               /\ \A f : f.est = "corriendo" /\ f.pid = Head(m).pid
                                     => Charla(c, f, s, Tail(m), R, h)
         /\ e.est = "espera" => /\ Head(m).op \in {"OK", "NO_OK"}
                                /\ \A f : \/ /\ Head(m).op = "OK" /\ f.est = "corriendo"
                                             /\ f.pid = e.pid
                                          \/ Head(m).op = "NO_OK" /\ f.est = "libre"
                                     => Charla(c, f, s, Tail(m), R, h)
<1>1. ~En(h, "responder", c)
  BY DEF Charla, Vivas
<1>2. ASSUME e.est = "libre"
      PROVE  /\ Head(m).op = "CORRER" /\ Head(m).pid \in R
             /\ \A f : f.est = "corriendo" /\ f.pid = Head(m).pid
                    => Charla(c, f, s, Tail(m), R, h)
  <2>1. Ociosa(c, s, m, R, h)
    BY <1>2 DEF Charla
  <2>2. PICK p \in R : m = <<Correr(p)>>
    BY <2>1 DEF Ociosa
  <2>3. Head(m) = Correr(p) /\ Tail(m) = <<>>
    BY <2>2
  <2>4. Head(m).op = "CORRER" /\ Head(m).pid = p
    BY <2>3 DEF Correr, Mensaje
  <2>5. /\ Solo(s, {"HS"}) /\ ~Da(h, c) /\ Solo(s, {"HS"} \union Avisos)
    BY <2>1 DEF Ociosa, Solo
  <2>6. ASSUME NEW f, f.est = "corriendo", f.pid = p
        PROVE  Charla(c, f, s, <<>>, R, h)
    BY <1>1, <2>5, <2>6 DEF Charla, Corriendo
  <2> QED BY <2>3, <2>4, <2>6
<1>3. ASSUME e.est = "espera"
      PROVE  /\ Head(m).op \in {"OK", "NO_OK"}
             /\ \A f : \/ /\ Head(m).op = "OK" /\ f.est = "corriendo" /\ f.pid = e.pid
                       \/ Head(m).op = "NO_OK" /\ f.est = "libre"
                    => Charla(c, f, s, Tail(m), R, h)
  <2>1. Ok.op = "OK" /\ NoOk.op = "NO_OK"
    BY DEF Ok, NoOk, Mensaje
  <2>2. s = <<>>
    BY <1>1, <1>3 DEF Charla, Esperando
  <2>3. CASE m = <<Ok>> /\ e.pid \in R /\ ~Da(h, c)
    <3>1. Head(m) = Ok /\ Tail(m) = <<>>
      BY <2>3
    <3>2. ASSUME NEW f, f.est = "corriendo", f.pid = e.pid
          PROVE  Charla(c, f, s, <<>>, R, h)
      BY <1>1, <2>2, <2>3, <3>2 DEF Charla, Corriendo, Solo
    <3> QED BY <2>1, <3>1, <3>2
  <2>4. CASE m = <<NoOk>>
    <3>1. Head(m) = NoOk /\ Tail(m) = <<>>
      BY <2>4
    <3>2. ASSUME NEW f, f.est = "libre"
          PROVE  Charla(c, f, s, <<>>, R, h)
      BY <1>1, <2>2, <3>2 DEF Charla, Ociosa, Solo
    <3> QED BY <2>1, <3>1, <3>2
  <2>5. CASE (\E p \in R : m = <<NoOk, Correr(p)>>) /\ ~Da(h, c)
    <3>1. PICK p \in R : m = <<NoOk, Correr(p)>>
      BY <2>5
    <3>2. Head(m) = NoOk /\ Tail(m) = <<Correr(p)>>
      BY <3>1
    <3>3. ASSUME NEW f, f.est = "libre"
          PROVE  Charla(c, f, s, <<Correr(p)>>, R, h)
      BY <1>1, <2>2, <2>5, <3>3 DEF Charla, Ociosa, Solo
    <3> QED BY <2>1, <3>2, <3>3
  <2> QED BY <1>3, <2>3, <2>4, <2>5 DEF Charla, Esperando
<1> QED BY <1>2, <1>3

\* The kernel answers OK.
LEMMA CharlaOk ==
  ASSUME NEW c, NEW e, NEW s \in Seq(MensajesDeCpu), NEW m, NEW R, NEW h, NEW g,
         Charla(c, e, s, m, R, h), s # <<>>, Head(s).op \in Preguntas,
         ~En(g, "responder", c), ~Da(g, c), e.est \in Vivas
  PROVE  m = <<>> /\ Charla(c, e, Tail(s), <<Ok>>, R, g)
<1>1. /\ Tail(s) = <<>> /\ Head(s).pid \in R /\ e.est \notin {"apagada", "corriendo"}
      /\ e.est = "espera" => m = <<>> /\ Head(s).pid = e.pid
      /\ e.est = "libre" => Head(s).op \in Sueltas
  <2>1. Final(c, e, s, m, R, h)
    BY CharlaFinal
  <2> QED BY <2>1 DEF Final
<1>2. Head(s).op \notin Sueltas
  BY DEF Preguntas, Sueltas
<1>3. e.est = "espera" /\ m = <<>> /\ e.pid \in R
  BY <1>1, <1>2 DEF Vivas
<1>4. Esperando(c, e, <<>>, <<Ok>>, R, g)
  BY <1>3 DEF Esperando
<1>5. Charla(c, e, <<>>, <<Ok>>, R, g)
  BY <1>3, <1>4 DEF Charla, Solo
<1> QED BY <1>1, <1>3, <1>5

\* A question was read whose answer will be NO_OK.
LEMMA CharlaBloquea ==
  ASSUME NEW c, NEW e, NEW s \in Seq(MensajesDeCpu), NEW m, NEW R, NEW h, NEW Q, NEW g,
         Charla(c, e, s, m, R, h), s # <<>>, Head(s).op \in Preguntas, En(g, "responder", c)
  PROVE  Charla(c, e, Tail(s), m, Q, g)
<1>0. Head(s).op \in Preguntas \union Sueltas
  OBVIOUS
<1>1. /\ Tail(s) = <<>> /\ Head(s).pid \in R
      /\ ~En(h, "responder", c) /\ ~Da(h, c)
      /\ e.est \notin {"apagada", "corriendo"}
      /\ e.est = "espera" => /\ Head(s).op \in Preguntas
                             /\ m = <<>> /\ Head(s).pid = e.pid
      /\ e.est = "libre" => Head(s).op \in Sueltas /\ m = <<>>
  <2>1. Final(c, e, s, m, R, h)
    BY <1>0, CharlaFinal
  <2> QED BY <2>1 DEF Final
<1>2. Head(s).op \notin Sueltas
  BY DEF Preguntas, Sueltas
<1>3. ~Da(g, c)
  BY DEF En, Da
<1>4. Charla(c, e, <<>>, m, Q, g)
  BY <1>1, <1>2, <1>3 DEF Charla, Esperando, Vivas
<1> QED BY <1>1, <1>4

LEMMA CharlaNoOk ==
  ASSUME NEW c, NEW e, NEW s, NEW m, NEW R, NEW h, NEW g,
         Charla(c, e, s, m, R, h), En(h, "responder", c),
         ~En(g, "responder", c), ~Da(g, c)
  PROVE  /\ e.est \in Vivas => m = <<>> /\ Charla(c, e, s, <<NoOk>>, R, g)
         /\ e.est \notin Vivas => Charla(c, e, s, m, R, g)
<1>1. s = <<>> /\ (e.est \in Vivas => e.est = "espera" /\ m = <<>>)
  BY DEF Charla
<1>2. ASSUME e.est \in Vivas
      PROVE  m = <<>> /\ Charla(c, e, s, <<NoOk>>, R, g)
  <2>1. Esperando(c, e, s, <<NoOk>>, R, g)
    BY <1>1 DEF Esperando
  <2> QED BY <1>1, <1>2, <2>1 DEF Charla, Solo
<1>3. ASSUME e.est \notin Vivas
      PROVE  Charla(c, e, s, m, R, g)
  BY <1>1, <1>3 DEF Charla, Solo, Vivas
<1> QED BY <1>2, <1>3

\* Only handshakes are left of what a CPU without a PCB sent: it asks nothing.
LEMMA CharlaCallada ==
  ASSUME NEW c, NEW e, NEW s \in Seq(MensajesDeCpu), NEW m, NEW R, NEW h,
         Charla(c, e, s, m, R, h), Solo(s, {"HS"})
  PROVE  e.est = "espera" => \/ m = <<>> /\ s = <<>> /\ En(h, "responder", c)
                             \/ s = <<>> /\ m = <<Ok>> /\ e.pid \in R /\ ~Da(h, c)
                             \/ s = <<>> /\ m = <<NoOk>>
                             \/ /\ s = <<>> /\ \E p \in R : m = <<NoOk, Correr(p)>>
                                /\ ~Da(h, c)
<1>1. s # <<>> => Len(s) \in DOMAIN s
  BY EmptySeq
<1>2. s # <<>> => s[Len(s)].op \notin Preguntas
  BY <1>1 DEF Solo, Preguntas
<1> QED BY <1>2 DEF Charla, Esperando

\* A PCB goes to a free CPU.
LEMMA CharlaRelaciona ==
  ASSUME NEW c, NEW e, NEW s \in Seq(MensajesDeCpu), NEW m, NEW h, NEW g, NEW p,
         Charla(c, e, s, m, {}, h), h.paso = "relacionar", ~En(g, "responder", c)
  PROVE  Charla(c, e, s, m, {p}, g)
<1>1. Solo(s, {"HS"}) /\ ~En(h, "responder", c)
  BY DEF Charla, Solo, En, Da
<1>2. e.est # "corriendo"
  BY DEF Charla, Corriendo
<1>3. ASSUME e.est \in {"apagada", "libre"}
      PROVE  Ociosa(c, s, m, {p}, g)
  BY <1>3 DEF Charla, Ociosa
<1>4. ASSUME e.est = "espera"
      PROVE  Esperando(c, e, s, m, {p}, g)
  BY <1>1, <1>4, CharlaCallada DEF Esperando
<1> QED BY <1>1, <1>2, <1>3, <1>4 DEF Charla, Solo

LEMMA CharlaCorrer ==
  ASSUME NEW c, NEW e, NEW s \in Seq(MensajesDeCpu), NEW m, NEW R, NEW h, NEW g, NEW p \in R,
         Charla(c, e, s, m, R, h), Da(h, c),
         ~En(g, "responder", c), ~Da(g, c)
  PROVE  /\ e.est \in Vivas => Charla(c, e, s, Append(m, Correr(p)), R, g)
         /\ e.est \notin Vivas => Charla(c, e, s, m, R, g)
<1>1. Solo(s, {"HS"}) /\ ~En(h, "responder", c) /\ e.est # "corriendo"
  BY DEF Charla, Corriendo, En, Da
<1>2. ASSUME e.est \in {"apagada", "libre"}
      PROVE  Charla(c, e, s, Append(m, Correr(p)), R, g)
  <2>1. m = <<>> /\ Solo(s, {"HS"} \union Avisos \union Sueltas)
    BY <1>2 DEF Charla, Ociosa
  <2>2. Append(m, Correr(p)) = <<Correr(p)>>
    BY <2>1
  <2>3. Ociosa(c, s, <<Correr(p)>>, R, g)
    BY <1>1, <2>1 DEF Ociosa
  <2>4. Charla(c, e, s, <<Correr(p)>>, R, g)
    BY <1>1, <1>2, <2>3 DEF Charla
  <2> QED BY <2>2, <2>4
<1>3. ASSUME e.est = "espera"
      PROVE  Charla(c, e, s, Append(m, Correr(p)), R, g)
  <2>1. s = <<>> /\ m = <<NoOk>>
    BY <1>1, <1>3, CharlaCallada
  <2>2. Append(m, Correr(p)) = <<NoOk, Correr(p)>>
    <3>1. ASSUME NEW x, NEW y
          PROVE  Append(<<x>>, y) = <<x, y>>
      <4>1. PICK t : t = Append(<<x>>, y)
        OBVIOUS
      <4>2. <<x>> \in Seq({x, y}) /\ <<x, y>> \in Seq({x, y})
        OBVIOUS
      <4>3. t \in Seq({x, y}) /\ Len(t) = 2 /\ t[1] = x /\ t[2] = y
        BY <4>1, <4>2, AgregarEs
      <4>4. Len(<<x, y>>) = 2 /\ \A i \in 1 .. 2 : t[i] = <<x, y>>[i]
        BY <4>3
      <4>5. t = <<x, y>>
        BY <4>2, <4>3, <4>4, SeqEqual
      <4> QED BY <4>1, <4>5
    <3> QED BY <2>1, <3>1, Zenon
  <2>3. Esperando(c, e, s, <<NoOk, Correr(p)>>, R, g)
    BY <2>1 DEF Esperando
  <2>4. Charla(c, e, s, <<NoOk, Correr(p)>>, R, g)
    BY <1>1, <1>3, <2>3 DEF Charla
  <2> QED BY <2>2, <2>4
<1>4. ASSUME e.est \notin Vivas
      PROVE  Charla(c, e, s, m, R, g)
  BY <1>4, CharlaOtroHilo, <1>1
<1> QED BY <1>1, <1>2, <1>3, <1>4 DEF Vivas

-----------------------------------------------------------------------------
(* The kernel without threads of entrada_salida *)

K == hilos[Kernel]
Pares == EnSecuencia(relacion)
PidsDe(c) == {p \in Pids : [cpu |-> c, pid |-> p] \in Pares}

\* Nobody but the holder of mutexKernel calls enviar_a_cpu().
SoloKernel == /\ \A h \in HilosIO : hilos[h] = HiloLibre
              /\ pendienteES = 0 /\ K.paso \notin {"lanzar", "io", "eliminar"}

\* One relation per busy CPU.
UnaPorCpu == /\ corriendo = {r.cpu : r \in Pares}
             /\ \A r, t \in Pares : r.cpu = t.cpu => r = t

\* The CPU the kernel is about to give a PCB, or a NO_OK, is free; the PCB it is
\* sending is the one it wrote down.
Despachando ==
  /\ K.paso \in {"sacar", "relacionar", "responder"} => K.cpu \notin corriendo
  /\ K.paso \in {"ejecutar", "enviar"} => [cpu |-> K.cpu, pid |-> K.pid] \in Pares

CharlaDe(c) == Charla(c, cpu[c], canal[c], aCpu[c], PidsDe(c), K)
Hablan == \A c \in Cpus : CharlaDe(c)

\* The UMC is told once, of a program that is in Exit and has no console.
Finales ==
  \A p \in Pids : /\ finalizaciones[p] <= 1
                  /\ finalizaciones[p] > 0 => p \in colaExit /\ programas[p] \notin Consolas

SInv == SoloKernel /\ UnaPorCpu /\ Despachando /\ Hablan /\ Finales

\* Exec holds the PCBs that have a relation, but for the one that is being moved.
EInv == /\ K.paso # "ejecutar" => colaExec = ConRelacion
        /\ K.paso = "ejecutar" => colaExec = ConRelacion \ {K.pid}

\* What the invariants say.
LEMMA SecuencialDa ==
  ASSUME TInv, LInv, SInv, EInv
  PROVE  RelacionesCoherentes /\ CpuDeAcuerdo /\ FinalizaUnaVez /\ NuncaRevive
<1>1. /\ relacion \in Seq(Relacion) /\ Relaciones /\ UnaPorCpu /\ Hablan /\ Finales /\ Reparto
      /\ SoloKernel /\ colaExec \subseteq Pids
  BY DEF TInv, TiposDeListas, LInv, SInv, Lugares, TiposDeColas
<1>2. RelacionesCoherentes
  <2>1. ASSUME NEW i \in DOMAIN relacion, NEW j \in DOMAIN relacion, i # j
        PROVE  relacion[i].pid # relacion[j].pid /\ relacion[i].cpu # relacion[j].cpu
    <3>1. relacion[i].pid # relacion[j].pid
      BY <1>1, <2>1 DEF Relaciones, UnaPorPcb
    <3>2. relacion[i] \in Pares /\ relacion[j] \in Pares
      BY DEF Pares, EnSecuencia
    <3> QED BY <1>1, <3>1, <3>2 DEF UnaPorCpu
  <2>2. MutexLibre => colaExec = {r.pid : r \in EnSecuencia(relacion)}
    BY DEF EInv, MutexLibre, K, ConRelacion
  <2> QED BY <1>1, <2>1, <2>2 DEF RelacionesCoherentes, UnaPorCpu, Pares
<1>3. ASSUME NEW c \in Cpus, NEW p \in PidsDe(c)
      PROVE  [cpu |-> c, pid |-> p] \in Pares /\ p \in colaExec \union EnManos
  <2>1. [cpu |-> c, pid |-> p] \in Pares
    BY DEF PidsDe
  <2>2. p \in ConRelacion
    BY <2>1 DEF ConRelacion, Pares
  <2> QED BY <1>1, <2>1, <2>2, ManosSon DEF Relaciones
<1>4. CpuDeAcuerdo
  BY <1>1, <1>3 DEF CpuDeAcuerdo, Hablan, CharlaDe, Charla, Corriendo, Pares
<1>5. FinalizaUnaVez
  BY <1>1 DEF FinalizaUnaVez, Finales
<1>6. NuncaRevive
  <2> SUFFICES ASSUME NEW p \in Pids, finalizaciones[p] > 0
               PROVE  /\ p \notin EnSecuencia(colaReady) /\ p \notin colaExec /\ EnMano(p) = {}
                      /\ \A c \in Cpus :
                           /\ cpu[c].est = "corriendo" => cpu[c].pid # p
                           /\ cpu[c].est \in {"libre", "corriendo", "espera"} =>
                                Mensaje("CORRER", p, Nadie) \notin EnSecuencia(aCpu[c])
    BY DEF NuncaRevive
  <2>1. p \in colaExit
    BY <1>1 DEF Finales
  <2>2. p \notin EnSecuencia(colaReady) /\ p \notin colaExec /\ EnMano(p) = {}
    BY <1>1, <2>1 DEF Reparto, Listos, EnManos
  <2>3. ASSUME NEW c \in Cpus
        PROVE  /\ cpu[c].est = "corriendo" => cpu[c].pid # p
               /\ cpu[c].est \in {"libre", "corriendo", "espera"} =>
                    Correr(p) \notin EnSecuencia(aCpu[c])
    <3>1. p \notin PidsDe(c) /\ Charla(c, cpu[c], canal[c], aCpu[c], PidsDe(c), K)
      BY <1>1, <1>3, <2>2 DEF Hablan, CharlaDe, EnManos
    <3>2. cpu[c].est = "corriendo" => cpu[c].pid # p /\ aCpu[c] = <<>>
      BY <3>1 DEF Charla, Corriendo
    <3>3. cpu[c].est = "libre" => aCpu[c] = <<>> \/ \E q \in PidsDe(c) : aCpu[c] = <<Correr(q)>>
      BY <3>1 DEF Charla, Ociosa
    <3>4. cpu[c].est = "espera" => \/ aCpu[c] = <<>> \/ aCpu[c] = <<Ok>> \/ aCpu[c] = <<NoOk>>
                                   \/ \E q \in PidsDe(c) : aCpu[c] = <<NoOk, Correr(q)>>
      BY <3>1 DEF Charla, Esperando
    <3>5. /\ EnSecuencia(<<>>) = {}
          /\ \A x : EnSecuencia(<<x>>) = {x}
          /\ \A x, y : EnSecuencia(<<x, y>>) = {x, y}
      BY DEF EnSecuencia
    <3>6. /\ Correr(p) # Ok /\ Correr(p) # NoOk
          /\ \A q \in PidsDe(c) : Correr(p) # Correr(q)
      BY <3>1 DEF Correr, Ok, NoOk, Mensaje
    <3>7. cpu[c].est \in {"libre", "corriendo", "espera"} =>
            \/ aCpu[c] = <<>> \/ aCpu[c] = <<Ok>> \/ aCpu[c] = <<NoOk>>
            \/ \E q \in PidsDe(c) : aCpu[c] = <<Correr(q)>>
            \/ \E q \in PidsDe(c) : aCpu[c] = <<NoOk, Correr(q)>>
      BY <3>2, <3>3, <3>4
    <3>8. cpu[c].est \in {"libre", "corriendo", "espera"} =>
            Correr(p) \notin EnSecuencia(aCpu[c])
      <4>1. CASE aCpu[c] \in {<<>>, <<Ok>>, <<NoOk>>}
        BY <3>5, <3>6, <4>1
      <4>2. ASSUME NEW q \in PidsDe(c), aCpu[c] = <<Correr(q)>>
            PROVE  Correr(p) \notin EnSecuencia(aCpu[c])
        <5>1. EnSecuencia(aCpu[c]) = {Correr(q)}
          BY <3>5, <4>2, Zenon
        <5> QED BY <3>6, <5>1
      <4>3. ASSUME NEW q \in PidsDe(c), aCpu[c] = <<NoOk, Correr(q)>>
            PROVE  Correr(p) \notin EnSecuencia(aCpu[c])
        <5>1. EnSecuencia(aCpu[c]) = {NoOk, Correr(q)}
          BY <3>5, <4>3, Zenon
        <5> QED BY <3>6, <5>1
      <4> QED BY <3>7, <4>1, <4>2, <4>3
    <3> QED BY <3>2, <3>8
  <2> QED BY <2>2, <2>3 DEF Correr
<1> QED BY <1>2, <1>4, <1>5, <1>6

\* The PCB that a WAIT names is the one the kernel has down for that CPU.
LEMMA AcuerdoDa ==
  ASSUME TInv, SInv
  PROVE  Acuerdo
<1> SUFFICES ASSUME NEW c \in Cpus, canal[c] # <<>>, Head(canal[c]).op = "WAIT",
                    NEW i \in RelacionesDeCpu(c)
             PROVE  relacion[i].pid = Head(canal[c]).pid
  BY DEF Acuerdo
<1>1. canal[c] \in Seq(MensajesDeCpu)
  BY DEF TInv, TiposDeCpus
<1>2. Head(canal[c]).pid \in PidsDe(c)
  <2>1. 1 \in DOMAIN canal[c] /\ Head(canal[c]) = canal[c][1]
    BY <1>1, ColaEs
  <2> QED BY <2>1 DEF SInv, Hablan, CharlaDe, Charla
<1>3. relacion[i] \in Pares /\ relacion[i].cpu = c
  BY DEF RelacionesDeCpu, Pares, EnSecuencia
<1>4. [cpu |-> c, pid |-> Head(canal[c]).pid] \in Pares
  BY <1>2 DEF PidsDe
<1> QED BY <1>3, <1>4 DEF SInv, UnaPorCpu

-----------------------------------------------------------------------------
(* The kernel without threads of entrada_salida: what a step leaves alone *)

LEMMA KernelEs == Kernel \in Hilos /\ HilosIO \subseteq Hilos /\ \A h \in HilosIO : h # Kernel
BY NombresAssumption DEF Hilos

\* CPU d takes no part in the step.
LEMMA NoHabla ==
  ASSUME NEW d \in Cpus, CharlaDe(d),
         cpu'[d] = cpu[d], canal'[d] = canal[d], aCpu'[d] = aCpu[d], PidsDe(d)' = PidsDe(d),
         \/ K' = K
         \/ ~En(K, "responder", d) /\ ~En(K', "responder", d) /\ ~Da(K', d)
  PROVE  CharlaDe(d)'
<1>1. PICK e, s, m, R, h : /\ e = cpu[d] /\ s = canal[d] /\ m = aCpu[d] /\ R = PidsDe(d)
                           /\ h = K
  OBVIOUS
<1>2. PICK g : g = K'
  OBVIOUS
<1>3. Charla(d, e, s, m, R, h)
  BY <1>1 DEF CharlaDe
<1>4. Charla(d, e, s, m, R, g)
  <2>1. CASE K' = K
    BY <1>1, <1>2, <1>3, <2>1
  <2>2. CASE ~En(K, "responder", d) /\ ~En(K', "responder", d) /\ ~Da(K', d)
    BY <1>1, <1>2, <1>3, <2>2, CharlaOtroHilo
  <2> QED BY <2>1, <2>2
<1> QED BY <1>1, <1>2, <1>4 DEF CharlaDe

\* Only CPU c takes part in it.
LEMMA HablaUna ==
  ASSUME Hablan, NEW c \in Cpus, CharlaDe(c)',
         \A d \in Cpus \ {c} : /\ cpu'[d] = cpu[d] /\ canal'[d] = canal[d]
                               /\ aCpu'[d] = aCpu[d] /\ PidsDe(d)' = PidsDe(d),
         \/ K' = K
         \/ \A d \in Cpus \ {c} : /\ ~En(K, "responder", d) /\ ~En(K', "responder", d)
                                  /\ ~Da(K', d)
  PROVE  Hablan'
<1>1. ASSUME NEW d \in Cpus \ {c}
      PROVE  CharlaDe(d)'
  <2>1. CharlaDe(d)
    BY DEF Hablan
  <2> QED BY <2>1, NoHabla
<1> QED BY <1>1 DEF Hablan

LEMMA MismosPares ==
  ASSUME relacion' = relacion
  PROVE  Pares' = Pares /\ \A d : PidsDe(d)' = PidsDe(d)
BY DEF Pares, PidsDe

\* The step is of the kernel, and it is not about the CPUs.
LEMMA KernelAvanza ==
  ASSUME SInv, UNCHANGED <<relacion, corriendo, pendienteES, procesosCpu>>,
         \A h \in HilosIO : hilos'[h] = HiloLibre, K.paso # "responder",
         K'.paso \in {"libre", "buscar", "sacar", "relacionar", "colgado"},
         K'.paso \in {"sacar", "relacionar"} => K'.cpu \notin corriendo
  PROVE  SoloKernel' /\ UnaPorCpu' /\ Despachando' /\ Hablan'
<1>1. PICK r : r = K'
  OBVIOUS
<1>2. SoloKernel'
  BY DEF SInv, SoloKernel
<1>3. Pares' = Pares /\ \A d : PidsDe(d)' = PidsDe(d)
  BY MismosPares
<1>4. UnaPorCpu'
  BY <1>3 DEF SInv, UnaPorCpu
<1>5. Despachando'
  BY <1>1, <1>3 DEF SInv, Despachando
<1>6. Hablan'
  <2>1. ASSUME NEW d \in Cpus
        PROVE  CharlaDe(d)'
    <3>1. CharlaDe(d) /\ cpu'[d] = cpu[d] /\ canal'[d] = canal[d] /\ aCpu'[d] = aCpu[d]
      BY DEF SInv, Hablan, procesosCpu
    <3>2. ~En(K, "responder", d) /\ ~En(K', "responder", d) /\ ~Da(K', d)
      BY <1>1 DEF En, Da
    <3> QED BY <1>3, <3>1, <3>2, NoHabla
  <2> QED BY <2>1 DEF Hablan
<1> QED BY <1>2, <1>4, <1>5, <1>6

\* A thread that goes on to buscar, that returns or that is stuck.
LEMMA PasaA ==
  ASSUME TInv, NEW h \in Hilos, NEW r, hilos' = [hilos EXCEPT ![h] = r]
  PROVE  hilos'[h] = r /\ \A g \in Hilos \ {h} : hilos'[g] = hilos[g]
BY DEF TInv, TiposDeHilos

\* The ways the holder of mutexKernel goes on.
LEMMA KernelSigue ==
  ASSUME TInv, SoloKernel,
         \/ hilos' = hilos /\ MutexLibre
         \/ hilos' = AEnviar(Kernel) \/ hilos' = Volver(Kernel)
         \/ hilos' = [hilos EXCEPT ![Kernel].paso = "colgado"]
  PROVE  /\ K'.paso \in {"libre", "buscar", "colgado"}
         /\ \A h \in HilosIO : hilos'[h] = HiloLibre
         /\ hilos' = AEnviar(Kernel) => K'.paso = "buscar"
         /\ hilos' = Volver(Kernel) => K'.paso = "libre"
<1>1. hilos \in [Hilos -> HiloTipo] /\ Kernel \in Hilos
  BY KernelEs DEF TInv, TiposDeHilos
<1>2. ASSUME hilos' = hilos, MutexLibre
      PROVE  K'.paso = "libre" /\ \A h \in HilosIO : hilos'[h] = HiloLibre
  BY <1>2 DEF MutexLibre, SoloKernel, K
<1>3. ASSUME NEW r, hilos' = [hilos EXCEPT ![Kernel] = r]
      PROVE  K' = r /\ \A h \in HilosIO : hilos'[h] = HiloLibre
  <2>1. hilos'[Kernel] = r /\ \A g \in Hilos \ {Kernel} : hilos'[g] = hilos[g]
    BY <1>1, <1>3, PasaA
  <2> QED BY <2>1, KernelEs DEF SoloKernel, K
<1>4. ASSUME hilos' = AEnviar(Kernel)
      PROVE  K'.paso = "buscar" /\ \A h \in HilosIO : hilos'[h] = HiloLibre
  <2>1. PICK r : r = [HiloLibre EXCEPT !.paso = "buscar"]
    OBVIOUS
  <2>2. r.paso = "buscar" /\ hilos' = [hilos EXCEPT ![Kernel] = r]
    BY <1>4, <2>1 DEF HiloLibre, AEnviar
  <2>3. K' = r /\ \A h \in HilosIO : hilos'[h] = HiloLibre
    BY <2>2, <1>3
  <2> QED BY <2>2, <2>3
<1>5. ASSUME hilos' = Volver(Kernel)
      PROVE  K'.paso = "libre" /\ \A h \in HilosIO : hilos'[h] = HiloLibre
  <2>1. pendienteES = 0
    BY DEF SoloKernel
  <2>2. hilos' = [hilos EXCEPT ![Kernel] = HiloLibre]
    BY <1>5, <2>1 DEF Volver
  <2>3. K' = HiloLibre /\ \A h \in HilosIO : hilos'[h] = HiloLibre
    BY <2>2, <1>3
  <2> QED BY <2>3 DEF HiloLibre
<1>6. ASSUME hilos' = [hilos EXCEPT ![Kernel].paso = "colgado"]
      PROVE  K'.paso = "colgado" /\ \A h \in HilosIO : hilos'[h] = HiloLibre
  <2>1. PICK d, p : d = hilos[Kernel].cpu /\ p = hilos[Kernel].pid
    OBVIOUS
  <2>2. PICK r : r = [paso |-> "colgado", cpu |-> d, pid |-> p]
    OBVIOUS
  <2>3. r.paso = "colgado" /\ hilos' = [hilos EXCEPT ![Kernel] = r]
    BY <1>1, <1>6, <2>1, <2>2, HiloCambia
  <2>4. K' = r /\ \A h \in HilosIO : hilos'[h] = HiloLibre
    BY <2>3, <1>3
  <2> QED BY <2>3, <2>4
<1> QED BY <1>2, <1>4, <1>5, <1>6

\* The UMC is told of nobody new, and no program gets its console back.
LEMMA FinalesQuedan ==
  ASSUME Finales, UNCHANGED finalizaciones, colaExit \subseteq colaExit',
         \A p \in Pids : programas'[p] = programas[p] \/ programas'[p] \notin Consolas
                         \/ finalizaciones[p] = 0
  PROVE  Finales'
BY DEF Finales

\* The step is of a console, of the UMC or of a thread that waits for it.
LEMMA SecuencialQuieto ==
  ASSUME SInv, UNCHANGED <<programas, corriendo, relacion, hilos, pendienteES, procesosCpu>>,
         UNCHANGED <<finalizaciones, colaExit>>
  PROVE  SInv'
<1>1. Pares' = Pares /\ (\A d : PidsDe(d)' = PidsDe(d)) /\ K' = K
  BY MismosPares DEF K
<1>2. SoloKernel' /\ UnaPorCpu' /\ Despachando' /\ Finales'
  BY <1>1 DEF SInv, SoloKernel, UnaPorCpu, Despachando, Finales
<1>3. ASSUME NEW d \in Cpus
      PROVE  CharlaDe(d)'
  <2>1. CharlaDe(d) /\ cpu'[d] = cpu[d] /\ canal'[d] = canal[d] /\ aCpu'[d] = aCpu[d]
    BY DEF SInv, Hablan, procesosCpu
  <2> QED BY <1>1, <2>1, NoHabla
<1> QED BY <1>2, <1>3 DEF SInv, Hablan

-----------------------------------------------------------------------------
(* The kernel without threads of entrada_salida: the CPUs *)

\* CPU c does something the kernel has not seen yet.
LEMMA CpuActua ==
  ASSUME TInv, SInv, NEW c \in Cpus, UNCHANGED restoDelNucleo, CharlaDe(c)',
         \A d \in Cpus \ {c} : /\ cpu'[d] = cpu[d] /\ canal'[d] = canal[d]
                               /\ aCpu'[d] = aCpu[d]
  PROVE  SInv'
<1>1. UNCHANGED <<programas, corriendo, relacion, hilos, pendienteES, finalizaciones, colaExit>>
  BY DEF restoDelNucleo, colas, listas
<1>2. Pares' = Pares /\ (\A d : PidsDe(d)' = PidsDe(d)) /\ K' = K
  BY <1>1, MismosPares DEF K
<1>3. SoloKernel' /\ UnaPorCpu' /\ Despachando' /\ Finales'
  BY <1>1, <1>2 DEF SInv, SoloKernel, UnaPorCpu, Despachando, Finales
<1>4. Hablan'
  BY <1>2, HablaUna DEF SInv
<1> QED BY <1>3, <1>4 DEF SInv

\* What CPU c sends in this step.
LEMMA CpuManda ==
  ASSUME TInv, SInv, "sigusr1" \notin Fallas, "IO" \notin Instrucciones, NEW c \in Cpus,
         \/ CpuConecta(c) \/ CpuAvisa(c) \/ CpuPide(c)
         \/ \E op \in Instrucciones : CpuSuelta(c, op)
  PROVE  SInv'
<1>1. /\ cpu \in [Cpus -> CpuTipo] /\ canal \in [Cpus -> Seq(MensajesDeCpu)]
      /\ cpu[c].est = "corriendo" => cpu[c].pid \in Pids
  BY DEF TInv, TiposDeCpus
<1>2. PICK e, s, m, R, h : /\ e = cpu[c] /\ s = canal[c] /\ m = aCpu[c] /\ R = PidsDe(c)
                           /\ h = K
  OBVIOUS
<1>3. Charla(c, e, s, m, R, h) /\ s \in Seq(MensajesDeCpu)
  BY <1>1, <1>2 DEF SInv, Hablan, CharlaDe
<1>4. UNCHANGED restoDelNucleo /\ aCpu' = aCpu
  BY DEF CpuConecta, CpuAvisa, CpuPide, CpuSuelta
<1>5. PidsDe(c)' = R /\ K' = h
  <2>1. relacion' = relacion /\ hilos' = hilos
    BY <1>4 DEF restoDelNucleo, listas
  <2> QED BY <1>2, <2>1, MismosPares DEF K
<1>6. ASSUME NEW x \in MensajesDeCpu, Mandar(c, <<x>>), NEW f, cpu' = [cpu EXCEPT ![c] = f],
             \/ /\ e.est = "apagada" /\ x.op = "HS" /\ f.est = "libre"
             \/ /\ e.est = "corriendo" /\ x.pid = e.pid /\ x.op \in Avisos /\ f = e
             \/ /\ e.est = "corriendo" /\ x.pid = e.pid /\ x.op \in Preguntas
                /\ f.est = "espera" /\ f.pid = e.pid
             \/ /\ e.est = "corriendo" /\ x.pid = e.pid /\ x.op \in Sueltas /\ f.est = "libre"
      PROVE  SInv'
  <2>1. PICK t : t = s \o <<x>>
    OBVIOUS
  <2>2. t = Append(s, x)
    BY <1>3, <2>1, AgregarEs
  <2>3. canal' = [canal EXCEPT ![c] = t]
    BY <1>2, <1>6, <2>1 DEF Mandar
  <2>4. Charla(c, f, t, m, R, h)
    <3>1. Charla(c, f, Append(s, x), m, R, h)
      BY <1>3, <1>6, CharlaManda
    <3> QED BY <2>2, <3>1
  <2>5. CharlaDe(c)'
    BY <1>1, <1>2, <1>4, <1>5, <1>6, <2>3, <2>4 DEF CharlaDe
  <2>6. \A d \in Cpus \ {c} : /\ cpu'[d] = cpu[d] /\ canal'[d] = canal[d]
                              /\ aCpu'[d] = aCpu[d]
    BY <1>1, <1>4, <1>6, <2>3
  <2> QED BY <1>4, <2>5, <2>6, CpuActua
<1>7. CASE CpuConecta(c)
  <2>1. PICK x, f : x = Mensaje("HS", 0, Nadie) /\ f = [est |-> "libre", pid |-> 0]
    OBVIOUS
  <2>2. /\ x \in MensajesDeCpu /\ x.op = "HS" /\ f.est = "libre" /\ e.est = "apagada"
        /\ Mandar(c, <<x>>) /\ cpu' = [cpu EXCEPT ![c] = f]
    BY <1>2, <1>7, <2>1, MensajesSon DEF CpuConecta, Mensaje, Quedar
  <2> QED BY <1>6, <2>2
<1>8. CASE CpuAvisa(c)
  <2>0. PICK op \in Avisos : \E z : Mandar(c, <<Mensaje(op, e.pid, z)>>)
                                      /\ Mensaje(op, e.pid, z) \in MensajesDeCpu
    <3>1. e.pid \in Pids
      BY <1>1, <1>2, <1>8 DEF CpuAvisa
    <3>2. CASE "IMPRIMIR" \in Instrucciones /\ Mandar(c, <<Mensaje("IMPRIMIR", e.pid, Nadie)>>)
      <4>1. "IMPRIMIR" \in Instrucciones \ {"WAIT", "SIGNAL"} /\ "IMPRIMIR" \in Avisos
        BY <3>2 DEF Avisos
      <4>2. Mensaje("IMPRIMIR", e.pid, Nadie) \in MensajesDeCpu
        BY <3>1, <4>1, MensajesSon, Zenon
      <4> QED BY <3>2, <4>1, <4>2
    <3>3. ASSUME NEW y \in Semaforos, "SIGNAL" \in Instrucciones,
                 Mandar(c, <<Mensaje("SIGNAL", e.pid, y)>>)
          PROVE  \E op \in Avisos : \E z : Mandar(c, <<Mensaje(op, e.pid, z)>>)
                                           /\ Mensaje(op, e.pid, z) \in MensajesDeCpu
      <4>1. "SIGNAL" \in Instrucciones \intersect {"WAIT", "SIGNAL"} /\ "SIGNAL" \in Avisos
        BY <3>3 DEF Avisos
      <4>2. Mensaje("SIGNAL", e.pid, y) \in MensajesDeCpu
        BY <3>1, <4>1, MensajesSon, Zenon
      <4> QED BY <3>3, <4>1, <4>2
    <3> QED BY <1>2, <1>8, <3>2, <3>3 DEF CpuAvisa
  <2>1. PICK y : Mandar(c, <<Mensaje(op, e.pid, y)>>) /\ Mensaje(op, e.pid, y) \in MensajesDeCpu
    BY <2>0
  <2>2. PICK x : x = Mensaje(op, e.pid, y)
    OBVIOUS
  <2>3. x.op = op /\ x.pid = e.pid /\ e.est = "corriendo" /\ cpu' = [cpu EXCEPT ![c] = e]
    BY <1>1, <1>2, <1>8, <2>2 DEF CpuAvisa, Mensaje
  <2> QED BY <1>6, <2>1, <2>2, <2>3
<1>9. CASE CpuPide(c)
  <2>0. PICK op \in Preguntas : \E z : Mandar(c, <<Mensaje(op, e.pid, z)>>)
                                         /\ Mensaje(op, e.pid, z) \in MensajesDeCpu
    <3>1. e.pid \in Pids
      BY <1>1, <1>2, <1>9 DEF CpuPide
    <3>2. CASE "OBTENER" \in Instrucciones /\ Mandar(c, <<Mensaje("OBTENER", e.pid, Nadie)>>)
      <4>1. "OBTENER" \in Instrucciones \ {"WAIT", "SIGNAL"} /\ "OBTENER" \in Preguntas
        BY <3>2 DEF Preguntas
      <4>2. Mensaje("OBTENER", e.pid, Nadie) \in MensajesDeCpu
        BY <3>1, <4>1, MensajesSon, Zenon
      <4> QED BY <3>2, <4>1, <4>2
    <3>3. ASSUME NEW y \in Semaforos, "WAIT" \in Instrucciones,
                 Mandar(c, <<Mensaje("WAIT", e.pid, y)>>)
          PROVE  \E op \in Preguntas : \E z : Mandar(c, <<Mensaje(op, e.pid, z)>>)
                                              /\ Mensaje(op, e.pid, z) \in MensajesDeCpu
      <4>1. "WAIT" \in Instrucciones \intersect {"WAIT", "SIGNAL"} /\ "WAIT" \in Preguntas
        BY <3>3 DEF Preguntas
      <4>2. Mensaje("WAIT", e.pid, y) \in MensajesDeCpu
        BY <3>1, <4>1, MensajesSon, Zenon
      <4> QED BY <3>3, <4>1, <4>2
    <3> QED BY <1>2, <1>9, <3>2, <3>3 DEF CpuPide
  <2>1. PICK y : Mandar(c, <<Mensaje(op, e.pid, y)>>) /\ Mensaje(op, e.pid, y) \in MensajesDeCpu
    BY <2>0
  <2>2. PICK x, f : x = Mensaje(op, e.pid, y) /\ f = [est |-> "espera", pid |-> e.pid]
    OBVIOUS
  <2>3. /\ x.op = op /\ x.pid = e.pid /\ e.est = "corriendo" /\ f.est = "espera"
        /\ f.pid = e.pid /\ cpu' = [cpu EXCEPT ![c] = f]
    BY <1>1, <1>2, <1>9, <2>2 DEF CpuPide, Mensaje, Quedar
  <2> QED BY <1>6, <2>1, <2>2, <2>3
<1>10. ASSUME NEW op \in Instrucciones, CpuSuelta(c, op)
       PROVE  SInv'
  <2>1. PICK x, f : x = Mensaje(op, e.pid, Nadie) /\ f = [est |-> "libre", pid |-> 0]
    OBVIOUS
  <2>2. op \in Sueltas /\ op \in Instrucciones \ {"WAIT", "SIGNAL"} /\ e.pid \in Pids
    BY <1>1, <1>2, <1>10 DEF CpuSuelta, Sueltas
  <2>3. x \in MensajesDeCpu
    BY <2>1, <2>2, MensajesSon, Zenon
  <2>4. /\ x.op = op /\ x.pid = e.pid /\ e.est = "corriendo" /\ f.est = "libre"
        /\ Mandar(c, <<x>>) /\ cpu' = [cpu EXCEPT ![c] = f]
    BY <1>2, <1>10, <2>1 DEF CpuSuelta, Mensaje, Quedar
  <2> QED BY <1>6, <2>2, <2>3, <2>4
<1> QED BY <1>7, <1>8, <1>9, <1>10

LEMMA CpuRecibeSecuencial ==
  ASSUME TInv, SInv, NEW c \in Cpus, CpuResponde(c)
  PROVE  SInv'
<1>1. /\ cpu \in [Cpus -> CpuTipo] /\ aCpu \in [Cpus -> Seq(MensajesDelNucleo)]
  BY DEF TInv, TiposDeCpus
<1>2. PICK e, s, m, R, h : /\ e = cpu[c] /\ s = canal[c] /\ m = aCpu[c] /\ R = PidsDe(c)
                           /\ h = K
  OBVIOUS
<1>3. PICK n : n = Tail(m)
  OBVIOUS
<1>4. Charla(c, e, s, m, R, h) /\ m \in Seq(MensajesDelNucleo)
  BY <1>1, <1>2 DEF SInv, Hablan, CharlaDe
<1>5. /\ UNCHANGED restoDelNucleo /\ canal' = canal /\ m # <<>>
      /\ aCpu' = [aCpu EXCEPT ![c] = n]
  BY <1>2, <1>3 DEF CpuResponde, CpuRecibe, CpuRespuesta
<1>6. PidsDe(c)' = R /\ K' = h
  <2>1. relacion' = relacion /\ hilos' = hilos
    BY <1>5 DEF restoDelNucleo, listas
  <2> QED BY <1>2, <2>1, MismosPares DEF K
<1>7. ASSUME NEW f, cpu' = [cpu EXCEPT ![c] = f], Charla(c, f, s, n, R, h)
      PROVE  SInv'
  <2>1. CharlaDe(c)'
    BY <1>1, <1>2, <1>5, <1>6, <1>7 DEF CharlaDe
  <2>2. \A d \in Cpus \ {c} : /\ cpu'[d] = cpu[d] /\ canal'[d] = canal[d]
                              /\ aCpu'[d] = aCpu[d]
    BY <1>1, <1>5, <1>7
  <2> QED BY <1>5, <2>1, <2>2, CpuActua
<1>8. CASE CpuRecibe(c)
  <2>1. e.est = "libre"
    BY <1>2, <1>8 DEF CpuRecibe
  <2>2. /\ Head(m).op = "CORRER" /\ Head(m).pid \in R
        /\ \A f : f.est = "corriendo" /\ f.pid = Head(m).pid => Charla(c, f, s, Tail(m), R, h)
    BY <1>4, <1>5, <2>1, CharlaRecibe
  <2>3. PICK f : f = [est |-> "corriendo", pid |-> Head(m).pid]
    OBVIOUS
  <2>4. cpu' = [cpu EXCEPT ![c] = f]
    BY <1>2, <1>8, <2>2, <2>3 DEF CpuRecibe, Quedar
  <2>5. f.est = "corriendo" /\ f.pid = Head(m).pid
    BY <2>3
  <2> QED BY <1>3, <1>7, <2>2, <2>4, <2>5
<1>9. CASE CpuRespuesta(c)
  <2>1. e.est = "espera"
    BY <1>2, <1>9 DEF CpuRespuesta
  <2>2. /\ Head(m).op \in {"OK", "NO_OK"}
        /\ \A f : \/ /\ Head(m).op = "OK" /\ f.est = "corriendo" /\ f.pid = e.pid
                  \/ Head(m).op = "NO_OK" /\ f.est = "libre"
               => Charla(c, f, s, Tail(m), R, h)
    BY <1>4, <1>5, <2>1, CharlaRecibe
  <2>3. CASE Head(m).op = "OK"
    <3>1. PICK f : f = [est |-> "corriendo", pid |-> e.pid]
      OBVIOUS
    <3>2. cpu' = [cpu EXCEPT ![c] = f] /\ f.est = "corriendo" /\ f.pid = e.pid
      BY <1>2, <1>9, <2>3, <3>1 DEF CpuRespuesta, Quedar
    <3> QED BY <1>3, <1>7, <2>2, <2>3, <3>2
  <2>4. CASE Head(m).op = "NO_OK"
    <3>1. PICK f : f = [est |-> "libre", pid |-> 0]
      OBVIOUS
    <3>2. cpu' = [cpu EXCEPT ![c] = f] /\ f.est = "libre"
      BY <1>2, <1>9, <2>4, <3>1 DEF CpuRespuesta, Quedar
    <3> QED BY <1>3, <1>7, <2>2, <2>4, <3>2
  <2> QED BY <2>2, <2>3, <2>4
<1> QED BY <1>8, <1>9 DEF CpuResponde

LEMMA CpuMuereSecuencial ==
  ASSUME TInv, SInv, NEW c \in Cpus, CpuMuere(c)
  PROVE  SInv'
<1>1. cpu \in [Cpus -> CpuTipo]
  BY DEF TInv, TiposDeCpus
<1>2. /\ UNCHANGED restoDelNucleo /\ canal' = canal /\ aCpu' = aCpu
      /\ cpu' = [cpu EXCEPT ![c] = [est |-> "cerrada", pid |-> 0]]
  BY DEF CpuMuere, Quedar
<1>3. PidsDe(c)' = PidsDe(c) /\ K' = K
  BY <1>2, MismosPares DEF K, restoDelNucleo, listas
<1>4. PICK f : f = [est |-> "cerrada", pid |-> 0]
  OBVIOUS
<1>5. CharlaDe(c) /\ f.est \notin Vivas
  BY <1>4 DEF SInv, Hablan, Vivas
<1>6. Charla(c, f, canal[c], aCpu[c], PidsDe(c), K)
  BY <1>5, CharlaMuere DEF CharlaDe
<1>7. CharlaDe(c)'
  BY <1>1, <1>2, <1>3, <1>4, <1>6 DEF CharlaDe
<1> QED BY <1>1, <1>2, <1>7, CpuActua

-----------------------------------------------------------------------------
(* The kernel without threads of entrada_salida: what it reads *)

\* Who sends a message that is not the handshake runs the PCB the message names.
LEMMA CabezaEs ==
  ASSUME TInv, SInv, NEW c \in Cpus, canal[c] # <<>>, Head(canal[c]).op # "HS"
  PROVE  Head(canal[c]).pid \in PidsDe(c)
<1>1. canal[c] \in Seq(MensajesDeCpu)
  BY DEF TInv, TiposDeCpus
<1>2. 1 \in DOMAIN canal[c] /\ Head(canal[c]) = canal[c][1]
  BY <1>1, ColaEs
<1> QED BY <1>2 DEF SInv, Hablan, CharlaDe, Charla

LEMMA ParesSon ==
  ASSUME TInv, NEW c \in Cpus, NEW p \in PidsDe(c)
  PROVE  /\ p \in Pids
         /\ \E i \in DOMAIN relacion : relacion[i].cpu = c /\ relacion[i].pid = p
BY DEF PidsDe, Pares, EnSecuencia

LEMMA RelacionaHay ==
  ASSUME TInv, SInv, NEW c \in Cpus, canal[c] # <<>>, Head(canal[c]).op # "HS"
  PROVE  RelacionesDePid(Head(canal[c]).pid) # {} /\ RelacionesDeCpu(c) # {}
<1>1. Head(canal[c]).pid \in PidsDe(c)
  BY CabezaEs
<1>2. PICK i \in DOMAIN relacion : relacion[i].cpu = c /\ relacion[i].pid = Head(canal[c]).pid
  BY <1>1, ParesSon
<1> QED BY <1>2 DEF RelacionesDePid, RelacionesDeCpu

\* So no handler dereferences a NULL relation.
LEMMA SinRelacionNula ==
  ASSUME TInv, SInv, NEW c \in Cpus
  PROVE  ~RelacionNula(c)
<1> SUFFICES ASSUME RelacionNula(c) PROVE FALSE
  OBVIOUS
<1>1. /\ canal[c] # <<>> /\ Head(canal[c]).op # "HS"
      /\ RelacionesDePid(Head(canal[c]).pid) = {} \/ RelacionesDeCpu(c) = {}
  BY DEF RelacionNula, Llega
<1> QED BY <1>1, RelacionaHay

\* The handler frees no relation.
LEMMA AtiendeSinSoltar ==
  ASSUME TInv, SInv, NEW c \in Cpus, NEW op, Llega(c, op),
         UNCHANGED <<relacion, corriendo, pendienteES, cpu>>, Finales',
         K'.paso \in {"libre", "buscar", "mover", "colgado"}, \A h \in HilosIO : hilos'[h] = HiloLibre,
         \A d \in Cpus \ {c} : aCpu'[d] = aCpu[d], CharlaDe(c)'
  PROVE  SInv'
<1>1. K.paso = "libre" /\ canal \in [Cpus -> Seq(MensajesDeCpu)]
      /\ canal' = [canal EXCEPT ![c] = Tail(canal[c])]
  BY DEF Llega, MutexLibre, K, TInv, TiposDeCpus
<1>2. Pares' = Pares /\ (\A d : PidsDe(d)' = PidsDe(d))
  BY MismosPares
<1>3. SoloKernel' /\ UnaPorCpu' /\ Despachando'
  BY <1>2 DEF SInv, SoloKernel, UnaPorCpu, Despachando
<1>4. \A d \in Cpus \ {c} : cpu'[d] = cpu[d] /\ canal'[d] = canal[d]
  BY <1>1
<1>5. \A d : ~En(K, "responder", d) /\ ~En(K', "responder", d) /\ ~Da(K', d)
  BY <1>1 DEF En, Da
<1>6. Hablan'
  BY <1>2, <1>4, <1>5, HablaUna DEF SInv
<1> QED BY <1>3, <1>6 DEF SInv

\* Messages that are not answered.
LEMMA AvisoLeido ==
  ASSUME TInv, SInv, NEW c \in Cpus, NEW op \in {"HS"} \union Avisos, Llega(c, op),
         UNCHANGED <<relacion, cpu, aCpu>>, K'.paso \in {"libre", "buscar", "mover", "colgado"}
  PROVE  CharlaDe(c)'
<1>1. /\ K.paso = "libre" /\ canal \in [Cpus -> Seq(MensajesDeCpu)]
      /\ canal' = [canal EXCEPT ![c] = Tail(canal[c])] /\ Head(canal[c]).op = op
      /\ canal[c] # <<>>
  BY DEF Llega, MutexLibre, K, TInv, TiposDeCpus
<1>2. PICK e, s, m, R, h : /\ e = cpu[c] /\ s = canal[c] /\ m = aCpu[c] /\ R = PidsDe(c)
                           /\ h = K
  OBVIOUS
<1>3. PICK t, g : t = Tail(s) /\ g = K'
  OBVIOUS
<1>4. Charla(c, e, s, m, R, h) /\ s \in Seq(MensajesDeCpu) /\ s # <<>>
      /\ Head(s).op \in {"HS"} \union Avisos
  BY <1>1, <1>2 DEF SInv, Hablan, CharlaDe
<1>5. Charla(c, e, t, m, R, h)
  BY <1>3, <1>4, CharlaHS
<1>6. Charla(c, e, t, m, R, g)
  BY <1>1, <1>2, <1>3, <1>5, CharlaOtroHilo DEF En, Da
<1>7. canal'[c] = t /\ PidsDe(c)' = R /\ cpu' = cpu /\ aCpu' = aCpu
  BY <1>1, <1>2, <1>3, MismosPares
<1> QED BY <1>2, <1>3, <1>6, <1>7 DEF CharlaDe

LEMMA HandshakeSecuencial ==
  ASSUME TInv, SInv, NEW c \in Cpus, HandshakeCpu(c)
  PROVE  SInv'
<1>1. /\ Llega(c, "HS") /\ "HS" \in {"HS"} \union Avisos
      /\ UNCHANGED <<relacion, corriendo, pendienteES, cpu>> /\ aCpu' = aCpu
      /\ UNCHANGED <<finalizaciones, programas>> /\ colaExit' = colaExit
  BY DEF HandshakeCpu, colas
<1>2. hilos' = AEnviar(Kernel) \/ hilos' = [hilos EXCEPT ![Kernel].paso = "colgado"]
  BY DEF HandshakeCpu, Envio
<1>3. K'.paso \in {"libre", "buscar", "colgado"} /\ \A h \in HilosIO : hilos'[h] = HiloLibre
  BY <1>2, KernelSigue DEF SInv
<1>4. Finales'
  BY <1>1, FinalesQuedan DEF SInv
<1>5. CharlaDe(c)'
  BY <1>1, <1>3, AvisoLeido
<1> QED BY <1>1, <1>3, <1>4, <1>5, AtiendeSinSoltar

LEMMA SignalSecuencial ==
  ASSUME TInv, SInv, NEW c \in Cpus, Signal(c)
  PROVE  SInv'
<1>1. /\ Llega(c, "SIGNAL") /\ "SIGNAL" \in {"HS"} \union Avisos
      /\ UNCHANGED <<relacion, corriendo, pendienteES, cpu>> /\ aCpu' = aCpu
      /\ UNCHANGED <<finalizaciones, programas>> /\ colaExit' = colaExit
  BY DEF Signal, listas, Avisos
<1>2. \/ hilos' = AEnviar(Kernel)
      \/ \E p : hilos' = [hilos EXCEPT ![Kernel] = [paso |-> "mover", cpu |-> Nadie, pid |-> p]]
  BY DEF Signal, Desbloquear
<1>3. K'.paso \in {"buscar", "mover"} /\ \A h \in HilosIO : hilos'[h] = HiloLibre
  <2>1. CASE hilos' = AEnviar(Kernel)
    BY <2>1, KernelSigue DEF SInv
  <2>2. ASSUME NEW p, NEW r, r = [paso |-> "mover", cpu |-> Nadie, pid |-> p],
               hilos' = [hilos EXCEPT ![Kernel] = r]
        PROVE  K'.paso \in {"buscar", "mover"} /\ \A h \in HilosIO : hilos'[h] = HiloLibre
    <3>1. hilos'[Kernel] = r /\ \A g \in Hilos \ {Kernel} : hilos'[g] = hilos[g]
      BY <2>2, KernelEs, PasaA
    <3>2. r.paso = "mover"
      BY <2>2
    <3> QED BY <3>1, <3>2, KernelEs DEF SInv, SoloKernel, K
  <2> QED BY <1>2, <2>1, <2>2
<1>4. Finales'
  BY <1>1, FinalesQuedan DEF SInv
<1>5. CharlaDe(c)'
  BY <1>1, <1>3, AvisoLeido
<1> QED BY <1>1, <1>3, <1>4, <1>5, AtiendeSinSoltar

LEMMA ImprimirSecuencial ==
  ASSUME TInv, SInv, NEW c \in Cpus, Imprimir(c)
  PROVE  SInv'
<1>1. /\ Llega(c, "IMPRIMIR") /\ "IMPRIMIR" \in {"HS"} \union Avisos /\ MutexLibre
      /\ UNCHANGED <<relacion, corriendo, pendienteES, cpu>> /\ aCpu' = aCpu
      /\ UNCHANGED <<finalizaciones, programas>> /\ colaExit' = colaExit
  BY DEF Imprimir, colas, listas, Avisos, Llega
<1>2. hilos' = hilos \/ hilos' = [hilos EXCEPT ![Kernel].paso = "colgado"]
  BY DEF Imprimir, EnviarAConsola, Envio
<1>3. K'.paso \in {"libre", "buscar", "colgado"} /\ \A h \in HilosIO : hilos'[h] = HiloLibre
  BY <1>1, <1>2, KernelSigue DEF SInv
<1>4. Finales'
  BY <1>1, FinalesQuedan DEF SInv
<1>5. CharlaDe(c)'
  BY <1>1, <1>3, AvisoLeido
<1> QED BY <1>1, <1>3, <1>4, <1>5, AtiendeSinSoltar

LEMMA MandarOk ==
  ASSUME TInv, SInv, NEW c \in Cpus, NEW op \in Preguntas, Llega(c, op),
         UNCHANGED <<relacion, corriendo, pendienteES, cpu, finalizaciones, programas, colaExit>>,
         EnviarACpu(c, Ok, Kernel, hilos)
  PROVE  SInv'
<1>1. /\ K.paso = "libre" /\ canal \in [Cpus -> Seq(MensajesDeCpu)] /\ MutexLibre
      /\ aCpu \in [Cpus -> Seq(MensajesDelNucleo)] /\ cpu \in [Cpus -> CpuTipo]
      /\ canal' = [canal EXCEPT ![c] = Tail(canal[c])] /\ Head(canal[c]).op = op
      /\ canal[c] # <<>>
  BY DEF Llega, MutexLibre, K, TInv, TiposDeCpus
<1>2. PICK e, s, m, R, h : /\ e = cpu[c] /\ s = canal[c] /\ m = aCpu[c] /\ R = PidsDe(c)
                           /\ h = K
  OBVIOUS
<1>3. PICK t, g : t = Tail(s) /\ g = K'
  OBVIOUS
<1>4. Charla(c, e, s, m, R, h) /\ s \in Seq(MensajesDeCpu) /\ s # <<>>
      /\ Head(s).op \in Preguntas /\ m \in Seq(MensajesDelNucleo)
  BY <1>1, <1>2 DEF SInv, Hablan, CharlaDe
<1>5. /\ hilos' = hilos \/ hilos' = [hilos EXCEPT ![Kernel].paso = "colgado"]
      /\ e.est \in Vivas => aCpu' = [aCpu EXCEPT ![c] = Append(m, Ok)]
      /\ e.est \notin Vivas => aCpu' = aCpu
  BY <1>1, <1>2 DEF EnviarACpu, Envio, SocketCpu, Vivas, CpuTipo
<1>6. g.paso \in {"libre", "buscar", "colgado"} /\ \A x \in HilosIO : hilos'[x] = HiloLibre
  BY <1>1, <1>3, <1>5, KernelSigue DEF SInv
<1>7. ~En(g, "responder", c) /\ ~Da(g, c)
  BY <1>6 DEF En, Da
<1>8. Charla(c, e, t, aCpu'[c], R, g)
  <2>1. CASE e.est \in Vivas
    <3>1. m = <<>> /\ Charla(c, e, t, <<Ok>>, R, g)
      <4>1. m = <<>> /\ Charla(c, e, Tail(s), <<Ok>>, R, g)
        BY <1>4, <1>7, <2>1, CharlaOk, Zenon
      <4> QED BY <1>3, <4>1, Zenon
    <3>2. aCpu'[c] = Append(m, Ok)
      <4>1. PICK x : x = Append(m, Ok)
        OBVIOUS
      <4>2. aCpu' = [aCpu EXCEPT ![c] = x]
        BY <1>5, <2>1, <4>1
      <4> QED BY <1>1, <4>1, <4>2
    <3>3. aCpu'[c] = <<Ok>>
      <4>1. \A x : Append(<<>>, x) = <<x>>
        OBVIOUS
      <4> QED BY <3>1, <3>2, <4>1, Zenon
    <3> QED BY <3>1, <3>3
  <2>2. CASE e.est \notin Vivas
    <3>1. Head(s).op \in Preguntas \union Sueltas
      BY <1>4
    <3>2. Tail(s) = <<>>
      <4>1. Final(c, e, s, m, R, h)
        BY <1>4, <3>1, CharlaFinal
      <4> QED BY <4>1 DEF Final
    <3>3. e.est \notin {"apagada", "corriendo", "espera", "libre"}
      BY <2>2 DEF Vivas
    <3>4. Charla(c, e, <<>>, m, R, g)
      BY <1>7, <3>3, CharlaSoltada
    <3>5. aCpu'[c] = m /\ t = <<>>
      BY <1>2, <1>3, <1>5, <2>2, <3>2
    <3> QED BY <3>4, <3>5
  <2> QED BY <2>1, <2>2
<1>9. CharlaDe(c)'
  <2>1. canal'[c] = t /\ PidsDe(c)' = R /\ cpu' = cpu
    BY <1>1, <1>2, <1>3, MismosPares
  <2> QED BY <1>2, <1>3, <1>8, <2>1 DEF CharlaDe
<1>10. \A d \in Cpus \ {c} : aCpu'[d] = aCpu[d]
  BY <1>1, <1>5
<1>11. Finales'
  BY FinalesQuedan DEF SInv
<1> QED BY <1>3, <1>6, <1>9, <1>10, <1>11, AtiendeSinSoltar

LEMMA RespondeSecuencial ==
  ASSUME TInv, SInv, NEW c \in Cpus, WaitSinBloquear(c) \/ Obtener(c)
  PROVE  SInv'
<1>1. PICK op \in Preguntas : Llega(c, op)
  BY DEF WaitSinBloquear, Obtener, Preguntas
<1>2. /\ UNCHANGED <<relacion, corriendo, pendienteES, cpu, finalizaciones, programas, colaExit>>
      /\ EnviarACpu(c, Ok, Kernel, hilos)
  BY DEF WaitSinBloquear, Obtener, colas, listas, Ok
<1> QED BY <1>1, <1>2, MandarOk

-----------------------------------------------------------------------------
(* The kernel without threads of entrada_salida: a PCB leaves its CPU *)

LEMMA SaleSecuencial ==
  ASSUME TInv, LInv, SInv, NEW i \in DOMAIN relacion, NEW c \in Cpus, NEW p \in Pids,
         Sale(i, p), c = relacion[i].cpu
  PROVE  /\ UnaPorCpu' /\ corriendo' = corriendo \ {c}
         /\ Pares' = Pares \ {[cpu |-> c, pid |-> p]} /\ PidsDe(c)' = {}
         /\ \A d \in Cpus \ {c} : PidsDe(d)' = PidsDe(d)
         /\ p \in PidsDe(c) /\ p \in colaExec /\ p \in ConRelacion
<1>1. PICK r : r = [cpu |-> c, pid |-> p]
  OBVIOUS
<1>2. relacion[i] = r /\ TiposDeListas /\ Relaciones /\ UnaPorCpu
  <2>1. relacion[i] \in Relacion
    BY DEF TInv, TiposDeListas
  <2>2. relacion[i] = [cpu |-> relacion[i].cpu, pid |-> relacion[i].pid]
    BY <2>1 DEF Relacion
  <2> QED BY <1>1, <2>2 DEF Sale, TInv, LInv, SInv
<1>3. r \in Pares /\ r.cpu = c /\ r.pid = p
  <2>1. relacion[i] \in Pares
    BY DEF Pares, EnSecuencia
  <2> QED BY <1>1, <1>2, <2>1
<1>4. relacion' = SinLa(i, relacion) /\ corriendo' = corriendo \ {c}
  BY DEF Sale, Soltar
<1>5. EnSecuencia(relacion') = EnSecuencia(relacion) \ {relacion[i]} /\ relacion[i].pid \in colaExec
  BY <1>2, <1>4, SoltarQuita DEF Sale
<1>6. Pares' = Pares \ {r}
  BY <1>2, <1>5 DEF Pares
<1>7. \A t \in Pares : t.cpu = c => t = r
  BY <1>2, <1>3 DEF UnaPorCpu
<1>8. UnaPorCpu'
  <2>1. corriendo = {t.cpu : t \in Pares} /\ \A t, u \in Pares : t.cpu = u.cpu => t = u
    BY <1>2 DEF UnaPorCpu
  <2>2. {t.cpu : t \in Pares \ {r}} = {t.cpu : t \in Pares} \ {c}
    BY <1>3, <1>7, <2>1
  <2> QED BY <1>4, <1>6, <2>1, <2>2 DEF UnaPorCpu
<1>9. PidsDe(c)' = {}
  <2>1. \A q \in Pids : [cpu |-> c, pid |-> q] \notin Pares \ {r}
    BY <1>7
  <2> QED BY <1>6, <2>1 DEF PidsDe
<1>10. ASSUME NEW d \in Cpus \ {c}
       PROVE  PidsDe(d)' = PidsDe(d)
  <2>1. \A q : [cpu |-> d, pid |-> q] # r
    BY <1>1
  <2> QED BY <1>6, <2>1 DEF PidsDe
<1>11. p \in PidsDe(c) /\ p \in colaExec /\ p \in ConRelacion
  BY <1>1, <1>2, <1>3, <1>5 DEF PidsDe, Sale, Pares, ConRelacion
<1> QED BY <1>1, <1>4, <1>6, <1>8, <1>9, <1>10, <1>11

LEMMA SaleFinales ==
  ASSUME TInv, LInv, Finales, NEW i \in DOMAIN relacion, NEW p \in Pids, Sale(i, p),
         p \in colaExec
  PROVE  Finales'
<1>1. finalizaciones \in [Pids -> 0 .. 2] /\ colaExec \intersect colaExit = {}
      /\ programas \in [Pids -> Consolas \union {"ninguno", "cerrado"}]
  BY DEF TInv, TiposDeUmc, TiposDeListas, LInv, Lugares, Reparto
<1>2. finalizaciones[p] = 0
  BY <1>1 DEF Finales
<1>3. CASE UNCHANGED <<colaExit, programas, finalizaciones>>
  BY <1>3, FinalesQuedan
<1>4. CASE /\ Finalizar(p) /\ colaExit' = colaExit \union {p}
           /\ programas' = [programas EXCEPT ![p] = "ninguno"]
  <2>1. /\ finalizaciones'[p] = 1 /\ programas'[p] = "ninguno"
        /\ \A q \in Pids \ {p} : /\ finalizaciones'[q] = finalizaciones[q]
                                 /\ programas'[q] = programas[q]
    BY <1>1, <1>2, <1>4 DEF Finalizar
  <2>2. "ninguno" \notin Consolas
    BY NombresAssumption
  <2> QED BY <1>4, <2>1, <2>2 DEF Finales
<1> QED BY <1>3, <1>4 DEF Sale

\* The message of CPU c is about the PCB of the relation it has.
LEMMA MensajeYRelacion ==
  ASSUME TInv, LInv, SInv, NEW c \in Cpus, canal[c] # <<>>, Head(canal[c]).op # "HS",
         NEW i \in DOMAIN relacion, relacion[i].pid = Head(canal[c]).pid
  PROVE  relacion[i].cpu = c
<1>1. PICK p : p = Head(canal[c]).pid
  OBVIOUS
<1>2. p \in PidsDe(c)
  BY <1>1, CabezaEs
<1>3. PICK j \in DOMAIN relacion : relacion[j].cpu = c /\ relacion[j].pid = p
  BY <1>2, ParesSon
<1>4. i = j
  BY <1>1, <1>3 DEF LInv, Relaciones, UnaPorPcb
<1> QED BY <1>3, <1>4

\* What is left to show of a handler that frees the relation of c.
LEMMA SoltarSecuencial ==
  ASSUME TInv, LInv, SInv, NEW c \in Cpus, NEW i \in DOMAIN relacion, NEW p \in Pids,
         Sale(i, p), relacion[i].cpu = c, MutexLibre, pendienteES' = pendienteES,
         \A h \in HilosIO : hilos'[h] = HiloLibre,
         K'.paso \in {"libre", "buscar", "colgado"} \/ En(K', "responder", c),
         \A d \in Cpus \ {c} : /\ cpu'[d] = cpu[d] /\ canal'[d] = canal[d]
                               /\ aCpu'[d] = aCpu[d],
         PidsDe(c)' = {} => CharlaDe(c)'
  PROVE  SInv'
<1>1. /\ UnaPorCpu' /\ corriendo' = corriendo \ {c} /\ PidsDe(c)' = {}
      /\ \A d \in Cpus \ {c} : PidsDe(d)' = PidsDe(d)
      /\ p \in colaExec
  BY SaleSecuencial
<1>2. Finales'
  BY <1>1, SaleFinales DEF SInv
<1>3. PICK g : g = K'
  OBVIOUS
<1>4. SoloKernel'
  BY <1>3 DEF SInv, SoloKernel, En, Da
<1>5. Despachando'
  BY <1>1, <1>3 DEF Despachando, En, Da
<1>6. \A d \in Cpus \ {c} : /\ ~En(K, "responder", d) /\ ~En(K', "responder", d)
                            /\ ~Da(K', d)
  BY DEF En, Da, MutexLibre, K
<1>7. Hablan'
  BY <1>1, <1>6, HablaUna DEF SInv
<1> QED BY <1>1, <1>2, <1>4, <1>5, <1>7 DEF SInv

\* While mutexKernel is free no thread is moving a PCB to Exec: what the handlers
\* free is in Exec.
LEMMA NadieEnCamino ==
  ASSUME SInv, MutexLibre
  PROVE  EnCamino = {} /\ EnManos = {}
<1>1. \A h \in Hilos : hilos[h].paso = "libre"
  BY DEF SInv, SoloKernel, Hilos, HiloLibre, MutexLibre
<1> QED BY <1>1 DEF EnCamino, EnManoDe, EnManos, EnMano

LEMMA SueltaSola ==
  ASSUME TInv, LInv, SInv, NEW c \in Cpus, NEW op,
         (op = "FIN_QUANTUM" /\ FinQuantum(c)) \/ FinalizaPrograma(c, op)
  PROVE  /\ Llega(c, op) /\ Head(canal[c]).pid \in Pids
         /\ \E i \in DOMAIN relacion : Sale(i, Head(canal[c]).pid)
<1>1. /\ Llega(c, op) /\ Head(canal[c]).pid \in Pids
      /\ \E i \in DOMAIN relacion :
           Sale(i, Head(canal[c]).pid) \/ SaleEnCamino(i, Head(canal[c]).pid)
  BY SueltaHace
<1>2. EnCamino = {}
  BY <1>1, NadieEnCamino DEF Llega
<1> QED BY <1>1, <1>2 DEF SaleEnCamino

LEMMA WaitBloqueaSola ==
  ASSUME TInv, LInv, SInv, NEW c \in Cpus, WaitBloquea(c)
  PROVE  /\ Llega(c, "WAIT") /\ Head(canal[c]).pid \in Pids
         /\ \E i \in DOMAIN relacion :
              /\ Sale(i, Head(canal[c]).pid) /\ relacion[i].cpu = c
              /\ \/ colaBlocked' = colaBlocked \union {Head(canal[c]).pid}
                 \/ programas[Head(canal[c]).pid] = "cerrado"
         /\ hilos' = [hilos EXCEPT ![Kernel] = [paso |-> "responder", cpu |-> c,
                                                pid |-> Head(canal[c]).pid]]
<1>1. Acuerdo
  BY AcuerdoDa
<1>2. PICK p : p = Head(canal[c]).pid
  OBVIOUS
<1>3. /\ Llega(c, "WAIT") /\ p \in Pids
      /\ \E i \in DOMAIN relacion :
           \/ SaleEnCamino(i, p)
           \/ /\ Sale(i, p) /\ relacion[i].cpu = c
              /\ \/ colaBlocked' = colaBlocked \union {p}
                 \/ programas[p] = "cerrado"
      /\ hilos' = [hilos EXCEPT ![Kernel] = [paso |-> "responder", cpu |-> c, pid |-> p]]
  BY <1>1, <1>2, WaitBloqueaHace
<1>4. EnCamino = {}
  BY <1>3, NadieEnCamino DEF Llega
<1>5. \A i : ~SaleEnCamino(i, p)
  BY <1>4 DEF SaleEnCamino
<1> QED BY <1>2, <1>3, <1>5

LEMMA CerrarCpuSola ==
  ASSUME TInv, LInv, SInv, NEW c \in Cpus, CerrarCpu(c)
  PROVE  /\ MutexLibre
         /\ \/ /\ UNCHANGED <<colas, programas, relacion, corriendo, finalizaciones>>
               /\ UNCHANGED <<pidActual, umc, hiloInit>>
               /\ \/ RelacionesDeCpu(c) = {} /\ hilos' = hilos
                  \/ /\ RelacionesDeCpu(c) # {}
                     /\ hilos' = [hilos EXCEPT ![Kernel].paso = "colgado"]
            \/ /\ \E i \in DOMAIN relacion : \E p \in Pids :
                    /\ Sale(i, p) /\ relacion[i].cpu = c
                    /\ ~Muerta(p) /\ colaExit' = colaExit \union {p}
                    /\ Finalizar(p) /\ programas' = [programas EXCEPT ![p] = "ninguno"]
               /\ \/ hilos' = hilos
                  \/ hilos' = [hilos EXCEPT ![Kernel].paso = "colgado"]
<1>1. MutexLibre
  BY CerrarCpuHace
<1>2. \A i, p : ~SaleEnCamino(i, p)
  BY <1>1, NadieEnCamino DEF SaleEnCamino
<1> QED BY <1>2, CerrarCpuHace

\* FIN_QUANTUM, FINALIZA_PROGRAMA and ERROR_FALTA_MEMORIA.
LEMMA SueltaSecuencial ==
  ASSUME TInv, LInv, SInv, NEW c \in Cpus, NEW op \in Sueltas,
         (op = "FIN_QUANTUM" /\ FinQuantum(c)) \/ FinalizaPrograma(c, op)
  PROVE  SInv'
<1>1. /\ Llega(c, op) /\ Head(canal[c]).pid \in Pids
      /\ \E i \in DOMAIN relacion : Sale(i, Head(canal[c]).pid)
  BY SueltaSola
<1>2. PICK p \in Pids : p = Head(canal[c]).pid
  BY <1>1
<1>3. PICK i \in DOMAIN relacion : Sale(i, p)
  BY <1>1, <1>2
<1>4. /\ canal[c] # <<>> /\ Head(canal[c]).op = op /\ MutexLibre
      /\ canal \in [Cpus -> Seq(MensajesDeCpu)]
      /\ canal' = [canal EXCEPT ![c] = Tail(canal[c])]
  BY <1>1 DEF Llega, TInv, TiposDeCpus
<1>5. relacion[i].cpu = c
  <2>1. op # "HS" /\ relacion[i].pid = p
    BY <1>3 DEF Sueltas, Sale
  <2> QED BY <1>2, <1>4, <2>1, MensajeYRelacion
<1>6. UNCHANGED <<pendienteES, cpu, aCpu>>
  BY DEF FinQuantum, FinalizaPrograma
<1>7. \/ hilos' = hilos \/ hilos' = AEnviar(Kernel)
      \/ hilos' = [hilos EXCEPT ![Kernel].paso = "colgado"]
  <2>1. CASE FinQuantum(c)
    BY <2>1 DEF FinQuantum
  <2>2. CASE FinalizaPrograma(c, op)
    BY <2>2 DEF FinalizaPrograma, EnviarAConsola, Envio
  <2> QED BY <2>1, <2>2
<1>8. K'.paso \in {"libre", "buscar", "colgado"} /\ \A h \in HilosIO : hilos'[h] = HiloLibre
  BY <1>4, <1>7, KernelSigue DEF SInv
<1>9. PICK e, s, m, R, h, g : /\ e = cpu[c] /\ s = canal[c] /\ m = aCpu[c] /\ R = PidsDe(c)
                              /\ h = K /\ g = K'
  OBVIOUS
<1>10. Charla(c, e, s, m, R, h) /\ s \in Seq(MensajesDeCpu) /\ s # <<>>
       /\ Head(s).op \in Preguntas \union Sueltas /\ Head(s).op \notin Preguntas
  BY <1>4, <1>9 DEF SInv, Hablan, CharlaDe, Preguntas, Sueltas
<1>11. /\ Tail(s) = <<>> /\ Head(s).pid \in R
       /\ ~En(h, "responder", c) /\ ~Da(h, c)
       /\ e.est \notin {"apagada", "corriendo"}
       /\ e.est = "espera" => /\ Head(s).op \in Preguntas
                              /\ m = <<>> /\ Head(s).pid = e.pid
       /\ e.est = "libre" => Head(s).op \in Sueltas /\ m = <<>>
  <2>1. Final(c, e, s, m, R, h)
    BY <1>10, CharlaFinal
  <2> QED BY <2>1 DEF Final
<1>12. ~En(g, "responder", c) /\ ~Da(g, c)
  BY <1>8, <1>9 DEF En, Da
<1>13. \A Q : Charla(c, e, <<>>, m, Q, g)
  <2>1. e.est \notin {"apagada", "corriendo", "espera"} /\ (e.est = "libre" => m = <<>>)
    BY <1>10, <1>11
  <2> QED BY <1>12, <2>1, CharlaSoltada
<1>14. CharlaDe(c)'
  <2>1. canal'[c] = <<>> /\ cpu' = cpu /\ aCpu' = aCpu
    BY <1>4, <1>6, <1>9, <1>11
  <2> QED BY <1>9, <1>13, <2>1 DEF CharlaDe
<1>15. \A d \in Cpus \ {c} : /\ cpu'[d] = cpu[d] /\ canal'[d] = canal[d] /\ aCpu'[d] = aCpu[d]
  BY <1>4, <1>6
<1> QED BY <1>3, <1>4, <1>5, <1>6, <1>8, <1>14, <1>15, SoltarSecuencial

LEMMA WaitBloqueaSecuencial ==
  ASSUME TInv, LInv, SInv, NEW c \in Cpus, WaitBloquea(c)
  PROVE  SInv'
<1>1. /\ Llega(c, "WAIT") /\ Head(canal[c]).pid \in Pids
      /\ \E i \in DOMAIN relacion : /\ Sale(i, Head(canal[c]).pid) /\ relacion[i].cpu = c
      /\ hilos' = [hilos EXCEPT ![Kernel] = [paso |-> "responder", cpu |-> c,
                                             pid |-> Head(canal[c]).pid]]
  BY WaitBloqueaSola
<1>2. PICK p \in Pids : p = Head(canal[c]).pid
  BY <1>1
<1>3. PICK i \in DOMAIN relacion : Sale(i, p) /\ relacion[i].cpu = c
  BY <1>1, <1>2
<1>4. /\ canal[c] # <<>> /\ Head(canal[c]).op = "WAIT" /\ MutexLibre
      /\ canal \in [Cpus -> Seq(MensajesDeCpu)]
      /\ canal' = [canal EXCEPT ![c] = Tail(canal[c])]
  BY <1>1 DEF Llega, TInv, TiposDeCpus
<1>6. UNCHANGED <<pendienteES, cpu, aCpu>>
  BY DEF WaitBloquea
<1>7. PICK g : g = [paso |-> "responder", cpu |-> c, pid |-> p]
  OBVIOUS
<1>8. K' = g /\ \A h \in HilosIO : hilos'[h] = HiloLibre
  <2>1. hilos' = [hilos EXCEPT ![Kernel] = g]
    BY <1>1, <1>2, <1>7
  <2>2. hilos'[Kernel] = g /\ \A x \in Hilos \ {Kernel} : hilos'[x] = hilos[x]
    BY <2>1, KernelEs, PasaA
  <2> QED BY <2>2, KernelEs DEF SInv, SoloKernel, K
<1>9. PICK e, s, m, R, h : /\ e = cpu[c] /\ s = canal[c] /\ m = aCpu[c] /\ R = PidsDe(c)
                           /\ h = K
  OBVIOUS
<1>10. Charla(c, e, s, m, R, h) /\ s \in Seq(MensajesDeCpu) /\ s # <<>>
       /\ Head(s).op \in Preguntas
  BY <1>4, <1>9 DEF SInv, Hablan, CharlaDe, Preguntas
<1>11. En(g, "responder", c) /\ g.paso = "responder" /\ g.cpu = c
  BY <1>7 DEF En, Da
<1>12. \A Q : Charla(c, e, Tail(s), m, Q, g)
  BY <1>10, <1>11, CharlaBloquea, Zenon
<1>13. CharlaDe(c)'
  <2>1. canal'[c] = Tail(s) /\ cpu' = cpu /\ aCpu' = aCpu
    BY <1>4, <1>6, <1>9
  <2> QED BY <1>8, <1>9, <1>12, <2>1 DEF CharlaDe
<1>14. \A d \in Cpus \ {c} : /\ cpu'[d] = cpu[d] /\ canal'[d] = canal[d] /\ aCpu'[d] = aCpu[d]
  BY <1>4, <1>6
<1> QED BY <1>3, <1>4, <1>6, <1>8, <1>11, <1>13, <1>14, SoltarSecuencial

LEMMA CerrarCpuSecuencial ==
  ASSUME TInv, LInv, SInv, NEW c \in Cpus, CerrarCpu(c)
  PROVE  SInv'
<1>1. /\ MutexLibre /\ canal[c] = <<>> /\ UNCHANGED <<pendienteES, canal, aCpu>>
      /\ cpu' = [cpu EXCEPT ![c] = [est |-> "retirada", pid |-> 0]]
      /\ cpu \in [Cpus -> CpuTipo]
  BY DEF CerrarCpu, Quedar, TInv, TiposDeCpus
<1>2. PICK f, m, g : /\ f = [est |-> "retirada", pid |-> 0] /\ m = aCpu[c] /\ g = K'
  OBVIOUS
<1>3. /\ cpu'[c] = f /\ f.est \notin Vivas /\ f.est = "retirada"
      /\ \A d \in Cpus \ {c} : /\ cpu'[d] = cpu[d] /\ canal'[d] = canal[d] /\ aCpu'[d] = aCpu[d]
  BY <1>1, <1>2 DEF Vivas
<1>4. hilos' = hilos \/ hilos' = [hilos EXCEPT ![Kernel].paso = "colgado"]
  BY CerrarCpuSola
<1>5. g.paso \in {"libre", "buscar", "colgado"} /\ \A h \in HilosIO : hilos'[h] = HiloLibre
  BY <1>1, <1>2, <1>4, KernelSigue DEF SInv
<1>6. CharlaDe(c)'
  <2>1. ~En(g, "responder", c) /\ ~Da(g, c)
    BY <1>5 DEF En, Da
  <2>2. \A Q : Charla(c, f, <<>>, m, Q, g)
    BY <1>3, <2>1, CharlaSoltada
  <2> QED BY <1>1, <1>2, <1>3, <2>2 DEF CharlaDe
<1>7. CASE UNCHANGED <<colas, programas, relacion, corriendo, finalizaciones>>
  <2>1. Pares' = Pares /\ (\A d : PidsDe(d)' = PidsDe(d)) /\ colaExit' = colaExit
    BY <1>7, MismosPares DEF colas
  <2>2. SoloKernel' /\ UnaPorCpu' /\ Despachando'
    BY <1>1, <1>2, <1>5, <1>7, <2>1 DEF SInv, SoloKernel, UnaPorCpu, Despachando
  <2>3. Finales'
    BY <1>7, <2>1, FinalesQuedan DEF SInv
  <2>4. \A d : ~En(K, "responder", d) /\ ~En(K', "responder", d) /\ ~Da(K', d)
    BY <1>1, <1>2, <1>5 DEF En, Da, MutexLibre, K
  <2>5. Hablan'
    BY <1>3, <1>6, <2>1, <2>4, HablaUna DEF SInv
  <2> QED BY <2>2, <2>3, <2>5 DEF SInv
<1>8. ASSUME NEW i \in DOMAIN relacion, NEW p \in Pids, Sale(i, p), relacion[i].cpu = c
      PROVE  SInv'
  BY <1>1, <1>2, <1>3, <1>5, <1>6, <1>8, SoltarSecuencial
<1> QED BY <1>7, <1>8, CerrarCpuSola

-----------------------------------------------------------------------------
(* The kernel without threads of entrada_salida: consoles and enviar_a_cpu *)

LEMMA InitCargaSecuencial ==
  ASSUME TInv, LInv, SInv, NEW k \in Consolas, InitCarga(k)
  PROVE  SInv'
<1>1. PICK p, w : p = hiloInit[k].pid /\ w = hiloInit[k].cod
  OBVIOUS
<1>2. /\ MutexLibre /\ Cargando(k) /\ programas' = [programas EXCEPT ![p] = k]
      /\ colaExit' = colaExit \/ colaExit' = colaExit \union {p}
      /\ EnviarAConsola(k, w, AEnviar(Kernel))
      /\ UNCHANGED <<relacion, corriendo, pendienteES, procesosCpu>> /\ UNCHANGED finalizaciones
  BY <1>1 DEF InitCarga, Cargando
<1>3. p \in colaNew /\ p \notin colaExit
  <2>1. p \in Cargados
    BY <1>1, <1>2 DEF Cargados
  <2> QED BY <2>1 DEF LInv, Lugares, Reparto, Transito
<1>4. hilos' = AEnviar(Kernel) \/ hilos' = [hilos EXCEPT ![Kernel].paso = "colgado"]
  BY <1>2, AConsolaHace
<1>5. K'.paso \in {"libre", "buscar", "colgado"} /\ \A h \in HilosIO : hilos'[h] = HiloLibre
  BY <1>4, KernelSigue DEF SInv
<1>6. Finales'
  <2>1. p \in Pids /\ finalizaciones[p] = 0
    BY <1>3 DEF SInv, Finales, TInv, TiposDeColas, TiposDeUmc
  <2>2. programas \in [Pids -> Consolas \union {"ninguno", "cerrado"}]
    BY DEF TInv, TiposDeListas
  <2>3. \A q \in Pids : programas'[q] = programas[q] \/ programas'[q] \notin Consolas
                        \/ finalizaciones[q] = 0
    BY <1>2, <2>1, <2>2
  <2> QED BY <1>2, <2>3, FinalesQuedan DEF SInv
<1>7. K.paso # "responder"
  BY <1>2 DEF MutexLibre, K
<1>8. SoloKernel' /\ UnaPorCpu' /\ Despachando' /\ Hablan'
  BY <1>2, <1>5, <1>7, KernelAvanza
<1> QED BY <1>6, <1>8 DEF SInv

LEMMA CerrarConsolaSecuencial ==
  ASSUME TInv, LInv, SInv, EInv, NEW k \in Consolas, CerrarConsola(k)
  PROVE  SInv'
<1>1. PICK p \in Pids :
        /\ programas[p] = k /\ programas' = [programas EXCEPT ![p] = "cerrado"]
        /\ \/ RelacionesDePid(p) # {} /\ UNCHANGED <<colas, finalizaciones, hilos>>
           \/ /\ RelacionesDePid(p) = {}
              /\ colaExit' = IF p \in colaNew \union colaBlocked \union Listos
                             THEN colaExit \union {p} ELSE colaExit
              /\ Finalizar(p) /\ hilos' = AEnviar(Kernel)
  BY DEF CerrarConsola, Listos
<1>2. /\ MutexLibre /\ UNCHANGED <<relacion, corriendo, pendienteES, procesosCpu>>
  BY DEF CerrarConsola
<1>3. K'.paso \in {"libre", "buscar", "colgado"} /\ \A h \in HilosIO : hilos'[h] = HiloLibre
  BY <1>1, <1>2, KernelSigue DEF SInv
<1>4. K.paso = "libre" /\ EnManos = {}
  BY <1>2, NadieEnCamino DEF MutexLibre, K
<1>5. SoloKernel' /\ UnaPorCpu' /\ Despachando' /\ Hablan'
  BY <1>2, <1>3, <1>4, KernelAvanza
<1>6. /\ finalizaciones \in [Pids -> 0 .. 2] /\ Reparto /\ Entradas /\ Relaciones
      /\ programas \in [Pids -> Consolas \union {"ninguno", "cerrado"}] /\ Finales
      /\ "ninguno" \notin Consolas /\ "cerrado" \notin Consolas
  BY NombresAssumption DEF TInv, TiposDeUmc, TiposDeListas, LInv, Lugares, SInv
<1>7. finalizaciones[p] = 0
  BY <1>1, <1>6 DEF Finales
<1>8. \A q \in Pids : programas'[q] = IF q = p THEN "cerrado" ELSE programas[q]
  BY <1>1, <1>6
<1>9. Finales'
  <2>1. CASE UNCHANGED <<colas, finalizaciones, hilos>>
    <3>1. colaExit' = colaExit /\ finalizaciones' = finalizaciones
      BY <2>1 DEF colas
    <3> QED BY <1>6, <1>8, <3>1, FinalesQuedan
  <2>2. CASE /\ RelacionesDePid(p) = {}
             /\ colaExit' = IF p \in colaNew \union colaBlocked \union Listos
                            THEN colaExit \union {p} ELSE colaExit
             /\ Finalizar(p)
    <3>1. p \notin colaExec
      BY <1>4, <2>2 DEF EInv, ConRelacion, RelacionesDePid, EnSecuencia
    <3>2. p \in 1 .. pidActual
      BY <1>1, <1>6 DEF Entradas
    <3>4. p \in colaExit' /\ colaExit \subseteq colaExit'
      BY <1>4, <1>6, <2>2, <3>1, <3>2 DEF Reparto
    <3>5. \A q \in Pids : finalizaciones'[q] = IF q = p THEN 1 ELSE finalizaciones[q]
      BY <1>6, <1>7, <2>2 DEF Finalizar
    <3> QED BY <1>6, <1>8, <3>4, <3>5 DEF Finales
  <2> QED BY <1>1, <2>1, <2>2
<1> QED BY <1>5, <1>9 DEF SInv

\* Steps of the consoles, of the UMC and of the threads that wait for it.
LEMMA ConsolaSecuencial ==
  ASSUME TInv, LInv, SInv, EInv, NEW k \in Consolas,
         ConsolaEnvia(k) \/ ConsolaCierra(k) \/ AtenderConsola(k)
  PROVE  SInv'
<1>1. CASE \/ ConsolaEnvia(k) \/ ConsolaCierra(k) \/ NuevoPrograma(k) \/ InitRecibe(k)
           \/ CerrarConsolaSinPrograma(k)
  <2>1. /\ UNCHANGED <<programas, corriendo, relacion, hilos, pendienteES, procesosCpu>>
        /\ UNCHANGED <<finalizaciones, colaExit>>
    BY <1>1 DEF ConsolaEnvia, ConsolaCierra, NuevoPrograma, InitRecibe,
       CerrarConsolaSinPrograma, listas, colas
  <2> QED BY <2>1, SecuencialQuieto
<1> QED BY <1>1, InitCargaSecuencial, CerrarConsolaSecuencial DEF AtenderConsola

LEMMA UmcSecuencial ==
  ASSUME SInv, NEW cod \in RespuestasUmc, UmcResponde(cod)
  PROVE  SInv'
<1>1. /\ UNCHANGED <<programas, corriendo, relacion, hilos, pendienteES, procesosCpu>>
      /\ UNCHANGED <<finalizaciones, colaExit>>
  BY DEF UmcResponde, listas, colas
<1> QED BY <1>1, SecuencialQuieto

LEMMA SoloElKernel ==
  ASSUME SInv, NEW h \in Hilos, hilos[h].paso # "libre"
  PROVE  h = Kernel
BY DEF SInv, SoloKernel, Hilos, HiloLibre

LEMMA BuscarSecuencial ==
  ASSUME TInv, SInv, Buscar(Kernel) \/ SacarReady(Kernel) \/ MoverAReady(Kernel)
  PROVE  SInv'
<1>1. /\ UNCHANGED <<relacion, corriendo, pendienteES, procesosCpu>>
      /\ UNCHANGED <<finalizaciones, programas, colaExit>> /\ K.paso \in {"buscar", "sacar", "mover"}
  BY DEF Buscar, SacarReady, MoverAReady, listas, resto, colas, procesosCpu, EnPaso, K
<1>2. Finales'
  BY <1>1, FinalesQuedan DEF SInv
<1>3. ASSUME NEW r, hilos' = [hilos EXCEPT ![Kernel] = r]
      PROVE  K' = r /\ \A h \in HilosIO : hilos'[h] = HiloLibre
  <2>1. hilos'[Kernel] = r /\ \A g \in Hilos \ {Kernel} : hilos'[g] = hilos[g]
    BY <1>3, KernelEs, PasaA
  <2> QED BY <2>1, KernelEs DEF SInv, SoloKernel, K
<1>4. ASSUME K'.paso \in {"libre", "buscar", "sacar", "relacionar", "colgado"},
             K'.paso \in {"sacar", "relacionar"} => K'.cpu \notin corriendo,
             \A h \in HilosIO : hilos'[h] = HiloLibre
      PROVE  SInv'
  <2>1. K.paso # "responder"
    BY <1>1
  <2>2. SoloKernel' /\ UnaPorCpu' /\ Despachando' /\ Hablan'
    BY <1>1, <1>4, <2>1, KernelAvanza
  <2> QED BY <1>2, <2>2 DEF SInv
<1>5. CASE hilos' = Volver(Kernel) \/ hilos' = AEnviar(Kernel)
  <2>1. K'.paso \in {"libre", "buscar"} /\ \A h \in HilosIO : hilos'[h] = HiloLibre
    BY <1>5, KernelSigue DEF SInv
  <2> QED BY <1>4, <2>1
<1>6. CASE Buscar(Kernel) /\ hilos' # Volver(Kernel)
  <2>1. PICK libres : libres = {i \in DOMAIN cpus : cpus[i] \notin corriendo}
    OBVIOUS
  <2>2. libres # {}
        /\ hilos' = [hilos EXCEPT ![Kernel] = [paso |-> "sacar", cpu |-> cpus[Primera(libres)],
                                               pid |-> 0]]
    BY <1>6, <2>1 DEF Buscar
  <2>3. Primera(libres) \in libres
    <3>1. libres \in SUBSET Nat
      BY <2>1 DEF TInv, TiposDeListas
    <3> QED BY <2>2, <3>1, PrimeraEs
  <2>4. PICK r : r = [paso |-> "sacar", cpu |-> cpus[Primera(libres)], pid |-> 0]
    OBVIOUS
  <2>5. r.paso = "sacar" /\ r.cpu \notin corriendo /\ hilos' = [hilos EXCEPT ![Kernel] = r]
    BY <2>1, <2>2, <2>3, <2>4
  <2>6. K' = r /\ \A h \in HilosIO : hilos'[h] = HiloLibre
    BY <1>3, <2>5
  <2> QED BY <1>4, <2>5, <2>6
<1>7. CASE SacarReady(Kernel) /\ hilos' # Volver(Kernel)
  <2>1. PICK q, d : q = Head(colaReady) /\ d = hilos[Kernel].cpu
    OBVIOUS
  <2>2. hilos' = [hilos EXCEPT ![Kernel].paso = "relacionar", ![Kernel].pid = q]
        /\ K.paso = "sacar"
    BY <1>7, <2>1 DEF SacarReady, EnPaso, K
  <2>3. PICK r : r = [paso |-> "relacionar", cpu |-> d, pid |-> q]
    OBVIOUS
  <2>4. hilos' = [hilos EXCEPT ![Kernel] = r] /\ r.paso = "relacionar" /\ r.cpu = d
    <3>1. hilos \in [Hilos -> HiloTipo] /\ Kernel \in Hilos
      BY KernelEs DEF TInv, TiposDeHilos
    <3>2. [hilos EXCEPT ![Kernel].paso = "relacionar", ![Kernel].pid = q] =
            [hilos EXCEPT ![Kernel] = [paso |-> "relacionar", cpu |-> hilos[Kernel].cpu,
                                       pid |-> q]]
      BY <3>1, HiloCambia, Zenon
    <3> QED BY <2>1, <2>2, <2>3, <3>2
  <2>5. K' = r /\ \A h \in HilosIO : hilos'[h] = HiloLibre
    BY <1>3, <2>4
  <2>6. d \notin corriendo
    BY <2>1, <2>2 DEF SInv, Despachando, K
  <2> QED BY <1>4, <2>4, <2>5, <2>6
<1>8. CASE MoverAReady(Kernel)
  BY <1>5, <1>8 DEF MoverAReady
<1> QED BY <1>5, <1>6, <1>7, <1>8

LEMMA RelacionarSecuencial ==
  ASSUME TInv, LInv, SInv, Relacionar(Kernel)
  PROVE  SInv'
<1>1. /\ UNCHANGED <<pendienteES, procesosCpu, finalizaciones, programas, colaExit>>
      /\ UNCHANGED <<cpu, canal, aCpu>> /\ K.paso = "relacionar"
  BY DEF Relacionar, resto, procesosCpu, EnPaso, K, colas
<1>2. PICK c \in Cpus, p \in Pids :
        /\ c = hilos[Kernel].cpu /\ p = hilos[Kernel].pid /\ p \notin ConRelacion
        /\ corriendo' = corriendo \union {c}
        /\ relacion' = Append(relacion, [cpu |-> c, pid |-> p])
        /\ hilos' = [hilos EXCEPT ![Kernel] = [paso |-> "ejecutar", cpu |-> c, pid |-> p]]
  BY KernelEs, RelacionarHace
<1>3. PICK r, g : r = [cpu |-> c, pid |-> p] /\ g = [paso |-> "ejecutar", cpu |-> c, pid |-> p]
  OBVIOUS
<1>4. r.cpu = c /\ r.pid = p /\ g.paso = "ejecutar" /\ g.cpu = c /\ g.pid = p
  BY <1>3
<1>5. Pares' = Pares \union {r}
  BY <1>2, <1>3, RelacionNueva DEF TInv, LInv, Pares
<1>6. c \notin corriendo
  BY <1>1, <1>2 DEF SInv, Despachando, K
<1>7. \A t \in Pares : t.cpu # c
  BY <1>6 DEF SInv, UnaPorCpu
<1>8. UnaPorCpu'
  <2>1. corriendo = {t.cpu : t \in Pares} /\ \A t, u \in Pares : t.cpu = u.cpu => t = u
    BY DEF SInv, UnaPorCpu
  <2>2. {t.cpu : t \in Pares \union {r}} = {t.cpu : t \in Pares} \union {c}
    BY <1>4
  <2> QED BY <1>2, <1>4, <1>5, <1>7, <2>1, <2>2 DEF UnaPorCpu
<1>9. K' = g /\ \A h \in HilosIO : hilos'[h] = HiloLibre
  <2>1. hilos' = [hilos EXCEPT ![Kernel] = g]
    BY <1>2, <1>3
  <2>2. hilos'[Kernel] = g /\ \A x \in Hilos \ {Kernel} : hilos'[x] = hilos[x]
    BY <2>1, KernelEs, PasaA
  <2> QED BY <2>2, KernelEs DEF SInv, SoloKernel, K
<1>10. SoloKernel'
  BY <1>1, <1>4, <1>9 DEF SInv, SoloKernel
<1>11. Despachando'
  BY <1>3, <1>4, <1>5, <1>9 DEF Despachando
<1>12. Finales'
  BY <1>1, FinalesQuedan DEF SInv
<1>13. PidsDe(c) = {} /\ PidsDe(c)' = {p} /\ \A d \in Cpus \ {c} : PidsDe(d)' = PidsDe(d)
  <2>1. \A q : [cpu |-> c, pid |-> q] \notin Pares
    BY <1>7
  <2>2. \A q : [cpu |-> c, pid |-> q] = r <=> q = p
    BY <1>3
  <2>3. \A d \in Cpus \ {c} : \A q : [cpu |-> d, pid |-> q] # r
    BY <1>3
  <2> QED BY <1>5, <2>1, <2>2, <2>3 DEF PidsDe
<1>14. CharlaDe(c)'
  <2>1. PICK e, s, m, h : e = cpu[c] /\ s = canal[c] /\ m = aCpu[c] /\ h = K
    OBVIOUS
  <2>2. Charla(c, e, s, m, {}, h) /\ s \in Seq(MensajesDeCpu) /\ h.paso = "relacionar"
    BY <1>1, <1>13, <2>1 DEF SInv, Hablan, CharlaDe, TInv, TiposDeCpus
  <2>3. ~En(g, "responder", c)
    BY <1>4 DEF En, Da
  <2>4. Charla(c, e, s, m, {p}, g)
    BY <2>2, <2>3, CharlaRelaciona
  <2> QED BY <1>1, <1>9, <1>13, <2>1, <2>4 DEF CharlaDe
<1>15. \A d \in Cpus \ {c} : /\ ~En(K, "responder", d) /\ ~En(K', "responder", d)
                             /\ ~Da(K', d)
  BY <1>1, <1>4, <1>9 DEF En, Da
<1>16. Hablan'
  BY <1>1, <1>13, <1>14, <1>15, HablaUna DEF SInv
<1> QED BY <1>8, <1>10, <1>11, <1>12, <1>16 DEF SInv

\* moverA_colaExec changes nothing that a CPU sees.
LEMMA MoverAExecSecuencial ==
  ASSUME TInv, LInv, SInv, MoverAExec(Kernel)
  PROVE  SInv'
<1>1. /\ UNCHANGED <<pendienteES, finalizaciones, programas, corriendo, relacion, cpu, canal>>
      /\ aCpu' = aCpu /\ colaExit' = colaExit /\ K.paso = "ejecutar"
      /\ hilos' = [hilos EXCEPT ![Kernel].paso = "enviar"]
  BY DEF MoverAExec, resto, listas, EnPaso, K
<1>2. PICK c, p, g : /\ c = K.cpu /\ p = K.pid
                     /\ g = [paso |-> "enviar", cpu |-> c, pid |-> p]
  OBVIOUS
<1>3. hilos' = [hilos EXCEPT ![Kernel] = g]
  <2>1. hilos \in [Hilos -> HiloTipo] /\ Kernel \in Hilos
    BY KernelEs DEF TInv, TiposDeHilos
  <2>2. [hilos EXCEPT ![Kernel].paso = "enviar"] =
          [hilos EXCEPT ![Kernel] = [paso |-> "enviar", cpu |-> hilos[Kernel].cpu,
                                     pid |-> hilos[Kernel].pid]]
    BY <2>1, HiloCambia, Zenon
  <2> QED BY <1>1, <1>2, <2>2 DEF K
<1>4. K' = g /\ \A h \in HilosIO : hilos'[h] = HiloLibre
  <2>1. hilos'[Kernel] = g /\ \A x \in Hilos \ {Kernel} : hilos'[x] = hilos[x]
    BY <1>3, KernelEs, PasaA
  <2> QED BY <2>1, KernelEs DEF SInv, SoloKernel, K
<1>5. g.paso = "enviar" /\ g.cpu = c /\ g.pid = p
  BY <1>2
<1>6. Pares' = Pares /\ (\A d : PidsDe(d)' = PidsDe(d))
  BY <1>1, MismosPares
<1>7. SoloKernel' /\ UnaPorCpu' /\ Despachando'
  BY <1>1, <1>2, <1>4, <1>5, <1>6 DEF SInv, SoloKernel, UnaPorCpu, Despachando
<1>8. Finales'
  BY <1>1, FinalesQuedan DEF SInv
<1>9. ASSUME NEW d \in Cpus
      PROVE  CharlaDe(d)'
  <2>1. PICK e, s, m, R, h : /\ e = cpu[d] /\ s = canal[d] /\ m = aCpu[d] /\ R = PidsDe(d)
                             /\ h = K
    OBVIOUS
  <2>2. Charla(d, e, s, m, R, h)
    BY <2>1 DEF SInv, Hablan, CharlaDe
  <2>3. /\ ~En(h, "responder", d) /\ ~En(g, "responder", d) /\ (Da(h, d) <=> Da(g, d))
    BY <1>1, <1>2, <1>5, <2>1 DEF En, Da
  <2>4. Charla(d, e, s, m, R, g)
    BY <2>2, <2>3 DEF Charla, Ociosa, Corriendo, Esperando
  <2> QED BY <1>1, <1>4, <1>6, <2>1, <2>4 DEF CharlaDe
<1> QED BY <1>7, <1>8, <1>9 DEF SInv, Hablan

\* enviar() to the CPU the kernel took, and what the kernel does next.
LEMMA EnviarACpuHace ==
  ASSUME TInv, NEW c \in Cpus, NEW x, NEW luego, EnviarACpu(c, x, Kernel, luego)
  PROVE  /\ cpu[c].est \in Vivas => /\ aCpu'[c] = Append(aCpu[c], x)
                                    /\ hilos' = luego
         /\ cpu[c].est \notin Vivas => aCpu' = aCpu
         /\ \A d \in Cpus \ {c} : aCpu'[d] = aCpu[d]
         /\ hilos' = luego \/ hilos' = [hilos EXCEPT ![Kernel].paso = "colgado"]
<1>1. aCpu \in [Cpus -> Seq(MensajesDelNucleo)]
  BY DEF TInv, TiposDeCpus
<1>2. PICK m : m = Append(aCpu[c], x)
  OBVIOUS
<1>3. \/ /\ SocketCpu(c) = "abierto" /\ hilos' = luego
         /\ aCpu' = [aCpu EXCEPT ![c] = m]
      \/ /\ SocketCpu(c) # "abierto" /\ aCpu' = aCpu
         /\ hilos' = luego \/ hilos' = [hilos EXCEPT ![Kernel].paso = "colgado"]
  BY <1>2 DEF EnviarACpu, Envio
<1>4. cpu[c].est \in Vivas <=> SocketCpu(c) = "abierto"
  <2>1. cpu[c].est \in {"apagada", "libre", "corriendo", "espera", "cerrada", "retirada"}
    BY DEF TInv, TiposDeCpus, CpuTipo
  <2> QED BY <2>1 DEF SocketCpu, Vivas
<1> QED BY <1>1, <1>2, <1>3, <1>4

\* The step of the kernel that sends CPU c what it was taken for.
LEMMA LeContesta ==
  ASSUME TInv, SInv, NEW c \in Cpus, K.cpu = c, K.paso \in {"responder", "enviar"},
         UNCHANGED <<relacion, corriendo, pendienteES, cpu, canal>>,
         UNCHANGED <<finalizaciones, programas, colaExit>>, CharlaDe(c)',
         \A d \in Cpus \ {c} : aCpu'[d] = aCpu[d],
         K'.paso \in {"libre", "buscar", "colgado"}, \A h \in HilosIO : hilos'[h] = HiloLibre
  PROVE  SInv'
<1>1. Pares' = Pares /\ (\A d : PidsDe(d)' = PidsDe(d))
  BY MismosPares
<1>2. SoloKernel' /\ UnaPorCpu' /\ Despachando'
  BY <1>1 DEF SInv, SoloKernel, UnaPorCpu, Despachando
<1>3. Finales'
  BY FinalesQuedan DEF SInv
<1>4. \A d \in Cpus \ {c} : /\ ~En(K, "responder", d) /\ ~En(K', "responder", d)
                            /\ ~Da(K', d)
  BY DEF En, Da
<1>5. Hablan'
  BY <1>1, <1>4, HablaUna DEF SInv
<1> QED BY <1>2, <1>3, <1>5 DEF SInv

LEMMA ResponderSecuencial ==
  ASSUME TInv, SInv, Responder
  PROVE  SInv'
<1>1. PICK c : c = hilos[Kernel].cpu
  OBVIOUS
<1>2. /\ K.paso = "responder" /\ K.cpu = c /\ EnviarACpu(c, NoOk, Kernel, AEnviar(Kernel))
      /\ UNCHANGED <<relacion, corriendo, pendienteES, cpu, canal>>
      /\ UNCHANGED <<finalizaciones, programas, colaExit>>
  BY <1>1 DEF Responder, K, NoOk, listas, colas
<1>3. c \in Cpus
  BY <1>1, <1>2, KernelEs DEF K, TInv, TiposDeHilos
<1>4. PICK e, s, m, R, h : /\ e = cpu[c] /\ s = canal[c] /\ m = aCpu[c] /\ R = PidsDe(c)
                           /\ h = K
  OBVIOUS
<1>5. PICK g : g = K'
  OBVIOUS
<1>6. hilos' = AEnviar(Kernel) \/ hilos' = [hilos EXCEPT ![Kernel].paso = "colgado"]
  BY <1>2, <1>3, EnviarACpuHace
<1>7. g.paso \in {"libre", "buscar", "colgado"} /\ \A x \in HilosIO : hilos'[x] = HiloLibre
  BY <1>5, <1>6, KernelSigue DEF SInv
<1>8. ~En(g, "responder", c) /\ ~Da(g, c)
  BY <1>7 DEF En, Da
<1>9. Charla(c, e, s, m, R, h) /\ En(h, "responder", c)
  BY <1>2, <1>3, <1>4 DEF SInv, Hablan, CharlaDe, En, Da
<1>10. /\ e.est \in Vivas => m = <<>> /\ Charla(c, e, s, <<NoOk>>, R, g)
       /\ e.est \notin Vivas => Charla(c, e, s, m, R, g)
  BY <1>8, <1>9, CharlaNoOk
<1>11. /\ e.est \in Vivas => aCpu'[c] = Append(m, NoOk)
       /\ e.est \notin Vivas => aCpu' = aCpu
       /\ \A d \in Cpus \ {c} : aCpu'[d] = aCpu[d]
  BY <1>2, <1>3, <1>4, EnviarACpuHace
<1>12. Charla(c, e, s, aCpu'[c], R, g)
  <2>1. CASE e.est \in Vivas
    <3>1. \A x : Append(<<>>, x) = <<x>>
      OBVIOUS
    <3>2. aCpu'[c] = <<NoOk>>
      BY <1>10, <1>11, <2>1, <3>1, Zenon
    <3> QED BY <1>10, <2>1, <3>2
  <2> QED BY <1>4, <1>10, <1>11, <2>1
<1>13. CharlaDe(c)'
  <2>1. canal'[c] = s /\ PidsDe(c)' = R /\ cpu' = cpu
    BY <1>2, <1>4, MismosPares
  <2> QED BY <1>4, <1>5, <1>12, <2>1 DEF CharlaDe
<1> QED BY <1>2, <1>3, <1>5, <1>7, <1>11, <1>13, LeContesta

LEMMA EnviarPcbSecuencial ==
  ASSUME TInv, SInv, EnviarPcb(Kernel)
  PROVE  SInv'
<1>1. PICK c, p : c = hilos[Kernel].cpu /\ p = hilos[Kernel].pid
  OBVIOUS
<1>2. /\ K.paso = "enviar" /\ K.cpu = c /\ K.pid = p
      /\ EnviarACpu(c, Correr(p), Kernel, Volver(Kernel))
      /\ UNCHANGED <<relacion, corriendo, pendienteES, cpu, canal>>
      /\ UNCHANGED <<finalizaciones, programas, colaExit>>
  BY <1>1 DEF EnviarPcb, EnPaso, K, Correr, listas, colas, resto
<1>3. c \in Cpus /\ p \in Pids
  BY <1>1, <1>2, KernelEs DEF K, TInv, TiposDeHilos
<1>4. PICK e, s, m, R, h : /\ e = cpu[c] /\ s = canal[c] /\ m = aCpu[c] /\ R = PidsDe(c)
                           /\ h = K
  OBVIOUS
<1>5. PICK g : g = K'
  OBVIOUS
<1>6. hilos' = Volver(Kernel) \/ hilos' = [hilos EXCEPT ![Kernel].paso = "colgado"]
  BY <1>2, <1>3, EnviarACpuHace
<1>7. g.paso \in {"libre", "buscar", "colgado"} /\ \A x \in HilosIO : hilos'[x] = HiloLibre
  BY <1>5, <1>6, KernelSigue DEF SInv
<1>8. ~En(g, "responder", c) /\ ~Da(g, c)
  BY <1>7 DEF En, Da
<1>9. /\ Charla(c, e, s, m, R, h) /\ Da(h, c) /\ p \in R
      /\ s \in Seq(MensajesDeCpu)
  <2>1. p \in PidsDe(c)
    BY <1>2, <1>3 DEF SInv, Despachando, PidsDe
  <2>2. canal[c] \in Seq(MensajesDeCpu)
    BY <1>3 DEF TInv, TiposDeCpus
  <2> QED BY <1>2, <1>3, <1>4, <2>1, <2>2 DEF SInv, Hablan, CharlaDe, En, Da
<1>10. /\ e.est \in Vivas => Charla(c, e, s, Append(m, Correr(p)), R, g)
       /\ e.est \notin Vivas => Charla(c, e, s, m, R, g)
  BY <1>8, <1>9, CharlaCorrer
<1>11. /\ e.est \in Vivas => aCpu'[c] = Append(m, Correr(p))
       /\ e.est \notin Vivas => aCpu' = aCpu
       /\ \A d \in Cpus \ {c} : aCpu'[d] = aCpu[d]
  BY <1>2, <1>3, <1>4, EnviarACpuHace
<1>12. Charla(c, e, s, aCpu'[c], R, g)
  BY <1>4, <1>10, <1>11
<1>13. CharlaDe(c)'
  <2>1. canal'[c] = s /\ PidsDe(c)' = R /\ cpu' = cpu
    BY <1>2, <1>4, MismosPares
  <2> QED BY <1>4, <1>5, <1>12, <2>1 DEF CharlaDe
<1> QED BY <1>2, <1>3, <1>5, <1>7, <1>11, <1>13, LeContesta

LEMMA EnviarACpuSecuencial ==
  ASSUME TInv, LInv, SInv, NEW h \in Hilos, PasoDeHilo(h)
  PROVE  SInv'
<1>1. hilos[h].paso # "libre"
  BY DEF PasoDeHilo, EnviarACpuPasos, Buscar, SacarReady, Relacionar, MoverAExec, EnviarPcb,
         FinES, MoverAReady, EnPaso
<1>2. h = Kernel
  BY <1>1, SoloElKernel
<1>3. ~FinES(h)
  BY <1>2, KernelEs DEF FinES
<1> QED BY <1>2, <1>3, BuscarSecuencial, RelacionarSecuencial, MoverAExecSecuencial,
           EnviarPcbSecuencial DEF PasoDeHilo, EnviarACpuPasos

\* No CPU asks for I/O and no CPU is killed by SIGUSR1.
LEMMA NiESNiSigusr ==
  ASSUME TInv, "sigusr1" \notin Fallas, "IO" \notin Instrucciones, NEW c \in Cpus
  PROVE  ~EntradaSalida(c) /\ ~TerminoMal(c)
<1>1. ASSUME NEW op \in {"IO", "TERMINO_MAL"}
      PROVE  ~Llega(c, op)
  <2> SUFFICES ASSUME Llega(c, op) PROVE FALSE
    OBVIOUS
  <2>1. PICK x \in MensajesDeCpu : x.op = op
    BY LlegaTipo
  <2> QED BY <2>1, MensajesSon
<1> QED BY <1>1 DEF EntradaSalida, TerminoMal

LEMMA AtenderCpuSecuencial ==
  ASSUME TInv, LInv, SInv, "sigusr1" \notin Fallas, "IO" \notin Instrucciones,
         NEW c \in Cpus, AtenderCpu(c)
  PROVE  SInv'
<1>1. ~RelacionNula(c)
  BY SinRelacionNula
<1>2. ~EntradaSalida(c) /\ ~TerminoMal(c)
  BY NiESNiSigusr
<1>3. CASE FinQuantum(c) \/ \E op \in {"FINALIZA", "ERROR_MEM"} : FinalizaPrograma(c, op)
  <2>1. CASE FinQuantum(c)
    <3>1. "FIN_QUANTUM" \in Sueltas
      BY DEF Sueltas
    <3> QED BY <2>1, <3>1, SueltaSecuencial
  <2>2. ASSUME NEW op \in {"FINALIZA", "ERROR_MEM"}, FinalizaPrograma(c, op)
        PROVE  SInv'
    <3>1. op \in Sueltas
      BY DEF Sueltas
    <3> QED BY <2>2, <3>1, SueltaSecuencial
  <2> QED BY <1>3, <2>1, <2>2
<1> QED BY <1>1, <1>2, <1>3, HandshakeSecuencial, SignalSecuencial, ImprimirSecuencial,
           RespondeSecuencial, WaitBloqueaSecuencial, CerrarCpuSecuencial DEF AtenderCpu

LEMMA InicioSecuencial == Init => SInv
<1> SUFFICES ASSUME Init PROVE SInv
  OBVIOUS
<1>1. K = HiloLibre /\ \A h \in HilosIO : hilos[h] = HiloLibre
  BY KernelEs DEF Init, K
<1>2. K.paso = "libre"
  BY <1>1 DEF HiloLibre
<1>3. Pares = {}
  BY DEF Init, Pares, EnSecuencia
<1>4. SoloKernel /\ UnaPorCpu /\ Despachando
  BY <1>1, <1>2, <1>3 DEF Init, SoloKernel, UnaPorCpu, Despachando
<1>5. Finales
  BY DEF Init, Finales
<1>6. ASSUME NEW c \in Cpus
      PROVE  CharlaDe(c)
  <2>1. PICK e, s, m, R, h : /\ e = cpu[c] /\ s = canal[c] /\ m = aCpu[c] /\ R = PidsDe(c)
                             /\ h = K
    OBVIOUS
  <2>2. e.est = "apagada" /\ s = <<>> /\ m = <<>> /\ h.paso = "libre"
    BY <1>2, <2>1 DEF Init
  <2>3. Charla(c, e, s, m, R, h)
    BY <2>2 DEF Charla, Ociosa, Solo, En, Da
  <2> QED BY <2>1, <2>3 DEF CharlaDe
<1> QED BY <1>4, <1>5, <1>6 DEF SInv, Hablan

LEMMA PasoSecuencial ==
  ASSUME TInv, LInv, SInv, EInv, "sigusr1" \notin Fallas, "IO" \notin Instrucciones, [Next]_vars
  PROVE  SInv'
<1>1. CASE \E k \in Consolas : ConsolaEnvia(k) \/ ConsolaCierra(k) \/ AtenderConsola(k)
  BY <1>1, ConsolaSecuencial
<1>2. CASE \E cod \in RespuestasUmc : UmcResponde(cod)
  BY <1>2, UmcSecuencial
<1>3. ASSUME NEW c \in Cpus,
             \/ CpuConecta(c) \/ CpuResponde(c) \/ CpuAvisa(c) \/ CpuPide(c)
             \/ \E op \in Instrucciones : CpuSuelta(c, op) \/ CpuSigusr1SinPcb(c, op)
             \/ CpuSigusr1(c) \/ CpuSigusr1TrasWait(c) \/ CpuMuere(c)
             \/ AtenderCpu(c)
      PROVE  SInv'
  <2>1. /\ \A op : ~CpuSigusr1SinPcb(c, op)
        /\ ~CpuSigusr1(c) /\ ~CpuSigusr1TrasWait(c)
    BY DEF CpuSigusr1SinPcb, CpuSigusr1, CpuSigusr1TrasWait
  <2>2. CASE \/ CpuConecta(c) \/ CpuAvisa(c) \/ CpuPide(c)
             \/ \E op \in Instrucciones : CpuSuelta(c, op)
    BY <2>2, CpuManda
  <2> QED BY <1>3, <2>1, <2>2, CpuRecibeSecuencial, CpuMuereSecuencial, AtenderCpuSecuencial
<1>4. CASE Responder
  BY <1>4, ResponderSecuencial
<1>5. CASE LanzarES \/ EliminarCpu
  BY <1>5 DEF LanzarES, EliminarCpu, EnPaso, SInv, SoloKernel, K
<1>6. CASE \E h \in Hilos : PasoDeHilo(h)
  BY <1>6, EnviarACpuSecuencial
<1>7. CASE UNCHANGED vars
  <2>1. /\ UNCHANGED <<programas, corriendo, relacion, hilos, pendienteES, procesosCpu>>
        /\ UNCHANGED <<finalizaciones, colaExit>>
    BY <1>7 DEF vars, colas, listas
  <2> QED BY <2>1, SecuencialQuieto
<1> QED BY <1>1, <1>2, <1>3, <1>4, <1>5, <1>6, <1>7 DEF Next

-----------------------------------------------------------------------------
(* The kernel without threads of entrada_salida: Exec and the relations *)

\* Nothing is being moved to Exec before the step nor after it.
LEMMA EjecucionQueda ==
  ASSUME EInv, UNCHANGED <<colaExec, relacion>>,
         K' = K \/ (K.paso # "ejecutar" /\ K'.paso # "ejecutar")
  PROVE  EInv'
<1>1. ConRelacion' = ConRelacion
  BY DEF ConRelacion
<1> QED BY <1>1 DEF EInv

\* The holder of mutexKernel goes on to somewhere else.
LEMMA SinEjecutar ==
  ASSUME TInv, SInv,
         \/ hilos' = hilos /\ MutexLibre
         \/ hilos' = AEnviar(Kernel) \/ hilos' = Volver(Kernel)
         \/ hilos' = [hilos EXCEPT ![Kernel].paso = "colgado"]
         \/ \E c, p : \E x \in {"mover", "responder", "sacar", "relacionar"} :
              hilos' = [hilos EXCEPT ![Kernel] = [paso |-> x, cpu |-> c, pid |-> p]]
  PROVE  K'.paso # "ejecutar"
<1>1. ASSUME NEW c, NEW p, NEW x \in {"mover", "responder", "sacar", "relacionar"},
             hilos' = [hilos EXCEPT ![Kernel] = [paso |-> x, cpu |-> c, pid |-> p]]
      PROVE  K'.paso # "ejecutar"
  <2>1. PICK r : r = [paso |-> x, cpu |-> c, pid |-> p]
    OBVIOUS
  <2>2. hilos' = [hilos EXCEPT ![Kernel] = r] /\ r.paso = x
    BY <1>1, <2>1
  <2>3. K' = r
    BY <2>2, KernelEs, PasaA DEF K
  <2> QED BY <2>2, <2>3
<1> QED BY <1>1, KernelSigue DEF SInv

LEMMA EjecucionSale ==
  ASSUME TInv, LInv, EInv, K.paso # "ejecutar", K'.paso # "ejecutar",
         NEW i \in DOMAIN relacion, NEW p, Sale(i, p)
  PROVE  EInv'
<1>1. /\ TiposDeListas /\ Relaciones /\ p = relacion[i].pid
      /\ relacion' = SinLa(i, relacion) /\ colaExec' = colaExec \ {p}
  BY DEF TInv, LInv, Sale, Soltar
<1>2. ConRelacion' = ConRelacion \ {p}
  BY <1>1, SoltarQuita
<1> QED BY <1>1, <1>2 DEF EInv

LEMMA AtenderCpuEjecucion ==
  ASSUME TInv, LInv, SInv, EInv, "sigusr1" \notin Fallas, "IO" \notin Instrucciones,
         NEW c \in Cpus, AtenderCpu(c)
  PROVE  EInv'
<1>1. ~EntradaSalida(c) /\ ~TerminoMal(c)
  BY NiESNiSigusr
<1>2. K.paso = "libre" /\ MutexLibre
  BY DEF AtenderCpu, HandshakeCpu, FinQuantum, FinalizaPrograma, TerminoMal, WaitSinBloquear,
     WaitBloquea, Signal, EntradaSalida, Imprimir, Obtener, RelacionNula, CerrarCpu, Llega,
     MutexLibre, K
<1>3. CASE HandshakeCpu(c) \/ WaitSinBloquear(c) \/ Imprimir(c) \/ Obtener(c)
           \/ RelacionNula(c) \/ Signal(c)
  <2>1. UNCHANGED <<colaExec, relacion>>
    BY <1>3 DEF HandshakeCpu, WaitSinBloquear, Imprimir, Obtener, RelacionNula, Signal, colas,
       listas
  <2>2. \/ hilos' = hilos \/ hilos' = AEnviar(Kernel)
        \/ hilos' = [hilos EXCEPT ![Kernel].paso = "colgado"]
        \/ \E p : hilos' = [hilos EXCEPT ![Kernel] = [paso |-> "mover", cpu |-> Nadie,
                                                      pid |-> p]]
    BY <1>3 DEF HandshakeCpu, WaitSinBloquear, Imprimir, Obtener, RelacionNula, Signal,
       Desbloquear, EnviarACpu, EnviarAConsola, Envio
  <2>3. K'.paso # "ejecutar"
    BY <1>2, <2>2, SinEjecutar
  <2> QED BY <1>2, <2>1, <2>3, EjecucionQueda
<1>4. ASSUME NEW op, (op = "FIN_QUANTUM" /\ FinQuantum(c)) \/ FinalizaPrograma(c, op)
      PROVE  EInv'
  <2>1. hilos' = hilos \/ hilos' = AEnviar(Kernel)
        \/ hilos' = [hilos EXCEPT ![Kernel].paso = "colgado"]
    BY <1>4 DEF FinQuantum, FinalizaPrograma, EnviarAConsola, Envio
  <2>2. K'.paso # "ejecutar"
    BY <1>2, <2>1, SinEjecutar
  <2> QED BY <1>2, <1>4, <2>2, SueltaSola, EjecucionSale
<1>5. CASE WaitBloquea(c)
  <2>1. K'.paso # "ejecutar"
    BY <1>5, WaitBloqueaSola, SinEjecutar
  <2> QED BY <1>2, <1>5, <2>1, WaitBloqueaSola, EjecucionSale
<1>6. CASE CerrarCpu(c)
  <2>1. K'.paso # "ejecutar"
    BY <1>2, <1>6, CerrarCpuSola, SinEjecutar
  <2>2. CASE UNCHANGED <<colas, relacion>>
    BY <1>2, <2>1, <2>2, EjecucionQueda DEF colas
  <2>3. ASSUME NEW i \in DOMAIN relacion, NEW p \in Pids, Sale(i, p)
        PROVE  EInv'
    BY <1>2, <2>1, <2>3, EjecucionSale
  <2> QED BY <1>6, <2>2, <2>3, CerrarCpuSola
<1> QED BY <1>1, <1>3, <1>4, <1>5, <1>6 DEF AtenderCpu

LEMMA EnviarACpuEjecucion ==
  ASSUME TInv, LInv, SInv, SInv', EInv, NEW h \in Hilos, PasoDeHilo(h)
  PROVE  EInv'
<1>1. hilos[h].paso # "libre"
  BY DEF PasoDeHilo, EnviarACpuPasos, Buscar, SacarReady, Relacionar, MoverAExec, EnviarPcb,
         FinES, MoverAReady, EnPaso
<1>2. h = Kernel
  BY <1>1, SoloElKernel
<1>3. ~FinES(h)
  BY <1>2, KernelEs DEF FinES
<1>4. CASE Relacionar(Kernel)
  <2>1. PICK c \in Cpus, p \in Pids :
          /\ p \notin ConRelacion /\ relacion' = Append(relacion, [cpu |-> c, pid |-> p])
          /\ hilos' = [hilos EXCEPT ![Kernel] = [paso |-> "ejecutar", cpu |-> c, pid |-> p]]
    BY <1>4, KernelEs, RelacionarHace
  <2>2. K.paso = "relacionar" /\ colaExec' = colaExec
    BY <1>4 DEF Relacionar, EnPaso, K, colas
  <2>3. PICK g : g = [paso |-> "ejecutar", cpu |-> c, pid |-> p]
    OBVIOUS
  <2>4. K' = g /\ g.paso = "ejecutar" /\ g.pid = p
    <3>1. hilos' = [hilos EXCEPT ![Kernel] = g]
      BY <2>1, <2>3
    <3> QED BY <2>3, <3>1, KernelEs, PasaA DEF K
  <2>5. ConRelacion' = ConRelacion \union {p}
    BY <2>1, RelacionNueva DEF TInv, LInv
  <2> QED BY <2>1, <2>2, <2>4, <2>5 DEF EInv
<1>5. CASE MoverAExec(Kernel)
  <2>1. /\ K.paso = "ejecutar" /\ colaExec' = colaExec \union {K.pid} /\ relacion' = relacion
        /\ hilos' = [hilos EXCEPT ![Kernel].paso = "enviar"]
    BY <1>5 DEF MoverAExec, EnPaso, K, listas
  <2>2. K'.paso = "enviar"
    BY <2>1, KernelEs DEF TInv, TiposDeHilos, HiloTipo, K
  <2>3. ConRelacion' = ConRelacion
    BY <2>1 DEF ConRelacion
  <2>4. K.pid \in ConRelacion
    <3>1. [cpu |-> K.cpu, pid |-> K.pid] \in EnSecuencia(relacion)
      BY <2>1 DEF SInv, Despachando, Pares
    <3>2. [cpu |-> K.cpu, pid |-> K.pid].pid = K.pid
      OBVIOUS
    <3> QED BY <3>1, <3>2 DEF ConRelacion
  <2> QED BY <2>1, <2>2, <2>3, <2>4 DEF EInv
<1>6. CASE Buscar(Kernel) \/ SacarReady(Kernel) \/ MoverAReady(Kernel) \/ EnviarPcb(Kernel)
  <2>1. UNCHANGED <<colaExec, relacion>> /\ K.paso # "ejecutar"
    BY <1>6 DEF Buscar, SacarReady, MoverAReady, EnviarPcb, colas, listas, EnPaso, K
  <2>2. \/ hilos' = Volver(Kernel) \/ hilos' = AEnviar(Kernel)
        \/ hilos' = [hilos EXCEPT ![Kernel].paso = "colgado"]
        \/ \E d : hilos' = [hilos EXCEPT ![Kernel] = [paso |-> "sacar", cpu |-> d, pid |-> 0]]
        \/ SacarReady(Kernel)
    BY <1>6 DEF Buscar, MoverAReady, EnviarPcb, EnviarACpu, Envio
  <2>3. CASE SacarReady(Kernel) /\ hilos' # Volver(Kernel)
    <3>1. hilos' = [hilos EXCEPT ![Kernel].paso = "relacionar", ![Kernel].pid = Head(colaReady)]
      BY <2>3 DEF SacarReady
    <3>2. K'.paso = "relacionar"
      BY <3>1, KernelEs DEF TInv, TiposDeHilos, HiloTipo, K
    <3> QED BY <2>1, <3>2, EjecucionQueda
  <2>4. CASE ~(SacarReady(Kernel) /\ hilos' # Volver(Kernel))
    <3>1. K'.paso # "ejecutar"
      BY <2>2, <2>4, SinEjecutar
    <3> QED BY <2>1, <3>1, EjecucionQueda
  <2> QED BY <2>3, <2>4
<1> QED BY <1>2, <1>3, <1>4, <1>5, <1>6 DEF PasoDeHilo, EnviarACpuPasos

LEMMA InicioEjecucion == Init => EInv
BY KernelEs DEF Init, EInv, ConRelacion, EnSecuencia, K, HiloLibre

LEMMA PasoEjecucion ==
  ASSUME TInv, LInv, SInv, SInv', EInv, "sigusr1" \notin Fallas, "IO" \notin Instrucciones,
         [Next]_vars
  PROVE  EInv'
<1>1. ASSUME UNCHANGED <<colaExec, relacion, hilos>>
      PROVE  EInv'
  BY <1>1, EjecucionQueda DEF K
<1>2. ASSUME NEW k \in Consolas, ConsolaEnvia(k) \/ ConsolaCierra(k) \/ AtenderConsola(k)
      PROVE  EInv'
  <2>1. CASE \/ ConsolaEnvia(k) \/ ConsolaCierra(k) \/ NuevoPrograma(k) \/ InitRecibe(k)
             \/ CerrarConsolaSinPrograma(k)
    <3>1. UNCHANGED <<colaExec, relacion, hilos>>
      BY <2>1 DEF ConsolaEnvia, ConsolaCierra, NuevoPrograma, InitRecibe,
         CerrarConsolaSinPrograma, listas, colas
    <3> QED BY <1>1, <3>1
  <2>2. CASE InitCarga(k) \/ CerrarConsola(k)
    <3>1. UNCHANGED <<colaExec, relacion>> /\ MutexLibre /\ K.paso = "libre"
      BY <2>2 DEF InitCarga, CerrarConsola, colas, MutexLibre, K
    <3>2. hilos' = hilos \/ hilos' = AEnviar(Kernel)
          \/ hilos' = [hilos EXCEPT ![Kernel].paso = "colgado"]
      BY <2>2 DEF InitCarga, CerrarConsola, EnviarAConsola, Envio
    <3>3. K'.paso # "ejecutar"
      BY <3>1, <3>2, SinEjecutar
    <3> QED BY <3>1, <3>3, EjecucionQueda
  <2> QED BY <1>2, <2>1, <2>2 DEF AtenderConsola
<1>3. ASSUME NEW cod \in RespuestasUmc, UmcResponde(cod)
      PROVE  EInv'
  BY <1>1, <1>3 DEF UmcResponde, colas, listas
<1>4. ASSUME NEW c \in Cpus,
             \/ CpuConecta(c) \/ CpuResponde(c) \/ CpuAvisa(c) \/ CpuPide(c)
             \/ \E op \in Instrucciones : CpuSuelta(c, op) \/ CpuSigusr1SinPcb(c, op)
             \/ CpuSigusr1(c) \/ CpuSigusr1TrasWait(c) \/ CpuMuere(c)
      PROVE  EInv'
  <2>1. UNCHANGED restoDelNucleo
    BY <1>4 DEF CpuConecta, CpuResponde, CpuRecibe, CpuRespuesta, CpuAvisa, CpuPide, CpuSuelta,
       CpuSigusr1SinPcb, CpuSigusr1, CpuSigusr1TrasWait, CpuMuere
  <2> QED BY <1>1, <2>1 DEF restoDelNucleo, colas, listas
<1>5. ASSUME NEW c \in Cpus, AtenderCpu(c)
      PROVE  EInv'
  BY <1>5, AtenderCpuEjecucion
<1>6. CASE Responder
  <2>1. UNCHANGED <<colaExec, relacion>> /\ K.paso = "responder"
    BY <1>6 DEF Responder, colas, listas, K
  <2>2. hilos' = AEnviar(Kernel) \/ hilos' = [hilos EXCEPT ![Kernel].paso = "colgado"]
    BY <1>6 DEF Responder, EnviarACpu, Envio
  <2>3. K'.paso # "ejecutar"
    BY <2>2, SinEjecutar
  <2> QED BY <2>1, <2>3, EjecucionQueda
<1>7. ~LanzarES /\ ~EliminarCpu
  BY DEF LanzarES, EliminarCpu, EnPaso, SInv, SoloKernel, K
<1>8. ASSUME NEW h \in Hilos, PasoDeHilo(h)
      PROVE  EInv'
  BY <1>8, EnviarACpuEjecucion
<1>9. CASE UNCHANGED vars
  BY <1>1, <1>9 DEF vars, colas, listas
<1> QED BY <1>2, <1>3, <1>4, <1>5, <1>6, <1>7, <1>8, <1>9 DEF Next

-----------------------------------------------------------------------------
(* The sequential kernel when no console dies before its program ends *)

Ultimos == {"NO_OK", "TERMINO_BIEN", "TERMINO_MAL"}

\* A console closes when it was told how its program ended, and then the PCB is
\* in Exit or was never admitted; two programs have different consoles.
Consolado ==
  /\ \A p, q \in Pids : programas[p] \in Consolas /\ programas[p] = programas[q] => p = q
  /\ \A p \in Pids : programas[p] \in Consolas => hiloInit[programas[p]].paso = "fin"
  /\ \A p \in Pids : programas[p] = "cerrado" => p \in colaExit
  /\ \A p \in Pids : programas[p] \in Consolas /\ aviso[programas[p]] \in Ultimos =>
       p \in colaExit
  /\ \A k \in Consolas : /\ hiloInit[k].paso # "no" => consola[k] # "nueva"
                         /\ hiloInit[k].paso # "fin" => aviso[k] = "nada"
                         /\ aviso[k] \notin Ultimos => consola[k] \in {"nueva", "conectada"}

\* The value of each semaphore counts its queue, and who is there is blocked.
Cuentas ==
  /\ \A s \in Semaforos : /\ Len(cola[s]) = IF valor[s] < 0 THEN - valor[s] ELSE 0
                          /\ SinRepetir(cola[s])
                          /\ EnSecuencia(cola[s]) \subseteq colaBlocked
  /\ \A s, t \in Semaforos : s # t =>
       EnSecuencia(cola[s]) \intersect EnSecuencia(cola[t]) = {}

\* CPU c sent its handshake once, before anything else.
Presentada(c) ==
  /\ \A i \in DOMAIN canal[c] :
       canal[c][i].op = "HS" => i = 1 /\ c \notin EnSecuencia(cpus)
  /\ cpu[c].est = "apagada" => c \notin EnSecuencia(cpus)
Conectadas == SinRepetir(cpus) /\ \A c \in Cpus : Presentada(c)

\* Between two calls of enviar_a_cpu() either nobody is ready or no CPU is free;
\* a handler readies one PCB or frees one CPU, and then it calls it.
Libres == EnSecuencia(cpus) \ corriendo
Despacho ==
  /\ K.paso \in {"libre", "ejecutar", "enviar", "mover"} => colaReady = <<>> \/ Libres = {}
  /\ K.paso \in {"buscar", "responder"} =>
       Len(colaReady) <= 1 \/ \A c, d \in Libres : c = d
  /\ K.paso = "sacar" => Len(colaReady) <= 1 \/ Libres \subseteq {K.cpu}
  /\ K.paso = "relacionar" => colaReady = <<>> \/ Libres \subseteq {K.cpu}

CInv == Consolado /\ Cuentas /\ Conectadas /\ Despacho

LEMMA ConsoladoDa ==
  ASSUME TInv, CInv
  PROVE  SemaforoContable /\ TrabajoConservado
<1>1. cola \in [Semaforos -> Seq(Pids)]
  BY DEF TInv, TiposDeSemaforos
<1>2. ASSUME NEW s \in Semaforos, NEW i \in DOMAIN cola[s]
      PROVE  cola[s][i] \in colaBlocked /\ Veces(cola[s][i], cola[s]) = 1
  <2>1. PICK q, p : q = cola[s] /\ p = q[i]
    OBVIOUS
  <2>2. q \in Seq(Pids) /\ SinRepetir(q) /\ p \in EnSecuencia(q) /\ p \in colaBlocked
    BY <1>1, <1>2, <2>1 DEF CInv, Cuentas, EnSecuencia
  <2>3. Veces(p, q) = 1
    BY <2>2, VecesEs
  <2> QED BY <2>1, <2>2, <2>3
<1>3. SemaforoContable
  BY <1>2 DEF CInv, Cuentas, SemaforoContable
<1>4. TrabajoConservado
  BY DEF CInv, Despacho, Libres, TrabajoConservado, MutexLibre, K
<1> QED BY <1>3, <1>4

\* A program that did not end has a console that listens.
LEMMA ConsolaViva ==
  ASSUME TInv, Consolado, NEW p \in Pids, p \notin colaExit, programas[p] # "ninguno"
  PROVE  /\ programas[p] \in Consolas /\ consola[programas[p]] = "conectada"
         /\ aviso[programas[p]] \notin Ultimos /\ ~Muerta(p)
<1>1. programas[p] \in Consolas /\ ~Muerta(p)
  BY DEF TInv, TiposDeListas, Consolado, Muerta
<1>2. PICK k \in Consolas : k = programas[p]
  BY <1>1
<1>3. aviso[k] \notin Ultimos /\ hiloInit[k].paso = "fin"
  BY <1>2 DEF Consolado
<1> QED BY <1>1, <1>2, <1>3 DEF Consolado

LEMMA CorreConConsola ==
  ASSUME TInv, LInv, Consolado, NEW p \in ConRelacion
  PROVE  /\ p \in Pids
         /\ programas[p] \in Consolas /\ consola[programas[p]] = "conectada"
         /\ aviso[programas[p]] \notin Ultimos /\ ~Muerta(p)
<1>1. p \in colaExec \union EnManos /\ p \in Pids
  BY ManosSon DEF TInv, TiposDeColas, LInv, Relaciones, EnManos
<1>2. p \notin colaExit /\ programas[p] # "ninguno"
  BY <1>1 DEF LInv, Lugares, Reparto, Entradas
<1> QED BY <1>1, <1>2, ConsolaViva

\* What a message to a console that listens does.
LEMMA AvisoLlega ==
  ASSUME NEW k, NEW m, NEW luego, EnviarAConsola(k, m, luego), consola[k] = "conectada"
  PROVE  aviso' = [aviso EXCEPT ![k] = m] /\ hilos' = luego /\ nucleo' = nucleo
BY DEF EnviarAConsola, Envio, SocketConsola

LEMMA ConsoladoQueda ==
  ASSUME Consolado, colaExit \subseteq colaExit', UNCHANGED <<hiloInit, consola>>,
         \A p \in Pids : programas'[p] = programas[p] \/ programas'[p] = "ninguno",
         \A k \in Consolas : \/ aviso'[k] = aviso[k]
                             \/ /\ aviso'[k] \in Ultimos /\ hiloInit[k].paso = "fin"
                                /\ \A p \in Pids : programas'[p] # k
  PROVE  Consolado'
<1>1. \A p \in Pids : programas'[p] \in Consolas \union {"cerrado"} => programas'[p] = programas[p]
  BY NombresAssumption
<1>2. \A k \in Consolas : /\ hiloInit[k].paso # "fin" => aviso'[k] = "nada"
                          /\ aviso'[k] \notin Ultimos => consola[k] \in {"nueva", "conectada"}
  BY DEF Consolado
<1>3. ASSUME NEW p \in Pids, programas'[p] \in Consolas, aviso'[programas'[p]] \in Ultimos
      PROVE  p \in colaExit'
  <2>1. PICK k \in Consolas : k = programas'[p] /\ k = programas[p]
    BY <1>1, <1>3
  <2>2. aviso'[k] = aviso[k]
    BY <2>1
  <2> QED BY <1>3, <2>1, <2>2 DEF Consolado
<1>4. \A p, q \in Pids : programas'[p] \in Consolas /\ programas'[p] = programas'[q] => p = q
  BY <1>1 DEF Consolado
<1>5. \A p \in Pids : programas'[p] \in Consolas => hiloInit[programas'[p]].paso = "fin"
  BY <1>1 DEF Consolado
<1>6. \A p \in Pids : programas'[p] = "cerrado" => p \in colaExit'
  BY <1>1 DEF Consolado
<1>7. \A k \in Consolas : hiloInit[k].paso # "no" => consola[k] # "nueva"
  BY DEF Consolado
<1> QED BY <1>2, <1>3, <1>4, <1>5, <1>6, <1>7 DEF Consolado

LEMMA CuentasQuedan ==
  ASSUME Cuentas, UNCHANGED <<valor, cola>>, colaBlocked \subseteq colaBlocked'
  PROVE  Cuentas'
BY DEF Cuentas

LEMMA DespachoQueda ==
  ASSUME Despacho, UNCHANGED <<colaReady, cpus, corriendo>>,
         hilos' = hilos \/ hilos' = [hilos EXCEPT ![Kernel].paso = "colgado"], TInv
  PROVE  Despacho'
<1>1. Libres' = Libres
  BY DEF Libres
<1>2. CASE hilos' = hilos
  <2>1. K' = K
    BY <1>2 DEF K
  <2> QED BY <1>1, <2>1 DEF Despacho
<1>3. CASE hilos' = [hilos EXCEPT ![Kernel].paso = "colgado"]
  <2>1. K'.paso = "colgado"
    BY <1>3, KernelEs DEF TInv, TiposDeHilos, HiloTipo, K
  <2> QED BY <2>1 DEF Despacho
<1> QED BY <1>2, <1>3

\* A handler that readies a PCB or frees CPU c, and calls enviar_a_cpu().
LEMMA DespachoSigue ==
  ASSUME Despacho, K.paso \in {"libre", "mover"}, NEW c,
         K'.paso \in {"buscar", "responder", "colgado"},
         colaReady = <<>> => Len(colaReady') <= 1, Libres = {} => Libres' \subseteq {c}
  PROVE  Despacho'
<1>1. colaReady = <<>> \/ Libres = {}
  BY DEF Despacho
<1> QED BY <1>1 DEF Despacho

\* The CPUs send nothing but what is not a handshake, and the list keeps its order.
LEMMA ConectadasQuedan ==
  ASSUME TInv, Conectadas, SinRepetir(cpus'), EnSecuencia(cpus') \subseteq EnSecuencia(cpus),
         \A c \in Cpus : /\ cpu'[c].est = "apagada" => cpu[c].est = "apagada"
                         /\ \/ canal'[c] = canal[c]
                            \/ canal[c] # <<>> /\ canal'[c] = Tail(canal[c])
                            \/ \E x \in MensajesDeCpu : /\ x.op # "HS"
                                                        /\ canal'[c] = Append(canal[c], x)
  PROVE  Conectadas'
<1>1. ASSUME NEW c \in Cpus
      PROVE  Presentada(c)'
  <2>1. PICK s, t : s = canal[c] /\ t = canal'[c]
    OBVIOUS
  <2>2. s \in Seq(MensajesDeCpu)
    BY <2>1 DEF TInv, TiposDeCpus
  <2>3. \A i \in DOMAIN s : s[i].op = "HS" => i = 1 /\ c \notin EnSecuencia(cpus)
    BY <2>1 DEF Conectadas, Presentada
  <2>4. \A i \in DOMAIN t : t[i].op = "HS" => i = 1 /\ c \notin EnSecuencia(cpus)
    <3>1. CASE t = s
      BY <2>3, <3>1
    <3>2. CASE s # <<>> /\ t = Tail(s)
      <4>1. /\ Len(s) \in Nat \ {0} /\ DOMAIN t = 1 .. Len(s) - 1
            /\ \A i \in DOMAIN t : t[i] = s[i + 1] /\ i + 1 \in DOMAIN s
        BY <2>2, <3>2, ColaEs
      <4>2. \A i \in DOMAIN t : t[i].op # "HS"
        <5>1. \A i \in DOMAIN t : i + 1 # 1
          BY <4>1
        <5> QED BY <2>3, <4>1, <5>1
      <4> QED BY <4>2
    <3>3. ASSUME NEW x \in MensajesDeCpu, x.op # "HS", t = Append(s, x)
          PROVE  \A i \in DOMAIN t : t[i].op = "HS" => i = 1 /\ c \notin EnSecuencia(cpus)
      <4>1. /\ DOMAIN t = 1 .. Len(s) + 1 /\ t[Len(s) + 1] = x
            /\ \A i \in DOMAIN s : t[i] = s[i]
            /\ DOMAIN s = 1 .. Len(s) /\ Len(s) \in Nat
        BY <2>2, <3>3, AgregarEs
      <4>2. ASSUME NEW i \in DOMAIN t, t[i].op = "HS"
            PROVE  i \in DOMAIN s /\ t[i] = s[i]
        <5>1. i # Len(s) + 1
          BY <3>3, <4>1, <4>2
        <5> QED BY <4>1, <5>1
      <4> QED BY <2>3, <4>2
    <3> QED BY <2>1, <3>1, <3>2, <3>3
  <2> QED BY <2>1, <2>4 DEF Conectadas, Presentada
<1> QED BY <1>1 DEF Conectadas

\* The step is of the UMC, of a CPU or of the holder of mutexKernel on its way
\* through enviar_a_cpu(): consoles and semaphores stay.
LEMMA ConsoladoQuieto ==
  ASSUME Consolado, UNCHANGED <<programas, colaExit, hiloInit, consola, aviso>>
  PROVE  Consolado'
BY DEF Consolado

LEMMA ConectadasQuietas ==
  ASSUME Conectadas, UNCHANGED <<cpus, cpu, canal>>
  PROVE  Conectadas'
BY DEF Conectadas, Presentada

LEMMA DespachoQuieto ==
  ASSUME Despacho, UNCHANGED <<colaReady, cpus, corriendo, hilos>>
  PROVE  Despacho'
BY DEF Despacho, Libres, K

\* CPU c sent m; a handshake only when it connects.
LEMMA CpuMandaConsolado ==
  ASSUME TInv, SInv, Conectadas, NEW c \in Cpus, NEW m \in MensajesDeCpu, Mandar(c, <<m>>),
         NEW f, cpu' = [cpu EXCEPT ![c] = f], f.est # "apagada", cpus' = cpus,
         m.op = "HS" => cpu[c].est = "apagada"
  PROVE  Conectadas'
<1>1. /\ canal \in [Cpus -> Seq(MensajesDeCpu)] /\ cpu \in [Cpus -> CpuTipo]
  BY DEF TInv, TiposDeCpus
<1>2. PICK s, t : s = canal[c] /\ t = s \o <<m>>
  OBVIOUS
<1>3. s \in Seq(MensajesDeCpu) /\ t = Append(s, m)
  BY <1>1, <1>2, AgregarEs
<1>4. canal' = [canal EXCEPT ![c] = t]
  BY <1>2 DEF Mandar
<1>5. /\ canal'[c] = t /\ cpu'[c] = f
      /\ \A d \in Cpus \ {c} : canal'[d] = canal[d] /\ cpu'[d] = cpu[d]
  BY <1>1, <1>4
<1>6. CASE m.op # "HS"
  <2>1. \A d \in Cpus : /\ cpu'[d].est = "apagada" => cpu[d].est = "apagada"
                        /\ \/ canal'[d] = canal[d]
                           \/ canal[d] # <<>> /\ canal'[d] = Tail(canal[d])
                           \/ \E x \in MensajesDeCpu : /\ x.op # "HS"
                                                       /\ canal'[d] = Append(canal[d], x)
    BY <1>2, <1>3, <1>5, <1>6
  <2>2. SinRepetir(cpus')
    BY DEF Conectadas
  <2> QED BY <2>1, <2>2, ConectadasQuedan
<1>7. CASE m.op = "HS"
  <2>1. cpu[c].est = "apagada" /\ Charla(c, cpu[c], s, aCpu[c], PidsDe(c), K)
    BY <1>2, <1>7 DEF SInv, Hablan, CharlaDe
  <2>2. s = <<>> /\ c \notin EnSecuencia(cpus)
    BY <2>1 DEF Charla, Conectadas, Presentada
  <2>3. Len(s) = 0 /\ DOMAIN t = 1 .. Len(s) + 1
    BY <1>3, <2>2, AgregarEs
  <2>4. \A i \in DOMAIN t : i = 1
    BY <2>3
  <2>5. Presentada(c)'
    BY <1>5, <2>2, <2>4 DEF Presentada
  <2>6. \A d \in Cpus \ {c} : Presentada(d)'
    BY <1>5 DEF Conectadas, Presentada
  <2> QED BY <2>5, <2>6 DEF Conectadas
<1> QED BY <1>6, <1>7

LEMMA CpuConsolado ==
  ASSUME TInv, SInv, CInv, NEW c \in Cpus,
         \/ CpuConecta(c) \/ CpuResponde(c) \/ CpuAvisa(c) \/ CpuPide(c) \/ CpuMuere(c)
         \/ \E op \in Instrucciones : CpuSuelta(c, op)
  PROVE  CInv'
<1>1. UNCHANGED restoDelNucleo
  BY DEF CpuConecta, CpuResponde, CpuRecibe, CpuRespuesta, CpuAvisa, CpuPide, CpuMuere,
     CpuSuelta
<1>2. /\ UNCHANGED <<programas, colaExit, hiloInit, consola, aviso>>
      /\ UNCHANGED <<valor, cola, colaBlocked>> /\ UNCHANGED <<colaReady, cpus, corriendo, hilos>>
  BY <1>1 DEF restoDelNucleo, colas, listas, semaforos, consolas
<1>3. Consolado' /\ Cuentas' /\ Despacho'
  BY <1>2, ConsoladoQuieto, CuentasQuedan, DespachoQuieto DEF CInv
<1>4. /\ cpu \in [Cpus -> CpuTipo] /\ (cpu[c].est = "corriendo" => cpu[c].pid \in Pids)
  BY DEF TInv, TiposDeCpus
<1>5. ASSUME canal' = canal, \E f : cpu' = [cpu EXCEPT ![c] = f] /\ f.est # "apagada"
      PROVE  Conectadas'
  <2>1. \A d \in Cpus : cpu'[d].est = "apagada" => cpu[d].est = "apagada"
    BY <1>4, <1>5
  <2> QED BY <1>2, <1>5, <2>1 DEF CInv, Conectadas, Presentada
<1>6. CASE CpuConecta(c)
  <2>1. PICK f, m : f = [est |-> "libre", pid |-> 0] /\ m = Mensaje("HS", 0, Nadie)
    OBVIOUS
  <2>2. /\ m \in MensajesDeCpu /\ Mandar(c, <<m>>) /\ cpu' = [cpu EXCEPT ![c] = f]
        /\ f.est # "apagada" /\ cpu[c].est = "apagada"
    BY <1>6, <2>1, MensajesSon DEF CpuConecta, Quedar
  <2> QED BY <1>2, <2>2, CpuMandaConsolado, <1>3 DEF CInv
<1>7. CASE CpuResponde(c) \/ CpuMuere(c)
  <2>1. canal' = canal
    BY <1>7 DEF CpuResponde, CpuRecibe, CpuRespuesta, CpuMuere
  <2>2. CASE cpu' = cpu
    BY <1>2, <1>3, <2>1, <2>2, ConectadasQuietas DEF CInv
  <2>3. CASE \E e \in {"libre", "corriendo", "cerrada"} : \E p : Quedar(c, e, p)
    <3>1. PICK e \in {"libre", "corriendo", "cerrada"} : \E p : Quedar(c, e, p)
      BY <2>3
    <3>2. PICK p : Quedar(c, e, p)
      BY <3>1
    <3>3. cpu' = [cpu EXCEPT ![c] = [est |-> e, pid |-> p]] /\ [est |-> e, pid |-> p].est # "apagada"
      BY <3>2 DEF Quedar
    <3> QED BY <1>3, <1>5, <2>1, <3>3 DEF CInv
  <2>4. cpu' = cpu \/ \E e \in {"libre", "corriendo", "cerrada"} : \E p : Quedar(c, e, p)
    <3>1. CASE CpuRecibe(c)
      BY <3>1 DEF CpuRecibe
    <3>2. CASE CpuRespuesta(c)
      <4>1. CASE Head(aCpu[c]).op = "OK"
        BY <3>2, <4>1 DEF CpuRespuesta
      <4>2. CASE Head(aCpu[c]).op = "NO_OK"
        BY <3>2, <4>2 DEF CpuRespuesta
      <4>3. CASE Head(aCpu[c]).op \notin {"OK", "NO_OK"}
        BY <3>2, <4>3 DEF CpuRespuesta
      <4> QED BY <4>1, <4>2, <4>3
    <3>3. CASE CpuMuere(c)
      BY <3>3 DEF CpuMuere
    <3> QED BY <1>7, <3>1, <3>2, <3>3 DEF CpuResponde
  <2> QED BY <2>2, <2>3, <2>4
<1>8. ASSUME NEW x \in MensajesDeCpu, x.op # "HS", Mandar(c, <<x>>), NEW f, f.est # "apagada",
             cpu' = [cpu EXCEPT ![c] = f]
      PROVE  CInv'
  BY <1>2, <1>3, <1>8, CpuMandaConsolado DEF CInv
<1>9. ASSUME cpu[c].est = "corriendo", NEW op \in Instrucciones \ {"WAIT", "SIGNAL"},
             Mandar(c, <<Mensaje(op, cpu[c].pid, Nadie)>>),
             NEW f, f.est # "apagada", cpu' = [cpu EXCEPT ![c] = f]
      PROVE  CInv'
  <2>1. PICK m : m = Mensaje(op, cpu[c].pid, Nadie)
    OBVIOUS
  <2>2. m \in MensajesDeCpu /\ m.op = op /\ op # "HS"
    <3>1. "HS" \notin Instrucciones
      BY EntornoAssumption
    <3> QED BY <1>4, <1>9, <2>1, <3>1, MensajesSon DEF Mensaje
  <2> QED BY <1>8, <1>9, <2>1, <2>2
<1>10. ASSUME cpu[c].est = "corriendo", NEW op \in {"WAIT", "SIGNAL"}, op \in Instrucciones,
              NEW s \in Semaforos, Mandar(c, <<Mensaje(op, cpu[c].pid, s)>>),
              NEW f, f.est # "apagada", cpu' = [cpu EXCEPT ![c] = f]
       PROVE  CInv'
  <2>1. PICK m : m = Mensaje(op, cpu[c].pid, s)
    OBVIOUS
  <2>2. m \in MensajesDeCpu /\ m.op = op /\ op # "HS"
    BY <1>4, <1>10, <2>1, MensajesSon DEF Mensaje
  <2> QED BY <1>8, <1>10, <2>1, <2>2
<1>11. CASE CpuAvisa(c)
  <2>1. cpu' = [cpu EXCEPT ![c] = cpu[c]] /\ cpu[c].est = "corriendo" /\ cpu[c].est # "apagada"
    BY <1>4, <1>11 DEF CpuAvisa
  <2>2. CASE "IMPRIMIR" \in Instrucciones /\ Mandar(c, <<Mensaje("IMPRIMIR", cpu[c].pid, Nadie)>>)
    <3>1. "IMPRIMIR" \in Instrucciones \ {"WAIT", "SIGNAL"}
      BY <2>2
    <3> QED BY <1>9, <2>1, <2>2, <3>1
  <2>3. CASE /\ "SIGNAL" \in Instrucciones
             /\ \E s \in Semaforos : Mandar(c, <<Mensaje("SIGNAL", cpu[c].pid, s)>>)
    BY <1>10, <2>1, <2>3
  <2> QED BY <1>11, <2>2, <2>3 DEF CpuAvisa
<1>12. CASE CpuPide(c)
  <2>1. PICK f : f = [est |-> "espera", pid |-> cpu[c].pid]
    OBVIOUS
  <2>2. cpu' = [cpu EXCEPT ![c] = f] /\ cpu[c].est = "corriendo" /\ f.est # "apagada"
    BY <1>12, <2>1 DEF CpuPide, Quedar
  <2>3. CASE "OBTENER" \in Instrucciones /\ Mandar(c, <<Mensaje("OBTENER", cpu[c].pid, Nadie)>>)
    <3>1. "OBTENER" \in Instrucciones \ {"WAIT", "SIGNAL"}
      BY <2>3
    <3> QED BY <1>9, <2>2, <2>3, <3>1
  <2>4. CASE /\ "WAIT" \in Instrucciones
             /\ \E s \in Semaforos : Mandar(c, <<Mensaje("WAIT", cpu[c].pid, s)>>)
    BY <1>10, <2>2, <2>4
  <2> QED BY <1>12, <2>3, <2>4 DEF CpuPide
<1>13. ASSUME NEW op \in Instrucciones, CpuSuelta(c, op)
       PROVE  CInv'
  <2>1. PICK f : f = [est |-> "libre", pid |-> 0]
    OBVIOUS
  <2>2. /\ cpu' = [cpu EXCEPT ![c] = f] /\ cpu[c].est = "corriendo" /\ f.est # "apagada"
        /\ op \in Instrucciones \ {"WAIT", "SIGNAL"}
        /\ Mandar(c, <<Mensaje(op, cpu[c].pid, Nadie)>>)
    BY <1>13, <2>1 DEF CpuSuelta, Quedar
  <2> QED BY <1>9, <2>2
<1> QED BY <1>6, <1>7, <1>11, <1>12, <1>13

\* A program is admitted: its console listens.
LEMMA InitCargaConsolado ==
  ASSUME TInv, LInv, SInv, CInv, NEW k \in Consolas, InitCarga(k)
  PROVE  CInv'
<1>1. PICK p, w : p = hiloInit[k].pid /\ w = hiloInit[k].cod
  OBVIOUS
<1>2. /\ MutexLibre /\ Cargando(k) /\ programas' = [programas EXCEPT ![p] = k]
      /\ \/ w = "OK" /\ colaReady' = Append(colaReady, p) /\ colaExit' = colaExit
         \/ w # "OK" /\ colaExit' = colaExit \union {p} /\ colaReady' = colaReady
      /\ EnviarAConsola(k, w, AEnviar(Kernel))
      /\ hiloInit' = [hiloInit EXCEPT ![k] = [paso |-> "fin", cod |-> "OK", pid |-> 0]]
      /\ UNCHANGED <<colaBlocked, cpus, corriendo, valor, cola, consola, cpu, canal>>
  BY <1>1 DEF InitCarga, Cargando, semaforos, procesosCpu
<1>3. /\ Consolado /\ hiloInit \in [Consolas -> InitTipo] /\ w \in {"OK", "NO_OK"}
      /\ programas \in [Pids -> Consolas \union {"ninguno", "cerrado"}]
      /\ colaReady \in Seq(Pids)
      /\ aviso \in [Consolas -> {"nada", "OK", "NO_OK", "TERMINO_BIEN", "TERMINO_MAL"}]
      /\ consola \in [Consolas -> {"nueva", "conectada", "muerta", "cerrada"}]
      /\ "ninguno" \notin Consolas /\ "cerrado" \notin Consolas
  BY <1>1, NombresAssumption DEF CInv, TInv, TiposDeInit, TiposDeListas, TiposDeConsolas,
     TiposDeColas, InitTipo
<1>4. p \in Pids /\ p \notin colaExit /\ programas[p] = "ninguno"
  <2>1. p \in Cargados
    BY <1>1, <1>2 DEF Cargados
  <2>2. p \in colaNew
    BY <2>1 DEF LInv, Transito
  <2> QED BY <2>2 DEF LInv, Lugares, Reparto, Entradas, TInv, TiposDeColas
<1>5. consola[k] = "conectada" /\ hiloInit[k].paso \notin {"no", "fin"}
  BY <1>2, <1>3 DEF Cargando, Consolado, Ultimos
<1>6. /\ aviso' = [aviso EXCEPT ![k] = w] /\ hilos' = AEnviar(Kernel)
  BY <1>2, <1>5, AvisoLlega
<1>7. /\ programas'[p] = k /\ aviso'[k] = w /\ hiloInit'[k].paso = "fin"
      /\ \A q \in Pids \ {p} : programas'[q] = programas[q] /\ programas[q] # k
      /\ \A l \in Consolas \ {k} : aviso'[l] = aviso[l] /\ hiloInit'[l] = hiloInit[l]
      /\ colaExit \subseteq colaExit' /\ (w \in Ultimos => p \in colaExit')
  BY <1>2, <1>3, <1>4, <1>5, <1>6 DEF Consolado, Ultimos
<1>8. Consolado'
  <2>1. \A q, r \in Pids : programas'[q] \in Consolas /\ programas'[q] = programas'[r] => q = r
    BY <1>3, <1>4, <1>7 DEF Consolado
  <2>2. \A q \in Pids : programas'[q] \in Consolas => hiloInit'[programas'[q]].paso = "fin"
    BY <1>3, <1>7 DEF Consolado
  <2>3. \A q \in Pids : programas'[q] = "cerrado" => q \in colaExit'
    BY <1>3, <1>7 DEF Consolado
  <2>4. ASSUME NEW q \in Pids, programas'[q] \in Consolas, aviso'[programas'[q]] \in Ultimos
        PROVE  q \in colaExit'
    <3>1. CASE q = p
      BY <1>7, <2>4, <3>1
    <3>2. CASE q # p
      <4>1. PICK l \in Consolas : l = programas[q] /\ l = programas'[q] /\ l # k
        BY <1>7, <2>4, <3>2
      <4>2. aviso[l] \in Ultimos
        BY <1>7, <2>4, <4>1
      <4> QED BY <1>3, <1>7, <4>1, <4>2 DEF Consolado
    <3> QED BY <3>1, <3>2
  <2>5. ASSUME NEW l \in Consolas
        PROVE  /\ hiloInit'[l].paso # "no" => consola'[l] # "nueva"
               /\ hiloInit'[l].paso # "fin" => aviso'[l] = "nada"
               /\ aviso'[l] \notin Ultimos => consola'[l] \in {"nueva", "conectada"}
    BY <1>2, <1>3, <1>5, <1>7 DEF Consolado
  <2> QED BY <2>1, <2>2, <2>3, <2>4, <2>5 DEF Consolado
<1>9. K'.paso = "buscar"
  BY <1>6, KernelSigue DEF SInv
<1>10. Despacho'
  <2>1. colaReady = <<>> => Len(colaReady') <= 1
    <3>1. Len(Append(colaReady, p)) = Len(colaReady) + 1
      BY <1>3, <1>4, AgregarEs
    <3>2. colaReady = <<>> => Len(colaReady) = 0
      OBVIOUS
    <3>3. CASE colaReady' = Append(colaReady, p)
      BY <3>1, <3>2, <3>3
    <3>4. CASE colaReady' = colaReady
      BY <3>2, <3>4
    <3> QED BY <1>2, <3>3, <3>4
  <2>2. Libres' = Libres
    BY <1>2 DEF Libres
  <2>3. K.paso = "libre"
    BY <1>2 DEF MutexLibre, K
  <2> QED BY <1>9, <2>1, <2>2, <2>3, DespachoSigue DEF CInv
<1>11. Cuentas' /\ Conectadas'
  BY <1>2, CuentasQuedan, ConectadasQuietas DEF CInv
<1> QED BY <1>8, <1>10, <1>11 DEF CInv

\* The console of a program that ended closes: the PCB is in Exit and stays there.
LEMMA CerrarConsolaConsolado ==
  ASSUME TInv, LInv, SInv, CInv, NEW k \in Consolas, CerrarConsola(k)
  PROVE  CInv'
<1>1. PICK p \in Pids :
        /\ programas[p] = k /\ programas' = [programas EXCEPT ![p] = "cerrado"]
        /\ \/ RelacionesDePid(p) # {}
           \/ /\ colaBlocked' = colaBlocked \ {p}
              /\ colaReady' = Sacar(p, colaReady)
              /\ colaExit' = IF p \in colaNew \union colaBlocked \union EnSecuencia(colaReady)
                             THEN colaExit \union {p} ELSE colaExit
              /\ hilos' = AEnviar(Kernel)
  BY DEF CerrarConsola
<1>2. /\ MutexLibre /\ consola[k] = "muerta" /\ consola' = [consola EXCEPT ![k] = "cerrada"]
      /\ UNCHANGED <<cpus, corriendo, valor, cola, aviso, hiloInit, cpu, canal>>
  BY DEF CerrarConsola, semaforos, procesosCpu
<1>3. /\ Consolado /\ consola \in [Consolas -> {"nueva", "conectada", "muerta", "cerrada"}]
      /\ programas \in [Pids -> Consolas \union {"ninguno", "cerrado"}]
      /\ "ninguno" \notin Consolas /\ "cerrado" \notin Consolas
  BY NombresAssumption DEF CInv, TInv, TiposDeListas, TiposDeConsolas
<1>4. p \in colaExit
  BY <1>1, <1>2, <1>3 DEF Consolado
<1>5. p \notin colaExec /\ p \notin colaBlocked /\ p \notin EnSecuencia(colaReady)
  BY <1>4 DEF LInv, Lugares, Reparto, Listos
<1>6. RelacionesDePid(p) = {}
  <2>1. p \notin ConRelacion
    BY <1>2, <1>5, NadieEnCamino DEF LInv, Relaciones
  <2> QED BY <2>1 DEF RelacionesDePid, ConRelacion, EnSecuencia
<1>7. colaBlocked' = colaBlocked /\ colaReady' = colaReady /\ hilos' = AEnviar(Kernel)
      /\ colaExit \subseteq colaExit'
  <2>1. Sacar(p, colaReady) = colaReady
    BY <1>5 DEF Sacar, EnSecuencia
  <2> QED BY <1>1, <1>5, <1>6, <2>1
<1>8. Consolado'
  <2>1. programas'[p] = "cerrado" /\ \A q \in Pids \ {p} : programas'[q] = programas[q]
    BY <1>1, <1>3
  <2>2. \A l \in Consolas : /\ consola'[l] = "nueva" => consola[l] = "nueva"
                            /\ consola'[l] = consola[l] \/ aviso[l] \in Ultimos
    BY <1>2, <1>3 DEF Consolado
  <2>3. \A q, r \in Pids : programas'[q] \in Consolas /\ programas'[q] = programas'[r] => q = r
    BY <1>3, <2>1 DEF Consolado
  <2>4. \A q \in Pids : programas'[q] \in Consolas => hiloInit'[programas'[q]].paso = "fin"
    BY <1>2, <1>3, <2>1 DEF Consolado
  <2>5. \A q \in Pids : programas'[q] = "cerrado" => q \in colaExit'
    BY <1>3, <1>4, <1>7, <2>1 DEF Consolado
  <2>6. ASSUME NEW q \in Pids, programas'[q] \in Consolas, aviso'[programas'[q]] \in Ultimos
        PROVE  q \in colaExit'
    BY <1>2, <1>3, <1>7, <2>1, <2>6 DEF Consolado
  <2>7. \A l \in Consolas :
           /\ hiloInit'[l].paso # "no" => consola'[l] # "nueva"
           /\ hiloInit'[l].paso # "fin" => aviso'[l] = "nada"
           /\ aviso'[l] \notin Ultimos => consola'[l] \in {"nueva", "conectada"}
    BY <1>2, <1>3, <2>2 DEF Consolado
  <2> QED BY <2>3, <2>4, <2>5, <2>6, <2>7 DEF Consolado
<1>9. K'.paso = "buscar"
  BY <1>7, KernelSigue DEF SInv
<1>10. Despacho'
  <2>1. colaReady = <<>> => Len(colaReady') <= 1
    BY <1>7
  <2>2. Libres' = Libres
    BY <1>2 DEF Libres
  <2>3. K.paso = "libre"
    BY <1>2 DEF MutexLibre, K
  <2> QED BY <1>9, <2>1, <2>2, <2>3, DespachoSigue DEF CInv
<1>11. Cuentas' /\ Conectadas'
  BY <1>2, <1>7, CuentasQuedan, ConectadasQuietas DEF CInv
<1> QED BY <1>8, <1>10, <1>11 DEF CInv

LEMMA ConsolaConsolado ==
  ASSUME TInv, LInv, SInv, CInv, "consola" \notin Fallas, NEW k \in Consolas,
         ConsolaEnvia(k) \/ ConsolaCierra(k) \/ AtenderConsola(k)
  PROVE  CInv'
<1>1. /\ Consolado /\ hiloInit \in [Consolas -> InitTipo]
      /\ consola \in [Consolas -> {"nueva", "conectada", "muerta", "cerrada"}]
  BY DEF CInv, TInv, TiposDeInit, TiposDeConsolas
<1>2. CASE \/ ConsolaEnvia(k) \/ ConsolaCierra(k) \/ NuevoPrograma(k) \/ InitRecibe(k)
           \/ CerrarConsolaSinPrograma(k)
  <2>1. UNCHANGED <<programas, colaExit, aviso, valor, cola, colaBlocked, colaReady, cpus,
                    corriendo, hilos, cpu, canal>>
    BY <1>2 DEF ConsolaEnvia, ConsolaCierra, NuevoPrograma, InitRecibe,
       CerrarConsolaSinPrograma, listas, colas, semaforos, procesosCpu
  <2>2. Cuentas' /\ Conectadas' /\ Despacho'
    BY <2>1, CuentasQuedan, ConectadasQuietas, DespachoQuieto DEF CInv
  <2>3. \A l \in Consolas :
           /\ hiloInit'[l] = hiloInit[l] \/ (hiloInit[l].paso # "fin" /\ hiloInit'[l].paso # "fin")
           /\ hiloInit'[l].paso # "no" => hiloInit[l].paso # "no" \/ consola[l] # "nueva"
           /\ consola'[l] = "nueva" => consola[l] = "nueva"
           /\ \/ consola'[l] \in {consola[l], "conectada"}
              \/ aviso[l] \in Ultimos
    <3>1. CASE ConsolaEnvia(k)
      BY <1>1, <3>1 DEF ConsolaEnvia
    <3>2. CASE ConsolaCierra(k)
      BY <1>1, <3>2 DEF ConsolaCierra, Ultimos
    <3>3. CASE NuevoPrograma(k)
      BY <1>1, <3>3 DEF NuevoPrograma, InitTipo
    <3>4. CASE InitRecibe(k)
      BY <1>1, <3>4 DEF InitRecibe
    <3>5. CASE CerrarConsolaSinPrograma(k)
      BY <1>1, <3>5 DEF CerrarConsolaSinPrograma, Consolado
    <3> QED BY <1>2, <3>1, <3>2, <3>3, <3>4, <3>5
  <2>4. \A l \in Consolas : /\ hiloInit'[l].paso # "no" => consola'[l] # "nueva"
                            /\ hiloInit'[l].paso # "fin" => aviso'[l] = "nada"
                            /\ aviso'[l] \notin Ultimos => consola'[l] \in {"nueva", "conectada"}
    BY <1>1, <2>1, <2>3 DEF Consolado
  <2>5. \A p \in Pids : programas'[p] \in Consolas => hiloInit'[programas'[p]].paso = "fin"
    <3> SUFFICES ASSUME NEW p \in Pids, programas'[p] \in Consolas
                 PROVE  hiloInit'[programas'[p]].paso = "fin"
      OBVIOUS
    <3>1. PICK l \in Consolas : l = programas[p]
      BY <2>1
    <3>2. hiloInit[l].paso = "fin"
      BY <1>1, <3>1 DEF Consolado
    <3> QED BY <2>1, <2>3, <3>1, <3>2
  <2>6. Consolado'
    BY <1>1, <2>1, <2>4, <2>5 DEF Consolado
  <2> QED BY <2>2, <2>6 DEF CInv
<1> QED BY <1>2, InitCargaConsolado, CerrarConsolaConsolado DEF AtenderConsola

LEMMA UmcConsolado ==
  ASSUME CInv, NEW cod \in RespuestasUmc, UmcResponde(cod)
  PROVE  CInv'
<1>1. UNCHANGED <<programas, colaExit, aviso, consola, hiloInit, valor, cola, colaBlocked,
                  colaReady, cpus, corriendo, hilos, cpu, canal>>
  BY DEF UmcResponde, listas, colas, semaforos, procesosCpu, consolas
<1> QED BY <1>1, ConsoladoQuieto, CuentasQuedan, ConectadasQuietas, DespachoQuieto DEF CInv

\* A message of a CPU is read: only the handshake adds the CPU to the list.
LEMMA LlegaConectadas ==
  ASSUME TInv, Conectadas, NEW c \in Cpus, NEW op, Llega(c, op), UNCHANGED <<cpus, cpu>>
  PROVE  Conectadas'
<1>1. \A d \in Cpus : canal'[d] = canal[d] \/ (canal[d] # <<>> /\ canal'[d] = Tail(canal[d]))
  BY DEF Llega, TInv, TiposDeCpus
<1>2. SinRepetir(cpus')
  BY DEF Conectadas
<1> QED BY <1>1, <1>2, ConectadasQuedan

LEMMA HandshakeConsolado ==
  ASSUME TInv, SInv, CInv, NEW c \in Cpus, HandshakeCpu(c)
  PROVE  CInv'
<1>1. /\ MutexLibre /\ canal[c] # <<>> /\ Head(canal[c]).op = "HS" /\ cpus' = Append(cpus, c)
      /\ canal' = [canal EXCEPT ![c] = Tail(canal[c])] /\ cpu' = cpu
      /\ hilos' = AEnviar(Kernel) \/ hilos' = [hilos EXCEPT ![Kernel].paso = "colgado"]
      /\ UNCHANGED <<programas, colaExit, hiloInit, consola, aviso>>
      /\ UNCHANGED <<valor, cola, colaBlocked, colaReady, corriendo>>
  BY DEF HandshakeCpu, Llega, Envio, colas, consolas, semaforos
<1>2. Consolado' /\ Cuentas'
  BY <1>1, ConsoladoQuieto, CuentasQuedan DEF CInv
<1>3. PICK s, t : s = canal[c] /\ t = Tail(s)
  OBVIOUS
<1>4. /\ s \in Seq(MensajesDeCpu) /\ canal \in [Cpus -> Seq(MensajesDeCpu)] /\ cpus \in Seq(Cpus)
      /\ Charla(c, cpu[c], s, aCpu[c], PidsDe(c), K)
  BY <1>3 DEF TInv, TiposDeCpus, TiposDeListas, SInv, Hablan, CharlaDe
<1>5. /\ 1 \in DOMAIN s /\ s[1].op = "HS" /\ DOMAIN t = 1 .. Len(s) - 1 /\ Len(s) \in Nat
      /\ \A i \in DOMAIN t : t[i] = s[i + 1] /\ i + 1 \in DOMAIN s
  BY <1>1, <1>3, <1>4, ColaEs
<1>6. c \notin EnSecuencia(cpus) /\ SinRepetir(cpus)
  BY <1>3, <1>5 DEF CInv, Conectadas, Presentada
<1>7. SinRepetir(cpus') /\ EnSecuencia(cpus') = EnSecuencia(cpus) \union {c}
  BY <1>1, <1>4, <1>6, AgregarEs
<1>8. Presentada(c)'
  <2>1. \A i \in DOMAIN t : i + 1 # 1
    BY <1>5
  <2>2. \A i \in DOMAIN t : t[i].op # "HS"
    BY <1>3, <1>5, <2>1 DEF CInv, Conectadas, Presentada
  <2>3. cpu[c].est # "apagada"
    BY <1>1, <1>3, <1>4 DEF Charla
  <2>4. canal'[c] = t
    BY <1>1, <1>3, <1>4
  <2> QED BY <1>1, <2>2, <2>3, <2>4 DEF Presentada
<1>9. ASSUME NEW d \in Cpus \ {c}
      PROVE  Presentada(d)'
  BY <1>1, <1>4, <1>7 DEF CInv, Conectadas, Presentada
<1>10. Conectadas'
  BY <1>7, <1>8, <1>9 DEF Conectadas
<1>11. K'.paso \in {"buscar", "responder", "colgado"}
  <2>1. hilos' = AEnviar(Kernel) => K'.paso = "buscar"
    BY KernelSigue DEF SInv
  <2>2. hilos' = [hilos EXCEPT ![Kernel].paso = "colgado"] => K'.paso = "colgado"
    BY KernelEs DEF TInv, TiposDeHilos, HiloTipo, K
  <2> QED BY <1>1, <2>1, <2>2
<1>12. Despacho'
  <2>1. Libres = {} => Libres' \subseteq {c}
    BY <1>1, <1>7 DEF Libres
  <2>2. colaReady = <<>> => Len(colaReady') <= 1
    BY <1>1
  <2>3. K.paso = "libre"
    BY <1>1 DEF MutexLibre, K
  <2> QED BY <1>11, <2>1, <2>2, <2>3, DespachoSigue DEF CInv
<1> QED BY <1>2, <1>10, <1>12 DEF CInv

\* The PCB of a message leaves its CPU, and the kernel goes on to enviar_a_cpu().
LEMMA SaleConsolado ==
  ASSUME TInv, LInv, SInv, CInv, NEW c \in Cpus, NEW op, Llega(c, op), op # "HS",
         NEW i \in DOMAIN relacion, NEW p \in Pids, Sale(i, p), relacion[i].cpu = c,
         UNCHANGED <<cpus, cpu>>, K'.paso \in {"buscar", "responder"}
  PROVE  Conectadas' /\ Despacho'
<1>1. Conectadas'
  BY LlegaConectadas DEF CInv
<1>2. corriendo' = corriendo \ {c} /\ p \in colaExec
  BY SaleSecuencial
<1>3. MutexLibre
  BY DEF Llega
<1>4. Libres = {} => Libres' \subseteq {c}
  BY <1>2 DEF Libres
<1>5. colaReady = <<>> => Len(colaReady') <= 1
  <2>1. colaReady \in Seq(Pids)
    BY DEF TInv, TiposDeColas
  <2>2. Len(Append(colaReady, p)) = Len(colaReady) + 1
    BY <2>1, AgregarEs
  <2>3. colaReady = <<>> => Len(colaReady) = 0
    OBVIOUS
  <2>4. colaReady' = Append(colaReady, p) \/ colaReady' = colaReady
    BY DEF Sale
  <2>5. CASE colaReady' = Append(colaReady, p)
    BY <2>2, <2>3, <2>5
  <2>6. CASE colaReady' = colaReady
    BY <2>3, <2>6
  <2> QED BY <2>4, <2>5, <2>6
<1>6. Despacho'
  BY <1>3, <1>4, <1>5, DespachoSigue DEF CInv, MutexLibre, K
<1> QED BY <1>1, <1>6

\* Which relation a message of a CPU frees.
LEMMA SueltaSuya ==
  ASSUME TInv, LInv, SInv, NEW c \in Cpus, NEW op \in Sueltas,
         (op = "FIN_QUANTUM" /\ FinQuantum(c)) \/ FinalizaPrograma(c, op)
  PROVE  /\ Llega(c, op) /\ Head(canal[c]).pid \in Pids
         /\ \E i \in DOMAIN relacion : Sale(i, Head(canal[c]).pid) /\ relacion[i].cpu = c
<1>1. /\ Llega(c, op) /\ Head(canal[c]).pid \in Pids
      /\ \E i \in DOMAIN relacion : Sale(i, Head(canal[c]).pid)
  BY SueltaSola
<1>2. PICK p \in Pids : p = Head(canal[c]).pid
  BY <1>1
<1>3. PICK i \in DOMAIN relacion : Sale(i, p)
  BY <1>1, <1>2
<1>4. relacion[i].cpu = c
  <2>1. canal[c] # <<>> /\ Head(canal[c]).op # "HS" /\ relacion[i].pid = p
    BY <1>1, <1>3 DEF Llega, Sueltas, Sale
  <2> QED BY <1>2, <2>1, MensajeYRelacion
<1> QED BY <1>1, <1>2, <1>3, <1>4

LEMMA FinQuantumConsolado ==
  ASSUME TInv, LInv, SInv, CInv, NEW c \in Cpus, FinQuantum(c)
  PROVE  CInv'
<1>1. "FIN_QUANTUM" \in Sueltas /\ "FIN_QUANTUM" # "HS"
  BY DEF Sueltas
<1>2. PICK p \in Pids : p = Head(canal[c]).pid
  BY <1>1, SueltaSuya
<1>3. PICK i \in DOMAIN relacion : Sale(i, p) /\ relacion[i].cpu = c
  BY <1>1, <1>2, SueltaSuya
<1>4. Llega(c, "FIN_QUANTUM") /\ p \in ConRelacion /\ p \in colaExec
  BY <1>1, <1>3, SueltaSuya, SaleSecuencial
<1>5. ~Muerta(p)
  BY <1>4, CorreConConsola DEF CInv
<1>6. /\ UNCHANGED <<cpus, cpu, colaExit, programas, hiloInit, consola, aviso>>
      /\ UNCHANGED <<valor, cola, colaBlocked>> /\ hilos' = AEnviar(Kernel)
  BY <1>2, <1>5 DEF FinQuantum, SinEntierro, consolas, semaforos
<1>7. K'.paso = "buscar"
  BY <1>6, KernelSigue DEF SInv
<1>8. Conectadas' /\ Despacho'
  BY <1>1, <1>3, <1>4, <1>6, <1>7, SaleConsolado
<1>9. Consolado' /\ Cuentas'
  BY <1>6, ConsoladoQuieto, CuentasQuedan DEF CInv
<1> QED BY <1>8, <1>9 DEF CInv

\* The console of p is told how p ended.
LEMMA AvisadoConsolado ==
  ASSUME TInv, LInv, Consolado, NEW p \in ConRelacion, NEW m \in Ultimos,
         aviso' = [aviso EXCEPT ![programas[p]] = m] \/ aviso' = aviso,
         colaExit' = colaExit \union {p}, programas' = [programas EXCEPT ![p] = "ninguno"],
         UNCHANGED <<hiloInit, consola>>
  PROVE  Consolado'
<1>1. p \in Pids /\ programas[p] \in Consolas
  BY CorreConConsola
<1>2. /\ aviso \in [Consolas -> {"nada", "OK", "NO_OK", "TERMINO_BIEN", "TERMINO_MAL"}]
      /\ programas \in [Pids -> Consolas \union {"ninguno", "cerrado"}]
      /\ "ninguno" \notin Consolas
  BY NombresAssumption DEF TInv, TiposDeConsolas, TiposDeListas
<1>3. PICK k \in Consolas : k = programas[p]
  BY <1>1
<1>4. /\ programas'[p] = "ninguno" /\ \A q \in Pids \ {p} : programas'[q] = programas[q]
      /\ \A l \in Consolas \ {k} : aviso'[l] = aviso[l]
      /\ aviso'[k] = m \/ aviso'[k] = aviso[k]
  BY <1>1, <1>2, <1>3
<1>5. hiloInit[k].paso = "fin" /\ \A q \in Pids : programas'[q] # k
  BY <1>1, <1>2, <1>3, <1>4 DEF Consolado
<1>6. \A l \in Consolas : \/ aviso'[l] = aviso[l]
                          \/ /\ aviso'[l] \in Ultimos /\ hiloInit[l].paso = "fin"
                             /\ \A q \in Pids : programas'[q] # l
  BY <1>4, <1>5
<1>7. \A q \in Pids : programas'[q] = programas[q] \/ programas'[q] = "ninguno"
  BY <1>4
<1>8. colaExit \subseteq colaExit'
  OBVIOUS
<1> QED BY <1>6, <1>7, <1>8, ConsoladoQueda

LEMMA FinalizaConsolado ==
  ASSUME TInv, LInv, SInv, CInv, NEW c \in Cpus, NEW op \in {"FINALIZA", "ERROR_MEM"},
         FinalizaPrograma(c, op)
  PROVE  CInv'
<1>1. op \in Sueltas /\ op # "HS"
  BY DEF Sueltas
<1>2. PICK p \in Pids : p = Head(canal[c]).pid
  BY <1>1, SueltaSuya
<1>3. PICK i \in DOMAIN relacion : Sale(i, p) /\ relacion[i].cpu = c
  BY <1>1, <1>2, SueltaSuya
<1>4. Llega(c, op) /\ p \in ConRelacion /\ p \in colaExec
  BY <1>1, <1>3, SueltaSuya, SaleSecuencial
<1>5. ~Muerta(p) /\ consola[programas[p]] = "conectada"
  BY <1>4, CorreConConsola DEF CInv
<1>6. PICK k, m : k = programas[p] /\ m = IF op = "FINALIZA" THEN "TERMINO_BIEN" ELSE "TERMINO_MAL"
  OBVIOUS
<1>7. /\ UNCHANGED <<cpus, cpu, hiloInit, consola, valor, cola, colaBlocked>>
      /\ EnviarAConsola(k, m, AEnviar(Kernel)) /\ colaExit' = colaExit \union {p}
      /\ programas' = [programas EXCEPT ![p] = "ninguno"]
  BY <1>2, <1>4, <1>5, <1>6 DEF FinalizaPrograma, semaforos
<1>8. aviso' = [aviso EXCEPT ![k] = m] /\ hilos' = AEnviar(Kernel)
  BY <1>5, <1>6, <1>7, AvisoLlega
<1>9. K'.paso = "buscar"
  BY <1>8, KernelSigue DEF SInv
<1>10. Conectadas' /\ Despacho'
  BY <1>1, <1>3, <1>4, <1>7, <1>9, SaleConsolado
<1>11. Consolado'
  <2>1. m \in Ultimos
    BY <1>6 DEF Ultimos
  <2> QED BY <1>4, <1>6, <1>7, <1>8, <2>1, AvisadoConsolado DEF CInv
<1>12. Cuentas'
  BY <1>7, CuentasQuedan DEF CInv
<1> QED BY <1>10, <1>11, <1>12 DEF CInv

LEMMA WaitBloqueaConsolado ==
  ASSUME TInv, LInv, SInv, CInv, NEW c \in Cpus, WaitBloquea(c)
  PROVE  CInv'
<1>0. Acuerdo
  BY AcuerdoDa
<1>1. PICK p : p = Head(canal[c]).pid
  OBVIOUS
<1>2. PICK i \in DOMAIN relacion :
        /\ Sale(i, p) /\ relacion[i].cpu = c
        /\ colaBlocked' = colaBlocked \union {p} \/ programas[p] = "cerrado"
  BY <1>1, WaitBloqueaSola
<1>3. /\ Llega(c, "WAIT") /\ p \in Pids
      /\ hilos' = [hilos EXCEPT ![Kernel] = [paso |-> "responder", cpu |-> c, pid |-> p]]
  BY <1>1, WaitBloqueaSola
<1>4. p \in ConRelacion /\ p \in colaExec
  BY <1>2, <1>3, SaleSecuencial
<1>5. ~Muerta(p)
  BY <1>4, CorreConConsola DEF CInv
<1>6. colaBlocked' = colaBlocked \union {p} /\ p \notin colaBlocked
  BY <1>2, <1>4, <1>5 DEF Muerta, LInv, Lugares, Reparto
<1>7. UNCHANGED <<cpus, cpu, hiloInit, consola, aviso>>
  BY DEF WaitBloquea, consolas
<1>8. colaExit' = colaExit /\ programas' = programas
  <2>1. PICK q : q = relacion[Primera(RelacionesDeCpu(c))].pid
    OBVIOUS
  <2>2. IF Muerta(q) THEN Enterrar(q) ELSE SinEntierro
    BY <2>1 DEF WaitBloquea
  <2>3. RelacionesDeCpu(c) # {} /\ canal[c] # <<>> /\ Head(canal[c]).op = "WAIT"
    BY <1>3 DEF WaitBloquea, Llega
  <2>4. Primera(RelacionesDeCpu(c)) \in RelacionesDeCpu(c)
    BY <2>3, PrimeraRelacion DEF TInv, RelacionesDeCpu
  <2>5. q = p
    BY <1>0, <1>1, <2>1, <2>3, <2>4 DEF Acuerdo
  <2>6. SinEntierro
    BY <1>5, <2>2, <2>5
  <2> QED BY <2>6 DEF SinEntierro
<1>9. PICK g : g = [paso |-> "responder", cpu |-> c, pid |-> p]
  OBVIOUS
<1>10. K'.paso = "responder"
  <2>1. hilos' = [hilos EXCEPT ![Kernel] = g]
    BY <1>3, <1>9
  <2>2. hilos'[Kernel] = g
    BY <2>1, KernelEs, PasaA
  <2> QED BY <1>9, <2>2 DEF K
<1>11. Conectadas' /\ Despacho'
  BY <1>2, <1>3, <1>7, <1>10, SaleConsolado
<1>12. Consolado'
  BY <1>7, <1>8, ConsoladoQuieto DEF CInv
<1>13. PICK s : s = Head(canal[c]).sem
  OBVIOUS
<1>14. /\ valor[s] <= 0 /\ valor' = [valor EXCEPT ![s] = @ - 1]
       /\ cola' = [cola EXCEPT ![s] = Append(@, p)]
       /\ valor \in [Semaforos -> Int] /\ cola \in [Semaforos -> Seq(Pids)]
  BY <1>1, <1>13 DEF WaitBloquea, TInv, TiposDeSemaforos
<1>15. ASSUME NEW t \in Semaforos
       PROVE  p \notin EnSecuencia(cola[t])
  BY <1>6 DEF CInv, Cuentas
<1>16. ASSUME NEW t \in Semaforos
       PROVE  /\ Len(cola'[t]) = IF valor'[t] < 0 THEN - valor'[t] ELSE 0
              /\ SinRepetir(cola'[t])
              /\ EnSecuencia(cola'[t]) = EnSecuencia(cola[t])
                 \/ (t = s /\ EnSecuencia(cola'[t]) = EnSecuencia(cola[t]) \union {p})
  <2>1. CASE t # s
    <3>1. cola'[t] = cola[t] /\ valor'[t] = valor[t]
      BY <1>14, <2>1
    <3> QED BY <3>1 DEF CInv, Cuentas
  <2>2. CASE t = s
    <3>1. PICK q, r, v, w : q = cola[t] /\ r = cola'[t] /\ v = valor[t] /\ w = valor'[t]
      OBVIOUS
    <3>2. r = Append(q, p) /\ w = v - 1 /\ q \in Seq(Pids) /\ v \in Int /\ v <= 0
      BY <1>14, <2>2, <3>1
    <3>3. (Len(q) = IF v < 0 THEN -v ELSE 0) /\ SinRepetir(q) /\ p \notin EnSecuencia(q)
      BY <1>15, <3>1 DEF CInv, Cuentas
    <3>4. /\ Len(r) = Len(q) + 1 /\ EnSecuencia(r) = EnSecuencia(q) \union {p}
          /\ SinRepetir(r)
      BY <1>3, <3>2, <3>3, AgregarEs
    <3>5. Len(r) = IF w < 0 THEN -w ELSE 0
      BY <3>2, <3>3, <3>4
    <3> QED BY <2>2, <3>1, <3>4, <3>5
  <2> QED BY <2>1, <2>2
<1>17. Cuentas'
  <2>1. \A t \in Semaforos : EnSecuencia(cola'[t]) \subseteq colaBlocked'
    BY <1>6, <1>16 DEF CInv, Cuentas
  <2>2. ASSUME NEW t \in Semaforos, NEW u \in Semaforos, t # u
        PROVE  EnSecuencia(cola'[t]) \intersect EnSecuencia(cola'[u]) = {}
    <3>1. EnSecuencia(cola[t]) \intersect EnSecuencia(cola[u]) = {}
      BY <2>2 DEF CInv, Cuentas
    <3>2. p \notin EnSecuencia(cola[t]) /\ p \notin EnSecuencia(cola[u])
      BY <1>15
    <3>3. /\ EnSecuencia(cola'[t]) = EnSecuencia(cola[t])
             \/ (t = s /\ EnSecuencia(cola'[t]) = EnSecuencia(cola[t]) \union {p})
          /\ EnSecuencia(cola'[u]) = EnSecuencia(cola[u])
             \/ (u = s /\ EnSecuencia(cola'[u]) = EnSecuencia(cola[u]) \union {p})
      BY <1>16
    <3> QED BY <2>2, <3>1, <3>2, <3>3
  <2> QED BY <1>16, <2>1, <2>2 DEF Cuentas
<1> QED BY <1>11, <1>12, <1>17 DEF CInv

\* A SIGNAL wakes the first of the queue, which is blocked there.
LEMMA SignalCuentas ==
  ASSUME TInv, Cuentas, NEW c \in Cpus, Signal(c)
  PROVE  Cuentas'
<1>1. PICK s : s = Head(canal[c]).sem
  OBVIOUS
<1>2. /\ valor' = [valor EXCEPT ![s] = @ + 1]
      /\ valor \in [Semaforos -> Int] /\ cola \in [Semaforos -> Seq(Pids)]
  BY <1>1 DEF Signal, TInv, TiposDeSemaforos
<1>3. CASE cola[s] = <<>>
  <2>1. cola' = cola /\ colaBlocked' = colaBlocked
    BY <1>1, <1>3 DEF Signal
  <2>2. ASSUME NEW t \in Semaforos
        PROVE  Len(cola[t]) = IF valor'[t] < 0 THEN - valor'[t] ELSE 0
    <3>1. PICK q, v, w : q = cola[t] /\ v = valor[t] /\ w = valor'[t]
      OBVIOUS
    <3>2. (Len(q) = IF v < 0 THEN -v ELSE 0) /\ v \in Int
      BY <1>2, <3>1 DEF Cuentas
    <3>3. CASE t # s
      <4>1. w = v
        BY <1>2, <3>1, <3>3
      <4> QED BY <3>1, <3>2, <4>1
    <3>4. CASE t = s
      <4>1. w = v + 1 /\ q = <<>>
        BY <1>2, <1>3, <3>1, <3>4
      <4>2. q = <<>> => Len(q) = 0
        OBVIOUS
      <4>3. v >= 0
        BY <3>2, <4>1, <4>2
      <4> QED BY <3>1, <3>2, <4>1, <4>2, <4>3
    <3> QED BY <3>3, <3>4
  <2> QED BY <2>1, <2>2 DEF Cuentas
<1>4. CASE cola[s] # <<>>
  <2>1. PICK p : p = Head(cola[s])
    OBVIOUS
  <2>2. cola' = [cola EXCEPT ![s] = Tail(@)] /\ colaBlocked' = colaBlocked \ {p}
    BY <1>1, <1>4, <2>1 DEF Signal, Desbloquear
  <2>3. ASSUME NEW t \in Semaforos
        PROVE  /\ Len(cola'[t]) = IF valor'[t] < 0 THEN - valor'[t] ELSE 0
               /\ SinRepetir(cola'[t]) /\ EnSecuencia(cola'[t]) \subseteq EnSecuencia(cola[t])
               /\ EnSecuencia(cola'[t]) \subseteq colaBlocked \ {p}
    <3>1. PICK q, r, v, w : q = cola[t] /\ r = cola'[t] /\ v = valor[t] /\ w = valor'[t]
      OBVIOUS
    <3>2. /\ (Len(q) = IF v < 0 THEN -v ELSE 0) /\ v \in Int /\ SinRepetir(q) /\ q \in Seq(Pids)
          /\ EnSecuencia(q) \subseteq colaBlocked
      BY <1>2, <3>1 DEF Cuentas
    <3>3. CASE t # s
      <4>1. w = v /\ r = q
        BY <1>2, <2>2, <3>1, <3>3
      <4>2. p \notin EnSecuencia(q)
        <5>1. CASE s \in Semaforos
          <6>1. p \in EnSecuencia(cola[s])
            BY <1>2, <1>4, <2>1, <5>1, ColaEs
          <6> QED BY <3>1, <3>3, <5>1, <6>1 DEF Cuentas
        <5>2. CASE s \notin Semaforos
          <6>1. Llega(c, "SIGNAL")
            BY DEF Signal
          <6>2. Head(canal[c]) \in MensajesDeCpu /\ Head(canal[c]).op = "SIGNAL"
            BY <6>1, LlegaTipo
          <6> QED BY <1>1, <5>2, <6>2, MensajesSon
        <5> QED BY <5>1, <5>2
      <4> QED BY <3>1, <3>2, <4>1, <4>2
    <3>4. CASE t = s
      <4>1. w = v + 1 /\ q # <<>> /\ r = Tail(q) /\ p = Head(q)
        BY <1>2, <1>4, <2>1, <2>2, <3>1, <3>4
      <4>2. /\ Len(r) = Len(q) - 1 /\ Len(q) \in Nat \ {0} /\ SinRepetir(r)
            /\ EnSecuencia(q) = EnSecuencia(r) \union {p} /\ p \notin EnSecuencia(r)
        BY <3>2, <4>1, ColaEs
      <4>3. PICK n, m : n = Len(q) /\ m = Len(r)
        OBVIOUS
      <4>4. (n = IF v < 0 THEN -v ELSE 0) /\ m = n - 1 /\ n \in Nat \ {0} /\ w = v + 1 /\ v \in Int
        BY <3>2, <4>1, <4>2, <4>3
      <4>5. m = IF w < 0 THEN -w ELSE 0
        BY <4>4
      <4>6. Len(r) = IF w < 0 THEN -w ELSE 0
        BY <4>3, <4>5
      <4> QED BY <3>1, <3>2, <4>2, <4>6
    <3> QED BY <3>3, <3>4
  <2>4. ASSUME NEW t \in Semaforos, NEW u \in Semaforos, t # u
        PROVE  EnSecuencia(cola'[t]) \intersect EnSecuencia(cola'[u]) = {}
    <3>1. EnSecuencia(cola[t]) \intersect EnSecuencia(cola[u]) = {}
      BY <2>4 DEF Cuentas
    <3> QED BY <2>3, <3>1
  <2> QED BY <2>2, <2>3, <2>4 DEF Cuentas
<1> QED BY <1>3, <1>4

LEMMA SignalConsolado ==
  ASSUME TInv, LInv, SInv, CInv, NEW c \in Cpus, Signal(c)
  PROVE  CInv'
<1>1. /\ Llega(c, "SIGNAL") /\ UNCHANGED <<cpus, cpu, corriendo, colaReady>>
      /\ UNCHANGED <<programas, colaExit, hiloInit, consola, aviso>>
  BY DEF Signal, listas, consolas
<1>2. Consolado'
  BY <1>1, ConsoladoQuieto DEF CInv
<1>3. Cuentas'
  BY SignalCuentas DEF CInv
<1>4. Conectadas'
  BY <1>1, LlegaConectadas DEF CInv
<1>5. Despacho'
  <2>1. K.paso = "libre" /\ Libres' = Libres
    BY <1>1 DEF Llega, MutexLibre, K, Libres
  <2>2. PICK p : p = Head(cola[Head(canal[c]).sem])
    OBVIOUS
  <2>3. PICK g : g = [paso |-> "mover", cpu |-> Nadie, pid |-> p]
    OBVIOUS
  <2>4. hilos' = AEnviar(Kernel) \/ hilos' = [hilos EXCEPT ![Kernel] = g]
    BY <2>2, <2>3 DEF Signal, Desbloquear
  <2>5. K'.paso \in {"buscar", "mover"}
    <3>1. hilos' = [hilos EXCEPT ![Kernel] = g] => K' = g
      BY KernelEs, PasaA DEF K
    <3> QED BY <2>3, <2>4, <3>1, KernelSigue DEF SInv
  <2>6. colaReady = <<>> => Len(colaReady) <= 1
    OBVIOUS
  <2> QED BY <1>1, <2>1, <2>5, <2>6 DEF CInv, Despacho
<1> QED BY <1>2, <1>3, <1>4, <1>5 DEF CInv

LEMMA RespondeConsolado ==
  ASSUME TInv, LInv, SInv, CInv, NEW c \in Cpus, WaitSinBloquear(c) \/ Obtener(c)
  PROVE  CInv'
<1>1. /\ UNCHANGED <<programas, colaExit, hiloInit, consola, aviso>>
      /\ UNCHANGED <<colaBlocked, cola>> /\ UNCHANGED <<colaReady, cpus, corriendo>> /\ cpu' = cpu
      /\ Llega(c, "WAIT") \/ Llega(c, "OBTENER")
      /\ EnviarACpu(c, Mensaje("OK", 0, Nadie), Kernel, hilos)
  BY DEF WaitSinBloquear, Obtener, colas, listas, consolas, semaforos
<1>2. hilos' = hilos \/ hilos' = [hilos EXCEPT ![Kernel].paso = "colgado"]
  BY <1>1, EnviarACpuHace
<1>3. Consolado' /\ Despacho'
  BY <1>1, <1>2, ConsoladoQuieto, DespachoQueda DEF CInv
<1>4. Conectadas'
  BY <1>1, LlegaConectadas DEF CInv
<1>5. CASE WaitSinBloquear(c)
  <2>1. PICK s : s = Head(canal[c]).sem
    OBVIOUS
  <2>2. /\ valor[s] > 0 /\ valor' = [valor EXCEPT ![s] = @ - 1]
        /\ valor \in [Semaforos -> Int]
    BY <1>5, <2>1 DEF WaitSinBloquear, TInv, TiposDeSemaforos
  <2>3. ASSUME NEW t \in Semaforos
        PROVE  Len(cola[t]) = IF valor'[t] < 0 THEN - valor'[t] ELSE 0
    <3>1. PICK n, v, w : n = Len(cola[t]) /\ v = valor[t] /\ w = valor'[t]
      OBVIOUS
    <3>2. (n = IF v < 0 THEN -v ELSE 0) /\ v \in Int
      BY <2>2, <3>1 DEF CInv, Cuentas
    <3>3. w = v \/ (v > 0 /\ w = v - 1)
      BY <2>2, <3>1
    <3> QED BY <3>1, <3>2, <3>3
  <2> QED BY <1>1, <1>3, <1>4, <2>3 DEF CInv, Cuentas
<1>6. CASE Obtener(c)
  <2>1. UNCHANGED <<valor, cola>> /\ colaBlocked \subseteq colaBlocked'
    BY <1>1, <1>6 DEF Obtener, semaforos
  <2> QED BY <1>3, <1>4, <2>1, CuentasQuedan DEF CInv
<1> QED BY <1>1, <1>5, <1>6

LEMMA ImprimirConsolado ==
  ASSUME TInv, LInv, SInv, CInv, NEW c \in Cpus, Imprimir(c)
  PROVE  CInv'
<1>1. /\ UNCHANGED <<programas, colaExit, hiloInit, consola>>
      /\ UNCHANGED <<colaBlocked, valor, cola>> /\ UNCHANGED <<colaReady, cpus, corriendo>>
      /\ Llega(c, "IMPRIMIR") /\ cpu' = cpu
  BY DEF Imprimir, colas, listas, semaforos
<1>2. hilos' = hilos \/ hilos' = [hilos EXCEPT ![Kernel].paso = "colgado"]
  BY DEF Imprimir, EnviarAConsola, Envio
<1>3. aviso' = aviso
  <2>1. PICK k : k = programas[relacion[Primera(RelacionesDeCpu(c))].pid]
    OBVIOUS
  <2>2. IF k \in Consolas THEN EnviarAConsola(k, aviso[k], hilos)
                          ELSE UNCHANGED <<aviso, nucleo, hilos>>
    BY <2>1 DEF Imprimir
  <2>3. aviso' = aviso \/ aviso' = [aviso EXCEPT ![k] = aviso[k]]
    BY <2>2 DEF EnviarAConsola, Envio
  <2>4. \E S : aviso \in [Consolas -> S]
    BY DEF TInv, TiposDeConsolas
  <2> QED BY <2>3, <2>4
<1>4. Consolado' /\ Despacho'
  BY <1>1, <1>2, <1>3, ConsoladoQuieto, DespachoQueda DEF CInv
<1>5. Conectadas' /\ Cuentas'
  BY <1>1, LlegaConectadas, CuentasQuedan DEF CInv
<1> QED BY <1>4, <1>5 DEF CInv

\* A CPU that died leaves the list.  Nobody calls enviar_a_cpu(), and nobody is
\* freed either.
LEMMA CerrarCpuConsolado ==
  ASSUME TInv, LInv, SInv, CInv, NEW c \in Cpus, CerrarCpu(c)
  PROVE  CInv'
<1>1. /\ MutexLibre /\ cpu' = [cpu EXCEPT ![c] = [est |-> "retirada", pid |-> 0]]
      /\ cpus' = Sacar(c, cpus) /\ UNCHANGED <<colaReady, colaBlocked, valor, cola>>
      /\ UNCHANGED <<consola, hiloInit, canal>>
      /\ cpu \in [Cpus -> CpuTipo] /\ cpus \in Seq(Cpus)
  BY DEF CerrarCpu, Quedar, semaforos, TInv, TiposDeCpus, TiposDeListas
<1>2. Cuentas'
  BY <1>1, CuentasQuedan DEF CInv
<1>3. SinRepetir(cpus') /\ EnSecuencia(cpus') = EnSecuencia(cpus) \ {c}
  BY <1>1, SacarEs DEF CInv, Conectadas
<1>4. Conectadas'
  <2>1. \A d \in Cpus : cpu'[d].est = "apagada" => cpu[d].est = "apagada"
    BY <1>1
  <2> QED BY <1>1, <1>3, <2>1, ConectadasQuedan DEF CInv
<1>5. K'.paso \in {"libre", "colgado"}
  <2>1. hilos' = hilos \/ hilos' = [hilos EXCEPT ![Kernel].paso = "colgado"]
    BY CerrarCpuSola
  <2>2. hilos' = [hilos EXCEPT ![Kernel].paso = "colgado"] => K'.paso = "colgado"
    BY KernelEs DEF TInv, TiposDeHilos, HiloTipo, K
  <2>3. hilos' = hilos => K'.paso = "libre"
    BY <1>1 DEF MutexLibre, K
  <2> QED BY <2>1, <2>2, <2>3
<1>6. corriendo \ {c} \subseteq corriendo'
  <2>1. CASE UNCHANGED <<colas, programas, relacion, corriendo, finalizaciones>>
    BY <2>1
  <2>2. ASSUME NEW i \in DOMAIN relacion, NEW p \in Pids, Sale(i, p), relacion[i].cpu = c
        PROVE  corriendo' = corriendo \ {c}
    BY <2>2, SaleSecuencial
  <2> QED BY <2>1, <2>2, CerrarCpuSola
<1>7. Despacho'
  <2>1. Libres' \subseteq Libres
    BY <1>3, <1>6 DEF Libres
  <2>2. colaReady = <<>> \/ Libres = {}
    BY <1>1 DEF CInv, Despacho, MutexLibre, K
  <2> QED BY <1>1, <1>5, <2>1, <2>2 DEF Despacho
<1>8. Consolado'
  <2>1. CASE RelacionesDeCpu(c) = {}
    <3>1. UNCHANGED <<programas, colaExit, aviso>>
      BY <2>1 DEF CerrarCpu
    <3> QED BY <1>1, <3>1, ConsoladoQuieto DEF CInv
  <2>2. CASE RelacionesDeCpu(c) # {}
    <3>1. PICK i, p : i = Primera(RelacionesDeCpu(c)) /\ p = relacion[i].pid
      OBVIOUS
    <3>2. i \in DOMAIN relacion
      BY <2>2, <3>1, PrimeraRelacion DEF TInv
    <3>3. p \in ConRelacion /\ p \in colaExec
      BY <1>1, <3>1, <3>2, EnExec, NadieEnCamino
    <3>4. p \in Pids /\ programas[p] \in Consolas /\ ~Muerta(p)
          /\ consola[programas[p]] = "conectada"
      BY <3>3, CorreConConsola DEF CInv
    <3>5. PICK k : k = programas[p]
      OBVIOUS
    <3>6. (\/ EnviarAConsola(k, "TERMINO_MAL", hilos) \/ UNCHANGED <<aviso, hilos>>)
          /\ Enterrar(p)
      <4>1. IF Muerta(p)
            THEN /\ hilos' = [hilos EXCEPT ![Kernel].paso = "colgado"]
                 /\ UNCHANGED <<nucleo, aviso, colaExec, colaExit, finalizaciones,
                                programas, relacion, corriendo>>
            ELSE /\ \/ EnviarAConsola(k, "TERMINO_MAL", hilos)
                    \/ /\ "memoria" \in Fallas /\ nucleo' = "muerto"
                       /\ UNCHANGED <<aviso, hilos>>
                 /\ Enterrar(p)
                 /\ colaExec' = colaExec \ {p}
                 /\ Soltar(i)
        BY <2>2, <3>1, <3>5 DEF CerrarCpu
      <4> QED BY <3>4, <4>1
    <3>7. aviso' = aviso \/ aviso' = [aviso EXCEPT ![k] = "TERMINO_MAL"]
      BY <3>4, <3>5, <3>6, AvisoLlega
    <3>8. colaExit' = colaExit \union {p} /\ programas' = [programas EXCEPT ![p] = "ninguno"]
      BY <3>3, <3>6 DEF Enterrar
    <3>9. "TERMINO_MAL" \in Ultimos
      BY DEF Ultimos
    <3> QED BY <1>1, <3>3, <3>5, <3>7, <3>8, <3>9, AvisadoConsolado DEF CInv
  <2> QED BY <2>1, <2>2
<1> QED BY <1>2, <1>4, <1>7, <1>8 DEF CInv

LEMMA AtenderCpuConsolado ==
  ASSUME TInv, LInv, SInv, CInv, "sigusr1" \notin Fallas, "IO" \notin Instrucciones,
         NEW c \in Cpus, AtenderCpu(c)
  PROVE  CInv'
<1>1. ~RelacionNula(c)
  BY SinRelacionNula
<1>2. ~EntradaSalida(c) /\ ~TerminoMal(c)
  BY NiESNiSigusr
<1>3. CASE \E op \in {"FINALIZA", "ERROR_MEM"} : FinalizaPrograma(c, op)
  BY <1>3, FinalizaConsolado
<1> QED BY <1>1, <1>2, <1>3, HandshakeConsolado, FinQuantumConsolado, WaitBloqueaConsolado,
           SignalConsolado, RespondeConsolado, ImprimirConsolado, CerrarCpuConsolado
    DEF AtenderCpu

\* The steps of enviar_a_cpu(), the answer to a WAIT that blocks, and the PCB that
\* a SIGNAL wakes.
LEMMA KernelConsolado ==
  ASSUME TInv, SInv, CInv, EnviarACpuPasos(Kernel) \/ Responder \/ MoverAReady(Kernel)
  PROVE  Consolado' /\ Cuentas' /\ Conectadas'
<1>1. /\ UNCHANGED <<programas, colaExit, hiloInit, consola, aviso>>
      /\ UNCHANGED <<valor, cola, colaBlocked>> /\ UNCHANGED <<cpus, cpu, canal>>
  BY DEF EnviarACpuPasos, Buscar, SacarReady, Relacionar, MoverAExec, EnviarPcb, Responder,
         MoverAReady, resto, colas, listas, consolas, semaforos
<1> QED BY <1>1, ConsoladoQuieto, CuentasQuedan, ConectadasQuietas DEF CInv

LEMMA BuscarDespacho ==
  ASSUME TInv, SInv, CInv, Buscar(Kernel)
  PROVE  Despacho'
<1>1. PICK I : I = {i \in DOMAIN cpus : cpus[i] \notin corriendo}
  OBVIOUS
<1>2. /\ K.paso = "buscar" /\ UNCHANGED <<colaReady, cpus, corriendo>>
      /\ hilos' = IF I = {} THEN Volver(Kernel)
                  ELSE [hilos EXCEPT ![Kernel] = [paso |-> "sacar", cpu |-> cpus[Primera(I)],
                                                  pid |-> 0]]
      /\ cpus \in Seq(Cpus)
  BY <1>1 DEF Buscar, EnPaso, K, colas, listas, TInv, TiposDeListas
<1>3. Libres' = Libres
  BY <1>2 DEF Libres
<1>4. CASE I = {}
  <2>1. Libres = {}
    BY <1>1, <1>4 DEF Libres, EnSecuencia
  <2>2. K'.paso = "libre"
    BY <1>2, <1>4, KernelSigue DEF SInv
  <2> QED BY <1>3, <2>1, <2>2 DEF Despacho
<1>5. CASE I # {}
  <2>1. I \in SUBSET Nat
    BY <1>1, <1>2
  <2>2. PICK i, c : i = Primera(I) /\ c = cpus[i]
    OBVIOUS
  <2>3. i \in I
    BY <1>5, <2>1, <2>2, PrimeraEs
  <2>4. c \in Libres
    BY <1>1, <2>2, <2>3 DEF Libres, EnSecuencia
  <2>5. PICK g : g = [paso |-> "sacar", cpu |-> c, pid |-> 0]
    OBVIOUS
  <2>6. hilos' = [hilos EXCEPT ![Kernel] = g]
    BY <1>2, <1>5, <2>2, <2>5
  <2>7. K' = g
    BY <2>6, KernelEs, PasaA DEF K
  <2>8. K'.paso = "sacar" /\ K'.cpu = c
    BY <2>5, <2>7
  <2>9. Len(colaReady) <= 1 \/ \A d, e \in Libres : d = e
    BY <1>2 DEF CInv, Despacho
  <2>10. Len(colaReady) <= 1 \/ Libres \subseteq {c}
    BY <2>4, <2>9
  <2> QED BY <1>2, <1>3, <2>8, <2>10 DEF Despacho
<1> QED BY <1>4, <1>5

LEMMA SacarReadyDespacho ==
  ASSUME TInv, SInv, CInv, SacarReady(Kernel)
  PROVE  Despacho'
<1>1. K.paso = "sacar" /\ UNCHANGED <<cpus, corriendo>> /\ colaReady \in Seq(Pids)
  BY DEF SacarReady, EnPaso, K, listas, TInv, TiposDeColas
<1>2. Libres' = Libres
  BY <1>1 DEF Libres
<1>3. CASE colaReady = <<>>
  <2>1. hilos' = Volver(Kernel) /\ colaReady' = colaReady
    BY <1>3 DEF SacarReady
  <2>2. K'.paso = "libre"
    BY <2>1, KernelSigue DEF SInv
  <2> QED BY <1>3, <2>1, <2>2 DEF Despacho
<1>4. CASE colaReady # <<>>
  <2>1. /\ colaReady' = Tail(colaReady)
        /\ hilos' = [hilos EXCEPT ![Kernel].paso = "relacionar", ![Kernel].pid = Head(colaReady)]
    BY <1>4 DEF SacarReady
  <2>2. K'.paso = "relacionar" /\ K'.cpu = K.cpu
    BY <2>1, KernelEs DEF TInv, TiposDeHilos, HiloTipo, K
  <2>3. Len(colaReady) <= 1 \/ Libres \subseteq {K.cpu}
    BY <1>1 DEF CInv, Despacho
  <2>4. Len(colaReady) <= 1 => Tail(colaReady) = <<>>
    <3>1. Len(colaReady) \in Nat \ {0}
      BY <1>1, <1>4, ColaEs
    <3>2. Len(colaReady) <= 1 => Len(colaReady) = 1
      BY <3>1
    <3> QED BY <1>1, <3>2, UltimaCola
  <2> QED BY <1>2, <2>1, <2>2, <2>3, <2>4 DEF Despacho
<1> QED BY <1>3, <1>4

LEMMA RelacionarDespacho ==
  ASSUME TInv, LInv, SInv, CInv, Relacionar(Kernel)
  PROVE  Despacho'
<1>1. K.paso = "relacionar" /\ UNCHANGED <<cpus, colaReady>>
  BY DEF Relacionar, EnPaso, K, colas
<1>2. PICK c \in Cpus, p \in Pids :
        /\ c = hilos[Kernel].cpu /\ corriendo' = corriendo \union {c}
        /\ hilos' = [hilos EXCEPT ![Kernel] = [paso |-> "ejecutar", cpu |-> c, pid |-> p]]
  BY KernelEs, RelacionarHace
<1>3. PICK g : g = [paso |-> "ejecutar", cpu |-> c, pid |-> p]
  OBVIOUS
<1>4. K' = g
  BY <1>2, <1>3, KernelEs, PasaA DEF K
<1>5. colaReady = <<>> \/ Libres \subseteq {c}
  BY <1>1, <1>2 DEF CInv, Despacho, K
<1>6. Libres' = Libres \ {c}
  BY <1>1, <1>2 DEF Libres
<1> QED BY <1>1, <1>3, <1>4, <1>5, <1>6 DEF Despacho

LEMMA MoverAExecDespacho ==
  ASSUME TInv, CInv, MoverAExec(Kernel)
  PROVE  Despacho'
<1>1. /\ K.paso = "ejecutar" /\ UNCHANGED <<colaReady, cpus, corriendo>>
      /\ hilos' = [hilos EXCEPT ![Kernel].paso = "enviar"]
  BY DEF MoverAExec, EnPaso, K, listas
<1>2. K'.paso = "enviar"
  BY <1>1, KernelEs DEF TInv, TiposDeHilos, HiloTipo, K
<1> QED BY <1>1, <1>2 DEF CInv, Despacho, Libres

\* The PCB that a SIGNAL woke gets to Ready, and enviar_a_cpu() follows.
LEMMA MoverAReadyDespacho ==
  ASSUME TInv, SInv, CInv, MoverAReady(Kernel)
  PROVE  Despacho'
<1>1. PICK p : p = hilos[Kernel].pid
  OBVIOUS
<1>2. /\ K.paso = "mover" /\ UNCHANGED <<cpus, corriendo>> /\ colaReady' = Append(colaReady, p)
      /\ hilos' = AEnviar(Kernel)
  BY <1>1 DEF MoverAReady, EnPaso, K, listas
<1>3. K'.paso = "buscar"
  BY <1>2, KernelSigue DEF SInv
<1>4. p \in Pids /\ colaReady \in Seq(Pids)
  BY <1>1, <1>2, KernelEs DEF K, TInv, TiposDeHilos, TiposDeColas
<1>5. colaReady = <<>> => Len(colaReady') <= 1
  <2>1. Len(colaReady') = Len(colaReady) + 1
    BY <1>2, <1>4, AgregarEs
  <2>2. colaReady = <<>> => Len(colaReady) = 0
    OBVIOUS
  <2> QED BY <2>1, <2>2
<1>6. Libres = {} => Libres' \subseteq {Kernel}
  BY <1>2 DEF Libres
<1> QED BY <1>2, <1>3, <1>5, <1>6, DespachoSigue DEF CInv

LEMMA EnviarPcbDespacho ==
  ASSUME TInv, SInv, CInv, EnviarPcb(Kernel) \/ Responder
  PROVE  Despacho'
<1>1. UNCHANGED <<colaReady, cpus, corriendo>>
  BY DEF EnviarPcb, Responder, colas, listas
<1>2. Libres' = Libres
  BY <1>1 DEF Libres
<1>3. K'.paso = "colgado" => Despacho'
  BY DEF Despacho
<1>4. CASE EnviarPcb(Kernel)
  <2>1. /\ K.paso = "enviar"
        /\ EnviarACpu(hilos[Kernel].cpu, Mensaje("CORRER", hilos[Kernel].pid, Nadie), Kernel,
                      Volver(Kernel))
    BY <1>4 DEF EnviarPcb, EnPaso, K
  <2>2. hilos' = Volver(Kernel) \/ hilos' = [hilos EXCEPT ![Kernel].paso = "colgado"]
    BY <2>1 DEF EnviarACpu, Envio
  <2>3. K'.paso \in {"libre", "colgado"}
    <3>1. hilos' = [hilos EXCEPT ![Kernel].paso = "colgado"] => K'.paso = "colgado"
      BY KernelEs DEF TInv, TiposDeHilos, HiloTipo, K
    <3> QED BY <2>2, <3>1, KernelSigue DEF SInv
  <2> QED BY <1>1, <1>2, <1>3, <2>1, <2>3 DEF CInv, Despacho
<1>5. CASE Responder
  <2>1. PICK c : c = hilos[Kernel].cpu
    OBVIOUS
  <2>2. K.paso = "responder" /\ EnviarACpu(c, Mensaje("NO_OK", 0, Nadie), Kernel, AEnviar(Kernel))
    BY <1>5, <2>1 DEF Responder, K
  <2>3. hilos' = AEnviar(Kernel) \/ hilos' = [hilos EXCEPT ![Kernel].paso = "colgado"]
    BY <2>2 DEF EnviarACpu, Envio
  <2>4. K'.paso \in {"buscar", "colgado"}
    <3>1. hilos' = [hilos EXCEPT ![Kernel].paso = "colgado"] => K'.paso = "colgado"
      BY KernelEs DEF TInv, TiposDeHilos, HiloTipo, K
    <3> QED BY <2>3, <3>1, KernelSigue DEF SInv
  <2> QED BY <1>1, <1>2, <1>3, <2>2, <2>4 DEF CInv, Despacho
<1> QED BY <1>4, <1>5

LEMMA EnviarACpuConsolado ==
  ASSUME TInv, LInv, SInv, CInv, NEW h \in Hilos, PasoDeHilo(h)
  PROVE  CInv'
<1>1. hilos[h].paso # "libre"
  BY DEF PasoDeHilo, EnviarACpuPasos, Buscar, SacarReady, Relacionar, MoverAExec, EnviarPcb,
         FinES, MoverAReady, EnPaso
<1>2. h = Kernel
  BY <1>1, SoloElKernel
<1>3. ~FinES(h)
  BY <1>2, KernelEs DEF FinES
<1>4. Despacho'
  BY <1>2, <1>3, BuscarDespacho, SacarReadyDespacho, RelacionarDespacho, MoverAExecDespacho,
     EnviarPcbDespacho, MoverAReadyDespacho DEF PasoDeHilo, EnviarACpuPasos
<1> QED BY <1>2, <1>3, <1>4, KernelConsolado DEF CInv, PasoDeHilo

LEMMA InicioConsolado == Init => CInv
<1> SUFFICES ASSUME Init PROVE CInv
  OBVIOUS
<1>1. Consolado
  BY NombresAssumption DEF Init, Consolado, Ultimos
<1>2. Cuentas
  <2>1. ASSUME NEW s \in Semaforos
        PROVE  cola[s] = <<>> /\ valor[s] \in Nat
    BY SemaforosAssumption DEF Init
  <2>2. \A q : q = <<>> => Len(q) = 0 /\ SinRepetir(q) /\ EnSecuencia(q) = {}
    BY DEF SinRepetir, EnSecuencia
  <2> QED BY <2>1, <2>2 DEF Cuentas
<1>3. Conectadas
  BY DEF Init, Conectadas, Presentada, SinRepetir, EnSecuencia
<1>4. Despacho
  <2>1. K.paso = "libre"
    BY KernelEs DEF Init, K, HiloLibre
  <2>2. colaReady = <<>>
    BY DEF Init
  <2> QED BY <2>1, <2>2 DEF Despacho
<1> QED BY <1>1, <1>2, <1>3, <1>4 DEF CInv

LEMMA PasoConsolado ==
  ASSUME TInv, LInv, SInv, CInv, "sigusr1" \notin Fallas, "IO" \notin Instrucciones,
         "consola" \notin Fallas, [Next]_vars
  PROVE  CInv'
<1>1. CASE \E k \in Consolas : ConsolaEnvia(k) \/ ConsolaCierra(k) \/ AtenderConsola(k)
  BY <1>1, ConsolaConsolado
<1>2. CASE \E cod \in RespuestasUmc : UmcResponde(cod)
  BY <1>2, UmcConsolado
<1>3. ASSUME NEW c \in Cpus,
             \/ CpuConecta(c) \/ CpuResponde(c) \/ CpuAvisa(c) \/ CpuPide(c)
             \/ \E op \in Instrucciones : CpuSuelta(c, op) \/ CpuSigusr1SinPcb(c, op)
             \/ CpuSigusr1(c) \/ CpuSigusr1TrasWait(c) \/ CpuMuere(c)
             \/ AtenderCpu(c)
      PROVE  CInv'
  <2>1. /\ \A op : ~CpuSigusr1SinPcb(c, op)
        /\ ~CpuSigusr1(c) /\ ~CpuSigusr1TrasWait(c)
    BY DEF CpuSigusr1SinPcb, CpuSigusr1, CpuSigusr1TrasWait
  <2>2. CASE \/ CpuConecta(c) \/ CpuResponde(c) \/ CpuAvisa(c) \/ CpuPide(c) \/ CpuMuere(c)
             \/ \E op \in Instrucciones : CpuSuelta(c, op)
    BY <2>2, CpuConsolado
  <2> QED BY <1>3, <2>1, <2>2, AtenderCpuConsolado
<1>4. CASE Responder
  BY <1>4, KernelConsolado, EnviarPcbDespacho DEF CInv
<1>5. CASE LanzarES \/ EliminarCpu
  BY <1>5 DEF LanzarES, EliminarCpu, EnPaso, SInv, SoloKernel, K
<1>6. CASE \E h \in Hilos : PasoDeHilo(h)
  BY <1>6, EnviarACpuConsolado
<1>7. CASE UNCHANGED vars
  <2>1. UNCHANGED <<programas, colaExit, aviso, consola, hiloInit, valor, cola, colaBlocked,
                    colaReady, cpus, corriendo, hilos, cpu, canal>>
    BY <1>7 DEF vars, listas, colas, semaforos, procesosCpu, consolas
  <2> QED BY <2>1, ConsoladoQuieto, CuentasQuedan, ConectadasQuietas, DespachoQuieto DEF CInv
<1> QED BY <1>1, <1>2, <1>3, <1>4, <1>5, <1>6, <1>7 DEF Next

-----------------------------------------------------------------------------
(* The sequential kernel when nothing fails *)

VInv == NucleoSano /\ \A c \in Cpus : cpu[c].est \in Vivas

LEMMA VivoQueda ==
  ASSUME VInv, SoloKernel', nucleo' = nucleo, K'.paso # "colgado",
         \A c \in Cpus : cpu'[c].est \in Vivas
  PROVE  VInv'
<1>1. ASSUME NEW h \in Hilos
      PROVE  hilos'[h].paso # "colgado"
  BY DEF Hilos, SoloKernel, HiloLibre, K
<1> QED BY <1>1 DEF VInv, NucleoSano

LEMMA VivoQuieto ==
  ASSUME VInv, SInv', UNCHANGED <<nucleo, hilos>>, \A c \in Cpus : cpu'[c].est \in Vivas
  PROVE  VInv'
BY VivoQueda, KernelEs DEF VInv, NucleoSano, K, SInv

\* What the kernel sends to a CPU that lives arrives.
LEMMA ACpuLlega ==
  ASSUME NEW c, NEW x, NEW luego, EnviarACpu(c, x, Kernel, luego), cpu[c].est \in Vivas
  PROVE  hilos' = luego /\ nucleo' = nucleo
BY DEF EnviarACpu, Envio, SocketCpu, Vivas

LEMMA CpuViva ==
  ASSUME TInv, SInv, SInv', VInv, "cpu" \notin Fallas, NEW c \in Cpus,
         \/ CpuConecta(c) \/ CpuResponde(c) \/ CpuAvisa(c) \/ CpuPide(c) \/ CpuMuere(c)
         \/ \E op \in Instrucciones : CpuSuelta(c, op)
  PROVE  VInv'
<1>1. UNCHANGED <<nucleo, hilos>>
  BY DEF CpuConecta, CpuResponde, CpuRecibe, CpuRespuesta, CpuAvisa, CpuPide, CpuMuere,
     CpuSuelta, restoDelNucleo
<1>2. cpu \in [Cpus -> CpuTipo] /\ \A d \in Cpus : cpu[d].est \in Vivas
  BY DEF TInv, TiposDeCpus, VInv
<1>3. ASSUME NEW e \in Vivas, NEW p, Quedar(c, e, p)
      PROVE  VInv'
  <2>1. PICK f : f = [est |-> e, pid |-> p]
    OBVIOUS
  <2>2. cpu' = [cpu EXCEPT ![c] = f] /\ f.est = e
    BY <1>3, <2>1 DEF Quedar
  <2>3. \A d \in Cpus : cpu'[d].est \in Vivas
    BY <1>2, <1>3, <2>2
  <2> QED BY <1>1, <2>3, VivoQuieto
<1>4. ASSUME cpu' = cpu
      PROVE  VInv'
  BY <1>1, <1>2, <1>4, VivoQuieto
<1>5. {"libre", "corriendo", "espera"} \subseteq Vivas
  BY DEF Vivas
<1>6. CASE CpuConecta(c)
  BY <1>3, <1>5, <1>6 DEF CpuConecta
<1>7. CASE CpuRecibe(c)
  <2>1. CASE Head(aCpu[c]).op = "CORRER"
    BY <1>3, <1>5, <1>7, <2>1 DEF CpuRecibe
  <2>2. CASE Head(aCpu[c]).op # "CORRER"
    BY <1>4, <1>7, <2>2 DEF CpuRecibe
  <2> QED BY <2>1, <2>2
<1>8. CASE CpuRespuesta(c)
  <2>1. PICK e, s, m, R, h : /\ e = cpu[c] /\ s = canal[c] /\ m = aCpu[c] /\ R = PidsDe(c)
                             /\ h = K
    OBVIOUS
  <2>2. /\ e.est = "espera" /\ m # <<>> /\ m \in Seq(MensajesDelNucleo)
        /\ Charla(c, e, s, m, R, h)
    BY <1>8, <2>1 DEF CpuRespuesta, TInv, TiposDeCpus, SInv, Hablan, CharlaDe
  <2>3. Head(m).op \in {"OK", "NO_OK"}
    BY <2>2, CharlaRecibe
  <2>4. CASE Head(m).op = "OK"
    BY <1>3, <1>5, <1>8, <2>1, <2>4 DEF CpuRespuesta
  <2>5. CASE Head(m).op = "NO_OK"
    BY <1>3, <1>5, <1>8, <2>1, <2>5 DEF CpuRespuesta
  <2> QED BY <2>3, <2>4, <2>5
<1>9. CASE CpuAvisa(c)
  BY <1>4, <1>9 DEF CpuAvisa
<1>10. CASE CpuPide(c)
  BY <1>3, <1>5, <1>10 DEF CpuPide
<1>11. ASSUME NEW op \in Instrucciones, CpuSuelta(c, op)
       PROVE  VInv'
  BY <1>3, <1>5, <1>11 DEF CpuSuelta
<1>12. ~CpuMuere(c)
  BY DEF CpuMuere
<1> QED BY <1>6, <1>7, <1>8, <1>9, <1>10, <1>11, <1>12 DEF CpuResponde

LEMMA ConsolaSana ==
  ASSUME TInv, SInv, SInv', CInv, VInv, NEW k \in Consolas,
         ConsolaEnvia(k) \/ ConsolaCierra(k) \/ AtenderConsola(k)
  PROVE  VInv'
<1>1. cpu' = cpu /\ \A c \in Cpus : cpu'[c].est \in Vivas
  BY DEF ConsolaEnvia, ConsolaCierra, AtenderConsola, NuevoPrograma, InitRecibe, InitCarga,
         CerrarConsolaSinPrograma, CerrarConsola, procesosCpu, VInv
<1>2. CASE InitCarga(k)
  <2>1. /\ EnviarAConsola(k, hiloInit[k].cod, AEnviar(Kernel)) /\ hiloInit[k].paso = "cargando"
    BY <1>2 DEF InitCarga
  <2>2. hiloInit[k].paso # "fin" /\ hiloInit[k].paso # "no"
    BY <2>1
  <2>3. aviso[k] = "nada" /\ consola[k] # "nueva"
    BY <2>2 DEF CInv, Consolado
  <2>4. consola[k] = "conectada"
    BY <2>3 DEF CInv, Consolado, Ultimos
  <2>5. PICK m : m = hiloInit[k].cod
    OBVIOUS
  <2>6. hilos' = AEnviar(Kernel) /\ nucleo' = nucleo
    BY <2>1, <2>4, <2>5, AvisoLlega
  <2>7. K'.paso = "buscar"
    BY <2>6, KernelSigue DEF SInv
  <2> QED BY <1>1, <2>6, <2>7, VivoQueda DEF SInv
<1>3. CASE CerrarConsola(k)
  <2>1. MutexLibre /\ nucleo' = nucleo /\ (hilos' = hilos \/ hilos' = AEnviar(Kernel))
    BY <1>3 DEF CerrarConsola
  <2>2. CASE hilos' = hilos
    BY <1>1, <2>1, <2>2, VivoQuieto
  <2>3. CASE hilos' = AEnviar(Kernel)
    <3>1. K'.paso = "buscar"
      BY <2>3, KernelSigue DEF SInv
    <3> QED BY <1>1, <2>1, <3>1, VivoQueda DEF SInv
  <2> QED BY <2>1, <2>2, <2>3
<1>4. CASE \/ ConsolaEnvia(k) \/ ConsolaCierra(k) \/ NuevoPrograma(k) \/ InitRecibe(k)
           \/ CerrarConsolaSinPrograma(k)
  <2>1. UNCHANGED <<nucleo, hilos>>
    BY <1>4 DEF ConsolaEnvia, ConsolaCierra, NuevoPrograma, InitRecibe, CerrarConsolaSinPrograma
  <2> QED BY <1>1, <2>1, VivoQuieto
<1> QED BY <1>2, <1>3, <1>4 DEF AtenderConsola

LEMMA AtenderCpuSana ==
  ASSUME TInv, LInv, SInv, SInv', CInv, VInv, "sigusr1" \notin Fallas,
         "IO" \notin Instrucciones, NEW c \in Cpus, AtenderCpu(c)
  PROVE  VInv'
<1>1. ~RelacionNula(c) /\ ~EntradaSalida(c) /\ ~TerminoMal(c)
  BY SinRelacionNula, NiESNiSigusr
<1>2. /\ TiposDeHilos /\ cpu[c].est \in Vivas /\ \A d \in Cpus : cpu[d].est \in Vivas
  BY DEF TInv, VInv
<1>3. ASSUME hilos' = AEnviar(Kernel), nucleo' = nucleo, cpu' = cpu
      PROVE  VInv'
  <2>1. K'.paso = "buscar"
    BY <1>3, KernelSigue DEF SInv
  <2> QED BY <1>2, <1>3, <2>1, VivoQueda DEF SInv
<1>4. ASSUME hilos' = hilos, nucleo' = nucleo, cpu' = cpu
      PROVE  VInv'
  BY <1>2, <1>4, VivoQuieto
<1>5. CASE HandshakeCpu(c)
  <2>1. SocketCpu(c) = "abierto"
    BY <1>2 DEF SocketCpu, Vivas
  <2>2. hilos' = AEnviar(Kernel) /\ nucleo' = nucleo /\ cpu' = cpu
    BY <1>5, <2>1 DEF HandshakeCpu, Envio
  <2> QED BY <1>3, <2>2
<1>6. CASE FinQuantum(c) \/ Signal(c)
  <2>1. PICK p : p = Head(cola[Head(canal[c]).sem])
    OBVIOUS
  <2>2. PICK g : g = [paso |-> "mover", cpu |-> Nadie, pid |-> p]
    OBVIOUS
  <2>3. /\ hilos' = AEnviar(Kernel) \/ hilos' = [hilos EXCEPT ![Kernel] = g]
        /\ nucleo' = nucleo /\ cpu' = cpu
    BY <1>6, <2>1, <2>2 DEF FinQuantum, Signal, Desbloquear
  <2>4. CASE hilos' = [hilos EXCEPT ![Kernel] = g]
    <3>1. K' = g
      BY <2>4, KernelEs, PasaA DEF K
    <3> QED BY <1>2, <2>2, <2>3, <3>1, VivoQueda DEF SInv
  <2> QED BY <1>3, <2>3, <2>4
<1>7. ASSUME NEW op \in {"FINALIZA", "ERROR_MEM"}, FinalizaPrograma(c, op)
      PROVE  VInv'
  <2>1. op \in Sueltas
    BY DEF Sueltas
  <2>2. PICK p \in Pids : p = Head(canal[c]).pid
    BY <1>7, <2>1, SueltaSuya
  <2>3. PICK i \in DOMAIN relacion : Sale(i, p) /\ relacion[i].cpu = c
    BY <1>7, <2>1, <2>2, SueltaSuya
  <2>4. p \in ConRelacion /\ p \in colaExec
    BY <2>3, SaleSecuencial
  <2>5. ~Muerta(p) /\ consola[programas[p]] = "conectada"
    BY <2>4, CorreConConsola DEF CInv
  <2>6. PICK k, m : k = programas[p] /\ m = IF op = "FINALIZA" THEN "TERMINO_BIEN" ELSE "TERMINO_MAL"
    OBVIOUS
  <2>7. EnviarAConsola(k, m, AEnviar(Kernel)) /\ cpu' = cpu
    BY <1>7, <2>2, <2>4, <2>5, <2>6 DEF FinalizaPrograma
  <2>8. hilos' = AEnviar(Kernel) /\ nucleo' = nucleo
    BY <2>5, <2>6, <2>7, AvisoLlega
  <2> QED BY <1>3, <2>7, <2>8
<1>8. CASE WaitSinBloquear(c) \/ Obtener(c)
  <2>1. EnviarACpu(c, Mensaje("OK", 0, Nadie), Kernel, hilos) /\ cpu' = cpu
    BY <1>8 DEF WaitSinBloquear, Obtener
  <2>2. hilos' = hilos /\ nucleo' = nucleo
    BY <1>2, <2>1, ACpuLlega
  <2> QED BY <1>4, <2>1, <2>2
<1>9. CASE WaitBloquea(c)
  <2>1. PICK p : p = Head(canal[c]).pid
    OBVIOUS
  <2>2. /\ hilos' = [hilos EXCEPT ![Kernel] = [paso |-> "responder", cpu |-> c, pid |-> p]]
        /\ nucleo' = nucleo /\ cpu' = cpu
    BY <1>9, <2>1 DEF WaitBloquea
  <2>3. PICK g : g = [paso |-> "responder", cpu |-> c, pid |-> p]
    OBVIOUS
  <2>4. K' = g
    BY <2>2, <2>3, KernelEs, PasaA DEF K
  <2> QED BY <1>2, <2>2, <2>3, <2>4, VivoQueda DEF SInv
<1>10. CASE Imprimir(c)
  <2>1. PICK i, k : i = Primera(RelacionesDeCpu(c)) /\ k = programas[relacion[i].pid]
    OBVIOUS
  <2>2. /\ RelacionesDeCpu(c) # {} /\ cpu' = cpu
        /\ IF k \in Consolas THEN EnviarAConsola(k, aviso[k], hilos)
                             ELSE UNCHANGED <<aviso, nucleo, hilos>>
    BY <1>10, <2>1 DEF Imprimir
  <2>3. i \in DOMAIN relacion
    BY <2>1, <2>2, PrimeraRelacion DEF TInv
  <2>4. relacion[i].pid \in ConRelacion
    BY <2>3, EnExec
  <2>5. consola[k] = "conectada"
    BY <2>1, <2>4, CorreConConsola DEF CInv
  <2>6. PICK m : m = aviso[k]
    OBVIOUS
  <2>7. hilos' = hilos /\ nucleo' = nucleo
    BY <2>2, <2>5, <2>6, AvisoLlega
  <2> QED BY <1>4, <2>2, <2>7
<1>11. ~CerrarCpu(c)
  BY <1>2 DEF CerrarCpu, Vivas
<1> QED BY <1>1, <1>5, <1>6, <1>7, <1>8, <1>9, <1>10, <1>11 DEF AtenderCpu

LEMMA KernelSano ==
  ASSUME TInv, LInv, SInv, SInv', VInv,
         EnviarACpuPasos(Kernel) \/ Responder \/ MoverAReady(Kernel)
  PROVE  VInv'
<1>1. cpu' = cpu /\ (\A c \in Cpus : cpu'[c].est \in Vivas)
  BY DEF EnviarACpuPasos, Buscar, SacarReady, Relacionar, MoverAExec, EnviarPcb, Responder,
         MoverAReady, resto, VInv
<1>2. ASSUME nucleo' = nucleo, hilos' = Volver(Kernel) \/ hilos' = AEnviar(Kernel)
      PROVE  VInv'
  <2>1. K'.paso \in {"libre", "buscar"}
    BY <1>2, KernelSigue DEF SInv
  <2> QED BY <1>1, <1>2, <2>1, VivoQueda DEF SInv
<1>3. ASSUME nucleo' = nucleo, NEW g, g.paso # "colgado", hilos' = [hilos EXCEPT ![Kernel] = g]
      PROVE  VInv'
  <2>1. K' = g
    BY <1>3, KernelEs, PasaA DEF K
  <2> QED BY <1>1, <1>3, <2>1, VivoQueda DEF SInv
<1>4. CASE Buscar(Kernel)
  <2>1. PICK d : \/ hilos' = Volver(Kernel)
                 \/ hilos' = [hilos EXCEPT ![Kernel] = [paso |-> "sacar", cpu |-> d, pid |-> 0]]
    BY <1>4 DEF Buscar
  <2>2. PICK g : g = [paso |-> "sacar", cpu |-> d, pid |-> 0]
    OBVIOUS
  <2>3. nucleo' = nucleo /\ g.paso # "colgado"
    BY <1>4, <2>2 DEF Buscar
  <2> QED BY <1>2, <1>3, <2>1, <2>2, <2>3
<1>5. CASE SacarReady(Kernel)
  <2>1. nucleo' = nucleo
    BY <1>5 DEF SacarReady
  <2>2. CASE colaReady = <<>>
    BY <1>2, <1>5, <2>1, <2>2 DEF SacarReady
  <2>3. CASE colaReady # <<>>
    <3>1. hilos' = [hilos EXCEPT ![Kernel].paso = "relacionar", ![Kernel].pid = Head(colaReady)]
      BY <1>5, <2>3 DEF SacarReady
    <3>2. K'.paso = "relacionar"
      BY <3>1, KernelEs DEF TInv, TiposDeHilos, HiloTipo, K
    <3> QED BY <1>1, <2>1, <3>2, VivoQueda DEF SInv
  <2> QED BY <2>2, <2>3
<1>6. CASE Relacionar(Kernel)
  <2>1. PICK c, p : hilos' = [hilos EXCEPT ![Kernel] = [paso |-> "ejecutar", cpu |-> c,
                                                        pid |-> p]]
    BY <1>6, KernelEs, RelacionarHace
  <2>2. PICK g : g = [paso |-> "ejecutar", cpu |-> c, pid |-> p]
    OBVIOUS
  <2>3. nucleo' = nucleo /\ g.paso # "colgado"
    BY <1>6, <2>2 DEF Relacionar
  <2> QED BY <1>3, <2>1, <2>2, <2>3
<1>7. CASE EnviarPcb(Kernel) \/ Responder
  <2>1. PICK c, p : c = hilos[Kernel].cpu /\ p = hilos[Kernel].pid
    OBVIOUS
  <2>2. \/ EnviarACpu(c, Mensaje("CORRER", p, Nadie), Kernel, Volver(Kernel))
        \/ EnviarACpu(c, Mensaje("NO_OK", 0, Nadie), Kernel, AEnviar(Kernel))
    BY <1>7, <2>1 DEF EnviarPcb, Responder
  <2>3. hilos[Kernel].paso \in {"enviar", "responder"}
    BY <1>7 DEF EnviarPcb, Responder, EnPaso
  <2>4. c \in Cpus
    BY <2>1, <2>3, KernelEs DEF TInv, TiposDeHilos
  <2>5. cpu[c].est \in Vivas
    BY <2>4 DEF VInv
  <2>6. nucleo' = nucleo /\ (hilos' = Volver(Kernel) \/ hilos' = AEnviar(Kernel))
    BY <2>2, <2>5, ACpuLlega
  <2> QED BY <1>2, <2>6
<1>8. CASE MoverAExec(Kernel)
  <2>1. nucleo' = nucleo /\ hilos' = [hilos EXCEPT ![Kernel].paso = "enviar"]
    BY <1>8 DEF MoverAExec
  <2>2. K'.paso = "enviar"
    BY <2>1, KernelEs DEF TInv, TiposDeHilos, HiloTipo, K
  <2> QED BY <1>1, <2>1, <2>2, VivoQueda DEF SInv
<1>9. CASE MoverAReady(Kernel)
  BY <1>2, <1>9 DEF MoverAReady
<1> QED BY <1>4, <1>5, <1>6, <1>7, <1>8, <1>9 DEF EnviarACpuPasos

LEMMA InicioSano == Init => VInv
BY KernelEs DEF Init, VInv, NucleoSano, Vivas, HiloLibre

LEMMA PasoSano ==
  ASSUME TInv, LInv, SInv, SInv', CInv, VInv, "sigusr1" \notin Fallas, "IO" \notin Instrucciones,
         "cpu" \notin Fallas, [Next]_vars
  PROVE  VInv'
<1>1. CASE \E k \in Consolas : ConsolaEnvia(k) \/ ConsolaCierra(k) \/ AtenderConsola(k)
  BY <1>1, ConsolaSana
<1>2. CASE (\E cod \in RespuestasUmc : UmcResponde(cod)) \/ UNCHANGED vars
  <2>1. UNCHANGED <<nucleo, hilos, cpu>>
    BY <1>2 DEF UmcResponde, vars, procesosCpu
  <2> QED BY <2>1, VivoQuieto DEF VInv
<1>3. ASSUME NEW c \in Cpus,
             \/ CpuConecta(c) \/ CpuResponde(c) \/ CpuAvisa(c) \/ CpuPide(c)
             \/ \E op \in Instrucciones : CpuSuelta(c, op) \/ CpuSigusr1SinPcb(c, op)
             \/ CpuSigusr1(c) \/ CpuSigusr1TrasWait(c) \/ CpuMuere(c)
             \/ AtenderCpu(c)
      PROVE  VInv'
  <2>1. /\ \A op : ~CpuSigusr1SinPcb(c, op)
        /\ ~CpuSigusr1(c) /\ ~CpuSigusr1TrasWait(c)
    BY DEF CpuSigusr1SinPcb, CpuSigusr1, CpuSigusr1TrasWait
  <2>2. CASE \/ CpuConecta(c) \/ CpuResponde(c) \/ CpuAvisa(c) \/ CpuPide(c) \/ CpuMuere(c)
             \/ \E op \in Instrucciones : CpuSuelta(c, op)
    BY <2>2, CpuViva
  <2> QED BY <1>3, <2>1, <2>2, AtenderCpuSana
<1>4. CASE Responder
  BY <1>4, KernelSano
<1>5. CASE LanzarES \/ EliminarCpu
  BY <1>5 DEF LanzarES, EliminarCpu, EnPaso, SInv, SoloKernel, K
<1>6. ASSUME NEW h \in Hilos, PasoDeHilo(h)
      PROVE  VInv'
  <2>1. hilos[h].paso # "libre"
    BY <1>6 DEF PasoDeHilo, EnviarACpuPasos, Buscar, SacarReady, Relacionar, MoverAExec,
                EnviarPcb, FinES, MoverAReady, EnPaso
  <2>2. h = Kernel
    BY <2>1, SoloElKernel
  <2>3. ~FinES(h)
    BY <2>2, KernelEs DEF FinES
  <2> QED BY <1>6, <2>2, <2>3, KernelSano DEF PasoDeHilo
<1> QED BY <1>1, <1>2, <1>3, <1>4, <1>5, <1>6 DEF Next

-----------------------------------------------------------------------------
(* What is proved of the kernel *)

\* No CPU gets SIGUSR1, and no thread of entrada_salida() runs beside the holder
\* of mutexKernel.
Secuencial == "sigusr1" \notin Fallas /\ "IO" \notin Instrucciones

\* And no console dies before its program ended, though CPUs may.
ConConsolas == Secuencial /\ "consola" \notin Fallas

\* Nothing fails.
SinFallas == ConConsolas /\ "cpu" \notin Fallas

\* The programs do I/O or use semaphores, but not both.
Repartida == /\ "sigusr1" \notin Fallas
             /\ "IO" \notin Instrucciones \/ "WAIT" \notin Instrucciones

LEMMA UnProcesoEs ==
  ASSUME TInv, LInv, SInv
  PROVE  UnProcesoPorCpu
<1>1. ASSUME NEW c \in Cpus
      PROVE  Cardinality(RelacionesDeCpu(c)) <= 1
  <2>1. \A i, j \in RelacionesDeCpu(c) : i = j
    <3>1. \A i \in DOMAIN relacion : relacion[i] \in Pares
      BY DEF Pares, EnSecuencia
    <3>2. \A i, j \in DOMAIN relacion : relacion[i].cpu = relacion[j].cpu => i = j
      BY <3>1 DEF SInv, UnaPorCpu, LInv, Relaciones, UnaPorPcb
    <3> QED BY <3>2 DEF RelacionesDeCpu
  <2>2. CASE RelacionesDeCpu(c) = {}
    BY <2>2, FS_EmptySet
  <2>3. CASE RelacionesDeCpu(c) # {}
    <3>1. PICK i : RelacionesDeCpu(c) = {i}
      BY <2>1, <2>3
    <3>2. Cardinality({i}) = 1
      BY FS_Singleton
    <3> QED BY <3>1, <3>2
  <2> QED BY <2>2, <2>3
<1> QED BY <1>1 DEF UnProcesoPorCpu

LEMMA RespuestaEs ==
  ASSUME TInv, LInv, SInv
  PROVE  RespuestaDeWait
<1>1. ASSUME NEW c \in Cpus, cpu[c].est = "espera", aCpu[c] # <<>>
      PROVE  Head(aCpu[c]).op \in {"OK", "NO_OK"}
  <2>1. PICK e, s, m, R, h : /\ e = cpu[c] /\ s = canal[c] /\ m = aCpu[c] /\ R = PidsDe(c)
                             /\ h = K
    OBVIOUS
  <2>2. /\ e.est = "espera" /\ m # <<>> /\ m \in Seq(MensajesDelNucleo)
        /\ Charla(c, e, s, m, R, h)
    BY <1>1, <2>1 DEF TInv, TiposDeCpus, SInv, Hablan, CharlaDe
  <2>3. Head(m).op \in {"OK", "NO_OK"}
    BY <2>2, CharlaRecibe
  <2> QED BY <2>1, <2>3
<1> QED BY <1>1 DEF RespuestaDeWait

\* The invariant of the sequential kernel: whatever consoles and CPUs die.
THEOREM KernelSecuencial == Secuencial => (Spec => [](TInv /\ LInv /\ SInv /\ EInv))
<1> SUFFICES ASSUME Secuencial PROVE Spec => [](TInv /\ LInv /\ SInv /\ EInv)
  OBVIOUS
<1>1. "sigusr1" \notin Fallas /\ "IO" \notin Instrucciones
  BY DEF Secuencial
<1>2. Init => TInv /\ LInv /\ SInv /\ EInv
  BY InicioTipos, InicioLugares, InicioSecuencial, InicioEjecucion
<1>3. TInv /\ LInv /\ SInv /\ EInv /\ [Next]_vars => (TInv /\ LInv /\ SInv /\ EInv)'
  <2> SUFFICES ASSUME TInv, LInv, SInv, EInv, [Next]_vars
               PROVE  (TInv /\ LInv /\ SInv /\ EInv)'
    OBVIOUS
  <2>1. TInv'
    BY PasoTipos
  <2>2. LInv'
    BY <1>1, AcuerdoDa, PasoLugares
  <2>3. SInv'
    BY <1>1, PasoSecuencial
  <2>4. EInv'
    BY <1>1, <2>3, PasoEjecucion
  <2> QED BY <2>1, <2>2, <2>3, <2>4
<1> QED BY <1>2, <1>3, PTL DEF Spec

\* The invariant when, besides, no console dies before its program ended.
THEOREM KernelConConsolas == ConConsolas => (Spec => [](TInv /\ LInv /\ SInv /\ EInv /\ CInv))
<1> SUFFICES ASSUME ConConsolas PROVE Spec => [](TInv /\ LInv /\ SInv /\ EInv /\ CInv)
  OBVIOUS
<1>1. /\ "sigusr1" \notin Fallas /\ "IO" \notin Instrucciones /\ "consola" \notin Fallas
      /\ Secuencial
  BY DEF ConConsolas, Secuencial
<1>2. Spec => [](TInv /\ LInv /\ SInv /\ EInv)
  BY <1>1, KernelSecuencial
<1>3. Init => CInv
  BY InicioConsolado
<1>4. CInv /\ (TInv /\ LInv /\ SInv /\ EInv) /\ [Next]_vars => CInv'
  BY <1>1, PasoConsolado
<1> QED BY <1>2, <1>3, <1>4, PTL DEF Spec

\* Where every PCB is: with the threads of entrada_salida too, as long as no
\* WAIT finds the relation of another PCB.
THEOREM KernelReparte == Repartida => (Spec => [](TInv /\ LInv))
<1>1. ASSUME "sigusr1" \notin Fallas, "WAIT" \notin Instrucciones
      PROVE  Spec => [](TInv /\ LInv)
  <2>1. Init => TInv /\ LInv
    BY InicioTipos, InicioLugares
  <2>2. TInv /\ LInv /\ [Next]_vars => (TInv /\ LInv)'
    BY <1>1, SinWaitHayAcuerdo, PasoTipos, PasoLugares
  <2> QED BY <2>1, <2>2, PTL DEF Spec
<1>2. ASSUME Secuencial
      PROVE  Spec => [](TInv /\ LInv)
  BY <1>2, KernelSecuencial, PTL
<1> QED BY <1>1, <1>2 DEF Repartida, Secuencial

\* No PCB is lost and none is in two places: between the five queues and the
\* threads, every pid that was handed out is in one place, and there once.
THEOREM UnLugar == Repartida => (Spec => []CadaPcbEnUnLugar)
<1>1. TInv /\ LInv => CadaPcbEnUnLugar
  BY LugaresDan
<1> QED BY <1>1, KernelReparte, PTL

\* enviar_a_cpu() finds the program of every PCB it takes from Ready, so it never
\* drops one without a word (nucleo.c:347).
THEOREM NingunoSeDescarta == Repartida => (Spec => []ListoTienePrograma)
<1>1. TInv /\ LInv => ListoTienePrograma
  BY LugaresDan
<1> QED BY <1>1, KernelReparte, PTL

\* lista_relacion keeps pointers into lista_programas_actuales: the entry of a
\* program is not freed while a relation has it.
THEOREM NoCuelgan == Repartida => (Spec => []RelacionSinColgar)
<1>1. TInv /\ LInv => RelacionSinColgar
  BY LugaresDan
<1> QED BY <1>1, KernelReparte, PTL

\* With mutexKernel free, Exec, lista_relacion and the flags corriendo tell the
\* same story, also after a CPU or a console died.
THEOREM Coherentes == Secuencial => (Spec => []RelacionesCoherentes)
<1>1. TInv /\ LInv /\ SInv /\ EInv => RelacionesCoherentes
  BY SecuencialDa
<1> QED BY <1>1, KernelSecuencial, PTL

\* What a CPU runs is what the kernel thinks it runs, whatever messages are on
\* their way between them; no process runs on two CPUs.
THEOREM DeAcuerdo == Secuencial => (Spec => []CpuDeAcuerdo)
<1>1. TInv /\ LInv /\ SInv /\ EInv => CpuDeAcuerdo
  BY SecuencialDa
<1> QED BY <1>1, KernelSecuencial, PTL

\* The UMC is told of the end of a program at most once, also when the program
\* ends, its console closes and its CPU dies in any order.
THEOREM UnaFinalizacion == Secuencial => (Spec => []FinalizaUnaVez)
<1>1. TInv /\ LInv /\ SInv /\ EInv => FinalizaUnaVez
  BY SecuencialDa
<1> QED BY <1>1, KernelSecuencial, PTL

\* A program whose pages the UMC was told to free is not in Ready, is not being
\* dispatched, and neither runs on a CPU nor is on its way to one.
THEOREM MuertoNoCorre == Secuencial => (Spec => []NuncaRevive)
<1>1. TInv /\ LInv /\ SInv /\ EInv => NuncaRevive
  BY SecuencialDa
<1> QED BY <1>1, KernelSecuencial, PTL

\* The value of a semaphore counts its queue, and who waits there is blocked there
\* and nowhere else, so a SIGNAL always finds the process it wakes.
THEOREM SemaforosCuentan == ConConsolas => (Spec => []SemaforoContable)
<1>1. TInv /\ LInv /\ SInv /\ CInv => SemaforoContable
  BY ConsoladoDa
<1> QED BY <1>1, KernelConConsolas, PTL

\* Once enviar_a_cpu() returns, a ready PCB and a free CPU do not wait for each
\* other: each handler calls it as often as it has to.
THEOREM NadieEspera == ConConsolas => (Spec => []TrabajoConservado)
<1>1. TInv /\ LInv /\ SInv /\ CInv => TrabajoConservado
  BY ConsoladoDa
<1> QED BY <1>1, KernelConConsolas, PTL

\* No handler meets a NULL relation or a closed socket: the kernel only dies, or
\* hangs in enviar(), after somebody else failed.
THEOREM SiempreSano == SinFallas => (Spec => []NucleoSano)
<1> SUFFICES ASSUME SinFallas PROVE Spec => []NucleoSano
  OBVIOUS
<1>1. /\ "sigusr1" \notin Fallas /\ "IO" \notin Instrucciones /\ "cpu" \notin Fallas
      /\ ConConsolas
  BY DEF SinFallas, ConConsolas, Secuencial
<1>2. Spec => [](TInv /\ LInv /\ SInv /\ EInv /\ CInv)
  BY <1>1, KernelConConsolas
<1>3. Init => VInv
  BY InicioSano
<1>4. VInv /\ (TInv /\ LInv /\ SInv /\ EInv /\ CInv)
        /\ (TInv /\ LInv /\ SInv /\ EInv /\ CInv)' /\ [Next]_vars
        => VInv'
  <2> SUFFICES ASSUME VInv, TInv, LInv, SInv, CInv, (TInv /\ LInv /\ SInv /\ EInv /\ CInv)',
                      [Next]_vars
               PROVE  VInv'
    OBVIOUS
  <2>1. SInv'
    OBVIOUS
  <2> QED BY <1>1, <2>1, PasoSano
<1>5. VInv => NucleoSano
  BY DEF VInv
<1> QED BY <1>2, <1>3, <1>4, <1>5, PTL DEF Spec

\* enviar_a_cpu() takes a CPU that is free (nucleo.c:331).
THEOREM UnProceso == Secuencial => (Spec => []UnProcesoPorCpu)
<1>1. TInv /\ LInv /\ SInv => UnProcesoPorCpu
  BY UnProcesoEs
<1> QED BY <1>1, KernelSecuencial, PTL

\* A CPU blocked in wait() reads the answer to its WAIT and no other packet
\* (primitivas.c:346).
THEOREM LeeSuRespuesta == Secuencial => (Spec => []RespuestaDeWait)
<1>1. TInv /\ LInv /\ SInv => RespuestaDeWait
  BY RespuestaEs
<1> QED BY <1>1, KernelSecuencial, PTL
=============================================================================
