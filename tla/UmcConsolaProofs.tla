-------------------------- MODULE UmcConsolaProofs --------------------------
(***************************************************************************)
(* The permits of the UMC add up, and a console command runs alone, for    *)
(* any number of clients.                                                  *)
(*                                                                         *)
(* ComandoExclusivo follows from the sum of the permits                    *)
(* (PermisosCuadran) once the console is known to hold as many as its loop *)
(* counted (CuentaDeLaConsola): at the command that is all there are.      *)
(***************************************************************************)
EXTENDS UmcConsola, FiniteSetTheorems, TLAPS

\* What the console holds, by the place it is at.
DeLaConsola == IF consola.paso = "menu" THEN 0
               ELSE IF consola.paso = "soltar" THEN cant - consola.i
               ELSE consola.i

CuentaDeLaConsola ==
  incidentes = {} =>
    /\ servidor # "quitar"
    /\ tomados = DeLaConsola
    /\ consola.paso \in {"tomar", "esperar", "comando", "soltar"} => consola.i <= cant
    /\ consola.paso = "menu" => 0 <= cant
    /\ consola.paso = "esperar" => consola.i < cant
    /\ consola.paso = "comando" => consola.i = cant

\* A handshake that was not read comes from a connection without a thread.
SaludoSinHilo == \A c \in Clientes : buzon[c] = "HS" => hilo[c] = "ninguno"

IInv == TypeOK /\ SaludoSinHilo /\ PermisosCuadran /\ CuentaDeLaConsola

-----------------------------------------------------------------------------
\* The threads inside a request are finitely many.
LEMMA EnUsoFinito == IsFiniteSet(EnUso) /\ Cardinality(EnUso) \in Nat
BY ClientesAssumption, FS_Subset, FS_CardinalityType DEF EnUso

\* A step of a thread that does not go in or out of a request.
LEMMA EnUsoIgual ==
  ASSUME TypeOK, NEW c \in Clientes,
         NEW paso \in {"ninguno", "recibir", "esperar", "atender", "soltar", "despedir",
                       "fin"},
         hilo' = [hilo EXCEPT ![c] = paso],
         hilo[c] \in {"atender", "soltar", "despedir"}
           <=> paso \in {"atender", "soltar", "despedir"}
  PROVE  EnUso' = EnUso
BY DEF TypeOK, EnUso

\* A thread that takes its permit.
LEMMA EnUsoEntra ==
  ASSUME TypeOK, NEW c \in Clientes, hilo[c] = "esperar",
         hilo' = [hilo EXCEPT ![c] = "atender"]
  PROVE  Cardinality(EnUso') = Cardinality(EnUso) + 1
<1>1. EnUso' = EnUso \union {c} /\ c \notin EnUso
  BY DEF TypeOK, EnUso
<1> QED BY <1>1, EnUsoFinito, FS_AddElement

\* A thread that gives it back.
LEMMA EnUsoSale ==
  ASSUME TypeOK, NEW c \in Clientes, hilo[c] \in {"soltar", "despedir"},
         NEW paso \in {"recibir", "fin"}, hilo' = [hilo EXCEPT ![c] = paso]
  PROVE  Cardinality(EnUso') = Cardinality(EnUso) - 1
<1>1. EnUso' = EnUso \ {c} /\ c \in EnUso
  BY DEF TypeOK, EnUso
<1> QED BY <1>1, EnUsoFinito, FS_RemoveElement

-----------------------------------------------------------------------------
\* Every step keeps the types.
LEMMA TypeOKPaso == TypeOK /\ [Next]_vars => TypeOK'
<1> SUFFICES ASSUME TypeOK, [Next]_vars PROVE TypeOK'
  OBVIOUS
<1> USE DEF TypeOK
<1>1. ASSUME NEW c \in Clientes, Conectar(c) PROVE TypeOK'
  BY <1>1 DEF Conectar
<1>2. ASSUME NEW c \in Clientes, Saludar(c) PROVE TypeOK'
  BY <1>2 DEF Saludar, Mandar
<1>3. ASSUME NEW c \in Clientes, Pedir(c) PROVE TypeOK'
  BY <1>3 DEF Pedir, Mandar
<1>4. ASSUME NEW c \in Clientes, CerrarCliente(c) PROVE TypeOK'
  BY <1>4 DEF CerrarCliente
<1>5. ASSUME NEW c \in Clientes, AtenderSaludo(c) PROVE TypeOK'
  BY <1>5 DEF AtenderSaludo
<1>6. ASSUME NEW c \in Clientes, CerrarConexion(c) PROVE TypeOK'
  BY <1>6 DEF CerrarConexion
<1>7. ASSUME NEW c \in Clientes, Recibir(c) PROVE TypeOK'
  BY <1>7 DEF Recibir, clientes
<1>8. ASSUME NEW c \in Clientes, Atender(c) PROVE TypeOK'
  BY <1>8 DEF Atender
<1>9. ASSUME NEW c \in Clientes, Soltar(c) PROVE TypeOK'
  BY <1>9 DEF Soltar, clientes
<1>10. ASSUME NEW c \in Clientes, EsperarPermiso(c) PROVE TypeOK'
  BY <1>10 DEF EsperarPermiso, clientes
<1>11. CASE Contar
  BY <1>11 DEF Contar, clientes
<1>12. CASE Permitir
  BY <1>12 DEF Permitir, clientes
<1>13. CASE Quitar
  BY <1>13 DEF Quitar, clientes
<1>14. CASE EscribirComando
  BY <1>14 DEF EscribirComando, EnConsola, otros, clientes
<1>15. CASE TomarPermiso
  BY <1>15 DEF TomarPermiso, EnConsola, otros, clientes
<1>16. CASE MirarCuantos
  BY <1>16 DEF MirarCuantos, EnConsola, otros, clientes
<1>17. CASE TerminarComando
  BY <1>17 DEF TerminarComando, EnConsola, otros, clientes
<1>18. CASE DevolverPermisos
  BY <1>18 DEF DevolverPermisos, EnConsola, otros, clientes
<1>19. CASE UNCHANGED vars
  BY <1>19 DEF vars, clientes
<1> QED
  BY <1>1, <1>2, <1>3, <1>4, <1>5, <1>6, <1>7, <1>8, <1>9, <1>10, <1>11, <1>12, <1>13,
     <1>14, <1>15, <1>16, <1>17, <1>18, <1>19 DEF Next, PasoDelHilo, PasoDeConsola

\* Handshakes are read once, by the step that creates the thread.
LEMMA SaludoPaso == TypeOK /\ SaludoSinHilo /\ [Next]_vars => SaludoSinHilo'
<1> SUFFICES ASSUME TypeOK, SaludoSinHilo, [Next]_vars PROVE SaludoSinHilo'
  OBVIOUS
<1> USE DEF TypeOK, SaludoSinHilo
<1>1. ASSUME NEW c \in Clientes,
             \/ Conectar(c) \/ Saludar(c) \/ Pedir(c) \/ CerrarCliente(c)
             \/ AtenderSaludo(c) \/ CerrarConexion(c)
      PROVE  SaludoSinHilo'
  BY <1>1 DEF Conectar, Saludar, Pedir, CerrarCliente, AtenderSaludo, CerrarConexion,
              Mandar
<1>2. ASSUME NEW c \in Clientes,
             Recibir(c) \/ EsperarPermiso(c) \/ Atender(c) \/ Soltar(c)
      PROVE  SaludoSinHilo'
  BY <1>2 DEF Recibir, EsperarPermiso, Atender, Soltar, clientes
<1>3. CASE UNCHANGED <<hilo, clientes>>
  BY <1>3 DEF clientes
<1> QED
  BY <1>1, <1>2, <1>3
     DEF Next, PasoDelHilo, PasoDeConsola, Contar, Permitir, Quitar, EscribirComando,
         TomarPermiso, MirarCuantos, TerminarComando, DevolverPermisos, otros, vars

\* Steps that touch neither the permits nor the counter, nor go in or out of a
\* request, leave the sum as it was.
LEMMA SinPermisos ==
  ASSUME PermisosCuadran, EnUso' = EnUso,
         UNCHANGED <<permisos, cant, tomados, servidor>>
  PROVE  PermisosCuadran'
BY DEF PermisosCuadran, EnCamino

\* Every step keeps the sum of the permits.
LEMMA CuadranPaso ==
  TypeOK /\ SaludoSinHilo /\ PermisosCuadran /\ [Next]_vars => PermisosCuadran'
<1> SUFFICES ASSUME TypeOK, SaludoSinHilo, PermisosCuadran, [Next]_vars PROVE PermisosCuadran'
  OBVIOUS
<1> USE EnUsoFinito
<1>1. ASSUME NEW c \in Clientes,
             Conectar(c) \/ Saludar(c) \/ Pedir(c) \/ CerrarCliente(c)
      PROVE  PermisosCuadran'
  BY <1>1, SinPermisos DEF Conectar, Saludar, Pedir, CerrarCliente, EnUso
<1>2. ASSUME NEW c \in Clientes, AtenderSaludo(c) PROVE PermisosCuadran'
  <2>1. CASE hilo' = [hilo EXCEPT ![c] = "recibir"] /\ servidor' = "contar"
    <3>1. EnUso' = EnUso
      BY <1>2, <2>1, EnUsoIgual DEF AtenderSaludo, SaludoSinHilo
    <3> QED BY <1>2, <2>1, <3>1 DEF AtenderSaludo, PermisosCuadran, EnCamino, TypeOK
  <2>2. CASE UNCHANGED <<hilo, servidor>>
    BY <1>2, <2>2, SinPermisos DEF AtenderSaludo, EnUso
  <2> QED BY <1>2, <2>1, <2>2 DEF AtenderSaludo
<1>3. CASE Contar
  BY <1>3 DEF Contar, PermisosCuadran, EnCamino, EnUso, TypeOK
<1>4. CASE Permitir
  BY <1>4 DEF Permitir, PermisosCuadran, EnCamino, EnUso, TypeOK
<1>5. ASSUME NEW c \in Clientes, CerrarConexion(c) PROVE PermisosCuadran'
  BY <1>5 DEF CerrarConexion, PermisosCuadran, EnCamino, EnUso, TypeOK
<1>6. CASE Quitar
  BY <1>6 DEF Quitar, PermisosCuadran, EnCamino, EnUso, TypeOK
<1>7. ASSUME NEW c \in Clientes, Recibir(c) PROVE PermisosCuadran'
  <2>1. EnUso' = EnUso
    BY <1>7, EnUsoIgual DEF Recibir
  <2> QED BY <1>7, <2>1, SinPermisos DEF Recibir
<1>8. ASSUME NEW c \in Clientes, EsperarPermiso(c) PROVE PermisosCuadran'
  <2>1. Cardinality(EnUso') = Cardinality(EnUso) + 1
    BY <1>8, EnUsoEntra DEF EsperarPermiso
  <2> QED BY <1>8, <2>1 DEF EsperarPermiso, PermisosCuadran, EnCamino, TypeOK
<1>9. ASSUME NEW c \in Clientes, Atender(c) PROVE PermisosCuadran'
  <2>1. EnUso' = EnUso
    <3>1. CASE UNCHANGED hilo
      BY <3>1 DEF EnUso
    <3>2. ASSUME NEW paso \in {"soltar", "despedir"}, hilo' = [hilo EXCEPT ![c] = paso]
          PROVE  EnUso' = EnUso
      BY <1>9, <3>2, EnUsoIgual DEF Atender
    <3> QED BY <1>9, <3>1, <3>2 DEF Atender
  <2> QED BY <1>9, <2>1, SinPermisos DEF Atender
<1>10. ASSUME NEW c \in Clientes, Soltar(c) PROVE PermisosCuadran'
  <2>1. Cardinality(EnUso') = Cardinality(EnUso) - 1
    BY <1>10, EnUsoSale DEF Soltar
  <2> QED BY <1>10, <2>1 DEF Soltar, PermisosCuadran, EnCamino, TypeOK
<1>11. CASE EscribirComando \/ MirarCuantos \/ TerminarComando
  BY <1>11, SinPermisos
     DEF EscribirComando, MirarCuantos, TerminarComando, otros, clientes, EnUso
<1>12. CASE TomarPermiso
  BY <1>12 DEF TomarPermiso, otros, clientes, PermisosCuadran, EnCamino, EnUso, TypeOK
<1>13. CASE DevolverPermisos
  BY <1>13 DEF DevolverPermisos, otros, clientes, PermisosCuadran, EnCamino, EnUso, TypeOK
<1>14. CASE UNCHANGED vars
  BY <1>14, SinPermisos DEF vars, EnUso
<1> QED
  BY <1>1, <1>2, <1>3, <1>4, <1>5, <1>6, <1>7, <1>8, <1>9, <1>10, <1>11, <1>12, <1>13,
     <1>14 DEF Next, PasoDelHilo, PasoDeConsola

\* While nothing untoward happens the console holds what its loop counted.
LEMMA CuentaPaso == TypeOK /\ CuentaDeLaConsola /\ [Next]_vars => CuentaDeLaConsola'
<1> SUFFICES ASSUME TypeOK, CuentaDeLaConsola, [Next]_vars, incidentes' = {}
             PROVE  CuentaDeLaConsola'
  BY DEF CuentaDeLaConsola
<1> USE DEF CuentaDeLaConsola, DeLaConsola, TypeOK
<1>1. ASSUME NEW c \in Clientes,
             \/ Conectar(c) \/ Saludar(c) \/ Pedir(c) \/ CerrarCliente(c)
             \/ Recibir(c) \/ EsperarPermiso(c) \/ Atender(c) \/ Soltar(c)
      PROVE  CuentaDeLaConsola'
  BY <1>1 DEF Conectar, Saludar, Pedir, CerrarCliente, Recibir, EsperarPermiso, Atender,
              Soltar
<1>2. ASSUME NEW c \in Clientes, AtenderSaludo(c) PROVE CuentaDeLaConsola'
  BY <1>2 DEF AtenderSaludo
<1>3. CASE Contar
  <2>1. incidentes = {} /\ consola.paso \notin {"comando", "soltar"}
    BY <1>3 DEF Contar
  <2> QED BY <1>3, <2>1 DEF Contar
<1>4. CASE Permitir \/ Quitar
  BY <1>4 DEF Permitir, Quitar
<1>5. ASSUME NEW c \in Clientes, CerrarConexion(c) PROVE CuentaDeLaConsola'
  BY <1>5 DEF CerrarConexion
<1>6. CASE EscribirComando
  BY <1>6 DEF EscribirComando, EnConsola, otros
<1>7. CASE MirarCuantos
  BY <1>7 DEF MirarCuantos, EnConsola, otros
<1>8. CASE TomarPermiso
  BY <1>8 DEF TomarPermiso, EnConsola, otros
<1>9. CASE TerminarComando
  BY <1>9 DEF TerminarComando, EnConsola, otros
<1>10. CASE DevolverPermisos
  BY <1>10 DEF DevolverPermisos, EnConsola, otros
<1>11. CASE UNCHANGED vars
  BY <1>11 DEF vars
<1> QED
  BY <1>1, <1>2, <1>3, <1>4, <1>5, <1>6, <1>7, <1>8, <1>9, <1>10, <1>11
     DEF Next, PasoDelHilo, PasoDeConsola

-----------------------------------------------------------------------------
\* The inductive invariant: types, the sum of the permits, and what the console
\* holds at each point of its loops.
THEOREM Invariante == Spec => []IInv
<1>1. Init => IInv
  <2> SUFFICES ASSUME Init PROVE IInv
    OBVIOUS
  <2>1. EnUso = {}
    BY DEF Init, EnUso
  <2>2. Cardinality(EnUso) = 0
    BY <2>1, FS_EmptySet
  <2> QED BY <2>2 DEF Init, IInv, TypeOK, SaludoSinHilo, PermisosCuadran, EnCamino,
                      CuentaDeLaConsola, DeLaConsola
<1>2. IInv /\ [Next]_vars => IInv'
  BY TypeOKPaso, SaludoPaso, CuadranPaso, CuentaPaso DEF IInv
<1> QED BY <1>1, <1>2, PTL DEF Spec

\* Types of the semaphore, the counter and the threads.
THEOREM Tipos == Spec => []TypeOK
BY Invariante, PTL DEF IInv

\* The semaphore, the threads and the console together hold
\* cant_programas_conectados permits, whoever connects, dies or types.
THEOREM PermisosConservados == Spec => []PermisosCuadran
BY Invariante, PTL DEF IInv

\* Permits that add up to all there are leave none for the others.
LEMMA SumaCero ==
  ASSUME NEW p \in Nat, NEW n \in Nat, NEW t \in Int, NEW e \in Int, e >= 0,
         p + n + t + e = t
  PROVE  n = 0
OBVIOUS

\* The command of the console runs with no thread inside a request, unless a
\* handshake was counted after the console had its permits or a connection was
\* closed before its handshake.
THEOREM ComandoSolo == Spec => []ComandoExclusivo
<1>1. IInv => ComandoExclusivo
  <2> SUFFICES ASSUME IInv, consola.paso = "comando", incidentes = {} PROVE EnUso = {}
    BY DEF ComandoExclusivo
  <2>1. tomados = cant /\ EnCamino >= 0 /\ EnCamino \in Int
    BY DEF IInv, CuentaDeLaConsola, DeLaConsola, EnCamino
  <2>2. permisos \in Nat /\ cant \in Int /\ Cardinality(EnUso) \in Nat
    BY EnUsoFinito DEF IInv, TypeOK
  <2>3. permisos + Cardinality(EnUso) + tomados + EnCamino = cant
    BY DEF IInv, PermisosCuadran
  <2>4. Cardinality(EnUso) = 0
    BY <2>1, <2>2, <2>3, SumaCero
  <2> QED BY <2>4, EnUsoFinito, FS_EmptySet
<1> QED BY <1>1, Invariante, PTL
=============================================================================
