CONSTANTS
  p1 = p1
  p2 = p2
  a = a
  Pids = {p1, p2}
  Cpus = {c1, c2}
  CantPaginas <- MCPaginas
  CANT_MARCOS = 2
  MARCO_X_PROC = 2
  ENTRADAS_TLB = 2
  ES_CLOCKM = TRUE
  Datos <- MCDosDatos
  Cero = Cero
  Comandos = {}
  Fallas = {}
  SinProceso = SinProceso
  SinDato = SinDato
  Nadie = Nadie
SPECIFICATION Spec
CHECK_DEADLOCK FALSE
INVARIANTS TypeOK MarcosExclusivos MarcoReservado
PROPERTIES ImplementaAbs NoOkSoloAlEmpezar
SYMMETRY MCSimetriaCpus
