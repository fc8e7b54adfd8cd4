CONSTANTS
  p1 = p1
  p2 = p2
  a = a
  Pids = {p1, p2}
  Cpus = {c1, c2}
  CantPaginas <- MCDosPaginas
  CANT_MARCOS = 2
  MARCO_X_PROC = 1
  ENTRADAS_TLB = 2
  ES_CLOCKM = TRUE
  Datos <- MCUnDato
  Cero = Cero
  Comandos = {"flush tlb", "flush memory"}
  Fallas = {"cpu"}
  SinProceso = SinProceso
  SinDato = SinDato
  Nadie = Nadie
SPECIFICATION Spec
CHECK_DEADLOCK FALSE
INVARIANTS LimiteDeMarcos TlbCoherente
SYMMETRY MCSimetria
