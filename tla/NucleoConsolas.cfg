CONSTANTS
  k1 = k1
  k2 = k2
  k3 = k3
  c1 = c1
  c2 = c2
  s1 = s1
  h1 = h1
  h2 = h2
  Kernel = Kernel
  Nadie = Nadie
  Consolas <- MCDosConsolas
  Cpus <- MCDosCpus
  Semaforos <- MCUnSemaforo
  ValorInicial <- MCEnUno
  HilosIO <- MCUnHilo
  MaxCanal = 1
  MaxValor = 1
  Instrucciones = {"FIN_QUANTUM", "FINALIZA", "ERROR_MEM", "WAIT", "SIGNAL"}
  Fallas = {"consola"}
  RespuestasUmc = {"OK", "NO_OK"}
  EnvioACerrado = {"perdido"}
SPECIFICATION Spec
SYMMETRY Simetria
CHECK_DEADLOCK FALSE
INVARIANTS NuncaRevive FinalizaUnaVez ListoTienePrograma
