CONSTANTS
  k1 = k1
  k2 = k2
  k3 = k3
  c1 = c1
  c2 = c2
  s1 = s1
  h1 = h1
  h2 = h2
  Kernel = Kernel
  Nadie = Nadie
  Consolas <- MCUnaConsola
  Cpus <- MCUnaCpu
  Semaforos <- MCUnSemaforo
  ValorInicial <- MCEnUno
  HilosIO <- MCUnHilo
  MaxCanal = 1
  MaxValor = 1
  Instrucciones = {"FIN_QUANTUM", "FINALIZA"}
  Fallas = {"consola"}
  RespuestasUmc = {"OK"}
  EnvioACerrado = {"perdido"}
SPECIFICATION Spec
CHECK_DEADLOCK FALSE
INVARIANTS NucleoSano
