CONSTANTS
  TamPag = 8
  Instrucciones <- MCInstrucciones
  PuedeNegar = TRUE
  PagsCodigo = 3
  TamStack = 2
  Pid = 1
  Quantum = 2
  Inicio = 0
  Letras = {"a", "b"}
  Digitos <- MCDigitos
  Etiquetas = {0, 1}
  Valores = {v1, v2}
  Punteros = {}
  SinSalida = SinSalida
  MaxEntradas = 2
  Fallas = {"sigusr1"}
SPECIFICATION Spec
CHECK_DEADLOCK FALSE
INVARIANT SinUsarLiberado
