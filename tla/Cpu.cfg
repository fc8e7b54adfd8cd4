CONSTANTS
  TamPag = 8
  Instrucciones <- MCInstrucciones
  PuedeNegar = TRUE
  PagsCodigo = 3
  TamStack = 2
  Pid = 1
  Quantum = 2
  Inicio = 0
  Letras = {"a"}
  Digitos <- MCDigitos
  Etiquetas = {0, 1}
  Valores = {v1, v2}
  Punteros = {26, 30, 36}
  SinSalida = SinSalida
  MaxEntradas = 2
  Fallas = {"sigusr1"}
SPECIFICATION Spec
SYMMETRY Simetria
CHECK_DEADLOCK FALSE
INVARIANTS TypeOK VariablesSeparadas InstruccionExacta IdaYVuelta
PROPERTIES ImplementaAbs
