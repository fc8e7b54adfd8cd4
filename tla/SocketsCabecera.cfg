CONSTANTS
  Clientes = {c1, c2}
  TamCodigo = 2
  TamTamano = 2
  Tamanos = {3}
  MaxPaquetes = 2
  Fallas = {"cierre", "reset"}
SPECIFICATION Spec
CHECK_DEADLOCK FALSE
INVARIANTS CabeceraEntera
