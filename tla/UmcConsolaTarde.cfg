CONSTANTS
  Clientes = {n, c1, c2}
  Nucleo = n
  Fallas = {}
SPECIFICATION Spec
INVARIANTS BloqueoTotal
