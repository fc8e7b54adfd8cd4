CONSTANTS
  Clientes = {n, c1, c2}
  Nucleo = n
  Fallas = {"cierre"}
SPECIFICATION SpecVivo
CHECK_DEADLOCK FALSE
PROPERTIES PedidoSiempreRespondido
