CONSTANTS
  Clientes = {n, c1}
  Nucleo = n
  Fallas = {"muere", "cierre"}
SPECIFICATION SpecVivo
CHECK_DEADLOCK FALSE
INVARIANTS PermisosCuadran ComandoExclusivo
PROPERTIES PedidoRespondido ComandoLlega
