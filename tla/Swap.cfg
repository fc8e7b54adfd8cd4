CONSTANTS
  CANTIDAD_PAGINAS = 4
  a = a
  Cero = Cero
  UmcAlDia = FALSE
  Pids <- MCPids
  Paginas <- MCPaginas
  Codigos <- MCUnCodigoA
  Exactos = {}
  Contenidos <- MCDosContenidos
SPECIFICATION SpecVivo
INVARIANTS RegionesDisjuntas BitmapExacto NoPisaPendientes CompactarHaceLugar
PROPERTIES CompactacionTermina ImplementaAbs
