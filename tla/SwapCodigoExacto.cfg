CONSTANTS
  CANTIDAD_PAGINAS = 4
  a = a
  Cero = Cero
  UmcAlDia = TRUE
  Pids <- MCPids
  Paginas <- MCPaginas
  Codigos <- MCCodigosCortos
  Exactos <- MCCodigosCortos
  Contenidos <- MCDosContenidos
SPECIFICATION Spec
INVARIANTS CodigoGrabado
