CONSTANTS
  CANTIDAD_PAGINAS = 4
  a = a
  Cero = Cero
  UmcAlDia = TRUE
  Pids <- MCPidsGrandes
  Paginas <- MCPaginas
  Codigos <- MCUnCodigo
  Exactos = {}
  Contenidos <- MCUnContenido
SPECIFICATION Spec
INVARIANTS AdmitidoEsConocido
