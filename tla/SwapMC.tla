------------------------------- MODULE SwapMC -------------------------------
EXTENDS Swap

CONSTANT a

MCDosContenidos == {Cero, a}
MCCodigosCortos == {<<a>>, <<Cero, a>>}
MCUnContenido == {Cero}
MCUnCodigo == {<<Cero>>}
MCUnCodigoA == {<<a>>}
MCPids == 1 .. 3
MCPidsGrandes == {1, 130}
MCPaginas == 1 .. 2
=============================================================================
