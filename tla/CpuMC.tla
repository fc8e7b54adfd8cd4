-------------------------------- MODULE CpuMC -------------------------------
EXTENDS Cpu, TLC

\* An instruction inside a page, one that starts in its middle and fills the
\* next, and one that ends where a page does.
MCInstrucciones == <<[start |-> 1, offset |-> 4], [start |-> 5, offset |-> 13],
                     [start |-> 18, offset |-> 6]>>
MCDigitos == <<"0", "1">>

\* The values are only copied and compared.
Simetria == Permutations(Valores)
=============================================================================
