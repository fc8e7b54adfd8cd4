------------------------------- MODULE UmcMC --------------------------------
EXTENDS Umc

CONSTANTS p1, p2, a

MCPaginas == [p \in Pids |-> IF p = p1 THEN 2 ELSE 1]
MCDosPaginas == [p \in Pids |-> 2]
MCUnDato == {Cero}
MCDosDatos == {Cero, a}
MCSimetriaCpus == Permutations(Cpus)
MCSimetria == Permutations(Cpus) \union Permutations(Pids)
=============================================================================
