------------------------------ MODULE NucleoMC ------------------------------
EXTENDS Nucleo, TLC

CONSTANTS k1, k2, k3, c1, c2, s1, h1, h2

MCUnaConsola == {k1}
MCDosConsolas == {k1, k2}
MCTresConsolas == {k1, k2, k3}
MCUnaCpu == {c1}
MCDosCpus == {c1, c2}
MCUnSemaforo == {s1}
MCEnCero == [s \in {s1} |-> 0]
MCEnUno == [s \in {s1} |-> 1]
MCUnHilo == {h1}
MCDosHilos == {h1, h2}

Simetria == Permutations(Consolas) \union Permutations(Cpus)
              \union Permutations(HilosIO)
=============================================================================
