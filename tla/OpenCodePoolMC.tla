---------------------------- MODULE OpenCodePoolMC ----------------------------
EXTENDS OpenCodePool, TLC
CONSTANTS t1, t2, t3, g1, g2, g3
Symmetry == Permutations({t1, t2, t3}) \cup Permutations(Servers) \cup Permutations(Binaries)
===============================================================================
