-------------------------------- MODULE MCGdb --------------------------------
EXTENDS Gdb, TLC
CONSTANTS d1, d2
CallSymmetry == Permutations(Calls)
=============================================================================
