-------------------------------- MODULE MCQemu --------------------------------
EXTENDS Qemu, TLC
CONSTANTS c1, c2
CallSymmetry == Permutations(Calls)
=============================================================================
