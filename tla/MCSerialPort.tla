----------------------------- MODULE MCSerialPort -----------------------------
EXTENDS SerialPort, TLC
CONSTANTS c1, c2
CallSymmetry == Permutations(Calls)
=============================================================================
