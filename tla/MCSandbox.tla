------------------------------ MODULE MCSandbox ------------------------------
EXTENDS Sandbox, TLC

CONSTANTS c1, c2, old, dst

Search == <<old, dst>>
Named  == {<<"guest", 1>>}
Codes  == {0, -768}
CallSymmetry == Permutations(Calls)
==============================================================================
