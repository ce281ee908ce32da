------------------------------- MODULE MCInput -------------------------------
EXTENDS Input, TLC
CONSTANTS w1, w2
MCChords == {<<"q">>, <<"ctrl", "q">>, <<"lamiga", "ctrl">>, <<"ctrl", "lamiga", "ramiga">>}
WorkerSymmetry == Permutations(Workers)
=============================================================================
