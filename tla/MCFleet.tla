------------------------------- MODULE MCFleet -------------------------------
(* Nobody, one target twice, an unknown one; list_targets gives the rest.  *)
EXTENDS Fleet
CONSTANTS a, b, d
MCLists == {<<>>, <<a, a>>, <<a, Stranger>>}
=============================================================================
