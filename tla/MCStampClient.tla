--------------------------- MODULE MCStampClient ---------------------------
(* TLC instance of StampClient: callers and servers are model values.      *)
EXTENDS StampClient, TLC

CONSTANTS c1, c2, s1, s2

MCCallers == {c1, c2}

MCSymmetry == Permutations(MCCallers)
=============================================================================
