---------------------------- MODULE MCSignRound ----------------------------
(* Three nodes: r with children a and b, in Z_5.                           *)
EXTENDS SignRound, TLC

CONSTANTS r, a, b

MCNode == {r, a, b}
MCParent == [n \in {a, b} |-> r]
MCPriv == [n \in MCNode |-> CASE n = r -> 2 [] n = a -> 3 [] n = b -> 1]
MCNameNonce == [n \in MCNode |-> CASE n = r -> 4 [] n = a -> 1 [] n = b -> 3]

(* A hash of a sequence of integers into 0 .. 1000002.                    *)
MCHashIds(s) ==
  LET h[i \in 0 .. Len(s)] == IF i = 0 THEN 7 ELSE (h[i - 1] * 31 + s[i] + 1) % 1000003
  IN h[Len(s)]

(* HashElGamal into Z_5.                                                   *)
MCHashElGamal(m, p) == (MCHashIds(m) + 2 * p) % 5

=============================================================================
