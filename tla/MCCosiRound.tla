---------------------------- MODULE MCCosiRound ----------------------------
(* The round on two trees: the chain r -> a -> b of scenarios A and B of   *)
(* spec.md 8, and r with children a and c where a has the child b, so that *)
(* a parent has two children whose deadlines race independently.          *)
EXTENDS CosiRound, TLC

CONSTANTS r, a, b, c

MCChainParent == (a :> r) @@ (b :> a)
MCForkParent == (a :> r) @@ (b :> a) @@ (c :> r)
=============================================================================
