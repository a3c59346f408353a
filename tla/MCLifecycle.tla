---------------------------- MODULE MCLifecycle ----------------------------
(* TLC instance of Lifecycle: three conodes; r is root of view 0 and a of   *)
(* view 1, as in the round-robin root choice of a view change.             *)
EXTENDS Lifecycle, TLC

CONSTANTS r, a, b, h1, h2

MCRootFor == [v \in Views |-> IF v % 2 = 0 THEN r ELSE a]
=============================================================================
