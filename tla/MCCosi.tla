------------------------------- MODULE MCCosi -------------------------------
(* Cosi on the trees of MCCosiRound, in the group of order 5.  The keys   *)
(* of every tree sum to a non-zero key, so the c * X term of the           *)
(* verification equations does not vanish.  The hash is injective in the   *)
(* point for a fixed message, so a wrong recomputed commitment is never    *)
(* masked by a collision.                                                   *)
EXTENDS Cosi, TLC

CONSTANTS r, a, b, c

MCChainParent == (a :> r) @@ (b :> a)
MCForkParent == (a :> r) @@ (b :> a) @@ (c :> r)
MCChainPriv == (r :> 1) @@ (a :> 2) @@ (b :> 3)
MCForkPriv == (r :> 1) @@ (a :> 2) @@ (b :> 3) @@ (c :> 1)
MCHash(p, m) == (p + 3 * m) % Q
=============================================================================
