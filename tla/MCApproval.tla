---------------------------- MODULE MCApproval -----------------------------
(* Two developers, up to three signatures, thresholds 0 to 3.              *)
EXTENDS Approval, TLC

CONSTANTS d1, d2

MCDev == {d1, d2}
MCSymmetry == Permutations(MCDev)
=============================================================================
