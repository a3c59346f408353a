------------------------------ MODULE Approval ------------------------------
(***************************************************************************)
(* ApprovalCheck of app/swupdate/verification.go: is a release commit      *)
(* signed off by at least Threshold of the developers named in the policy? *)
(*                                                                         *)
(* The function first reads every armored public key of the policy into   *)
(* the developers' key ring (a key that does not decode is only logged),   *)
(* then checks every signature of the signatures file against that ring   *)
(* and the commit id, recording each signer once in `approvers`, and       *)
(* compares the number of approvers with the threshold.  A signature is    *)
(* abstracted to the developer whose key made it, or to Invalid (a bad     *)
(* signature, one over another commit, or one by an unknown key); the      *)
(* files' parsing is not under src/ and is an input here.                  *)
(***************************************************************************)
EXTENDS Naturals, Sequences, SequencesExt, FiniteSets

CONSTANTS
  Dev,           \* the developers' key ids listed in the policy
  Invalid,       \* a signature no key of the ring verifies
  MaxSigs,       \* bound on the signatures of the file
  MaxThreshold   \* bound on the policy's threshold

ASSUME ApprovalAssumption ==
  /\ Invalid \notin Dev
  /\ MaxSigs \in Nat /\ MaxThreshold \in Nat

VARIABLES
  threshold,   \* commit.Policy.Threshold
  devKeys,     \* commit.Policy.DevPubKeys: the keys still to load
  signatures,  \* commit.Signatures
  developers,  \* the key ring built so far
  i,           \* position of the signature loop
  approvers,   \* key ids of the developers with a valid signature so far
  returned,    \* ApprovalCheck has returned
  result       \* what it returned

vars == <<threshold, devKeys, signatures, developers, i, approvers, returned, result>>

TypeOK ==
  /\ threshold \in 0 .. MaxThreshold
  /\ devKeys \in Seq(Dev)
  /\ signatures \in Seq(Dev \cup {Invalid})
  /\ developers \subseteq Dev
  /\ i \in 1 .. MaxSigs + 1
  /\ approvers \subseteq Dev
  /\ returned \in BOOLEAN
  /\ result \in BOOLEAN

(* The scanned policy and signatures: the keys are listed once each, in   *)
(* some order; the same developer may have signed more than once.          *)
Init ==
  /\ threshold \in 0 .. MaxThreshold
  /\ devKeys \in {k \in BoundedSeq(Dev, Cardinality(Dev)) : IsInjective(k)}
  /\ signatures \in BoundedSeq(Dev \cup {Invalid}, MaxSigs)
  /\ developers = {}
  /\ i = 1
  /\ approvers = {}
  /\ returned = FALSE
  /\ result = FALSE

(* ReadArmoredKeyRing on the next key: its entity joins the ring, or the   *)
(* error is logged and the key is skipped.                                 *)
LoadKey ==
  /\ devKeys # <<>>
  /\ \/ developers' = developers \cup {Head(devKeys)}
     \/ UNCHANGED developers
  /\ devKeys' = Tail(devKeys)
  /\ UNCHANGED <<threshold, signatures, i, approvers, returned, result>>

(* The signature loop has a signature left to check.                       *)
SignatureLeft == i <= Len(signatures)

(* CheckArmoredDetachedSignature on the next signature: an error is logged;*)
(* a signer not yet in approvers is added.                                 *)
CheckSignature ==
  LET s == signatures[i] IN
  /\ devKeys = <<>>
  /\ SignatureLeft
  /\ approvers' = IF s \in developers /\ s \notin approvers
                    THEN approvers \cup {s} ELSE approvers
  /\ i' = i + 1
  /\ UNCHANGED <<threshold, devKeys, signatures, developers, returned, result>>

(* Variant of Approved: a strict comparison.                               *)
ApprovedStrict == Cardinality(approvers) > threshold

(* len(approvers) >= commit.Policy.Threshold.                              *)
Approved == Cardinality(approvers) >= threshold

(* The function returns.                                                   *)
Return ==
  /\ devKeys = <<>>
  /\ ~SignatureLeft
  /\ ~returned
  /\ returned' = TRUE
  /\ result' = Approved
  /\ UNCHANGED <<threshold, devKeys, signatures, developers, i, approvers>>

Next == LoadKey \/ CheckSignature \/ Return

Spec == Init /\ [][Next]_vars

-----------------------------------------------------------------------------
(* Properties.                                                             *)

(* The developers with at least one signature that verifies.               *)
ValidSigners == {signatures[k] : k \in DOMAIN signatures} \cap developers

(* The doc comment of verification.go: the result is true exactly when at  *)
(* least Threshold distinct developers whose keys could be read signed the *)
(* commit; a developer who signed twice counts once, and signatures that   *)
(* do not verify count for nothing.                                        *)
ApprovalCorrect ==
  returned => result = (Cardinality(ValidSigners) >= threshold)

(* The inductive invariant behind ApprovalCorrect, checked by             *)
(* approval_check and proved in ApprovalProofs: no signature is checked   *)
(* before the last key is loaded, approvers is at every point of the      *)
(* signature loop exactly the loaded developers among the signatures      *)
(* checked so far, and the value returned is the final comparison.        *)
ApprovalInv ==
  /\ TypeOK
  /\ Len(signatures) <= MaxSigs
  /\ devKeys # <<>> => i = 1
  /\ i <= Len(signatures) + 1
  /\ approvers = {signatures[k] : k \in 1 .. i - 1} \cap developers
  /\ returned => ~SignatureLeft /\ result = (Cardinality(approvers) >= threshold)

=============================================================================
