--------------------------- MODULE ApprovalProofs ---------------------------
(***************************************************************************)
(* Proofs about ApprovalCheck (app/swupdate/verification.go) for any set   *)
(* of developers, any policy and any signatures file.                      *)
(*                                                                         *)
(* ApprovalCorrect speaks only of the returned value; the loop invariant  *)
(* ApprovalInv says what approvers holds at every point of the signature  *)
(* loop.  No cardinality reasoning is needed: at the end approvers and    *)
(* ValidSigners are the same set.                                          *)
(***************************************************************************)
EXTENDS Approval, SequenceTheorems, TLAPS

USE ApprovalAssumption

(* The scanned key and signature lists are sequences, and the signatures  *)
(* file holds at most MaxSigs signatures.                                  *)
LEMMA InitTypes ==
  ASSUME Init
  PROVE  /\ devKeys \in Seq(Dev)
         /\ signatures \in Seq(Dev \cup {Invalid})
         /\ Len(signatures) <= MaxSigs
<1>1. PICK m \in 0 .. Cardinality(Dev) : devKeys \in [1 .. m -> Dev]
  BY DEF Init, BoundedSeq, SeqOf
<1>2. devKeys \in Seq(Dev)
  BY <1>1, SeqDef
<1>3. PICK n \in 0 .. MaxSigs : signatures \in [1 .. n -> Dev \cup {Invalid}]
  BY DEF Init, BoundedSeq, SeqOf
<1>4. signatures \in Seq(Dev \cup {Invalid})
  BY <1>3, SeqDef
<1>5. DOMAIN signatures = 1 .. Len(signatures) /\ Len(signatures) \in Nat
  BY <1>4, LenProperties
<1>6. Len(signatures) = n
  BY <1>3, <1>5
<1>7. QED
  BY <1>2, <1>4, <1>6

(* Loading a key happens before any signature is checked, so approvers is *)
(* still empty and stays the image of the empty prefix.                    *)
LEMMA LoadKeyStep ==
  ASSUME ApprovalInv, LoadKey
  PROVE  ApprovalInv'
<1> USE DEF ApprovalInv
<1>1. devKeys # <<>> /\ i = 1
  BY DEF LoadKey
<1>2. devKeys' = Tail(devKeys) /\ Head(devKeys) \in Dev /\ Tail(devKeys) \in Seq(Dev)
  BY <1>1, HeadTailProperties DEF LoadKey, TypeOK
<1>3. developers' \subseteq Dev
  BY <1>2 DEF LoadKey, TypeOK
<1>4. approvers = {} /\ approvers' = {}
  BY <1>1 DEF LoadKey
<1>5. TypeOK'
  BY <1>2, <1>3 DEF LoadKey, TypeOK
<1>6. QED
  BY <1>1, <1>4, <1>5 DEF LoadKey, SignatureLeft

(* Checking signature i adds its signer to approvers when the signer is a *)
(* loaded developer, which extends the checked prefix by one.              *)
LEMMA CheckSignatureStep ==
  ASSUME ApprovalInv, CheckSignature
  PROVE  ApprovalInv'
<1> DEFINE s == signatures[i]
           Prefix(j) == {signatures[k] : k \in 1 .. j - 1} \cap developers
<1> USE DEF ApprovalInv
<1>1. devKeys = <<>> /\ i <= Len(signatures) /\ i' = i + 1
      /\ UNCHANGED <<threshold, devKeys, signatures, developers, returned, result>>
  BY DEF CheckSignature, SignatureLeft
<1>2. i \in 1 .. Len(signatures) /\ Len(signatures) \in Nat
  BY <1>1, LenProperties DEF TypeOK
<1>3. Prefix(i + 1) = Prefix(i) \cup ({s} \cap developers)
  BY <1>2
<1>4. approvers' = Prefix(i) \cup ({s} \cap developers)
  BY DEF CheckSignature
<1>5. approvers' = Prefix(i')
  BY <1>1, <1>3, <1>4
<1>6. s \in Dev \cup {Invalid}
  BY <1>2, ElementOfSeq DEF TypeOK
<1>7. TypeOK'
  BY <1>1, <1>2, <1>4, <1>6 DEF TypeOK
<1>8. ~returned
  BY <1>1 DEF SignatureLeft
<1>9. QED
  BY <1>1, <1>2, <1>5, <1>7, <1>8

(* Return compares the final approvers with the threshold.                *)
LEMMA ReturnStep ==
  ASSUME ApprovalInv, Return
  PROVE  ApprovalInv'
BY DEF Return, ApprovalInv, TypeOK, Approved, SignatureLeft

-----------------------------------------------------------------------------

(* The loop invariant holds at every point of ApprovalCheck, for every   *)
(* policy, key list and signatures file.                                   *)
LEMMA ApprovalInvariant == Spec => []ApprovalInv
<1>1. Init => ApprovalInv
  <2> SUFFICES ASSUME Init PROVE ApprovalInv
    OBVIOUS
  <2>1. /\ devKeys \in Seq(Dev) /\ signatures \in Seq(Dev \cup {Invalid})
        /\ Len(signatures) <= MaxSigs
    BY InitTypes
  <2>2. /\ threshold \in 0 .. MaxThreshold
        /\ developers = {} /\ i = 1 /\ approvers = {}
        /\ returned = FALSE /\ result = FALSE
    BY DEF Init
  <2>3. 1 \in 1 .. MaxSigs + 1
    BY ApprovalAssumption
  <2>4. TypeOK
    BY <2>1, <2>2, <2>3, Zenon DEF TypeOK
  <2>5. QED
    BY <2>1, <2>2, <2>4 DEF ApprovalInv
<1>2. ApprovalInv /\ [Next]_vars => ApprovalInv'
  <2> SUFFICES ASSUME ApprovalInv, [Next]_vars PROVE ApprovalInv'
    OBVIOUS
  <2>1. CASE UNCHANGED vars
    BY <2>1 DEF vars, ApprovalInv, TypeOK, SignatureLeft
  <2>2. QED
    BY <2>1, LoadKeyStep, CheckSignatureStep, ReturnStep DEF Next
<1>3. QED
  BY <1>1, <1>2, PTL DEF Spec

(* ApprovalCheck returns true exactly when at least Threshold distinct    *)
(* developers whose key could be read signed the commit, for any number   *)
(* of developers, keys and signatures: duplicates count once and invalid  *)
(* signatures not at all, as the doc comment of verification.go says.     *)
THEOREM ApprovalCorrectThm == Spec => []ApprovalCorrect
<1>1. ApprovalInv => ApprovalCorrect
  <2> SUFFICES ASSUME ApprovalInv, returned
               PROVE  result = (Cardinality(ValidSigners) >= threshold)
    BY DEF ApprovalCorrect
  <2>1. Len(signatures) \in Nat /\ DOMAIN signatures = 1 .. Len(signatures)
    BY LenProperties DEF ApprovalInv, TypeOK
  <2>2. i = Len(signatures) + 1
    BY <2>1 DEF ApprovalInv, TypeOK, SignatureLeft
  <2>3. approvers = ValidSigners
    BY <2>1, <2>2 DEF ApprovalInv, ValidSigners
  <2>4. QED
    BY <2>3 DEF ApprovalInv
<1>2. QED
  BY <1>1, ApprovalInvariant, PTL

=============================================================================
