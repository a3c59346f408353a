----------------------------- MODULE SignRound -----------------------------
(***************************************************************************)
(* The CosiStruct of lib/sign/cosistruct.go over consecutive rounds.       *)
(*                                                                         *)
(* Each round every node builds a fresh CosiStruct (NewCosi):              *)
(* InitCommitCrypto picks v from a cipher seeded with the node's name,     *)
(* commits V = G^v and starts V_hat and X_hat at its own V and key.  On    *)
(* the way up a node adds its children's V_hat and X_hat, builds its      *)
(* Merkle leaves (children's roots, its local root, the hash of its log)  *)
(* and sends its combined root up.  The root hashes Msg || MTRoot with     *)
(* V_hat into the challenge; on the way down every node stores the        *)
(* challenge and the root's MTRoot; on the way up InitResponseCrypto sets *)
(* R = v - x*C and the node adds its children's R_hat.  VerifyResponses    *)
(* may then be called, and at the root it recomputes C.                   *)
(*                                                                         *)
(* The group is Z_Q with generator 1, as in Cosi.  The sequencing of the  *)
(* four phases, the aggregation of children's values and the challenge are *)
(* done by roundcosi, which is not under src/; they follow spec.md 4.1-4.2.*)
(* Deadlines and exceptions are CosiRound's subject: here every child      *)
(* answers, and ExceptionV_hat stays the Null point NewCosi sets.  A       *)
(* child's response may be corrupted on the wire (a bounded fault).        *)
(***************************************************************************)
EXTENDS Integers, Sequences, FiniteSets

CONSTANTS
  Node, Root, Parent,   \* the tree, as in CosiRound
  Q,                    \* order of the group Z_Q
  Priv,                 \* Priv[n]: n's private key
  NameNonce,            \* NameNonce[n]: Secret().Pick(Cipher(name of n))
  Msgs,                 \* messages the root may sign
  Stamps,               \* local Merkle roots a stamper may hand a node
  HashElGamal(_, _),    \* HashElGamal(message, point): a scalar
  HashIds(_),           \* the hash of a sequence of hash ids and values
  MaxRound,             \* bound on rounds
  MaxVerify,            \* bound on VerifyResponses calls per node and round
  MaxCorrupt            \* bound on corrupted responses

ASSUME SignRoundAssumption ==
  /\ Root \in Node
  /\ Parent \in [Node \ {Root} -> Node]
  /\ Q \in Nat \ {0, 1}
  /\ Priv \in [Node -> 0 .. Q - 1]
  /\ NameNonce \in [Node -> 0 .. Q - 1]
  /\ MaxRound \in Nat /\ MaxVerify \in Nat /\ MaxCorrupt \in Nat

Children(n) == {m \in Node \ {Root} : Parent[m] = n}

Scalar == 0 .. Q - 1

(* The sum of f over a finite set S of nodes, mod Q.                       *)
RECURSIVE SumOver(_, _)
SumOver(S, f) ==
  IF S = {} THEN 0
  ELSE LET m == CHOOSE m \in S : TRUE IN (f[m] + SumOver(S \ {m}, f)) % Q

(* The elements of a finite set of integers in increasing order.           *)
RECURSIVE SortedSeq(_)
SortedSeq(S) ==
  IF S = {} THEN <<>>
  ELSE LET m == CHOOSE m \in S : \A k \in S : m <= k IN <<m>> \o SortedSeq(S \ {m})

(* proof.ProofTree's root over a sequence of leaves (lib/proof is not     *)
(* under src/): adjacent pairs are hashed level by level, an odd last     *)
(* hash moving up unpaired.                                                *)
RECURSIVE TreeRoot(_)
TreeRoot(s) ==
  IF Len(s) = 0 THEN HashIds(<<>>)
  ELSE IF Len(s) = 1 THEN s[1]
  ELSE TreeRoot([i \in 1 .. (Len(s) + 1) \div 2 |->
                   IF 2 * i <= Len(s) THEN HashIds(<<s[2 * i - 1], s[2 * i]>>)
                   ELSE s[2 * i - 1]])

(* The fields of CosiStruct and its SNLog that a round uses.               *)
Struct == [Msg : Msgs \cup {0}, C : Scalar, R : Scalar, R_hat : Scalar,
           X_hat : Scalar, v : Scalar, V : Scalar, V_hat : Scalar,
           ExceptionV_hat : Scalar, Leaves : Seq(Int), CMTRoots : Seq(Int),
           LocalMTRoot : Int, HashedLog : Int, MTRoot : Int]

VARIABLES
  round,     \* the root's round number
  stage,     \* stage[n]: how far n is in the current round
  cs,        \* cs[n]: n's CosiStruct of the current round
  sentR,     \* sentR[n]: the R_hat n's parent received from n
  verified,  \* verified[n]: results of n's VerifyResponses calls this round
  seen,      \* seen[n]: every <<V, C, R>> of n's responses sent so far
  corrupt,   \* responses corrupted so far
  sbm        \* sbm[n]: the SignatureBroadcastMessage n holds

vars == <<round, stage, cs, sentR, verified, seen, corrupt, sbm>>

Stage == {"idle", "announced", "committed", "challenged", "responded", "signed"}

(* SignatureBroadcastMessage (messagessign.go:224-239): the root's         *)
(* aggregate response, challenge, aggregate key and aggregate commitment;  *)
(* the rejection lists are empty in a round without exceptions.           *)
SignatureBroadcastMessage(s) ==
  [R0_hat |-> s.R_hat, C |-> s.C, X0_hat |-> s.X_hat, V0_hat |-> s.V_hat]

TypeOK ==
  /\ round \in 0 .. MaxRound
  /\ stage \in [Node -> Stage]
  /\ \A n \in Node : cs[n].C \in Scalar /\ cs[n].R_hat \in Scalar
                     /\ cs[n].V_hat \in Scalar /\ cs[n].X_hat \in Scalar
  /\ sentR \in [Node -> Scalar]
  /\ verified \in [Node -> Seq(BOOLEAN)]
  /\ seen \in [Node -> SUBSET (Scalar \X Scalar \X Scalar)]
  /\ corrupt \in 0 .. MaxCorrupt

EmptyStruct ==
  [Msg |-> 0, C |-> 0, R |-> 0, R_hat |-> 0, X_hat |-> 0, v |-> 0, V |-> 0,
   V_hat |-> 0, ExceptionV_hat |-> 0, Leaves |-> <<>>, CMTRoots |-> <<>>,
   LocalMTRoot |-> 0, HashedLog |-> 0, MTRoot |-> 0]

Init ==
  /\ round = 0
  /\ stage = [n \in Node |-> "idle"]
  /\ cs = [n \in Node |-> EmptyStruct]
  /\ sentR = [n \in Node |-> 0]
  /\ verified = [n \in Node |-> <<>>]
  /\ seen = [n \in Node |-> {}]
  /\ corrupt = 0
  /\ sbm = [n \in Node |-> SignatureBroadcastMessage(EmptyStruct)]

-----------------------------------------------------------------------------
(* The code of cosistruct.go, as operators on a CosiStruct.                *)

(* Pub(n) = G^x = x mod Q (generator 1).                                   *)
Pub(n) == Priv[n] % Q

(* NewCosi and InitCommitCrypto (lines 81-124): v from the name-seeded    *)
(* cipher, V = G^v, V_hat = V, X_hat = PubKey, ExceptionV_hat = Null.     *)
NewCosi(n, msg, local) ==
  [EmptyStruct EXCEPT !.Msg = msg, !.v = NameNonce[n], !.V = NameNonce[n] % Q,
                      !.V_hat = NameNonce[n] % Q, !.X_hat = Pub(n),
                      !.LocalMTRoot = local]

(* SNLog.MarshalBinary (lines 285-303): v, V and V_hat, then the          *)
(* children's roots concatenated by MerkleAddChildren.                     *)
LogBytes(s, cmt) == <<s.v, s.V, s.V_hat>> \o cmt

(* MerkleAddChildren, MerkleAddLocal, MerkleHashLog and                   *)
(* ComputeCombinedMerkleRoot (lines 127-186): the leaves are the children's*)
(* roots and the local root; the log (v, V, V_hat, CMTRoots) is hashed and *)
(* added; the sorted leaves' tree root is the left child and the hashed    *)
(* log the right child of MTRoot.                                          *)
MerkleRound(s, childRoots) ==
  LET cmt == childRoots
      log == HashIds(LogBytes(s, cmt))
      leaves == SortedSeq({cmt[i] : i \in 1 .. Len(cmt)} \cup {s.LocalMTRoot, log})
  IN [s EXCEPT !.CMTRoots = cmt, !.Leaves = leaves, !.HashedLog = log,
               !.MTRoot = TreeRoot(<<TreeRoot(leaves), log>>)]

(* Variant of InitResponseCrypto: R = v + x*C.                            *)
InitResponseCryptoPlus(s, n) == [s EXCEPT !.R = (s.v + Priv[n] * s.C) % Q]

(* InitResponseCrypto (lines 212-217): R = v - x*C, R_hat = R.           *)
InitResponseCrypto(s, n) == [s EXCEPT !.R = (s.v - Priv[n] * s.C) % Q]

(* msg := cosi.Msg ++ cosi.MTRoot (lines 251-252).                         *)
RootMessage(s) == <<s.Msg, s.MTRoot>>

(* VerifyResponses (lines 240-272): T = G^R_hat + X_hat*C + ExceptionV_hat;*)
(* the root overwrites C with HashElGamal(msg, V_hat) and computes         *)
(* c2 = HashElGamal(msg, T).  The result and the CosiStruct afterwards.    *)
VerifyResponses(s, isroot) ==
  LET T == (s.R_hat + s.X_hat * s.C + s.ExceptionV_hat) % Q
      newC == IF isroot THEN HashElGamal(RootMessage(s), s.V_hat) ELSE s.C
      c2 == HashElGamal(RootMessage(s), T)
  IN [ok |-> T = s.V_hat /\ (isroot => newC = c2),
      cosi |-> [s EXCEPT !.C = newC]]

-----------------------------------------------------------------------------
(* The round, in the order roundcosi drives it (spec.md 4.2).              *)

(* The root starts round k+1 once every node has finished round k: NewCosi *)
(* with the message to sign and the stamper's local root.                 *)
StartRound ==
  /\ round < MaxRound
  /\ \A n \in Node : stage[n] \in {"idle", "responded", "signed"}
  /\ round' = round + 1
  /\ \E msg \in Msgs, local \in Stamps :
       cs' = [cs EXCEPT ![Root] = NewCosi(Root, msg, local)]
  /\ stage' = [n \in Node |-> IF n = Root THEN "announced" ELSE "idle"]
  /\ verified' = [n \in Node |-> <<>>]
  /\ UNCHANGED <<sentR, seen, corrupt, sbm>>

(* A node receives the announcement: NewCosi with an empty message.        *)
Announce(n) ==
  /\ n # Root
  /\ stage[n] = "idle"
  /\ stage[Parent[n]] = "announced"
  /\ \E local \in Stamps : cs' = [cs EXCEPT ![n] = NewCosi(n, 0, local)]
  /\ stage' = [stage EXCEPT ![n] = "announced"]
  /\ UNCHANGED <<round, sentR, verified, seen, corrupt, sbm>>

(* The orders in which the commitments of a set of children can arrive:  *)
(* cosi.Leaves lists their roots in that order.                           *)
Arrivals(kids) ==
  {f \in [1 .. Cardinality(kids) -> kids] : {f[i] : i \in DOMAIN f} = kids}

(* Every child's commitment is in: add their V_hat and X_hat, build the   *)
(* Merkle leaves, in the order the commitments arrived, and the combined   *)
(* root, and send them up.                                                 *)
Commit(n) ==
  LET kids == Children(n)
      s == [cs[n] EXCEPT
              !.V_hat = (@ + SumOver(kids, [c \in kids |-> cs[c].V_hat])) % Q,
              !.X_hat = (@ + SumOver(kids, [c \in kids |-> cs[c].X_hat])) % Q]
  IN /\ stage[n] = "announced"
     /\ \A c \in kids : stage[c] = "committed"
     /\ \E ord \in Arrivals(kids) :
          cs' = [cs EXCEPT ![n] = MerkleRound(s, [i \in DOMAIN ord |-> cs[ord[i]].MTRoot])]
     /\ stage' = [stage EXCEPT ![n] = "committed"]
     /\ UNCHANGED <<round, sentR, verified, seen, corrupt, sbm>>

(* The message roundcosi signs: Msg || MTRoot.                             *)
ChallengeMessage(s) == <<s.Msg, s.MTRoot>>

(* The root's challenge: HashElGamal(Msg || MTRoot, V_hat).               *)
CreateChallenge ==
  /\ stage[Root] = "committed"
  /\ cs' = [cs EXCEPT ![Root].C = HashElGamal(ChallengeMessage(cs[Root]), cs[Root].V_hat)]
  /\ stage' = [stage EXCEPT ![Root] = "challenged"]
  /\ UNCHANGED <<round, sentR, verified, seen, corrupt, sbm>>

(* A node receives the challenge: it stores C, and StoreLocalMerkleProof  *)
(* (lines 222-237) stores the root's MTRoot.                               *)
Challenge(n) ==
  /\ n # Root
  /\ stage[n] = "committed"
  /\ stage[Parent[n]] = "challenged"
  /\ cs' = [cs EXCEPT ![n].C = cs[Parent[n]].C, ![n].MTRoot = cs[Parent[n]].MTRoot]
  /\ stage' = [stage EXCEPT ![n] = "challenged"]
  /\ UNCHANGED <<round, sentR, verified, seen, corrupt, sbm>>

(* Every child's response is in: InitResponseCrypto, add the children's   *)
(* R_hat as received, and send R_hat up; on the wire, the R_hat may be     *)
(* corrupted.  The triple <<V, C, R>> becomes visible to an eavesdropper: *)
(* V, C and R_hat travel in clear, and R is R_hat minus the children's    *)
(* R_hat.                                                                  *)
Respond(n) ==
  LET kids == Children(n)
      s0 == InitResponseCrypto(cs[n], n)
      s == [s0 EXCEPT !.R_hat = (s0.R + SumOver(kids, sentR)) % Q]
  IN /\ stage[n] = "challenged"
     /\ \A c \in kids : stage[c] = "responded"
     /\ cs' = [cs EXCEPT ![n] = s]
     /\ stage' = [stage EXCEPT ![n] = "responded"]
     /\ seen' = [seen EXCEPT ![n] = @ \cup {<<s.V, s.C, s.R>>}]
     /\ \/ sentR' = [sentR EXCEPT ![n] = s.R_hat] /\ UNCHANGED corrupt
        \/ /\ n # Root
           /\ corrupt < MaxCorrupt
           /\ sentR' = [sentR EXCEPT ![n] = (s.R_hat + 1) % Q]
           /\ corrupt' = corrupt + 1
     /\ UNCHANGED <<round, verified, sbm>>

(* A call of VerifyResponses, after the node has aggregated its responses.*)
Verify(n) ==
  LET out == VerifyResponses(cs[n], n = Root) IN
  /\ stage[n] = "responded"
  /\ Len(verified[n]) < MaxVerify
  /\ cs' = [cs EXCEPT ![n] = out.cosi]
  /\ verified' = [verified EXCEPT ![n] = Append(@, out.ok)]
  /\ UNCHANGED <<round, stage, sentR, seen, corrupt, sbm>>

(* Variant of RootVerified: the root publishes without checking.          *)
RootVerifiedSkipped == TRUE

(* The root's last VerifyResponses call succeeded.                         *)
RootVerified == verified[Root] # <<>> /\ verified[Root][Len(verified[Root])]

(* The root publishes the signature only when its check passed (spec.md 7:*)
(* a signature that fails verification is not published).                  *)
Broadcast ==
  /\ stage[Root] = "responded"
  /\ RootVerified
  /\ sbm' = [sbm EXCEPT ![Root] = SignatureBroadcastMessage(cs[Root])]
  /\ stage' = [stage EXCEPT ![Root] = "signed"]
  /\ UNCHANGED <<round, cs, sentR, verified, seen, corrupt>>

(* A node receives the SignatureBroadcast from its parent.                 *)
ReceiveBroadcast(n) ==
  /\ n # Root
  /\ stage[n] = "responded"
  /\ stage[Parent[n]] = "signed"
  /\ sbm' = [sbm EXCEPT ![n] = sbm[Parent[n]]]
  /\ stage' = [stage EXCEPT ![n] = "signed"]
  /\ UNCHANGED <<round, cs, sentR, verified, seen, corrupt>>

Next ==
  \/ StartRound \/ CreateChallenge \/ Broadcast
  \/ \E n \in Node : ReceiveBroadcast(n)
  \/ \E n \in Node : Announce(n) \/ Commit(n) \/ Challenge(n) \/ Respond(n) \/ Verify(n)

Spec == Init /\ [][Next]_vars

-----------------------------------------------------------------------------
(* Properties.                                                             *)

(* A Schnorr response R = v - x*C reveals nothing of the key x only if   *)
(* its commitment V = G^v answers one challenge: two responses R1, R2 of  *)
(* n under one V and challenges C1 # C2 give x = (R1 - R2) / (C2 - C1).    *)
(* InitCommitCrypto's comment says it generates the secret "for this       *)
(* round": no commitment of n is ever reused for a different challenge.    *)
NonceNotReused ==
  \A n \in Node : \A p, q \in seen[n] : p[1] = q[1] => p[2] = q[2]

(* With every response as sent, VerifyResponses succeeds at every node:    *)
(* the aggregates of R, X and V of the subtree satisfy G^R_hat * X_hat^C = *)
(* V_hat, and the root's recomputed challenge is the one it emitted.       *)
ResponsesVerify ==
  corrupt = 0 => \A n \in Node : \A i \in DOMAIN verified[n] : verified[n][i]

(* Every node that holds the broadcast signature holds a valid Schnorr    *)
(* signature of the whole tree on this round's Msg || MTRoot: G^R0_hat *   *)
(* X0_hat^C = V0_hat, X0_hat is the sum of every node's key, and C is the  *)
(* hash of the message with V0_hat.                                        *)
PublishedSignatureValid ==
  \A n \in Node : stage[n] = "signed" =>
    LET m == sbm[n] IN
    /\ (m.R0_hat + m.X0_hat * m.C) % Q = m.V0_hat
    /\ m.X0_hat = SumOver(Node, [k \in Node |-> Pub(k)])
    /\ m.C = HashElGamal(<<cs[Root].Msg, cs[Root].MTRoot>>, m.V0_hat)

=============================================================================
