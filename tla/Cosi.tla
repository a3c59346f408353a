-------------------------------- MODULE Cosi --------------------------------
(***************************************************************************)
(* The CoSi round of CosiRound with the values of lib/cosi/cosi.go: every  *)
(* node runs one Cosi engine, and every step of the round also performs    *)
(* the engine call the driver makes for it.  The group is the integers     *)
(* mod Q with generator 1, so a point is represented by its discrete log:  *)
(* G^v is v, Point.Add is + mod Q, Point.Mul(P, s) is P * s mod Q, and the *)
(* Schnorr algebra of the code is kept exactly.  The Fiat-Shamir hash is   *)
(* the constant operator Hash.                                             *)
(***************************************************************************)
EXTENDS CosiRound, Integers, FiniteSetsExt

CONSTANTS
  Q,        \* order of the group
  Priv,     \* Priv[n]: the long-term private key of node n
  Nonces,   \* the secrets genCommit's random key pair may produce
  Msg,      \* the message the round signs
  Hash(_, _), \* the cipher-based hash of a marshalled point and a message
  Nil       \* a nil abstract.Point / abstract.Secret

Scalar == 0 .. Q - 1

ASSUME QAssumption == Q \in Nat \ {0}
ASSUME PrivAssumption == Priv \in [Node -> Scalar]
ASSUME NoncesAssumption == Nonces \subseteq Scalar /\ Nonces # {}
ASSUME HashAssumption == \A p \in Scalar : Hash(p, Msg) \in Scalar

(* suite.Point().Mul(nil, x): the public key of a private key.            *)
Pub(n) == Priv[n] % Q

(* Sum of the values val[i] over a set S, starting from the null point.   *)
PSum(S, val) == MapThenSumSet(LAMBDA i : val[i], S) % Q

(* A nil ChildrenCommit / ChildrenResp is skipped by the loops of Commit  *)
(* and Response.                                                           *)
OrZero(x) == IF x = Nil THEN 0 ELSE x

Engine ==
  [random : Scalar \cup {Nil}, commitment : Scalar \cup {Nil},
   aggregateCommitment : Scalar \cup {Nil}, challenge : Scalar \cup {Nil},
   response : Scalar \cup {Nil}, aggregateResponse : Scalar \cup {Nil}]

VARIABLES
  eng,      \* eng[n]: the fields of node n's Cosi struct
  comOut,   \* comOut[n]: the Commitment n sent up (Nil before)
  respOut   \* respOut[n]: the Response n sent up (Nil before)

cvars == <<eng, comOut, respOut>>
allVars == <<vars, cvars>>

CosiTypeOK ==
  /\ TypeOK
  /\ eng \in [Node -> Engine]
  /\ comOut \in [Node -> [Commitment : Scalar, ChildrenCommit : Scalar \cup {Nil}] \cup {Nil}]
  /\ respOut \in [Node -> [Response : Scalar, ChildrenResp : Scalar \cup {Nil}] \cup {Nil}]

(* NewCosi: only the suite and the private key are set.                   *)
CosiInit ==
  /\ Init
  /\ eng = [n \in Node |-> [random |-> Nil, commitment |-> Nil,
                            aggregateCommitment |-> Nil, challenge |-> Nil,
                            response |-> Nil, aggregateResponse |-> Nil]]
  /\ comOut = [n \in Node |-> Nil]
  /\ respOut = [n \in Node |-> Nil]

-----------------------------------------------------------------------------
(* CreateCommitment, called by a leaf: genCommit picks the random secret   *)
(* v and sets commitment = G^v; the aggregate commitment is left unset.   *)
CreateCommitmentV(n) ==
  /\ Children(n) = {}
  /\ Commit(n)
  /\ \E v \in Nonces :
       /\ eng' = [eng EXCEPT ![n].random = v, ![n].commitment = v]
       /\ comOut' = [comOut EXCEPT ![n] = [Commitment |-> v, ChildrenCommit |-> Nil]]
  /\ UNCHANGED respOut

(* Commit, called by an inner node with the commitments that arrived:     *)
(* genCommit, then child_v_hat sums each child's Commitment and its        *)
(* non-nil ChildrenCommit, and V_hat = child_v_hat + own commitment.       *)
(* Variant of ChildCommit: a child's own commitment without its subtree's *)
(* (the nil check of Commit turned into a skip of ChildrenCommit).        *)
ChildCommitOwnOnly(c) == comOut[c].Commitment

(* What one child's Commitment message adds to child_v_hat.               *)
ChildCommit(c) == comOut[c].Commitment + OrZero(comOut[c].ChildrenCommit)

CommitV(n) ==
  /\ Children(n) # {}
  /\ Commit(n)
  /\ \E v \in Nonces :
       LET childVHat == PSum(counted'[n], [c \in counted'[n] |-> ChildCommit(c)])
       IN /\ eng' = [eng EXCEPT ![n].random = v, ![n].commitment = v,
                                ![n].aggregateCommitment = (childVHat + v) % Q]
          /\ comOut' = [comOut EXCEPT ![n] = [Commitment |-> v, ChildrenCommit |-> childVHat]]
  /\ UNCHANGED respOut

(* CreateChallenge at the root: the challenge is the hash of the          *)
(* marshalled aggregate commitment and the message.                       *)
CreateChallengeV ==
  /\ CreateChallenge
  /\ eng' = [eng EXCEPT ![Root].challenge = Hash(eng[Root].aggregateCommitment, Msg)]
  /\ UNCHANGED <<comOut, respOut>>

(* Challenge: store the challenge the parent sent.                        *)
ChallengeV(n) ==
  /\ Challenge(n)
  /\ eng' = [eng EXCEPT ![n].challenge = eng[Parent[n]].challenge]
  /\ UNCHANGED <<comOut, respOut>>

(* Variant of OwnResponse: v + c * x in place of v - c * x.              *)
OwnResponsePlus(n) == (eng[n].random + eng[n].challenge * Priv[n]) % Q

(* genResponse: r = v - c * x; no aggregation yet.                        *)
OwnResponse(n) == (eng[n].random - eng[n].challenge * Priv[n]) % Q

(* CreateResponse, called by a leaf: genResponse sets response and         *)
(* aggregateResponse to r.                                                 *)
CreateResponseV(n) ==
  /\ Children(n) = {}
  /\ Respond(n)
  /\ eng' = [eng EXCEPT ![n].response = OwnResponse(n),
                        ![n].aggregateResponse = OwnResponse(n)]
  /\ respOut' = [respOut EXCEPT ![n] = [Response |-> OwnResponse(n), ChildrenResp |-> Nil]]
  /\ UNCHANGED comOut

(* Response, called by an inner node with the responses of the counted    *)
(* children that answered: genResponse, then the sum of each child's       *)
(* Response and non-nil ChildrenResp, plus its own.                        *)
ResponseV(n) ==
  /\ Children(n) # {}
  /\ Respond(n)
  /\ LET answered == {m.from : m \in RespFrom(n, counted[n])}
         childRHat == PSum(answered, [c \in answered |-> respOut[c].Response
                                                         + OrZero(respOut[c].ChildrenResp)])
     IN /\ eng' = [eng EXCEPT ![n].response = OwnResponse(n),
                              ![n].aggregateResponse = (childRHat + OwnResponse(n)) % Q]
        /\ respOut' = [respOut EXCEPT ![n] = [Response |-> OwnResponse(n),
                                              ChildrenResp |-> childRHat]]
  /\ UNCHANGED comOut

CosiNext ==
  \/ CreateAnnouncement /\ UNCHANGED cvars
  \/ CreateChallengeV
  \/ \E n \in Node :
       \/ Announce(n) /\ UNCHANGED cvars
       \/ CreateCommitmentV(n) \/ CommitV(n)
       \/ ChallengeV(n)
       \/ CreateResponseV(n) \/ ResponseV(n)
       \/ RespondFails(n) /\ UNCHANGED cvars
       \/ Crash(n) /\ UNCHANGED cvars
  \/ \E m \in msgs : Lose(m) /\ UNCHANGED cvars

CosiSpec == CosiInit /\ [][CosiNext]_allVars

-----------------------------------------------------------------------------
(* Verification, as the code computes it.                                 *)

(* VerifyResponses: base^r_hat * X_hat^c must equal V_hat.                *)
VerifyResponsesOK(n, aggregatedPublic) ==
  (eng[n].aggregateResponse + aggregatedPublic * eng[n].challenge) % Q
    = eng[n].aggregateCommitment

(* verifyCommitment: the hash of the commitment and the message must give *)
(* back the challenge.                                                     *)
VerifyCommitmentOK(msg, commitment, challenge) == Hash(commitment, msg) = challenge

(* VerifySignature: recompute G^r * X^c and check it hashes to c.         *)
VerifySignatureOK(msg, public, challenge, secret) ==
  VerifyCommitmentOK(msg, (secret + public * challenge) % Q, challenge)

(* VerifySignatureWithException: subPublic and aggExCommit are summed over *)
(* the exceptions; the recomputed commitment is G^r * public^c plus        *)
(* aggExCommit.  subPublic is computed and not used, as in the code.       *)
VerifySignatureWithExceptionOK(public, msg, challenge, secret, exceptions) ==
  LET subPublic == (public - PSum(DOMAIN exceptions, [e \in DOMAIN exceptions |-> exceptions[e].Public])) % Q
      aggExCommit == PSum(DOMAIN exceptions, [e \in DOMAIN exceptions |-> exceptions[e].Commitment])
      commitment == (((secret + public * challenge) % Q) + aggExCommit) % Q
  IN VerifyCommitmentOK(msg, commitment, challenge)

(* The aggregate public key of a set of nodes.                            *)
AggPub(S) == PSum(S, [i \in S |-> Pub(i)])

(* The exception list the root publishes: public key and commitment of    *)
(* every node declared an exception.                                      *)
RootExceptions ==
  [i \in xset[Root] |-> [Public |-> Pub(i), Commitment |-> eng[i].commitment]]

(* A node's aggregate commitment; a leaf's is its own commitment.         *)
AggCommit(n) ==
  IF eng[n].aggregateCommitment = Nil THEN eng[n].commitment
  ELSE eng[n].aggregateCommitment

-----------------------------------------------------------------------------
(* Aggregation additivity (spec.md 3, 8): every committed node's aggregate *)
(* commitment is the sum of the commitments of exactly the nodes it        *)
(* counted, and every responded node's aggregate response is the sum of    *)
(* the responses of exactly its responders.  Fails if Commit or Response   *)
(* forgets a child's ChildrenCommit/ChildrenResp or adds its own twice.    *)
AggregationAdditive ==
  \A n \in Node :
    /\ Committed(n) => AggCommit(n) = PSum(cset[n], [i \in Node |-> eng[i].commitment])
    /\ phase[n] = "responded" =>
         eng[n].aggregateResponse = PSum(rset[n], [i \in Node |-> eng[i].response])

(* Round trip (spec.md 8): when every node's commitment was counted and   *)
(* nobody became an exception, the root's (challenge, aggregate response) *)
(* passes VerifySignature under the aggregate key of all nodes.           *)
RoundTrip ==
  (phase[Root] = "responded" /\ cset[Root] = Node /\ xset[Root] = {})
    => VerifySignatureOK(Msg, AggPub(Node), eng[Root].challenge,
                         eng[Root].aggregateResponse)

(* Exception correctness (spec.md 4.1, 7, 8 scenario B): when nodes        *)
(* committed and then failed to respond, the signature verifies with      *)
(* VerifySignatureWithException given exactly their keys and commitments. *)
ExceptionVerification ==
  (phase[Root] = "responded" /\ cset[Root] = Node)
    => VerifySignatureWithExceptionOK(AggPub(Node), Msg, eng[Root].challenge,
                                      eng[Root].aggregateResponse, RootExceptions)

=============================================================================
