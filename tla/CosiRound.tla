----------------------------- MODULE CosiRound -----------------------------
(***************************************************************************)
(* One CoSi signing round on a fixed tree, at the level of control: which  *)
(* node is in which phase, which children a parent counted when it        *)
(* aggregated commitments, and, as ghost sets of nodes, whose commitment   *)
(* and whose response each aggregate contains.  A point aggregate is       *)
(* abstracted to the set of nodes it sums; the arithmetic is added on top  *)
(* of this module by Cosi.tla.                                             *)
(*                                                                         *)
(* The per-node engine is lib/cosi/cosi.go; the driver that moves the      *)
(* messages through the tree (announce down, commit up, challenge down,   *)
(* respond up) lives in the round code outside src/ and is modelled from   *)
(* spec.md 4.2: a parent aggregates the commitments that arrived before    *)
(* its commit deadline, forwards the challenge to all its children, and    *)
(* when it responds puts every counted child that did not answer into the  *)
(* exception list with its already known commitment.  Nodes may crash at  *)
(* any time and messages may be lost; a deadline may fire at any time.    *)
(***************************************************************************)
EXTENDS Naturals, FiniteSets

CONSTANTS
  Node,     \* the participants of the round
  Root,     \* the root of the tree for the round's view
  Parent,   \* the parent of every other node
  MaxFaults \* bound on crashes plus lost messages in one round

ASSUME RootAssumption == Root \in Node
ASSUME MaxFaultsAssumption == MaxFaults \in Nat
ASSUME ParentAssumption == Parent \in [Node \ {Root} -> Node]

Children(n) == {m \in Node \ {Root} : Parent[m] = n}

Phase == {"idle", "announced", "committed", "challenged", "responded", "failed"}

Message ==
       [type : {"ann", "chal"}, to : Node]
  \cup [type : {"com"}, from : Node, cset : SUBSET Node]
  \cup [type : {"resp"}, from : Node, rset : SUBSET Node, xset : SUBSET Node]

VARIABLES
  phase,     \* phase[n]: where node n is in the round
  alive,     \* alive[n]: FALSE once n has crashed
  counted,   \* counted[n]: children whose commitments n aggregated
  childSet,  \* childSet[n][c]: the commitment set n stored for child c (ChildV_hat)
  cset,      \* cset[n]: nodes whose commitment n's aggregate commitment sums
  rset,      \* rset[n]: nodes whose response n's aggregate response sums
  xset,      \* xset[n]: nodes n declares as exceptions (committed, not responded)
  msgs,      \* messages in flight
  faults     \* crashes and losses so far (bounded by MaxFaults)

vars == <<phase, alive, counted, childSet, cset, rset, xset, msgs, faults>>

TypeOK ==
  /\ phase \in [Node -> Phase]
  /\ alive \in [Node -> BOOLEAN]
  /\ counted \in [Node -> SUBSET Node]
  /\ childSet \in [Node -> [Node -> SUBSET Node]]
  /\ cset \in [Node -> SUBSET Node]
  /\ rset \in [Node -> SUBSET Node]
  /\ xset \in [Node -> SUBSET Node]
  /\ msgs \subseteq Message
  /\ faults \in 0..MaxFaults

(* A node has committed once its own commitment is in its aggregate.      *)
Committed(n) == n \in cset[n]

(* Commitment and response messages that reached n from the given nodes.  *)
ComFrom(n, S) == {m \in msgs : m.type = "com" /\ m.from \in S}
RespFrom(n, S) == {m \in msgs : m.type = "resp" /\ m.from \in S}

Init ==
  /\ phase = [n \in Node |-> "idle"]
  /\ alive = [n \in Node |-> TRUE]
  /\ counted = [n \in Node |-> {}]
  /\ childSet = [n \in Node |-> [c \in Node |-> {}]]
  /\ cset = [n \in Node |-> {}]
  /\ rset = [n \in Node |-> {}]
  /\ xset = [n \in Node |-> {}]
  /\ msgs = {}
  /\ faults = 0

-----------------------------------------------------------------------------
(* CreateAnnouncement: the root starts the round and pushes the           *)
(* announcement to its children.                                          *)
CreateAnnouncement ==
  /\ alive[Root]
  /\ phase[Root] = "idle"
  /\ phase' = [phase EXCEPT ![Root] = "announced"]
  /\ msgs' = msgs \cup {[type |-> "ann", to |-> c] : c \in Children(Root)}
  /\ UNCHANGED <<alive, counted, childSet, cset, rset, xset, faults>>

(* Announce: a node stores the announcement and relays it to its children. *)
Announce(n) ==
  /\ n # Root
  /\ alive[n]
  /\ phase[n] = "idle"
  /\ [type |-> "ann", to |-> n] \in msgs
  /\ phase' = [phase EXCEPT ![n] = "announced"]
  /\ msgs' = msgs \cup {[type |-> "ann", to |-> c] : c \in Children(n)}
  /\ UNCHANGED <<alive, counted, childSet, cset, rset, xset, faults>>

(* Commit: when all children's commitments are in, or when the commit     *)
(* deadline fires (at any time), the node generates its own commitment,   *)
(* aggregates the commitments that arrived, stores each child's one, and  *)
(* sends the result up.  A leaf does the same with no children            *)
(* (CreateCommitment).                                                    *)
(* Variant of Arrived: every child counts as arrived, whether or not its  *)
(* commitment came in (a parent that sizes its aggregate by the tree and  *)
(* not by the messages).                                                  *)
ArrivedAllChildren(n) == Children(n)

(* The children whose commitments reached n before it committed: the     *)
(* commitments the driver hands to Cosi.Commit.                          *)
Arrived(n) == {m.from : m \in ComFrom(n, Children(n))}

Commit(n) ==
  LET in == ComFrom(n, Children(n))
  IN /\ alive[n]
     /\ phase[n] = "announced"
     /\ phase' = [phase EXCEPT ![n] = "committed"]
     /\ counted' = [counted EXCEPT ![n] = Arrived(n)]
     /\ childSet' = [childSet EXCEPT ![n] =
                      [c \in Node |-> UNION {m.cset : m \in ComFrom(n, {c}) \cap in}]]
     /\ cset' = [cset EXCEPT ![n] = {n} \cup UNION {m.cset : m \in in}]
     /\ msgs' = IF n = Root THEN msgs
                ELSE msgs \cup {[type |-> "com", from |-> n, cset |-> cset'[n]]}
     /\ UNCHANGED <<alive, rset, xset, faults>>

(* CreateChallenge: the root derives the challenge from its aggregate and *)
(* sends it to all its children.                                          *)
CreateChallenge ==
  /\ alive[Root]
  /\ phase[Root] = "committed"
  /\ phase' = [phase EXCEPT ![Root] = "challenged"]
  /\ msgs' = msgs \cup {[type |-> "chal", to |-> c] : c \in Children(Root)}
  /\ UNCHANGED <<alive, counted, childSet, cset, rset, xset, faults>>

(* Challenge: a node stores the challenge and relays it to all its        *)
(* children.  Cosi.Challenge has no guard, so a node whose commit has not *)
(* happened yet (its parent timed it out) stores it too.                  *)
Challenge(n) ==
  /\ n # Root
  /\ alive[n]
  /\ phase[n] \in {"announced", "committed"}
  /\ [type |-> "chal", to |-> n] \in msgs
  /\ phase' = [phase EXCEPT ![n] = "challenged"]
  /\ msgs' = msgs \cup {[type |-> "chal", to |-> c] : c \in Children(n)}
  /\ UNCHANGED <<alive, counted, childSet, cset, rset, xset, faults>>

(* Respond: when all counted children answered, or when the response      *)
(* deadline fires, the node computes its response, adds the responses of  *)
(* the counted children that answered, takes over their exceptions and    *)
(* declares each counted child that did not answer an exception with the  *)
(* commitment it stored for it.  Responses of children it did not count   *)
(* are ignored.                                                           *)
(* Variants of Late: a parent that forgets its silent children, and one   *)
(* that declares every counted child an exception, answered or not.       *)
LateNone(n) == {}
LateAll(n) == counted[n]

(* The counted children whose response did not arrive before n responded. *)
Late(n) == counted[n] \ {m.from : m \in RespFrom(n, counted[n])}

Respond(n) ==
  LET in == RespFrom(n, counted[n])
      late == Late(n)
  IN /\ alive[n]
     /\ phase[n] = "challenged"
     /\ Committed(n)
     /\ phase' = [phase EXCEPT ![n] = "responded"]
     /\ rset' = [rset EXCEPT ![n] = {n} \cup UNION {m.rset : m \in in}]
     /\ xset' = [xset EXCEPT ![n] = (UNION {m.xset : m \in in})
                                     \cup (UNION {childSet[n][c] : c \in late})]
     /\ msgs' = IF n = Root THEN msgs
                ELSE msgs \cup {[type |-> "resp", from |-> n,
                                 rset |-> rset'[n], xset |-> xset'[n]]}
     /\ UNCHANGED <<alive, counted, childSet, cset, faults>>

(* genResponse fails with "No random secret computed" when the challenge  *)
(* reached a node that never committed: the node drops out of the round.  *)
RespondFails(n) ==
  /\ alive[n]
  /\ phase[n] = "challenged"
  /\ ~Committed(n)
  /\ phase' = [phase EXCEPT ![n] = "failed"]
  /\ UNCHANGED <<alive, counted, childSet, cset, rset, xset, msgs, faults>>

(* A node crashes: it takes no further step.                              *)
Crash(n) ==
  /\ faults < MaxFaults
  /\ alive[n]
  /\ alive' = [alive EXCEPT ![n] = FALSE]
  /\ faults' = faults + 1
  /\ UNCHANGED <<phase, counted, childSet, cset, rset, xset, msgs>>

(* The transport drops a message.                                         *)
Lose(m) ==
  /\ faults < MaxFaults
  /\ msgs' = msgs \ {m}
  /\ faults' = faults + 1
  /\ UNCHANGED <<phase, alive, counted, childSet, cset, rset, xset>>

Next ==
  \/ CreateAnnouncement
  \/ CreateChallenge
  \/ \E n \in Node : Announce(n) \/ Commit(n) \/ Challenge(n)
                     \/ Respond(n) \/ RespondFails(n) \/ Crash(n)
  \/ \E m \in msgs : Lose(m)

Spec == Init /\ [][Next]_vars

-----------------------------------------------------------------------------
(* Exception accounting: once a node has responded, every node whose       *)
(* commitment is in its aggregate commitment is either in its aggregate   *)
(* response or declared as an exception, and nothing else is.  This is    *)
(* what makes the exception-reduced verification equation hold; it is     *)
(* broken by a parent that adds the response of a child whose commitment  *)
(* came after its deadline, or that forgets a silent child.               *)
ExceptionAccounting ==
  \A n \in Node : phase[n] = "responded" => rset[n] \cup xset[n] = cset[n]

(* The inductive form of ExceptionAccounting.  A parent's view of a child *)
(* must agree with the child: every commitment message carries its        *)
(* sender's final aggregate set, every stored ChildV_hat is the child's    *)
(* aggregate, every response message carries its sender's final response  *)
(* and exception sets, a committed node's aggregate is its own commitment  *)
(* plus what it stored for the children it counted, and a node commits    *)
(* and responds at most once.  Broken when any of these views goes stale. *)
ComMsgInv ==
  \A m \in msgs : m.type = "com" => m.cset = cset[m.from] /\ Committed(m.from)

ChildSetInv ==
  \A n \in Node : \A c \in counted[n] : childSet[n][c] = cset[c] /\ Committed(c)

CsetInv ==
  \A n \in Node :
    Committed(n) => cset[n] = {n} \cup UNION {childSet[n][c] : c \in counted[n]}

PhaseInv ==
  \A n \in Node :
    /\ Committed(n) => phase[n] \in {"committed", "challenged", "responded", "failed"}
    /\ phase[n] = "responded" => Committed(n)

RespMsgInv ==
  \A m \in msgs : m.type = "resp" =>
    /\ m.rset = rset[m.from]
    /\ m.xset = xset[m.from]
    /\ phase[m.from] = "responded"

AccountingInv ==
  /\ TypeOK
  /\ ComMsgInv
  /\ ChildSetInv
  /\ CsetInv
  /\ PhaseInv
  /\ RespMsgInv
  /\ ExceptionAccounting

(* No node is counted twice: a responder is never also an exception.      *)
SignersDisjoint ==
  \A n \in Node : phase[n] = "responded" => rset[n] \cap xset[n] = {}

(* The inductive form of SignersDisjoint.  Aggregates are built bottom-up *)
(* and each only once: a node in another's aggregate has committed, and    *)
(* so has its parent, which is in that aggregate too; two aggregates are  *)
(* nested or disjoint; and a child a parent counted had committed before   *)
(* the parent did, so the parent is not in the child's aggregate.  The     *)
(* tree need not be acyclic: the order of the commits breaks any cycle.    *)
CsetClosedInv ==
  \A x, y \in Node :
    x \in cset[y] =>
      /\ Committed(x) /\ Committed(y)
      /\ x # y => x # Root /\ Parent[x] \in cset[y]

LaminarInv ==
  \A y, z \in Node :
    \/ cset[y] \cap cset[z] = {}
    \/ cset[y] \subseteq cset[z]
    \/ cset[z] \subseteq cset[y]

SiblingInv ==
  \A n \in Node : \A c \in counted[n] : c \in Children(n) /\ n \notin cset[c]

DisjointInv ==
  /\ AccountingInv /\ CsetClosedInv /\ LaminarInv /\ SiblingInv
  /\ SignersDisjoint

=============================================================================
