-------------------------- MODULE CosiRoundProofs --------------------------
(***************************************************************************)
(* Proofs about the CoSi round of CosiRound, for every tree and every      *)
(* fault budget: the type invariant, and the exception accounting of      *)
(* spec.md 4.2 (every contribution in the root's aggregate commitment is   *)
(* either in its aggregate response or an exception).                     *)
(***************************************************************************)
EXTENDS CosiRound, TLAPS

USE RootAssumption, MaxFaultsAssumption, ParentAssumption

LEMMA ChildrenType == \A n \in Node : Children(n) \subseteq Node
BY DEF Children

(* Every step of the round keeps the variables in their types.            *)
LEMMA TypeStep == TypeOK /\ [Next]_vars => TypeOK'
<1> SUFFICES ASSUME TypeOK, [Next]_vars PROVE TypeOK'
  OBVIOUS
<1>1. CASE CreateAnnouncement
  BY <1>1, ChildrenType DEF CreateAnnouncement, TypeOK, Message, Phase
<1>2. CASE CreateChallenge
  BY <1>2, ChildrenType DEF CreateChallenge, TypeOK, Message, Phase
<1>3. ASSUME NEW n \in Node, Announce(n) PROVE TypeOK'
  BY <1>3, ChildrenType DEF Announce, TypeOK, Message, Phase
<1>4. ASSUME NEW n \in Node, Commit(n) PROVE TypeOK'
  <2> DEFINE in == ComFrom(n, Children(n))
  <2>1. \A m \in in : m.from \in Node /\ m.cset \subseteq Node
    BY DEF ComFrom, TypeOK, Message
  <2>2. cset'[n] \subseteq Node
    BY <1>4, <2>1 DEF Commit, Arrived, TypeOK
  <2>3. QED
    BY <1>4, <2>1, <2>2 DEF Commit, Arrived, TypeOK, Message, Phase, ComFrom
<1>5. ASSUME NEW n \in Node, Challenge(n) PROVE TypeOK'
  BY <1>5, ChildrenType DEF Challenge, TypeOK, Message, Phase
<1>6. ASSUME NEW n \in Node, Respond(n) PROVE TypeOK'
  <2> DEFINE in == RespFrom(n, counted[n])
  <2>1. \A m \in in : m.rset \subseteq Node /\ m.xset \subseteq Node
    BY DEF RespFrom, TypeOK, Message
  <2>2. rset'[n] \subseteq Node
    BY <1>6, <2>1 DEF Respond, Late, TypeOK
  <2>3. \A c \in counted[n] : childSet[n][c] \subseteq Node
    BY DEF TypeOK
  <2>4. xset'[n] \subseteq Node
    <3>1. UNION {m.xset : m \in in} \subseteq Node
      BY <2>1
    <3>2. UNION {childSet[n][c] : c \in counted[n] \ {m.from : m \in in}} \subseteq Node
      BY <2>3
    <3>3. QED
      BY <1>6, <3>1, <3>2 DEF Respond, Late, TypeOK
  <2>5. rset' \in [Node -> SUBSET Node] /\ xset' \in [Node -> SUBSET Node]
    BY <1>6, <2>2, <2>4 DEF Respond, Late, TypeOK
  <2>6. msgs' \subseteq Message
    <3>1. [type |-> "resp", from |-> n, rset |-> rset'[n], xset |-> xset'[n]] \in Message
      BY <2>2, <2>4 DEF Message
    <3>2. QED
      BY <1>6, <3>1 DEF Respond, Late, TypeOK
  <2>7. phase' \in [Node -> Phase]
    BY <1>6 DEF Respond, Late, TypeOK, Phase
  <2>8. QED
    BY <1>6, <2>5, <2>6, <2>7 DEF Respond, Late, TypeOK
<1>7. ASSUME NEW n \in Node, RespondFails(n) PROVE TypeOK'
  BY <1>7 DEF RespondFails, TypeOK, Phase
<1>8. ASSUME NEW n \in Node, Crash(n) PROVE TypeOK'
  BY <1>8 DEF Crash, TypeOK
<1>9. ASSUME NEW m \in msgs, Lose(m) PROVE TypeOK'
  BY <1>9 DEF Lose, TypeOK
<1>10. CASE UNCHANGED vars
  BY <1>10 DEF vars, TypeOK
<1>11. QED
  BY <1>1, <1>2, <1>3, <1>4, <1>5, <1>6, <1>7, <1>8, <1>9, <1>10 DEF Next

(* The variables of the round always have their types (TypeOK).          *)
THEOREM TypeCorrect == Spec => []TypeOK
<1>1. Init => TypeOK
  BY DEF Init, TypeOK, Phase
<1>2. QED
  BY <1>1, TypeStep, PTL DEF Spec

-----------------------------------------------------------------------------
(* Exception accounting.  AccountingInv strengthens ExceptionAccounting    *)
(* with what a parent must know of its children for the accounting to hold *)
(* when it responds: ChildSetInv (its stored ChildV_hat of a counted child *)
(* is that child's aggregate), CsetInv (its own aggregate is its           *)
(* commitment plus those), RespMsgInv (a child's response message carries  *)
(* the child's final sets) and PhaseInv (a node commits and responds at    *)
(* most once, so these views never go stale).                              *)

(* The steps that only move phases forward and add announcement or        *)
(* challenge messages.                                                     *)
LEMMA PhaseOnlyStep ==
  ASSUME AccountingInv, TypeOK',
         NEW k \in Node,
         phase[k] \in {"idle", "announced", "committed", "challenged"},
         phase[k] \in {"idle", "announced"} => phase'[k] \in {"announced", "challenged"},
         phase[k] \in {"committed", "challenged"} => phase'[k] \in {"challenged", "failed"},
         phase[k] = "challenged" => ~Committed(k),
         \A j \in Node \ {k} : phase'[j] = phase[j],
         \A m \in msgs' \ msgs : m.type \in {"ann", "chal"},
         msgs \subseteq msgs',
         UNCHANGED <<counted, childSet, cset, rset, xset>>
  PROVE  AccountingInv'
<1> USE DEF AccountingInv
<1>1. ComMsgInv'
  BY DEF ComMsgInv, Committed
<1>2. ChildSetInv' /\ CsetInv'
  BY DEF ChildSetInv, CsetInv, Committed
<1>3. PhaseInv'
  BY DEF PhaseInv, Committed, TypeOK
<1>4. RespMsgInv'
  <2> SUFFICES ASSUME NEW m \in msgs', m.type = "resp"
               PROVE  m.rset = rset'[m.from] /\ m.xset = xset'[m.from]
                      /\ phase'[m.from] = "responded"
    BY DEF RespMsgInv
  <2>1. m \in msgs /\ m.from \in Node
    BY DEF TypeOK, Message
  <2>2. phase[m.from] = "responded" /\ m.rset = rset[m.from] /\ m.xset = xset[m.from]
    BY <2>1 DEF RespMsgInv
  <2>3. m.from # k
    BY <2>2
  <2>4. QED
    BY <2>1, <2>2, <2>3
<1>5. ExceptionAccounting'
  BY DEF ExceptionAccounting
<1>6. QED
  BY <1>1, <1>2, <1>3, <1>4, <1>5

(* Commit: the node has not committed before, so no message and no parent *)
(* refers to its aggregate yet, and what it stores for each counted child  *)
(* is that child's final aggregate.                                        *)
LEMMA CommitStep ==
  ASSUME AccountingInv, TypeOK', NEW n \in Node, Commit(n)
  PROVE  AccountingInv'
<1> DEFINE in == ComFrom(n, Children(n))
<1> USE DEF AccountingInv
<1>1. ~Committed(n) /\ phase[n] # "responded"
  BY DEF Commit, Arrived, PhaseInv
<1>2. \A m \in msgs : m.type = "com" => m.from # n
  BY <1>1 DEF ComMsgInv
<1>3. \A j \in Node : \A c \in counted[j] : c # n
  BY <1>1 DEF ChildSetInv
<1>4. \A j \in Node \ {n} : cset'[j] = cset[j] /\ counted'[j] = counted[j]
                           /\ childSet'[j] = childSet[j] /\ phase'[j] = phase[j]
  BY DEF Commit, Arrived, TypeOK
<1>5. cset'[n] = {n} \cup UNION {m.cset : m \in in}
  BY DEF Commit, Arrived, TypeOK
<1>6. \A m \in in : m \in msgs /\ m.type = "com" /\ m.from \in Node \ {n}
                    /\ m.cset = cset[m.from] /\ Committed(m.from)
  BY <1>2 DEF ComFrom, ComMsgInv, TypeOK, Message
<1>7. ComMsgInv'
  <2> SUFFICES ASSUME NEW m \in msgs', m.type = "com"
               PROVE  m.cset = cset'[m.from] /\ Committed(m.from)'
    BY DEF ComMsgInv
  <2>1. CASE m \in msgs
    <3>1. m.from \in Node \ {n} /\ m.cset = cset[m.from] /\ Committed(m.from)
      BY <2>1, <1>2 DEF ComMsgInv, TypeOK, Message
    <3>2. QED
      BY <3>1, <1>4 DEF Committed
  <2>2. CASE m \notin msgs
    <3>1. m = [type |-> "com", from |-> n, cset |-> cset'[n]]
      BY <2>2 DEF Commit, Arrived
    <3>2. QED
      BY <3>1, <1>5 DEF Committed
  <2>3. QED
    BY <2>1, <2>2
<1>8. ChildSetInv'
  <2> SUFFICES ASSUME NEW j \in Node, NEW c \in counted'[j]
               PROVE  childSet'[j][c] = cset'[c] /\ Committed(c)'
    BY DEF ChildSetInv
  <2>1. CASE j # n
    <3>1. c \in counted[j] /\ childSet'[j] = childSet[j]
      BY <2>1, <1>4
    <3>2. c \in Node \ {n}
      BY <3>1, <1>3 DEF TypeOK
    <3>3. cset'[c] = cset[c] /\ childSet[j][c] = cset[c] /\ c \in cset[c]
      BY <3>1, <3>2, <1>4 DEF ChildSetInv, Committed
    <3>4. QED
      BY <3>1, <3>3 DEF Committed
  <2>2. CASE j = n
    <3>1. PICK m0 \in in : m0.from = c
      BY <2>2 DEF Commit, Arrived, TypeOK
    <3>2. c \in Node \ {n} /\ cset'[c] = cset[c] /\ Committed(c)
      BY <3>1, <1>6, <1>4
    <3>3. childSet'[n][c] = UNION {m.cset : m \in ComFrom(n, {c}) \cap in}
      BY <3>2 DEF Commit, Arrived, TypeOK
    <3>4. \A m \in ComFrom(n, {c}) \cap in : m.cset = cset[c]
      BY <1>6 DEF ComFrom
    <3>5. m0 \in ComFrom(n, {c}) \cap in
      BY <3>1, <1>6 DEF ComFrom
    <3>6. childSet'[n][c] = cset[c]
      BY <3>3, <3>4, <3>5
    <3>7. QED
      BY <2>2, <3>2, <3>6 DEF Committed
  <2>3. QED
    BY <2>1, <2>2
<1>9. CsetInv'
  <2> SUFFICES ASSUME NEW j \in Node, Committed(j)'
               PROVE  cset'[j] = {j} \cup UNION {childSet'[j][c] : c \in counted'[j]}
    BY DEF CsetInv
  <2>1. CASE j # n
    BY <2>1, <1>4 DEF CsetInv, Committed
  <2>2. CASE j = n
    <3>1. counted'[n] = {m.from : m \in in}
      BY DEF Commit, Arrived, TypeOK
    <3>2. \A c \in Node : childSet'[n][c] = UNION {m.cset : m \in ComFrom(n, {c}) \cap in}
      BY DEF Commit, Arrived, TypeOK
    <3>3. \A c \in counted'[n] : c \in Node
      BY <3>1, <1>6
    <3>4. UNION {childSet'[n][c] : c \in counted'[n]} = UNION {m.cset : m \in in}
      BY <3>1, <3>2, <3>3 DEF ComFrom
    <3>5. QED
      BY <2>2, <1>5, <3>4
  <2>3. QED
    BY <2>1, <2>2
<1>10. PhaseInv'
  BY <1>4, <1>5 DEF PhaseInv, Committed, Commit, TypeOK
<1>11. RespMsgInv'
  <2> SUFFICES ASSUME NEW m \in msgs', m.type = "resp"
               PROVE  m.rset = rset'[m.from] /\ m.xset = xset'[m.from]
                      /\ phase'[m.from] = "responded"
    BY DEF RespMsgInv
  <2>1. m \in msgs /\ m.from \in Node
    BY DEF Commit, Arrived, TypeOK, Message
  <2>2. phase[m.from] = "responded" /\ m.rset = rset[m.from] /\ m.xset = xset[m.from]
    BY <2>1 DEF RespMsgInv
  <2>3. QED
    BY <2>1, <2>2, <1>1, <1>4 DEF Commit, Arrived
<1>12. ExceptionAccounting'
  BY <1>1, <1>4 DEF ExceptionAccounting, Commit
<1>13. QED
  BY <1>7, <1>8, <1>9, <1>10, <1>11, <1>12

(* Respond: each counted child either answered, and its response message  *)
(* accounts for its whole aggregate, or is late and its stored aggregate   *)
(* becomes exceptions; together they cover the parent's aggregate.         *)
LEMMA RespondStep ==
  ASSUME AccountingInv, TypeOK', NEW n \in Node, Respond(n)
  PROVE  AccountingInv'
<1> DEFINE in == RespFrom(n, counted[n])
           answered == {m.from : m \in in}
           late == counted[n] \ answered
<1> USE DEF AccountingInv
<1>1. phase[n] = "challenged" /\ Committed(n)
  BY DEF Respond, Late
<1>2. \A j \in Node \ {n} : rset'[j] = rset[j] /\ xset'[j] = xset[j] /\ phase'[j] = phase[j]
  BY DEF Respond, Late, TypeOK
<1>3. rset'[n] = {n} \cup UNION {m.rset : m \in in}
  BY DEF Respond, Late, TypeOK
<1>4. xset'[n] = (UNION {m.xset : m \in in}) \cup (UNION {childSet[n][c] : c \in late})
  BY DEF Respond, Late, TypeOK
<1>5. UNCHANGED <<counted, childSet, cset>>
  BY DEF Respond, Late
<1>6. ComMsgInv' /\ ChildSetInv' /\ CsetInv'
  <2>1. \A m \in msgs' : m.type = "com" => m \in msgs
    BY DEF Respond, Late
  <2>2. QED
    BY <1>5, <2>1 DEF ComMsgInv, ChildSetInv, CsetInv, Committed
<1>7. PhaseInv'
  BY <1>1, <1>2, <1>5 DEF PhaseInv, Committed, Respond, TypeOK
<1>8. RespMsgInv'
  <2> SUFFICES ASSUME NEW m \in msgs', m.type = "resp"
               PROVE  m.rset = rset'[m.from] /\ m.xset = xset'[m.from]
                      /\ phase'[m.from] = "responded"
    BY DEF RespMsgInv
  <2>1. CASE m \in msgs
    <3>1. m.from \in Node /\ phase[m.from] = "responded"
          /\ m.rset = rset[m.from] /\ m.xset = xset[m.from]
      BY <2>1 DEF RespMsgInv, TypeOK, Message
    <3>2. QED
      BY <3>1, <1>1, <1>2
  <2>2. CASE m \notin msgs
    <3>1. m = [type |-> "resp", from |-> n, rset |-> rset'[n], xset |-> xset'[n]]
      BY <2>2 DEF Respond, Late
    <3>2. phase'[n] = "responded"
      BY DEF Respond, Late, TypeOK
    <3>3. QED
      BY <3>1, <3>2
  <2>3. QED
    BY <2>1, <2>2
<1>9. ExceptionAccounting'
  <2> SUFFICES rset'[n] \cup xset'[n] = cset[n]
    BY <1>2, <1>5 DEF ExceptionAccounting
  <2>1. \A m \in in : m.from \in counted[n] /\ m.rset \cup m.xset = childSet[n][m.from]
    <3> SUFFICES ASSUME NEW m \in in
                 PROVE  m.from \in counted[n] /\ m.rset \cup m.xset = childSet[n][m.from]
      OBVIOUS
    <3>1. m \in msgs /\ m.type = "resp" /\ m.from \in counted[n] /\ m.from \in Node
      BY DEF RespFrom, TypeOK, Message
    <3>2. m.rset = rset[m.from] /\ m.xset = xset[m.from] /\ phase[m.from] = "responded"
      BY <3>1 DEF RespMsgInv
    <3>3. rset[m.from] \cup xset[m.from] = cset[m.from]
      BY <3>1, <3>2 DEF ExceptionAccounting
    <3>4. childSet[n][m.from] = cset[m.from]
      BY <3>1 DEF ChildSetInv
    <3>5. QED
      BY <3>1, <3>2, <3>3, <3>4
  <2>2. (UNION {m.rset : m \in in}) \cup (UNION {m.xset : m \in in})
          = UNION {childSet[n][c] : c \in answered}
    BY <2>1
  <2>3. answered \subseteq counted[n]
    BY <2>1
  <2>4. (UNION {childSet[n][c] : c \in answered}) \cup (UNION {childSet[n][c] : c \in late})
          = UNION {childSet[n][c] : c \in counted[n]}
    BY <2>3
  <2>5. cset[n] = {n} \cup UNION {childSet[n][c] : c \in counted[n]}
    BY <1>1 DEF CsetInv
  <2>6. QED
    BY <1>3, <1>4, <2>2, <2>4, <2>5
<1>10. QED
  BY <1>6, <1>7, <1>8, <1>9

(* AccountingInv is inductive.                                             *)
LEMMA AccountingStep == AccountingInv /\ [Next]_vars => AccountingInv'
<1> SUFFICES ASSUME AccountingInv, [Next]_vars PROVE AccountingInv'
  OBVIOUS
<1>1. TypeOK'
  BY TypeStep DEF AccountingInv
<1>2. CASE CreateAnnouncement
  <2>1. \A m \in msgs' \ msgs : m.type \in {"ann", "chal"}
    BY <1>2 DEF CreateAnnouncement
  <2>2. QED
    BY <1>1, <1>2, <2>1, PhaseOnlyStep, RootAssumption
       DEF CreateAnnouncement, AccountingInv, TypeOK
<1>3. CASE CreateChallenge
  <2>1. \A m \in msgs' \ msgs : m.type \in {"ann", "chal"}
    BY <1>3 DEF CreateChallenge
  <2>2. QED
    BY <1>1, <1>3, <2>1, PhaseOnlyStep, RootAssumption
       DEF CreateChallenge, AccountingInv, TypeOK
<1>4. ASSUME NEW n \in Node, Announce(n) PROVE AccountingInv'
  <2>1. \A m \in msgs' \ msgs : m.type \in {"ann", "chal"}
    BY <1>4 DEF Announce
  <2>2. QED
    BY <1>1, <1>4, <2>1, PhaseOnlyStep DEF Announce, AccountingInv, TypeOK
<1>5. ASSUME NEW n \in Node, Challenge(n) PROVE AccountingInv'
  <2>1. \A m \in msgs' \ msgs : m.type \in {"ann", "chal"}
    BY <1>5 DEF Challenge
  <2>2. QED
    BY <1>1, <1>5, <2>1, PhaseOnlyStep DEF Challenge, AccountingInv, TypeOK
<1>6. ASSUME NEW n \in Node, RespondFails(n) PROVE AccountingInv'
  BY <1>1, <1>6, PhaseOnlyStep DEF RespondFails, AccountingInv, TypeOK
<1>7. ASSUME NEW n \in Node, Commit(n) PROVE AccountingInv'
  BY <1>1, <1>7, CommitStep
<1>8. ASSUME NEW n \in Node, Respond(n) PROVE AccountingInv'
  BY <1>1, <1>8, RespondStep
<1>9. ASSUME NEW n \in Node, Crash(n) PROVE AccountingInv'
  BY <1>1, <1>9 DEF Crash, AccountingInv, ComMsgInv, ChildSetInv, CsetInv,
                    PhaseInv, RespMsgInv, ExceptionAccounting, Committed
<1>10. ASSUME NEW m \in msgs, Lose(m) PROVE AccountingInv'
  BY <1>1, <1>10 DEF Lose, AccountingInv, ComMsgInv, ChildSetInv, CsetInv,
                     PhaseInv, RespMsgInv, ExceptionAccounting, Committed
<1>11. CASE UNCHANGED vars
  BY <1>1, <1>11 DEF vars, AccountingInv, ComMsgInv, ChildSetInv, CsetInv,
                     PhaseInv, RespMsgInv, ExceptionAccounting, Committed
<1>12. QED
  BY <1>2, <1>3, <1>4, <1>5, <1>6, <1>7, <1>8, <1>9, <1>10, <1>11 DEF Next

(* Exception accounting holds in every reachable state, for every tree    *)
(* (any Parent function, cycles included) and every fault budget: when a  *)
(* node responds, every commitment in its aggregate is either in its       *)
(* aggregate response or declared an exception (the response deadline of  *)
(* the driver and the late-child exceptions of spec.md 4.2).               *)
THEOREM ExceptionAccountingThm == Spec => []ExceptionAccounting
<1>1. Init => AccountingInv
  BY DEF Init, AccountingInv, TypeOK, Phase, ComMsgInv, ChildSetInv, CsetInv,
         PhaseInv, RespMsgInv, ExceptionAccounting, Committed
<1>2. AccountingInv => ExceptionAccounting
  BY DEF AccountingInv
<1>3. QED
  BY <1>1, <1>2, AccountingStep, PTL DEF Spec

(* AccountingInv holds in every reachable state, for every Parent         *)
(* function and fault budget: the commitment and response messages a      *)
(* parent reads, and the ChildV_hat it stored in handleCommit, agree with  *)
(* the child's own final sets, and a committed node's aggregate is its     *)
(* own commitment plus what it stored for the children it counted.         *)
THEOREM AccountingInvariant == Spec => []AccountingInv
<1>1. Init => AccountingInv
  BY DEF Init, AccountingInv, TypeOK, Phase, ComMsgInv, ChildSetInv, CsetInv,
         PhaseInv, RespMsgInv, ExceptionAccounting, Committed
<1>2. QED
  BY <1>1, AccountingStep, PTL DEF Spec

-----------------------------------------------------------------------------
(***************************************************************************)
(* Signers and exceptions are disjoint.  The argument needs no acyclicity  *)
(* of Parent: a node commits only once and only after the children it      *)
(* counts, so the commit order breaks any cycle.  Csets are closed under   *)
(* Parent (CsetClosedInv) and form a laminar family (LaminarInv), and a    *)
(* counted child's cset never holds its parent (SiblingInv); together they *)
(* make the csets of two counted siblings disjoint, which is what Respond  *)
(* needs to keep each node's signers apart from its exceptions.            *)
(***************************************************************************)
DisjointExtra == CsetClosedInv /\ LaminarInv /\ SiblingInv /\ SignersDisjoint

(* Two children a node counted have disjoint commitment sets.              *)
LEMMA SiblingsDisjoint ==
  ASSUME AccountingInv, DisjointExtra, NEW n \in Node,
         NEW c1 \in counted[n], NEW c2 \in counted[n], c1 # c2
  PROVE  cset[c1] \cap cset[c2] = {}
<1>1. c1 \in Node /\ c2 \in Node /\ Committed(c1) /\ Committed(c2)
  BY DEF AccountingInv, TypeOK, ChildSetInv
<1>2. /\ c1 \in Children(n) /\ c2 \in Children(n)
      /\ n \notin cset[c1] /\ n \notin cset[c2]
  BY DEF DisjointExtra, SiblingInv
<1>3. ASSUME NEW a \in {c1, c2}, NEW b \in {c1, c2}, a # b,
             cset[a] \subseteq cset[b]
      PROVE  FALSE
  <2>1. a \in cset[b] /\ a \in Node /\ b \in Node
    BY <1>1, <1>3 DEF Committed
  <2>2. Parent[a] \in cset[b]
    BY <2>1, <1>3 DEF DisjointExtra, CsetClosedInv
  <2>3. Parent[a] = n /\ n \notin cset[b]
    BY <1>2, <1>3 DEF Children
  <2>4. QED
    BY <2>2, <2>3
<1>4. QED
  BY <1>1, <1>3 DEF DisjointExtra, LaminarInv

(* A step that touches no set and makes no node respond.                   *)
LEMMA QuietDisjointStep ==
  ASSUME DisjointExtra, UNCHANGED <<counted, cset, rset, xset>>,
         \A n \in Node : phase'[n] = "responded" => phase[n] = "responded"
  PROVE  DisjointExtra'
BY DEF DisjointExtra, CsetClosedInv, LaminarInv, SiblingInv, SignersDisjoint,
       Committed

(* Commit: the committing node is in no cset yet, so its new cset adds it  *)
(* above the csets of its arrived children and breaks no earlier set.     *)
LEMMA CommitDisjointStep ==
  ASSUME AccountingInv, DisjointExtra, NEW z \in Node, Commit(z)
  PROVE  DisjointExtra'
<1> DEFINE A == Arrived(z)
<1>1. \A y \in Node : z \notin cset[y]
  <2>1. ~Committed(z)
    BY DEF Commit, AccountingInv, PhaseInv
  <2>2. QED
    BY <2>1 DEF DisjointExtra, CsetClosedInv
<1>2. \A j \in Node \ {z} : cset'[j] = cset[j] /\ counted'[j] = counted[j]
  BY DEF Commit, AccountingInv, TypeOK
<1>3. counted'[z] = A
  BY DEF Commit, AccountingInv, TypeOK
<1>4. \A k \in A : k \in Children(z) /\ k \in Node \ {z} /\ Committed(k)
  BY <1>1 DEF Arrived, ComFrom, AccountingInv, ComMsgInv, Children, Committed
<1>5. cset'[z] = {z} \cup UNION {cset[k] : k \in A}
  <2>1. cset'[z] = {z} \cup UNION {m.cset : m \in ComFrom(z, Children(z))}
    BY DEF Commit, AccountingInv, TypeOK
  <2>2. \A m \in ComFrom(z, Children(z)) : m.cset = cset[m.from]
    BY DEF ComFrom, AccountingInv, ComMsgInv
  <2>3. QED
    BY <2>1, <2>2 DEF Arrived
<1>6. \A x \in Node \ {z} : Committed(x) => Committed(x)'
  BY <1>2 DEF Committed
<1>7. CsetClosedInv'
  <2> SUFFICES ASSUME NEW x \in Node, NEW y \in Node, x \in cset'[y]
               PROVE  /\ Committed(x)' /\ Committed(y)'
                      /\ x # y => x # Root /\ Parent[x] \in cset'[y]
    BY DEF CsetClosedInv
  <2>1. CASE y # z
    <3>1. /\ x \in cset[y] /\ Committed(x) /\ Committed(y)
          /\ x # y => x # Root /\ Parent[x] \in cset[y]
      BY <2>1, <1>2 DEF DisjointExtra, CsetClosedInv
    <3>2. x # z
      BY <3>1, <1>1
    <3>3. QED
      BY <3>1, <3>2, <2>1, <1>2, <1>6
  <2>2. CASE y = z /\ x = z
    BY <2>2, <1>5 DEF Committed
  <2>3. CASE y = z /\ x # z
    <3>1. PICK k \in A : x \in cset[k]
      BY <2>3, <1>5
    <3>2. k \in Node /\ Committed(x)' /\ Committed(z)'
      BY <3>1, <1>4, <1>5, <1>6, <2>3 DEF DisjointExtra, CsetClosedInv, Committed
    <3>3. CASE x = k
      BY <3>2, <3>3, <1>4, <1>5, <2>3 DEF Children
    <3>4. CASE x # k
      BY <3>1, <3>2, <3>4, <1>5, <2>3 DEF DisjointExtra, CsetClosedInv
    <3>5. QED
      BY <3>3, <3>4
  <2>4. QED
    BY <2>1, <2>2, <2>3
<1>8. LaminarInv'
  <2>1. ASSUME NEW w \in Node \ {z}, cset[w] \cap cset'[z] # {}
        PROVE  cset[w] \subseteq cset'[z]
    <3>1. PICK k \in A : cset[w] \cap cset[k] # {}
      BY <2>1, <1>1, <1>5
    <3>2. k \in Node /\ k \in cset[k] /\ Parent[k] = z
      BY <1>4 DEF Committed, Children
    <3>3. CASE cset[w] \subseteq cset[k]
      BY <3>3, <1>5
    <3>4. CASE cset[k] \subseteq cset[w] /\ k = w
      BY <3>4, <1>5
    <3>5. CASE cset[k] \subseteq cset[w] /\ k # w
      <4>1. Parent[k] \in cset[w]
        BY <3>2, <3>5 DEF DisjointExtra, CsetClosedInv
      <4>2. QED
        BY <4>1, <3>2, <1>1
    <3>6. QED
      BY <3>1, <3>2, <3>3, <3>4, <3>5 DEF DisjointExtra, LaminarInv
  <2>2. QED
    BY <2>1, <1>2 DEF DisjointExtra, LaminarInv
<1>9. SiblingInv'
  <2> SUFFICES ASSUME NEW n \in Node, NEW c \in counted'[n]
               PROVE  c \in Children(n) /\ n \notin cset'[c]
    BY DEF SiblingInv
  <2>1. CASE n = z
    BY <2>1, <1>1, <1>3, <1>4, <1>2
  <2>2. CASE n # z
    <3>1. c \in counted[n] /\ c \in Children(n) /\ n \notin cset[c]
      BY <2>2, <1>2 DEF DisjointExtra, SiblingInv
    <3>2. c \in Node \ {z}
      BY <3>1, <1>1 DEF AccountingInv, ChildSetInv, Committed, TypeOK
    <3>3. QED
      BY <3>1, <3>2, <1>2
  <2>3. QED
    BY <2>1, <2>2
<1>10. SignersDisjoint'
  <2>1. /\ \A j \in Node \ {z} : phase'[j] = phase[j]
        /\ phase'[z] = "committed"
        /\ UNCHANGED <<rset, xset>>
    BY DEF Commit, AccountingInv, TypeOK
  <2>2. QED
    BY <2>1 DEF DisjointExtra, SignersDisjoint
<1>11. QED
  BY <1>7, <1>8, <1>9, <1>10 DEF DisjointExtra

(* Respond: the signers a node gathers from its answering children and    *)
(* the exceptions it takes from them and from its late children lie in    *)
(* pairwise disjoint csets of counted siblings, and the node itself is in  *)
(* none of them.                                                           *)
LEMMA RespondDisjointStep ==
  ASSUME AccountingInv, DisjointExtra, NEW n \in Node, Respond(n)
  PROVE  DisjointExtra'
<1> DEFINE in == RespFrom(n, counted[n])
           answered == {m.from : m \in in}
           late == Late(n)
           R == UNION {rset[a] : a \in answered}
           X == UNION {xset[a] : a \in answered}
           L == UNION {cset[c] : c \in late}
<1>1. UNCHANGED <<counted, childSet, cset>>
  BY DEF Respond
<1>2. \A j \in Node \ {n} : rset'[j] = rset[j] /\ xset'[j] = xset[j]
                           /\ phase'[j] = phase[j]
  BY DEF Respond, AccountingInv, TypeOK
<1>3. CsetClosedInv' /\ LaminarInv' /\ SiblingInv'
  BY <1>1 DEF DisjointExtra, CsetClosedInv, LaminarInv, SiblingInv, Committed
<1>4. \A m \in in : /\ m.from \in counted[n]
                    /\ m.rset = rset[m.from] /\ m.xset = xset[m.from]
                    /\ phase[m.from] = "responded"
  BY DEF RespFrom, AccountingInv, RespMsgInv
<1>5. \A a \in answered : /\ a \in counted[n] /\ a \in Node
                          /\ rset[a] \cup xset[a] = cset[a]
                          /\ rset[a] \cap xset[a] = {}
  BY <1>4 DEF AccountingInv, ExceptionAccounting, TypeOK, DisjointExtra,
              SignersDisjoint
<1>6. rset'[n] = {n} \cup R
  <2>1. rset'[n] = {n} \cup UNION {m.rset : m \in in}
    BY DEF Respond, AccountingInv, TypeOK
  <2>2. UNION {m.rset : m \in in} = R
    BY <1>4
  <2>3. QED
    BY <2>1, <2>2
<1>7. late \subseteq counted[n] /\ late \cap answered = {}
  BY DEF Late
<1>8. xset'[n] = X \cup L
  <2>1. xset'[n] = (UNION {m.xset : m \in in}) \cup (UNION {childSet[n][c] : c \in late})
    BY DEF Respond, AccountingInv, TypeOK
  <2>2. \A c \in late : childSet[n][c] = cset[c]
    BY <1>7 DEF AccountingInv, ChildSetInv
  <2>3. QED
    BY <2>1, <2>2, <1>4
<1>9. \A c \in counted[n] : n \notin cset[c]
  BY DEF DisjointExtra, SiblingInv
<1>10. n \notin X \cup L
  BY <1>5, <1>7, <1>9
<1>11. R \cap X = {}
  <2> SUFFICES ASSUME NEW a \in answered, NEW b \in answered
               PROVE  rset[a] \cap xset[b] = {}
    OBVIOUS
  <2>1. CASE a = b
    BY <2>1, <1>5
  <2>2. CASE a # b
    <3>1. cset[a] \cap cset[b] = {}
      BY <2>2, <1>5, SiblingsDisjoint
    <3>2. QED
      BY <3>1, <1>5
  <2>3. QED
    BY <2>1, <2>2
<1>12. R \cap L = {}
  <2> SUFFICES ASSUME NEW a \in answered, NEW c \in late
               PROVE  rset[a] \cap cset[c] = {}
    OBVIOUS
  <2>1. a # c /\ c \in counted[n]
    BY <1>7
  <2>2. cset[a] \cap cset[c] = {}
    BY <2>1, <1>5, SiblingsDisjoint
  <2>3. QED
    BY <2>2, <1>5
<1>13. rset'[n] \cap xset'[n] = {}
  BY <1>6, <1>8, <1>10, <1>11, <1>12
<1>14. SignersDisjoint'
  BY <1>2, <1>13 DEF SignersDisjoint, DisjointExtra
<1>15. QED
  BY <1>3, <1>14 DEF DisjointExtra

(* Every step keeps the disjointness invariants, given the accounting     *)
(* invariant before and after it.                                          *)
LEMMA DisjointStep ==
  AccountingInv /\ AccountingInv' /\ DisjointExtra /\ [Next]_vars => DisjointExtra'
<1> SUFFICES ASSUME AccountingInv, AccountingInv', DisjointExtra, [Next]_vars
             PROVE  DisjointExtra'
  OBVIOUS
<1>1. TypeOK /\ TypeOK'
  BY DEF AccountingInv
<1>2. CASE CreateAnnouncement
  BY <1>1, <1>2, QuietDisjointStep, RootAssumption DEF CreateAnnouncement, TypeOK
<1>3. CASE CreateChallenge
  BY <1>1, <1>3, QuietDisjointStep, RootAssumption DEF CreateChallenge, TypeOK
<1>4. ASSUME NEW n \in Node, Announce(n) PROVE DisjointExtra'
  BY <1>1, <1>4, QuietDisjointStep DEF Announce, TypeOK
<1>5. ASSUME NEW n \in Node, Challenge(n) PROVE DisjointExtra'
  BY <1>1, <1>5, QuietDisjointStep DEF Challenge, TypeOK
<1>6. ASSUME NEW n \in Node, RespondFails(n) PROVE DisjointExtra'
  BY <1>1, <1>6, QuietDisjointStep DEF RespondFails, TypeOK
<1>7. ASSUME NEW n \in Node, Crash(n) PROVE DisjointExtra'
  BY <1>7, QuietDisjointStep DEF Crash
<1>8. ASSUME NEW m \in msgs, Lose(m) PROVE DisjointExtra'
  BY <1>8, QuietDisjointStep DEF Lose
<1>9. ASSUME NEW n \in Node, Commit(n) PROVE DisjointExtra'
  BY <1>9, CommitDisjointStep
<1>10. ASSUME NEW n \in Node, Respond(n) PROVE DisjointExtra'
  BY <1>10, RespondDisjointStep
<1>11. CASE UNCHANGED vars
  BY <1>11, QuietDisjointStep DEF vars
<1>12. QED
  BY <1>2, <1>3, <1>4, <1>5, <1>6, <1>7, <1>8, <1>9, <1>10, <1>11 DEF Next

(* DisjointInv holds in every reachable state, for every Parent function  *)
(* (cycles included) and every fault budget.                               *)
THEOREM DisjointInvariant == Spec => []DisjointInv
<1>1. Init => DisjointExtra
  BY DEF Init, DisjointExtra, CsetClosedInv, LaminarInv, SiblingInv,
         SignersDisjoint
<1>2. Spec => []DisjointExtra
  BY <1>1, AccountingInvariant, DisjointStep, PTL DEF Spec
<1>3. QED
  BY <1>2, AccountingInvariant, PTL DEF DisjointInv, DisjointExtra

(* When a node responds, no node is both in its aggregate response and    *)
(* declared an exception (spec.md 4.2): a signer is never also excused,   *)
(* whatever the tree, the crashes and the lost messages.                   *)
THEOREM SignersDisjointThm == Spec => []SignersDisjoint
BY DisjointInvariant, PTL DEF DisjointInv

=============================================================================
