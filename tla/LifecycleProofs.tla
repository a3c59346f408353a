-------------------------- MODULE LifecycleProofs ---------------------------
(***************************************************************************)
(* Proofs about the round-lifecycle driver (lib/conode/peer.go,            *)
(* lib/sign/nodeutils.go), for any set of nodes, any root assignment of    *)
(* the views, any round budget and any number of vote handlers.            *)
(*                                                                         *)
(* TypeOK is not inductive: CloseChan stays within its capacity only      *)
(* because Node.Listen returns once (CloseChanInv), and a firing timer    *)
(* proposes hb[n] + 1 only because a pending timer is a non-nil one       *)
(* (ArmedInv).                                                             *)
(***************************************************************************)
EXTENDS Lifecycle, TLAPS

USE LifecycleAssumption

(* A tick: with the budget spent the ticker stops and a root sends         *)
(* CloseAll; otherwise the root of the node's view starts a round, which   *)
(* records the round and announces it in that view.                       *)
LEMMA TickStep ==
  ASSUME LifecycleInv, NEW n \in Node, Tick(n)
  PROVE  LifecycleInv'
<1> USE DEF LifecycleInv
<1>1. UNCHANGED <<view, hb, armed, proposed, vcPending, closeChan, listening,
                  loopDone, lsv, loaded, hv>>
  BY DEF Tick
<1>2. CASE BudgetSpent(n)
  <2>1. /\ ticking' = [ticking EXCEPT ![n] = FALSE]
        /\ closeSent' = CloseAllIfRoot(n)
        /\ UNCHANGED <<lastRound, ann, started>>
    BY <1>2 DEF Tick
  <2>2. QED
    BY <1>1, <2>1 DEF TypeOK, CloseChanInv, ArmedInv, CloseAllIfRoot
<1>3. CASE ~BudgetSpent(n)
  <2>1. /\ IsRoot(n)
        /\ lastRound' = [lastRound EXCEPT ![n] = @ + 1]
        /\ ann' = ann \cup {[to |-> m, view |-> view[n]] : m \in Node \ {n}}
        /\ started' = started \cup {<<n, view[n]>>}
        /\ UNCHANGED <<ticking, closeSent>>
    BY <1>3 DEF Tick
  <2>2. view[n] \in Views /\ lastRound[n] < Rounds
    BY <1>3, <2>1 DEF TypeOK, BudgetSpent
  <2>3. TypeOK'
    BY <1>1, <2>1, <2>2 DEF TypeOK
  <2>4. QED
    BY <1>1, <2>1, <2>3 DEF CloseChanInv, ArmedInv
<1>4. QED
  BY <1>2, <1>3

(* ReceivedHeartbeat re-arms a non-nil timer with the view of the         *)
(* announcement it consumes, and leaves a nil one alone.                   *)
LEMMA ReceivedHeartbeatStep ==
  ASSUME LifecycleInv, NEW m \in ann, ReceivedHeartbeat(m)
  PROVE  LifecycleInv'
<1> USE DEF LifecycleInv
<1>1. m.to \in Node /\ m.view \in Views
  BY DEF TypeOK
<1>2. UNCHANGED <<view, ticking, lastRound, proposed, vcPending, closeSent,
                  closeChan, listening, loopDone, started, lsv, loaded, hv>>
  BY DEF ReceivedHeartbeat
<1>3. ann' = ann \ {m}
  BY DEF ReceivedHeartbeat
<1>4. CASE hb[m.to] = Off
  <2>1. hb' = hb /\ armed' = armed
    BY <1>4 DEF ReceivedHeartbeat
  <2>2. QED
    BY <1>2, <1>3, <2>1 DEF TypeOK, CloseChanInv, ArmedInv
<1>5. CASE hb[m.to] # Off
  <2>1. /\ hb' = [hb EXCEPT ![m.to] = m.view]
        /\ armed' = [armed EXCEPT ![m.to] = TRUE]
    BY <1>5 DEF ReceivedHeartbeat
  <2>2. TypeOK'
    BY <1>1, <1>2, <1>3, <2>1 DEF TypeOK
  <2>3. ArmedInv'
    BY <1>1, <2>1 DEF ArmedInv, TypeOK
  <2>4. QED
    BY <1>2, <2>2, <2>3 DEF CloseChanInv
<1>6. QED
  BY <1>4, <1>5

(* The AfterFunc proposes the next view of the one it was armed with; the *)
(* timer stays in sn.heartbeat, no longer pending.                         *)
LEMMA HeartbeatFiresStep ==
  ASSUME LifecycleInv, NEW n \in Node, HeartbeatFires(n)
  PROVE  LifecycleInv'
<1> USE DEF LifecycleInv
<1>1. /\ armed[n] /\ hb[n] < MaxView
      /\ proposed' = proposed \cup {<<n, hb[n] + 1>>}
      /\ armed' = [armed EXCEPT ![n] = FALSE]
      /\ UNCHANGED <<view, ticking, lastRound, hb, ann, vcPending, closeSent,
                     closeChan, listening, loopDone, started, lsv, loaded, hv>>
  BY DEF HeartbeatFires
<1>2. hb[n] \in Views
  BY <1>1 DEF ArmedInv
<1>3. hb[n] + 1 \in Views
  BY <1>1, <1>2 DEF Views
<1>4. QED
  BY <1>1, <1>3 DEF TypeOK, CloseChanInv, ArmedInv

(* ListenReturns: the Listen goroutine and Close put two values on        *)
(* CloseChan, once.                                                        *)
LEMMA ListenReturnsStep ==
  ASSUME LifecycleInv, NEW n \in Node, ListenReturns(n)
  PROVE  LifecycleInv'
<1> USE DEF LifecycleInv
<1>1. /\ listening[n]
      /\ listening' = [listening EXCEPT ![n] = FALSE]
      /\ closeChan' = [closeChan EXCEPT ![n] = @ + 2]
      /\ UNCHANGED <<view, ticking, lastRound, hb, armed, ann, proposed,
                     vcPending, closeSent, loopDone, started, lsv, loaded, hv>>
  BY DEF ListenReturns
<1>2. closeChan[n] = 0
  BY <1>1 DEF CloseChanInv, TypeOK
<1>3. QED
  BY <1>1, <1>2 DEF TypeOK, CloseChanInv, ArmedInv

(* The remaining steps touch no heartbeat timer or CloseChan send.        *)
LEMMA OtherSteps ==
  ASSUME LifecycleInv,
         \/ \E n \in Node : LoopViewChange(n) \/ LoopClose(n) \/ ChangeView(n)
         \/ \E m \in ann : LoseAnn(m)
         \/ \E h \in Handlers : VoteLoad(h) \/ VoteStore(h)
  PROVE  LifecycleInv'
<1> USE DEF LifecycleInv
<1>1. ASSUME NEW n \in Node, LoopViewChange(n) PROVE LifecycleInv'
  BY <1>1 DEF LoopViewChange, TypeOK, CloseChanInv, ArmedInv
<1>2. ASSUME NEW n \in Node, LoopClose(n) PROVE LifecycleInv'
  BY <1>2 DEF LoopClose, TypeOK, CloseChanInv, ArmedInv
<1>3. ASSUME NEW n \in Node, ChangeView(n) PROVE LifecycleInv'
  BY <1>3 DEF ChangeView, TypeOK, CloseChanInv, ArmedInv
<1>4. ASSUME NEW m \in ann, LoseAnn(m) PROVE LifecycleInv'
  BY <1>4 DEF LoseAnn, TypeOK, CloseChanInv, ArmedInv
<1>5. ASSUME NEW h \in Handlers, VoteLoad(h) PROVE LifecycleInv'
  BY <1>5 DEF VoteLoad, TypeOK, CloseChanInv, ArmedInv
<1>6. ASSUME NEW h \in Handlers, VoteStore(h) PROVE LifecycleInv'
  BY <1>6 DEF VoteStore, TypeOK, CloseChanInv, ArmedInv
<1>7. QED
  BY <1>1, <1>2, <1>3, <1>4, <1>5, <1>6

-----------------------------------------------------------------------------

(* The inductive invariant holds initially and is kept by every step of   *)
(* LoopRounds, the heartbeat timers, ChangeView and updateLastSeenVote.    *)
LEMMA LifecycleInvariant == Spec => []LifecycleInv
<1>1. Init => LifecycleInv
  <2> SUFFICES ASSUME Init PROVE LifecycleInv
    OBVIOUS
  <2>1. 0 \in Views /\ RootFor[0] \in Node
    BY DEF Views
  <2>2. TypeOK
    <3>1. /\ view \in [Node -> Views] /\ ticking \in [Node -> BOOLEAN]
          /\ lastRound \in [Node -> 0 .. Rounds] /\ hb \in [Node -> Views \cup {Off}]
          /\ armed \in [Node -> BOOLEAN]
      BY <2>1 DEF Init
    <3>2. /\ ann \subseteq [to : Node, view : Views] /\ proposed \subseteq Node \X Views
          /\ started \subseteq Node \X Views
      BY DEF Init
    <3>3. /\ vcPending \in [Node -> BOOLEAN] /\ closeSent \in BOOLEAN
          /\ listening \in [Node -> BOOLEAN] /\ loopDone \in [Node -> BOOLEAN]
      BY DEF Init
    <3>4. closeChan \in [Node -> 0 .. 5]
      BY DEF Init
    <3>5. /\ lsv \in 0 .. MaxVote /\ loaded \in [Handlers -> (0 .. MaxVote) \cup {Off}]
          /\ hv \in [Handlers -> 0 .. MaxVote]
      BY DEF Init
    <3>6. QED
      BY <3>1, <3>2, <3>5, <3>3, <3>4 DEF TypeOK
  <2>3. ArmedInv
    BY <2>1 DEF Init, ArmedInv
  <2>4. QED
    BY <2>2, <2>3 DEF Init, LifecycleInv, CloseChanInv
<1>2. LifecycleInv /\ [Next]_vars => LifecycleInv'
  <2> SUFFICES ASSUME LifecycleInv, [Next]_vars PROVE LifecycleInv'
    OBVIOUS
  <2>1. CASE UNCHANGED vars
    BY <2>1 DEF vars, LifecycleInv, TypeOK, CloseChanInv, ArmedInv
  <2>2. QED
    BY <2>1, TickStep, ReceivedHeartbeatStep, HeartbeatFiresStep,
       ListenReturnsStep, OtherSteps DEF Next
<1>3. QED
  BY <1>1, <1>2, PTL DEF Spec

(* Every state the lifecycle driver reaches is well typed; in particular  *)
(* CloseChan never holds more than its capacity of 5, and a firing        *)
(* heartbeat timer always proposes a view number.                          *)
THEOREM LifecycleTypeCorrect == Spec => []TypeOK
BY LifecycleInvariant, PTL DEF LifecycleInv

=============================================================================
