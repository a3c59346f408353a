----------------------------- MODULE Lifecycle -----------------------------
(***************************************************************************)
(* The round-lifecycle driver of lib/conode/peer.go and lib/sign/          *)
(* nodeutils.go, over a set of nodes and a bounded range of views.         *)
(*                                                                         *)
(* Each node runs LoopRounds: a select over the view-change channel, the   *)
(* close channel and a ticker that only the root of the initial view      *)
(* keeps running.  On a tick the root of the node's current view starts a *)
(* round, whose announcement is parent traffic for the other nodes         *)
(* (ReceivedHeartbeat re-arms their heartbeat timer with the message's     *)
(* view); after `rounds` rounds the root stops its ticker and sends        *)
(* CloseAll.  A heartbeat timer that fires calls TryViewChange(view + 1)   *)
(* for the view it was armed with, and ChangeView switches a node to a     *)
(* voted view and notifies LoopRounds.  updateLastSeenVote is a load and   *)
(* a separate store on an atomic counter, run by concurrent handlers.      *)
(*                                                                         *)
(* TryViewChange, the vote quorum, the tree of each view, message          *)
(* forwarding and CloseAll delivery are not under src/; they are modelled  *)
(* from spec.md 4.3: a proposed view may be adopted by any node, and each  *)
(* round's announcement reaches every other node unless it is lost.        *)
(***************************************************************************)
EXTENDS Naturals, FiniteSets

CONSTANTS
  Node,      \* the conodes
  RootFor,   \* RootFor[v]: the root of view v
  MaxView,   \* bound on proposed views
  Rounds,    \* the `rounds` argument of LoopRounds (>= 0)
  Handlers,  \* goroutines that may call updateLastSeenVote concurrently
  MaxVote,   \* bound on vote numbers
  Off        \* a stopped or nil heartbeat timer

Views == 0 .. MaxView

ASSUME LifecycleAssumption ==
  /\ MaxView \in Nat /\ Rounds \in Nat /\ MaxVote \in Nat
  /\ RootFor \in [Views -> Node]
  /\ Off \notin Views

VARIABLES
  view,       \* view[n]: sn.ViewNo
  ticking,    \* ticking[n]: the ticker of n's LoopRounds is running
  lastRound,  \* lastRound[n]: rounds n has started (LastRound - firstRound)
  hb,         \* hb[n]: view the heartbeat timer was armed with, or Off (nil)
  armed,      \* armed[n]: that timer's AfterFunc has not fired yet
  ann,        \* announcements in flight: [to, view]
  proposed,   \* view changes proposed: <<node, view>>
  vcPending,  \* vcPending[n]: ChangeView blocked sending on viewChangeCh
  closeSent,  \* the root has called SendCloseAll
  closeChan,  \* closeChan[n]: values buffered in peer.CloseChan
  listening,  \* listening[n]: Node.Listen has not returned
  loopDone,   \* loopDone[n]: LoopRounds has returned
  started,    \* rounds started: <<node, view>>
  lsv,        \* sn.LastSeenVote
  loaded,     \* loaded[h]: value h loaded in updateLastSeenVote, or Off
  hv          \* hv[h]: the vote h is storing

vars == <<view, ticking, lastRound, hb, armed, ann, proposed, vcPending, closeSent,
          closeChan, listening, loopDone, started, lsv, loaded, hv>>

IsRoot(n) == RootFor[view[n]] = n

TypeOK ==
  /\ view \in [Node -> Views]
  /\ ticking \in [Node -> BOOLEAN]
  /\ lastRound \in [Node -> 0 .. Rounds]
  /\ hb \in [Node -> Views \cup {Off}]
  /\ armed \in [Node -> BOOLEAN]
  /\ ann \subseteq [to : Node, view : Views]
  /\ proposed \subseteq Node \X Views
  /\ vcPending \in [Node -> BOOLEAN]
  /\ closeSent \in BOOLEAN
  /\ closeChan \in [Node -> 0 .. 5]
  /\ listening \in [Node -> BOOLEAN]
  /\ loopDone \in [Node -> BOOLEAN]
  /\ started \subseteq Node \X Views
  /\ lsv \in 0 .. MaxVote
  /\ loaded \in [Handlers -> (0 .. MaxVote) \cup {Off}]
  /\ hv \in [Handlers -> 0 .. MaxVote]

(* LoopRounds starts in view 0: the ticker is stopped unless the node is   *)
(* root (lines 94-99); non-roots have an armed heartbeat timer.            *)
Init ==
  /\ view = [n \in Node |-> 0]
  /\ ticking = [n \in Node |-> RootFor[0] = n]
  /\ lastRound = [n \in Node |-> 0]
  /\ hb = [n \in Node |-> IF RootFor[0] = n THEN Off ELSE 0]
  /\ armed = [n \in Node |-> RootFor[0] # n]
  /\ ann = {}
  /\ proposed = {}
  /\ vcPending = [n \in Node |-> FALSE]
  /\ closeSent = FALSE
  /\ closeChan = [n \in Node |-> 0]
  /\ listening = [n \in Node |-> TRUE]
  /\ loopDone = [n \in Node |-> FALSE]
  /\ started = {}
  /\ lsv = 0
  /\ loaded = [h \in Handlers |-> Off]
  /\ hv = [h \in Handlers |-> 0]

-----------------------------------------------------------------------------
(* LoopRounds.                                                             *)

(* Variant of BudgetSpent: the comparison is strict.                       *)
BudgetSpentLate(n) == lastRound[n] > Rounds

(* roundNbr >= rounds && rounds >= 0 (line 111).                           *)
BudgetSpent(n) == lastRound[n] >= Rounds

(* if peer.IsRoot(peer.ViewNo) { peer.SendCloseAll() } (lines 115-118).    *)
CloseAllIfRoot(n) == closeSent \/ IsRoot(n)

(* The ticker fires (lines 108-136).  With the budget spent the ticker is  *)
(* stopped and a root sends CloseAll; otherwise a root starts a round,     *)
(* whose announcement goes to every other node.  A tick of a non-root     *)
(* with budget left, and a failed StartAnnouncement, change nothing: they  *)
(* are stutters.                                                           *)
Tick(n) ==
  /\ ticking[n]
  /\ ~loopDone[n]
  /\ IF BudgetSpent(n)
       THEN /\ ticking' = [ticking EXCEPT ![n] = FALSE]
            /\ closeSent' = CloseAllIfRoot(n)
            /\ UNCHANGED <<lastRound, ann, started>>
       ELSE /\ IsRoot(n)
            /\ lastRound' = [lastRound EXCEPT ![n] = @ + 1]
            /\ ann' = ann \cup {[to |-> m, view |-> view[n]] : m \in Node \ {n}}
            /\ started' = started \cup {<<n, view[n]>>}
            /\ UNCHANGED <<ticking, closeSent>>
  /\ UNCHANGED <<view, hb, armed, proposed, vcPending, closeChan, listening, loopDone, lsv, loaded, hv>>

(* case nextRole := <-ViewChangeCh(): only logged (lines 103-104); the    *)
(* ticker is left as it was.  This completes ChangeView's send.            *)
LoopViewChange(n) ==
  /\ vcPending[n]
  /\ ~loopDone[n]
  /\ vcPending' = [vcPending EXCEPT ![n] = FALSE]
  /\ UNCHANGED <<view, ticking, lastRound, hb, armed, ann, proposed, closeSent, closeChan, listening, loopDone, started, lsv, loaded, hv>>

(* case <-CloseChan: LoopRounds returns (lines 105-107).                   *)
LoopClose(n) ==
  /\ closeChan[n] > 0
  /\ ~loopDone[n]
  /\ closeChan' = [closeChan EXCEPT ![n] = @ - 1]
  /\ loopDone' = [loopDone EXCEPT ![n] = TRUE]
  /\ UNCHANGED <<view, ticking, lastRound, hb, armed, ann, proposed, vcPending, closeSent, listening, started, lsv, loaded, hv>>

(* CloseAll reaches n: Node.Listen returns and its goroutine in NewPeer    *)
(* sends on CloseChan and calls peer.Close, which sends again (lines       *)
(* 79-84, 148-159).                                                        *)
ListenReturns(n) ==
  /\ closeSent
  /\ listening[n]
  /\ listening' = [listening EXCEPT ![n] = FALSE]
  /\ closeChan' = [closeChan EXCEPT ![n] = @ + 2]
  /\ UNCHANGED <<view, ticking, lastRound, hb, armed, ann, proposed, vcPending, closeSent, loopDone, started, lsv, loaded, hv>>

-----------------------------------------------------------------------------
(* Heartbeats and view changes.                                            *)

(* ReceivedHeartbeat(view) on a message from the parent, with the         *)
(* message's view: if the timer is not nil, stop it and arm a new one for *)
(* that view, whatever view the node is in (lines 57-73).                 *)
ReceivedHeartbeat(m) ==
  LET n == m.to IN
  /\ m \in ann
  /\ ann' = ann \ {m}
  /\ hb' = IF hb[n] = Off THEN hb ELSE [hb EXCEPT ![n] = m.view]
  /\ armed' = IF hb[n] = Off THEN armed ELSE [armed EXCEPT ![n] = TRUE]
  /\ UNCHANGED <<view, ticking, lastRound, proposed, vcPending, closeSent, closeChan, listening, loopDone, started, lsv, loaded, hv>>

(* An announcement is lost in transport.                                   *)
LoseAnn(m) ==
  /\ m \in ann
  /\ ann' = ann \ {m}
  /\ UNCHANGED <<view, ticking, lastRound, hb, armed, proposed, vcPending, closeSent, closeChan, listening, loopDone, started, lsv, loaded, hv>>

(* The AfterFunc fires: TryViewChange(view + 1) for the view it was armed *)
(* with (lines 66-69).  sn.heartbeat still holds the fired timer, not nil, *)
(* so the next parent traffic stops it and arms a new one.  Views beyond   *)
(* MaxView are not proposed.                                               *)
HeartbeatFires(n) ==
  /\ armed[n]
  /\ hb[n] < MaxView
  /\ proposed' = proposed \cup {<<n, hb[n] + 1>>}
  /\ armed' = [armed EXCEPT ![n] = FALSE]
  /\ UNCHANGED <<view, ticking, lastRound, hb, ann, vcPending, closeSent, closeChan, listening, loopDone, started, lsv, loaded, hv>>

(* ChangeView to a voted view: set ViewNo under viewmu, then send the new  *)
(* role on viewChangeCh (lines 183-203).                                   *)
ChangeView(n) ==
  /\ ~vcPending[n]
  /\ \E p \in proposed :
       /\ p[2] # view[n]
       /\ view' = [view EXCEPT ![n] = p[2]]
  /\ vcPending' = [vcPending EXCEPT ![n] = TRUE]
  /\ UNCHANGED <<ticking, lastRound, hb, armed, ann, proposed, closeSent, closeChan, listening, loopDone, started, lsv, loaded, hv>>

(* updateLastSeenVote(hv), first half: the atomic load (line 178).         *)
VoteLoad(h) ==
  /\ loaded[h] = Off
  /\ \E v \in 0 .. MaxVote :
       /\ hv' = [hv EXCEPT ![h] = v]
       /\ loaded' = [loaded EXCEPT ![h] = lsv]
  /\ UNCHANGED <<view, ticking, lastRound, hb, armed, ann, proposed, vcPending, closeSent, closeChan, listening, loopDone, started, lsv>>

(* Second half: if the loaded value was below hv, the atomic store.        *)
VoteStore(h) ==
  /\ loaded[h] # Off
  /\ lsv' = IF loaded[h] < hv[h] THEN hv[h] ELSE lsv
  /\ loaded' = [loaded EXCEPT ![h] = Off]
  /\ UNCHANGED <<view, ticking, lastRound, hb, armed, ann, proposed, vcPending, closeSent, closeChan, listening, loopDone, started, hv>>

-----------------------------------------------------------------------------
Next ==
  \/ \E n \in Node :
       \/ Tick(n) \/ LoopViewChange(n) \/ LoopClose(n)
       \/ ListenReturns(n) \/ HeartbeatFires(n) \/ ChangeView(n)
  \/ \E m \in ann : ReceivedHeartbeat(m) \/ LoseAnn(m)
  \/ \E h \in Handlers : VoteLoad(h) \/ VoteStore(h)

(* The ticker, the select of LoopRounds, a goroutine's next step, and the  *)
(* delivery of CloseAll by TCP are fair.  The heartbeat timer, message     *)
(* loss and the vote quorum are not: a timer is re-armed by traffic, and   *)
(* the quorum is outside src/.                                              *)
Fairness ==
  \A n \in Node :
    /\ WF_vars(Tick(n)) /\ WF_vars(LoopViewChange(n))
    /\ WF_vars(LoopClose(n)) /\ WF_vars(ListenReturns(n))

Spec == Init /\ [][Next]_vars
FairSpec == Spec /\ Fairness

-----------------------------------------------------------------------------
(* The inductive invariant behind TypeOK, proved in LifecycleProofs.      *)

(* Node.Listen returns once, and its goroutine and Close send two values  *)
(* on CloseChan; LoopRounds takes them one at a time.                      *)
CloseChanInv ==
  \A n \in Node : closeChan[n] <= IF listening[n] THEN 0 ELSE 2

(* Only a timer sn.heartbeat holds can be pending: AfterFunc is called on  *)
(* a non-nil timer only.                                                   *)
ArmedInv ==
  \A n \in Node : armed[n] => hb[n] \in Views

LifecycleInv == TypeOK /\ CloseChanInv /\ ArmedInv

-----------------------------------------------------------------------------
(* Properties.                                                             *)

(* spec.md 4.3: on a fixed interval, the node that is root for its current *)
(* view starts a new round.  A root that has budget left and stays in its  *)
(* view eventually starts a round there.                                   *)
NewRootRuns ==
  \A n \in Node, v \in Views :
    (view[n] = v /\ RootFor[v] = n /\ ~loopDone[n] /\ ~BudgetSpent(n))
      ~> (<<n, v>> \in started \/ view[n] # v \/ loopDone[n])

=============================================================================
