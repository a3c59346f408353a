------------------------------- MODULE Peer --------------------------------
(***************************************************************************)
(* Shutdown and start-up of one conode peer (lib/conode/peer.go).          *)
(*                                                                         *)
(* Close is called by the goroutine of NewPeer once Node.Listen returns   *)
(* (it first sends on CloseChan itself) and by any outside caller; it      *)
(* tests and sets peer.Closed without a lock, then sends on CloseChan      *)
(* (capacity 5) and closes the node.  LoopRounds takes one value from      *)
(* CloseChan and returns.                                                  *)
(*                                                                         *)
(* WaitRoundSetup runs attempts: each starts a goroutine that runs the     *)
(* setup round and sends its error on an unbuffered channel `done`, and    *)
(* selects between `done` and the round's count of live hosts.  The round *)
(* itself is not under src/: it ends with nil or a time-out, and may       *)
(* report any count of hosts while it runs.                                *)
(***************************************************************************)
EXTENDS Naturals

CONSTANTS
  Callers,      \* goroutines that call peer.Close, the Listen one included
  Listener,     \* the goroutine of NewPeer that waits on Node.Listen
  NbHost,       \* nbHost
  Retry,        \* retry
  MaxAttempts   \* bound on setup attempts

ASSUME PeerAssumption ==
  /\ Listener \in Callers
  /\ NbHost \in Nat /\ Retry \in Nat /\ MaxAttempts \in Nat

Attempts == 1 .. MaxAttempts

VARIABLES
  closed,      \* peer.Closed
  closeChan,   \* values buffered in peer.CloseChan
  loopDone,    \* LoopRounds has returned
  cpc,         \* cpc[k]: where caller k is in Close
  nodeCloses,  \* calls of peer.Node.Close
  wpc,         \* where WaitRoundSetup is
  attempt,     \* setup attempts started
  try,         \* try
  gor,         \* gor[i]: the goroutine of attempt i
  gerr,        \* gerr[i]: what StartAnnouncementWithWait returned to it
  result       \* what WaitRoundSetup returned

closeVars == <<closed, closeChan, loopDone, cpc, nodeCloses>>
setupVars == <<wpc, attempt, try, gor, gerr, result>>
vars == <<closeVars, setupVars>>

TypeOK ==
  /\ closed \in BOOLEAN
  /\ closeChan \in 0 .. 5
  /\ loopDone \in BOOLEAN
  /\ cpc \in [Callers -> {"idle", "listen", "check", "set", "send", "node", "done"}]
  /\ nodeCloses \in Nat
  /\ wpc \in {"sleep", "select", "drain", "returned"}
  /\ attempt \in 0 .. MaxAttempts
  /\ try \in Nat
  /\ gor \in [Attempts -> {"none", "run", "send", "done"}]
  /\ gerr \in [Attempts -> {"nil", "timeout"}]
  /\ result \in {"none", "nil", "error"}

Init ==
  /\ closed = FALSE
  /\ closeChan = 0
  /\ loopDone = FALSE
  /\ cpc = [k \in Callers |-> IF k = Listener THEN "listen" ELSE "idle"]
  /\ nodeCloses = 0
  /\ wpc = "sleep"
  /\ attempt = 0
  /\ try = 0
  /\ gor = [i \in Attempts |-> "none"]
  /\ gerr = [i \in Attempts |-> "nil"]
  /\ result = "none"

-----------------------------------------------------------------------------
(* Close.                                                                  *)

(* Variant of CloseChanCap: room for a single value.                      *)
CloseChanCapOne == 1

(* make(chan bool, 5) in NewPeer (line 69).                                *)
CloseChanCap == 5

(* A send on CloseChan: it waits for room in the buffer.                   *)
CanSend == closeChan < CloseChanCap

(* Node.Listen returns; the goroutine sends on CloseChan, then calls      *)
(* Close (lines 79-84).                                                    *)
ListenReturns ==
  /\ cpc[Listener] = "listen"
  /\ CanSend
  /\ closeChan' = closeChan + 1
  /\ cpc' = [cpc EXCEPT ![Listener] = "check"]
  /\ UNCHANGED <<closed, loopDone, nodeCloses, setupVars>>

(* An outside caller calls peer.Close.                                     *)
CallClose(k) ==
  /\ cpc[k] = "idle"
  /\ cpc' = [cpc EXCEPT ![k] = "check"]
  /\ UNCHANGED <<closed, closeChan, loopDone, nodeCloses, setupVars>>

(* if peer.Closed: "Already closed!" and return (lines 149-151).           *)
CheckClosed(k) ==
  /\ cpc[k] = "check"
  /\ cpc' = [cpc EXCEPT ![k] = IF closed THEN "done" ELSE "set"]
  /\ UNCHANGED <<closed, closeChan, loopDone, nodeCloses, setupVars>>

(* else peer.Closed = true (line 153), a separate, unlocked write.         *)
SetClosed(k) ==
  /\ cpc[k] = "set"
  /\ closed' = TRUE
  /\ cpc' = [cpc EXCEPT ![k] = "send"]
  /\ UNCHANGED <<closeChan, loopDone, nodeCloses, setupVars>>

(* peer.CloseChan <- true (line 155).                                      *)
SendClose(k) ==
  /\ cpc[k] = "send"
  /\ CanSend
  /\ closeChan' = closeChan + 1
  /\ cpc' = [cpc EXCEPT ![k] = "node"]
  /\ UNCHANGED <<closed, loopDone, nodeCloses, setupVars>>

(* peer.Node.Close() and StampListenersClose() (lines 156-157).            *)
CloseNode(k) ==
  /\ cpc[k] = "node"
  /\ nodeCloses' = nodeCloses + 1
  /\ cpc' = [cpc EXCEPT ![k] = "done"]
  /\ UNCHANGED <<closed, closeChan, loopDone, setupVars>>

(* LoopRounds: case <-peer.CloseChan: return.                              *)
LoopCloses ==
  /\ ~loopDone
  /\ closeChan > 0
  /\ closeChan' = closeChan - 1
  /\ loopDone' = TRUE
  /\ UNCHANGED <<closed, cpc, nodeCloses, setupVars>>

-----------------------------------------------------------------------------
(* WaitRoundSetup (lines 165-198).                                         *)

(* Sleep, then start attempt i's goroutine on a fresh `done` channel.      *)
NewAttempt ==
  /\ wpc = "sleep"
  /\ attempt < MaxAttempts
  /\ attempt' = attempt + 1
  /\ gor' = [gor EXCEPT ![attempt + 1] = "run"]
  /\ wpc' = "select"
  /\ UNCHANGED <<try, gerr, result, closeVars>>

(* StartAnnouncementWithWait returns to goroutine i, which blocks on      *)
(* done <- err until someone receives.                                     *)
RoundEnds(i) ==
  /\ gor[i] = "run"
  /\ gor' = [gor EXCEPT ![i] = "send"]
  /\ \E e \in {"nil", "timeout"} : gerr' = [gerr EXCEPT ![i] = e]
  /\ UNCHANGED <<wpc, attempt, try, result, closeVars>>

(* case err := <-done: try++, and an error on the last try aborts.         *)
SelectDone ==
  /\ wpc = "select"
  /\ gor[attempt] = "send"
  /\ gor' = [gor EXCEPT ![attempt] = "done"]
  /\ try' = try + 1
  /\ IF gerr[attempt] # "nil" /\ try + 1 = Retry
       THEN wpc' = "returned" /\ result' = "error"
       ELSE wpc' = "sleep" /\ result' = result
  /\ UNCHANGED <<attempt, gerr, closeVars>>

(* case counted := <-setupRound.Counted, while the round runs: with every  *)
(* host counted, wait on done; otherwise loop to a new attempt.            *)
SelectCounted ==
  /\ wpc = "select"
  /\ gor[attempt] = "run"
  /\ \E counted \in 0 .. NbHost :
       wpc' = IF counted = NbHost THEN "drain" ELSE "sleep"
  /\ UNCHANGED <<attempt, try, gor, gerr, result, closeVars>>

(* <-done "so routine will eventually finish", then return nil.           *)
Drain ==
  /\ wpc = "drain"
  /\ gor[attempt] = "send"
  /\ gor' = [gor EXCEPT ![attempt] = "done"]
  /\ wpc' = "returned"
  /\ result' = "nil"
  /\ UNCHANGED <<attempt, try, gerr, closeVars>>

-----------------------------------------------------------------------------
Next ==
  \/ ListenReturns \/ LoopCloses
  \/ \E k \in Callers :
       CallClose(k) \/ CheckClosed(k) \/ SetClosed(k) \/ SendClose(k) \/ CloseNode(k)
  \/ NewAttempt \/ SelectDone \/ SelectCounted \/ Drain
  \/ \E i \in Attempts : RoundEnds(i)

(* Every runnable goroutine runs, and a round started by a goroutine ends  *)
(* (StartAnnouncementWithWait has a time-out).  Node.Listen returning and  *)
(* an outside Close call are up to the environment.                        *)
Fairness ==
  /\ WF_vars(LoopCloses)
  /\ \A k \in Callers : /\ WF_vars(CheckClosed(k)) /\ WF_vars(SetClosed(k))
                        /\ WF_vars(SendClose(k)) /\ WF_vars(CloseNode(k))
  /\ WF_vars(NewAttempt) /\ WF_vars(SelectDone) /\ WF_vars(Drain)
  /\ \A i \in Attempts : WF_vars(RoundEnds(i))

Spec == Init /\ [][Next]_vars
FairSpec == Spec /\ Fairness

-----------------------------------------------------------------------------
(* Properties.                                                             *)

(* Every call of Close returns: CloseChan has room for the Listen          *)
(* goroutine's value and for every Close that gets past the Closed test,   *)
(* though LoopRounds takes only one of them.                               *)
CloseReturns ==
  \A k \in Callers : cpc[k] \in {"check", "set", "send", "node"} ~> cpc[k] = "done"

(* The Closed flag of Close (lines 149-154) makes closing idempotent: the  *)
(* node is closed at most once however many goroutines call Close.         *)
NodeClosedOnce == nodeCloses <= 1

=============================================================================
