---------------------------- MODULE StampClient ----------------------------
(***************************************************************************)
(* The stamp client of app/stamp/client_funcs.go.  Several goroutines call *)
(* TimeStamp concurrently; each request gets a number and a done channel   *)
(* of capacity 1 in c.doneChan.  One goroutine per server (AddServer)      *)
(* connects, reads replies (handleServer) and hands each to the waiting    *)
(* caller through its done channel (ProcessStampSignature); when the       *)
(* connection breaks it sends io.EOF on every channel in the map while     *)
(* holding c.Mux, sets c.Error and exits.                                  *)
(*                                                                         *)
(* c.Mux is modelled by its holder.  Every critical section of the code    *)
(* that cannot block is one step taken when the mutex is free; the EOF     *)
(* fan-out, which sends on channels while holding the mutex, keeps it      *)
(* across steps.  A channel is named by its request number and modelled   *)
(* by its buffer; a send on the nil channel (no entry in the map) is a     *)
(* step that is never enabled.  The server side is not in src/: it may     *)
(* answer a request at any time, or never, and its link may break.        *)
(***************************************************************************)
EXTENDS Naturals, Sequences, FiniteSets

CONSTANTS
  Callers,  \* goroutines calling TimeStamp
  Servers,  \* the servers of c.Servers
  MaxReq,   \* bound on c.reqno
  None      \* nobody holds c.Mux

ASSUME MaxReqAssumption == MaxReq \in Nat
ASSUME NoneAssumption == None \notin Callers \cup Servers

Reqs == 1 .. MaxReq

VARIABLES
  mux,      \* holder of c.Mux, or None
  reqno,    \* c.reqno
  inMap,    \* request numbers with an entry in c.doneChan
  buf,      \* buf[r]: values buffered in the done channel of request r
  cerr,     \* c.Error
  conn,     \* conn[s]: c.Servers[s] is set
  linkUp,   \* linkUp[s]: the connection to s has not broken
  pending,  \* pending[s]: requests sent to s and not yet answered
  pc,       \* pc[c]: where caller c is in TimeStamp
  my,       \* my[c]: myReqno of c's current call
  to,       \* to[c]: TSServerName of c's current call
  res,      \* res[c]: what c's last TimeStamp returned
  got,      \* got[c]: what c's last call received from its done channel
  hpc,      \* hpc[s]: where the goroutine of AddServer(s) is
  hchan,    \* hchan[s]: channel ProcessStampSignature sends on (0: nil)
  todo,     \* todo[s]: channels the EOF fan-out of s still sends to
  replied   \* request numbers whose reply reached the client

vars == <<mux, reqno, inMap, buf, cerr, conn, linkUp, pending, pc, my, to,
          res, got, hpc, hchan, todo, replied>>

Value == {"reply", "eof"}

TypeOK ==
  /\ mux \in Callers \cup Servers \cup {None}
  /\ reqno \in 0 .. MaxReq
  /\ inMap \subseteq Reqs
  /\ buf \in [Reqs -> {<<>>, <<"reply">>, <<"eof">>}]
  /\ cerr \in {"nil", "EOF"}
  /\ conn \in [Servers -> BOOLEAN]
  /\ linkUp \in [Servers -> BOOLEAN]
  /\ pending \in [Servers -> SUBSET Reqs]
  /\ pc \in [Callers -> {"idle", "put", "getchan", "wait", "delete"}]
  /\ my \in [Callers -> 0 .. MaxReq]
  /\ to \in [Callers -> Servers]
  /\ res \in [Callers -> {"none", "ok", "err"}]
  /\ got \in [Callers -> {"none"} \cup Value]
  /\ hpc \in [Servers -> {"connect", "serve", "deliver", "fanout", "exit"}]
  /\ hchan \in [Servers -> 0 .. MaxReq]
  /\ todo \in [Servers -> SUBSET Reqs]
  /\ replied \subseteq Reqs

(* NewClient: empty maps; AddServer has started one goroutine per server. *)
Init ==
  /\ mux = None
  /\ reqno = 0
  /\ inMap = {}
  /\ buf = [r \in Reqs |-> <<>>]
  /\ cerr = "nil"
  /\ conn = [s \in Servers |-> FALSE]
  /\ linkUp = [s \in Servers |-> TRUE]
  /\ pending = [s \in Servers |-> {}]
  /\ pc = [c \in Callers |-> "idle"]
  /\ my = [c \in Callers |-> 0]
  /\ to \in [Callers -> Servers]
  /\ res = [c \in Callers |-> "none"]
  /\ got = [c \in Callers |-> "none"]
  /\ hpc = [s \in Servers |-> "connect"]
  /\ hchan = [s \in Servers |-> 0]
  /\ todo = [s \in Servers |-> {}]
  /\ replied = {}

Free == mux = None

-----------------------------------------------------------------------------
(* Callers: TimeStamp.                                                     *)

(* Variant of NoError: the c.Error test dropped.                           *)
NoErrorIgnored == TRUE

(* TimeStamp goes on only while no server has failed (c.Error is nil).     *)
NoError == cerr = "nil"

(* Lines 144-152: under c.Mux, return c.Error if set; otherwise take the  *)
(* next request number and put a fresh done channel in the map.           *)
Call(c, s) ==
  /\ pc[c] = "idle"
  /\ Free
  /\ reqno < MaxReq
  /\ IF NoError
       THEN /\ reqno' = reqno + 1
            /\ inMap' = inMap \cup {reqno + 1}
            /\ pc' = [pc EXCEPT ![c] = "put"]
            /\ my' = [my EXCEPT ![c] = reqno + 1]
            /\ to' = [to EXCEPT ![c] = s]
            /\ got' = [got EXCEPT ![c] = "none"]
            /\ UNCHANGED res
       ELSE /\ res' = [res EXCEPT ![c] = "err"]
            /\ UNCHANGED <<reqno, inMap, pc, my, to, got>>
  /\ UNCHANGED <<mux, buf, cerr, conn, linkUp, pending, hpc, hchan, todo, replied>>

(* PutToServer: under c.Mux, fail if the server is not connected or the   *)
(* write fails; TimeStamp then returns the error and leaves its channel   *)
(* in the map.                                                             *)
Put(c) ==
  LET s == to[c] IN
  /\ pc[c] = "put"
  /\ Free
  /\ IF conn[s] /\ linkUp[s]
       THEN /\ pending' = [pending EXCEPT ![s] = @ \cup {my[c]}]
            /\ pc' = [pc EXCEPT ![c] = "getchan"]
            /\ UNCHANGED res
       ELSE /\ pc' = [pc EXCEPT ![c] = "idle"]
            /\ res' = [res EXCEPT ![c] = "err"]
            /\ UNCHANGED pending
  /\ UNCHANGED <<mux, reqno, inMap, buf, cerr, conn, linkUp, my, to, got, hpc, hchan, todo, replied>>

(* Lines 169-171: read myChan from the map under c.Mux.                   *)
GetChan(c) ==
  /\ pc[c] = "getchan"
  /\ Free
  /\ pc' = [pc EXCEPT ![c] = "wait"]
  /\ UNCHANGED <<mux, reqno, inMap, buf, cerr, conn, linkUp, pending, my, to, res, got, hpc, hchan, todo, replied>>

(* The select receives from myChan: an EOF is returned as the error (the  *)
(* channel stays in the map), a reply goes on to the deletion.            *)
Receive(c) ==
  LET r == my[c] IN
  /\ pc[c] = "wait"
  /\ buf[r] # <<>>
  /\ buf' = [buf EXCEPT ![r] = <<>>]
  /\ got' = [got EXCEPT ![c] = Head(buf[r])]
  /\ IF Head(buf[r]) = "eof"
       THEN /\ pc' = [pc EXCEPT ![c] = "idle"]
            /\ res' = [res EXCEPT ![c] = "err"]
       ELSE /\ pc' = [pc EXCEPT ![c] = "delete"]
            /\ UNCHANGED res
  /\ UNCHANGED <<mux, reqno, inMap, cerr, conn, linkUp, pending, my, to, hpc, hchan, todo, replied>>

(* The select's time.After fires; err is left as PutToServer returned it  *)
(* (nil), since the assignment of ErrClientToTSTimeout is commented out.  *)
Timeout(c) ==
  /\ pc[c] = "wait"
  /\ pc' = [pc EXCEPT ![c] = "delete"]
  /\ UNCHANGED <<mux, reqno, inMap, buf, cerr, conn, linkUp, pending, my, to, res, got, hpc, hchan, todo, replied>>

(* Lines 189-192: delete the channel from the map and return nil.         *)
Delete(c) ==
  /\ pc[c] = "delete"
  /\ Free
  /\ inMap' = inMap \ {my[c]}
  /\ pc' = [pc EXCEPT ![c] = "idle"]
  /\ res' = [res EXCEPT ![c] = "ok"]
  /\ UNCHANGED <<mux, reqno, buf, cerr, conn, linkUp, pending, my, to, got, hpc, hchan, todo, replied>>

-----------------------------------------------------------------------------
(* Server goroutines: AddServer, handleServer, ProcessStampSignature.      *)

(* conn.Connect succeeded: store the connection in c.Servers under c.Mux. *)
Connect(s) ==
  /\ hpc[s] = "connect"
  /\ Free
  /\ conn' = [conn EXCEPT ![s] = TRUE]
  /\ hpc' = [hpc EXCEPT ![s] = "serve"]
  /\ UNCHANGED <<mux, reqno, inMap, buf, cerr, linkUp, pending, pc, my, to, res, got, hchan, todo, replied>>

(* done := c.doneChan[tsm.ReqNo]: the nil channel (0) once deleted.        *)
Target(r) == IF r \in inMap THEN r ELSE 0

(* GetData returns a reply; ProcessStampSignature records it and reads    *)
(* the done channel under c.Mux.                                           *)
GetReply(s) ==
  /\ hpc[s] = "serve"
  /\ linkUp[s]
  /\ Free
  /\ \E r \in pending[s] :
       /\ pending' = [pending EXCEPT ![s] = @ \ {r}]
       /\ replied' = replied \cup {r}
       /\ hchan' = [hchan EXCEPT ![s] = Target(r)]
  /\ hpc' = [hpc EXCEPT ![s] = "deliver"]
  /\ UNCHANGED <<mux, reqno, inMap, buf, cerr, conn, linkUp, pc, my, to, res, got, todo>>

(* done <- nil, outside the mutex: blocks while the buffer is full, and    *)
(* forever on the nil channel.                                             *)
Deliver(s) ==
  LET r == hchan[s] IN
  /\ hpc[s] = "deliver"
  /\ r # 0
  /\ buf[r] = <<>>
  /\ buf' = [buf EXCEPT ![r] = <<"reply">>]
  /\ hpc' = [hpc EXCEPT ![s] = "serve"]
  /\ UNCHANGED <<mux, reqno, inMap, cerr, conn, linkUp, pending, pc, my, to, res, got, hchan, todo, replied>>

(* The connection to s breaks (transport, not in src/).                    *)
LinkDown(s) ==
  /\ linkUp[s]
  /\ linkUp' = [linkUp EXCEPT ![s] = FALSE]
  /\ pending' = [pending EXCEPT ![s] = {}]
  /\ UNCHANGED <<mux, reqno, inMap, buf, cerr, conn, pc, my, to, res, got, hpc, hchan, todo, replied>>

(* GetData fails: handleServer returns the error and the goroutine takes  *)
(* c.Mux to send io.EOF to every pending channel.                          *)
StartFanout(s) ==
  /\ hpc[s] = "serve"
  /\ ~linkUp[s]
  /\ Free
  /\ mux' = s
  /\ todo' = [todo EXCEPT ![s] = inMap]
  /\ hpc' = [hpc EXCEPT ![s] = "fanout"]
  /\ UNCHANGED <<reqno, inMap, buf, cerr, conn, linkUp, pending, pc, my, to, res, got, hchan, replied>>

(* ch <- io.EOF on one channel of the map, with c.Mux held; blocks while  *)
(* that channel's buffer is full.                                          *)
FanoutSend(s) ==
  /\ hpc[s] = "fanout"
  /\ \E r \in todo[s] :
       /\ buf[r] = <<>>
       /\ buf' = [buf EXCEPT ![r] = <<"eof">>]
       /\ todo' = [todo EXCEPT ![s] = @ \ {r}]
  /\ UNCHANGED <<mux, reqno, inMap, cerr, conn, linkUp, pending, pc, my, to, res, got, hpc, hchan, replied>>

(* c.Error = io.EOF, unlock, and the goroutine returns.                   *)
FanoutEnd(s) ==
  /\ hpc[s] = "fanout"
  /\ todo[s] = {}
  /\ cerr' = "EOF"
  /\ mux' = None
  /\ hpc' = [hpc EXCEPT ![s] = "exit"]
  /\ UNCHANGED <<reqno, inMap, buf, conn, linkUp, pending, pc, my, to, res, got, hchan, todo, replied>>

-----------------------------------------------------------------------------
Next ==
  \/ \E c \in Callers :
       \/ \E s \in Servers : Call(c, s)
       \/ Put(c) \/ GetChan(c) \/ Receive(c) \/ Timeout(c) \/ Delete(c)
  \/ \E s \in Servers :
       \/ Connect(s) \/ GetReply(s) \/ Deliver(s) \/ LinkDown(s)
       \/ StartFanout(s) \/ FanoutSend(s) \/ FanoutEnd(s)

(* Every goroutine that can run eventually runs (Go's scheduler), the     *)
(* select's timer eventually fires, and Connect eventually succeeds.       *)
(* Nothing forces a server to answer or its link to break, so Call,        *)
(* GetReply and LinkDown have no fairness.                                 *)
Fairness ==
  /\ \A c \in Callers : /\ WF_vars(Put(c)) /\ WF_vars(GetChan(c))
                        /\ WF_vars(Receive(c) \/ Timeout(c)) /\ WF_vars(Delete(c))
  /\ \A s \in Servers : /\ WF_vars(Connect(s)) /\ WF_vars(Deliver(s))
                        /\ WF_vars(StartFanout(s)) /\ WF_vars(FanoutSend(s))
                        /\ WF_vars(FanoutEnd(s))

Spec == Init /\ [][Next]_vars
FairSpec == Spec /\ Fairness

-----------------------------------------------------------------------------
(* Properties.                                                             *)

(* The EOF fan-out of AddServer (lines 107-117) terminates all pending     *)
(* TimeStamps: once c.Error is set, every caller still blocked in the      *)
(* select has a value waiting in its channel.  It needs the c.Error test   *)
(* of TimeStamp and the fan-out over the whole map, taken under one lock.  *)
EOFReachesWaiters ==
  cerr = "EOF" => \A c \in Callers : pc[c] = "wait" => buf[my[c]] # <<>>

-----------------------------------------------------------------------------
(* The inductive invariant behind EOFReachesWaiters, checked by           *)
(* stamp_client and proved in StampClientProofs.                           *)

(* A caller between taking its request number and leaving the select.     *)
Active(c) == pc[c] \in {"put", "getchan", "wait"}

(* Only the goroutine running the EOF fan-out holds c.Mux across steps.    *)
MuxInv == \A s \in Servers : hpc[s] = "fanout" => mux = s

(* A caller that holds a request number: from Call until its Delete.     *)
Holding(c) == pc[c] \in {"put", "getchan", "wait", "delete"}

(* Callers that hold a request number hold distinct numbers already given *)
(* out, and their channels are in c.doneChan: c.reqno only grows, each    *)
(* call takes the next number, and only its own Delete removes it.        *)
ReqnoInv ==
  /\ \A c \in Callers : Holding(c) => my[c] \in 1 .. reqno /\ my[c] \in inMap
  /\ \A c, d \in Callers : Holding(c) /\ Holding(d) /\ c # d => my[c] # my[d]

(* A fan-out in progress has left an EOF or a reply in the channel of     *)
(* every active caller it is done with; once c.Error is set, it has for   *)
(* every active caller.                                                    *)
FanoutInv ==
  /\ \A s \in Servers, c \in Callers :
       hpc[s] = "fanout" /\ Active(c) /\ my[c] \notin todo[s] => buf[my[c]] # <<>>
  /\ cerr = "EOF" => \A c \in Callers : Active(c) => buf[my[c]] # <<>>

(* A reply is only ever buffered for, or carried towards, a request whose *)
(* answer reached the client.                                              *)
ReplyInv ==
  /\ \A r \in Reqs : buf[r] = <<"reply">> => r \in replied
  /\ \A s \in Servers : hchan[s] # 0 => hchan[s] \in replied

StampInv ==
  /\ TypeOK /\ MuxInv /\ ReqnoInv /\ FanoutInv /\ ReplyInv
  /\ EOFReachesWaiters

(* Every TimeStamp call returns: the select has a timeout (line 178), and  *)
(* a failed server terminates all pending TimeStamps (lines 107-108).      *)
TimeStampReturns ==
  \A c \in Callers : pc[c] # "idle" ~> pc[c] = "idle"

=============================================================================
