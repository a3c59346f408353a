------------------------- MODULE StampClientProofs -------------------------
(***************************************************************************)
(* Proofs about the stamp client (app/stamp/client_funcs.go), for any      *)
(* sets of callers and servers and any bound on request numbers.           *)
(*                                                                         *)
(* EOFReachesWaiters is not inductive: it needs to know that c.Mux is     *)
(* held all through the EOF fan-out, that the callers in TimeStamp hold    *)
(* distinct request numbers, and what the fan-out has already sent.        *)
(* StampInv adds these facts (MuxInv, ReqnoInv, FanoutInv), and ReplyInv:  *)
(* a buffered or in-flight reply answers a request the client sent.        *)
(***************************************************************************)
EXTENDS StampClient, TLAPS

USE MaxReqAssumption, NoneAssumption

(* While c.Mux is free, no goroutine is in the EOF fan-out.               *)
LEMMA FreeNoFanout ==
  ASSUME MuxInv, Free
  PROVE  \A s \in Servers : hpc[s] # "fanout"
BY NoneAssumption DEF MuxInv, Free

-----------------------------------------------------------------------------
(* TimeStamp's steps.                                                      *)

(* Call: the caller takes request number reqno + 1, which no other active *)
(* caller holds, and the mutex is free, so no fan-out is under way.        *)
LEMMA CallStep ==
  ASSUME StampInv, NEW c \in Callers, NEW s \in Servers, Call(c, s)
  PROVE  StampInv'
<1> USE DEF StampInv
<1>1. CASE NoError
  <2>1. /\ reqno' = reqno + 1 /\ inMap' = inMap \cup {reqno + 1}
        /\ pc' = [pc EXCEPT ![c] = "put"] /\ my' = [my EXCEPT ![c] = reqno + 1]
        /\ to' = [to EXCEPT ![c] = s] /\ got' = [got EXCEPT ![c] = "none"]
        /\ UNCHANGED <<res, mux, buf, cerr, conn, linkUp, pending, hpc, hchan, todo, replied>>
        /\ reqno < MaxReq /\ Free
    BY <1>1 DEF Call
  <2>2. TypeOK'
    BY <2>1 DEF TypeOK, Reqs
  <2>3. MuxInv'
    BY <2>1 DEF MuxInv
  <2>4. ReqnoInv'
    BY <2>1 DEF ReqnoInv, Holding, TypeOK
  <2>5. FanoutInv'
    <3>1. \A t \in Servers : hpc[t] # "fanout"
      BY <2>1, FreeNoFanout
    <3>2. cerr = "nil"
      BY <1>1 DEF NoError
    <3>3. QED
      BY <2>1, <3>1, <3>2 DEF FanoutInv
  <2>6. ReplyInv'
    BY <2>1 DEF ReplyInv
  <2>7. EOFReachesWaiters'
    BY <2>1, <1>1 DEF EOFReachesWaiters, NoError
  <2>8. QED
    BY <2>2, <2>3, <2>4, <2>5, <2>6, <2>7
<1>2. CASE ~NoError
  <2>1. /\ res' = [res EXCEPT ![c] = "err"]
        /\ UNCHANGED <<reqno, inMap, pc, my, to, got, mux, buf, cerr, conn, linkUp,
                       pending, hpc, hchan, todo, replied>>
    BY <1>2 DEF Call
  <2>2. QED
    BY <2>1 DEF TypeOK, MuxInv, ReqnoInv, FanoutInv, ReplyInv, Active, Holding,
                EOFReachesWaiters
<1>3. QED
  BY <1>1, <1>2

(* Put: a failed PutToServer leaves TimeStamp; otherwise the caller moves *)
(* on to reading its channel.  Its number does not change.                *)
LEMMA PutStep ==
  ASSUME StampInv, NEW c \in Callers, Put(c)
  PROVE  StampInv'
<1> USE DEF StampInv
<1>1. /\ UNCHANGED <<mux, reqno, inMap, buf, cerr, conn, linkUp, my, to, got, hpc,
                     hchan, todo, replied>>
      /\ pc[c] = "put" /\ Free
  BY DEF Put
<1>2. my[c] \in Reqs /\ to[c] \in Servers
  BY <1>1 DEF ReqnoInv, Holding, Reqs, TypeOK
<1>3. CASE /\ pending' = [pending EXCEPT ![to[c]] = @ \cup {my[c]}]
           /\ pc' = [pc EXCEPT ![c] = "getchan"] /\ res' = res
  <2>1. TypeOK'
    BY <1>1, <1>2, <1>3 DEF TypeOK
  <2>2. \A d \in Callers : (Active(d)' <=> Active(d)) /\ (Holding(d)' <=> Holding(d))
    BY <1>1, <1>3 DEF Active, Holding, TypeOK
  <2>3. MuxInv' /\ ReqnoInv' /\ FanoutInv' /\ ReplyInv'
    BY <1>1, <2>2 DEF MuxInv, ReqnoInv, FanoutInv, ReplyInv
  <2>4. QED
    BY <2>1, <2>3 DEF FanoutInv, EOFReachesWaiters, Active
<1>4. CASE /\ pc' = [pc EXCEPT ![c] = "idle"] /\ res' = [res EXCEPT ![c] = "err"]
           /\ pending' = pending
  <2>1. TypeOK'
    BY <1>1, <1>4 DEF TypeOK
  <2>2. \A d \in Callers : (Active(d)' => Active(d)) /\ (Holding(d)' => Holding(d))
    BY <1>1, <1>4 DEF Active, Holding, TypeOK
  <2>4. MuxInv' /\ ReqnoInv' /\ FanoutInv' /\ ReplyInv'
    BY <1>1, <2>2 DEF MuxInv, ReqnoInv, FanoutInv, ReplyInv
  <2>5. QED
    BY <2>1, <2>4 DEF FanoutInv, EOFReachesWaiters, Active
<1>5. QED
  BY <1>3, <1>4 DEF Put

(* GetChan: the caller moves from the map read to the select.             *)
LEMMA GetChanStep ==
  ASSUME StampInv, NEW c \in Callers, GetChan(c)
  PROVE  StampInv'
<1> USE DEF StampInv
<1>1. /\ pc[c] = "getchan" /\ pc' = [pc EXCEPT ![c] = "wait"]
      /\ UNCHANGED <<mux, reqno, inMap, buf, cerr, conn, linkUp, pending, my, to,
                     res, got, hpc, hchan, todo, replied>>
  BY DEF GetChan
<1>2. \A d \in Callers : (Active(d)' <=> Active(d)) /\ (Holding(d)' <=> Holding(d))
  BY <1>1 DEF Active, Holding, TypeOK
<1>3. TypeOK'
  BY <1>1 DEF TypeOK
<1>4. MuxInv' /\ ReqnoInv' /\ FanoutInv' /\ ReplyInv'
  BY <1>1, <1>2 DEF MuxInv, ReqnoInv, FanoutInv, ReplyInv
<1>5. EOFReachesWaiters'
  BY <1>1, <1>4 DEF FanoutInv, EOFReachesWaiters, Active
<1>6. QED
  BY <1>3, <1>4, <1>5

(* Receive: the caller empties its own channel and leaves the select; no  *)
(* other active caller shares its number, so their channels are untouched.*)
LEMMA ReceiveStep ==
  ASSUME StampInv, NEW c \in Callers, Receive(c)
  PROVE  StampInv'
<1> USE DEF StampInv
<1> DEFINE r == my[c]
<1>1. /\ pc[c] = "wait" /\ buf[r] # <<>>
      /\ buf' = [buf EXCEPT ![r] = <<>>]
      /\ got' = [got EXCEPT ![c] = Head(buf[r])]
      /\ pc' \in {[pc EXCEPT ![c] = "idle"], [pc EXCEPT ![c] = "delete"]}
      /\ res' \in {res, [res EXCEPT ![c] = "err"]}
      /\ UNCHANGED <<mux, reqno, inMap, cerr, conn, linkUp, pending, my, to, hpc,
                     hchan, todo, replied>>
  BY DEF Receive
<1>2. r \in Reqs /\ buf[r] \in {<<"reply">>, <<"eof">>}
  BY <1>1 DEF ReqnoInv, Holding, Reqs, TypeOK
<1>3. Head(buf[r]) \in Value /\ (Head(buf[r]) = "reply" => r \in replied)
  BY <1>2 DEF Value, ReplyInv
<1>4. TypeOK'
  BY <1>1, <1>3 DEF TypeOK
<1>5. \A d \in Callers : Active(d)' => Active(d) /\ d # c
  BY <1>1 DEF Active, TypeOK
<1>6. \A d \in Callers : Holding(d)' => Holding(d)
  BY <1>1 DEF Holding, TypeOK
<1>7. \A d \in Callers : Active(d)' => my[d] # r /\ my[d] \in Reqs
  BY <1>1, <1>5 DEF ReqnoInv, Active, Holding, TypeOK, Reqs
<1>8. MuxInv' /\ ReqnoInv' /\ FanoutInv'
  <2>1. \A d \in Callers : Active(d)' => buf'[my'[d]] = buf[my[d]]
    BY <1>1, <1>7
  <2>2. ReqnoInv'
    BY <1>1, <1>6 DEF ReqnoInv
  <2>3. MuxInv'
    BY <1>1 DEF MuxInv
  <2>4. FanoutInv'
    BY <1>1, <1>5, <2>1 DEF FanoutInv
  <2>5. QED
    BY <2>1, <2>2, <2>3, <2>4
<1>9. ReplyInv'
  BY <1>1, <1>2 DEF ReplyInv, TypeOK
<1>10. QED
  BY <1>4, <1>8, <1>9 DEF FanoutInv, EOFReachesWaiters, Active

(* Timeout: the caller leaves the select for the deletion.                *)
LEMMA TimeoutStep ==
  ASSUME StampInv, NEW c \in Callers, Timeout(c)
  PROVE  StampInv'
<1> USE DEF StampInv
<1>1. /\ pc[c] = "wait" /\ pc' = [pc EXCEPT ![c] = "delete"]
      /\ UNCHANGED <<mux, reqno, inMap, buf, cerr, conn, linkUp, pending, my, to,
                     res, got, hpc, hchan, todo, replied>>
  BY DEF Timeout
<1>2. TypeOK'
  BY <1>1 DEF TypeOK
<1>3. \A d \in Callers : (Active(d)' => Active(d)) /\ (Holding(d)' <=> Holding(d))
  BY <1>1 DEF Active, Holding, TypeOK
<1>4. MuxInv' /\ ReqnoInv' /\ FanoutInv' /\ ReplyInv'
  BY <1>1, <1>3 DEF MuxInv, ReqnoInv, FanoutInv, ReplyInv
<1>5. QED
  BY <1>2, <1>4 DEF FanoutInv, EOFReachesWaiters, Active

(* Delete: under c.Mux, so no fan-out is under way; the caller was not    *)
(* active and stays so.                                                    *)
LEMMA DeleteStep ==
  ASSUME StampInv, NEW c \in Callers, Delete(c)
  PROVE  StampInv'
<1> USE DEF StampInv
<1>1. /\ pc[c] = "delete" /\ Free
      /\ inMap' = inMap \ {my[c]}
      /\ pc' = [pc EXCEPT ![c] = "idle"]
      /\ res' = [res EXCEPT ![c] = "ok"]
      /\ UNCHANGED <<mux, reqno, buf, cerr, conn, linkUp, pending, my, to, got,
                     hpc, hchan, todo, replied>>
  BY DEF Delete
<1>2. TypeOK'
  BY <1>1 DEF TypeOK
<1>3. \A d \in Callers : /\ Active(d)' <=> Active(d)
                         /\ Holding(d)' <=> Holding(d) /\ d # c
  BY <1>1 DEF Active, Holding, TypeOK
<1>4. ReqnoInv'
  BY <1>1, <1>3 DEF ReqnoInv, Holding
<1>5. \A d \in Callers : Active(d) => Holding(d) /\ d # c
  BY <1>1 DEF Active, Holding
<1>6. MuxInv' /\ FanoutInv' /\ ReplyInv'
  BY <1>1, <1>3 DEF MuxInv, FanoutInv, ReplyInv
<1>7. QED
  BY <1>2, <1>4, <1>6 DEF FanoutInv, EOFReachesWaiters, Active

-----------------------------------------------------------------------------
(* The steps of the AddServer goroutines.                                  *)

(* Connect: under c.Mux; only the connection map and the goroutine's      *)
(* place change.                                                           *)
LEMMA ConnectStep ==
  ASSUME StampInv, NEW s \in Servers, Connect(s)
  PROVE  StampInv'
<1> USE DEF StampInv
<1>1. /\ hpc[s] = "connect" /\ hpc' = [hpc EXCEPT ![s] = "serve"]
      /\ conn' = [conn EXCEPT ![s] = TRUE]
      /\ UNCHANGED <<mux, reqno, inMap, buf, cerr, linkUp, pending, pc, my, to,
                     res, got, hchan, todo, replied>>
  BY DEF Connect
<1>2. TypeOK'
  BY <1>1 DEF TypeOK
<1>3. MuxInv'
  BY <1>1 DEF MuxInv, TypeOK
<1>4. FanoutInv'
  BY <1>1 DEF FanoutInv, Active, TypeOK
<1>5. QED
  BY <1>1, <1>2, <1>3, <1>4 DEF ReqnoInv, Holding, ReplyInv, EOFReachesWaiters

(* GetReply: the reply's number joins `replied`, and the channel the      *)
(* handler will send on is that number's, or nil.                          *)
LEMMA GetReplyStep ==
  ASSUME StampInv, NEW s \in Servers, GetReply(s)
  PROVE  StampInv'
<1> USE DEF StampInv
<1>1. PICK r \in pending[s] :
        /\ pending' = [pending EXCEPT ![s] = @ \ {r}]
        /\ replied' = replied \cup {r}
        /\ hchan' = [hchan EXCEPT ![s] = Target(r)]
  BY DEF GetReply
<1>2. /\ hpc[s] = "serve" /\ hpc' = [hpc EXCEPT ![s] = "deliver"]
      /\ UNCHANGED <<mux, reqno, inMap, buf, cerr, conn, linkUp, pc, my, to, res,
                     got, todo>>
  BY DEF GetReply
<1>3. r \in Reqs /\ Target(r) \in {r, 0}
  BY DEF TypeOK, Target
<1>4. TypeOK'
  BY <1>1, <1>2, <1>3 DEF TypeOK, Reqs
<1>5. MuxInv' /\ FanoutInv'
  BY <1>2 DEF MuxInv, FanoutInv, Active, TypeOK
<1>6. ReplyInv'
  BY <1>1, <1>2, <1>3 DEF ReplyInv, TypeOK
<1>7. QED
  BY <1>1, <1>2, <1>4, <1>5, <1>6 DEF ReqnoInv, Holding, EOFReachesWaiters

(* Deliver: the handler fills the empty channel of a replied request; a   *)
(* channel only ever goes from empty to full here.                         *)
LEMMA DeliverStep ==
  ASSUME StampInv, NEW s \in Servers, Deliver(s)
  PROVE  StampInv'
<1> USE DEF StampInv
<1> DEFINE r == hchan[s]
<1>1. /\ hpc[s] = "deliver" /\ hpc' = [hpc EXCEPT ![s] = "serve"]
      /\ r # 0 /\ buf[r] = <<>> /\ buf' = [buf EXCEPT ![r] = <<"reply">>]
      /\ UNCHANGED <<mux, reqno, inMap, cerr, conn, linkUp, pending, pc, my, to,
                     res, got, hchan, todo, replied>>
  BY DEF Deliver
<1>2. r \in Reqs /\ r \in replied
  BY <1>1 DEF TypeOK, ReplyInv, Reqs
<1>3. \A k \in Reqs : buf[k] # <<>> => buf'[k] = buf[k]
  BY <1>1, <1>2
<1>4. TypeOK'
  BY <1>1, <1>2 DEF TypeOK
<1>5. \A c \in Callers : Active(c) => my[c] \in Reqs
  BY DEF ReqnoInv, Active, Holding, TypeOK, Reqs
<1>6. FanoutInv'
  <2>1. \A c \in Callers : Active(c) /\ buf[my[c]] # <<>> => buf'[my[c]] # <<>>
    BY <1>3, <1>5
  <2>2. QED
    BY <1>1, <2>1 DEF FanoutInv, Active
<1>7. MuxInv'
  BY <1>1 DEF MuxInv, TypeOK
<1>8. ReplyInv'
  BY <1>1, <1>2 DEF ReplyInv, TypeOK
<1>9. QED
  BY <1>1, <1>4, <1>6, <1>7, <1>8 DEF ReqnoInv, Holding, Active,
     EOFReachesWaiters, FanoutInv

(* LinkDown: the transport drops the requests pending at s.               *)
LEMMA LinkDownStep ==
  ASSUME StampInv, NEW s \in Servers, LinkDown(s)
  PROVE  StampInv'
<1> USE DEF StampInv
<1>1. /\ linkUp' = [linkUp EXCEPT ![s] = FALSE]
      /\ pending' = [pending EXCEPT ![s] = {}]
      /\ UNCHANGED <<mux, reqno, inMap, buf, cerr, conn, pc, my, to, res, got,
                     hpc, hchan, todo, replied>>
  BY DEF LinkDown
<1>2. QED
  BY <1>1 DEF TypeOK, MuxInv, ReqnoInv, Holding, FanoutInv, Active, ReplyInv,
     EOFReachesWaiters

(* StartFanout: taken with c.Mux free, so no other fan-out runs; the      *)
(* goroutine keeps the mutex and owes an EOF to every channel of the map, *)
(* which holds the channel of every active caller.                         *)
LEMMA StartFanoutStep ==
  ASSUME StampInv, NEW s \in Servers, StartFanout(s)
  PROVE  StampInv'
<1> USE DEF StampInv
<1>1. /\ hpc[s] = "serve" /\ Free
      /\ mux' = s /\ todo' = [todo EXCEPT ![s] = inMap]
      /\ hpc' = [hpc EXCEPT ![s] = "fanout"]
      /\ UNCHANGED <<reqno, inMap, buf, cerr, conn, linkUp, pending, pc, my, to,
                     res, got, hchan, replied>>
  BY DEF StartFanout
<1>2. \A t \in Servers : hpc[t] # "fanout"
  BY <1>1, FreeNoFanout
<1>3. TypeOK'
  BY <1>1 DEF TypeOK
<1>4. MuxInv'
  BY <1>1, <1>2 DEF MuxInv, TypeOK
<1>5. \A c \in Callers : Active(c) => my[c] \in todo'[s]
  BY <1>1 DEF ReqnoInv, Active, Holding, TypeOK
<1>6. FanoutInv'
  BY <1>1, <1>2, <1>5 DEF FanoutInv, Active, TypeOK
<1>7. QED
  BY <1>1, <1>3, <1>4, <1>6 DEF ReqnoInv, Holding, ReplyInv, EOFReachesWaiters

(* FanoutSend: ch <- io.EOF on an empty channel it still owes; with the   *)
(* mutex held, s is the only goroutine in a fan-out.                       *)
LEMMA FanoutSendStep ==
  ASSUME StampInv, NEW s \in Servers, FanoutSend(s)
  PROVE  StampInv'
<1> USE DEF StampInv
<1>1. PICK r \in todo[s] :
        /\ buf[r] = <<>>
        /\ buf' = [buf EXCEPT ![r] = <<"eof">>]
        /\ todo' = [todo EXCEPT ![s] = @ \ {r}]
  BY DEF FanoutSend
<1>2. /\ hpc[s] = "fanout"
      /\ UNCHANGED <<mux, reqno, inMap, cerr, conn, linkUp, pending, pc, my, to,
                     res, got, hpc, hchan, replied>>
  BY DEF FanoutSend
<1>3. r \in Reqs
  BY DEF TypeOK
<1>4. \A t \in Servers : hpc[t] = "fanout" => t = s
  BY <1>2 DEF MuxInv
<1>5. \A k \in Reqs : buf'[k] # <<>> <=> buf[k] # <<>> \/ k = r
  BY <1>1, <1>3 DEF TypeOK
<1>6. \A c \in Callers : Active(c) => my[c] \in Reqs
  BY DEF ReqnoInv, Active, Holding, TypeOK, Reqs
<1>7. TypeOK'
  BY <1>1, <1>2, <1>3 DEF TypeOK
<1>8. FanoutInv'
  <2>1. ASSUME NEW t \in Servers, NEW c \in Callers, hpc'[t] = "fanout",
               Active(c)', my'[c] \notin todo'[t]
        PROVE  buf'[my'[c]] # <<>>
    <3>1. t = s /\ Active(c) /\ my'[c] = my[c]
      BY <1>2, <1>4, <2>1 DEF Active
    <3>2. my[c] \notin todo[s] \/ my[c] = r
      BY <1>1, <2>1, <3>1
    <3>3. QED
      BY <1>2, <1>5, <1>6, <3>1, <3>2 DEF FanoutInv
  <2>2. cerr' = "EOF" => \A c \in Callers : Active(c)' => buf'[my'[c]] # <<>>
    BY <1>2, <1>5, <1>6 DEF FanoutInv, Active
  <2>3. QED
    BY <2>1, <2>2 DEF FanoutInv
<1>9. ReplyInv'
  BY <1>1, <1>2, <1>3 DEF ReplyInv, TypeOK
<1>10. QED
  BY <1>2, <1>7, <1>8, <1>9 DEF MuxInv, ReqnoInv, Holding, FanoutInv, Active,
     EOFReachesWaiters

(* FanoutEnd: the fan-out owes nothing more, so every active caller has a *)
(* value waiting when c.Error is set and the mutex released.               *)
LEMMA FanoutEndStep ==
  ASSUME StampInv, NEW s \in Servers, FanoutEnd(s)
  PROVE  StampInv'
<1> USE DEF StampInv
<1>1. /\ hpc[s] = "fanout" /\ todo[s] = {}
      /\ cerr' = "EOF" /\ mux' = None /\ hpc' = [hpc EXCEPT ![s] = "exit"]
      /\ UNCHANGED <<reqno, inMap, buf, conn, linkUp, pending, pc, my, to, res,
                     got, hchan, todo, replied>>
  BY DEF FanoutEnd
<1>2. \A t \in Servers : hpc[t] = "fanout" => t = s
  BY <1>1 DEF MuxInv
<1>3. \A c \in Callers : Active(c) => buf[my[c]] # <<>>
  BY <1>1 DEF FanoutInv
<1>4. TypeOK'
  BY <1>1 DEF TypeOK
<1>5. MuxInv' /\ FanoutInv'
  BY <1>1, <1>2, <1>3 DEF MuxInv, FanoutInv, Active, TypeOK
<1>6. QED
  BY <1>1, <1>4, <1>5 DEF ReqnoInv, Holding, ReplyInv, FanoutInv, Active,
     EOFReachesWaiters

-----------------------------------------------------------------------------
(* The invariant.                                                          *)

(* StampInv holds initially and is kept by every step of TimeStamp and of *)
(* the AddServer goroutines.                                               *)
THEOREM StampInvariant == Spec => []StampInv
<1>1. Init => StampInv
  BY DEF Init, StampInv, TypeOK, MuxInv, ReqnoInv, Holding, FanoutInv, Active,
     ReplyInv, EOFReachesWaiters, Reqs
<1>2. StampInv /\ [Next]_vars => StampInv'
  <2> SUFFICES ASSUME StampInv, [Next]_vars PROVE StampInv'
    OBVIOUS
  <2>1. CASE UNCHANGED vars
    BY <2>1 DEF vars, StampInv, TypeOK, MuxInv, ReqnoInv, Holding, FanoutInv,
       Active, ReplyInv, EOFReachesWaiters
  <2>2. QED
    BY <2>1, CallStep, PutStep, GetChanStep, ReceiveStep, TimeoutStep,
       DeleteStep, ConnectStep, GetReplyStep, DeliverStep, LinkDownStep,
       StartFanoutStep, FanoutSendStep, FanoutEndStep DEF Next
<1>3. QED
  BY <1>1, <1>2, PTL DEF Spec

(* Every state the client reaches is well typed.                          *)
LEMMA StampTypeCorrect == Spec => []TypeOK
BY StampInvariant, PTL DEF StampInv

(* The EOF fan-out of AddServer terminates all pending TimeStamps         *)
(* (client_funcs.go:107-117): once c.Error is set, every caller blocked   *)
(* in the select has a value in its channel, for any number of callers,   *)
(* servers and requests.                                                   *)
THEOREM EOFReachesWaitersThm == Spec => []EOFReachesWaiters
BY StampInvariant, PTL DEF StampInv

=============================================================================
