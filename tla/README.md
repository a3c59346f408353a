# TLA+ verification of the CoSi collective-signing code

This directory holds TLA+ models of the collective-signing (CoSi) code of this repository. It also holds TLC configurations that model-check the models on small trees, and TLAPS proofs, for every value of the constants, of the invariants of the CoSi round, the stamp client and the lifecycle driver. The source is under `../src`.

## 1. The system

CoSi lets the nodes of a tree produce one Schnorr multi-signature. The protocol has four phases over the tree:

1. **Announcement**, top-down.
2. **Commitment**, bottom-up. Each node picks a secret `v`, commits `V = G^v`, and sends up `Commitment` (its own `V`) and `ChildrenCommit` (the sum over its subtree).
3. **Challenge**, top-down. The root hashes the aggregate commitment with the message into `c`.
4. **Response**, bottom-up. Each node answers `r = v - c*x` and sends up `Response` and `ChildrenResp`.

The signature `(c, r̂)` verifies against the aggregate key `X̂` when `Hash(G^r̂ * X̂^c, msg) = c`. A node that committed and then did not respond is an **exception**: its public key and commitment are published, and verification must take them out again.

| Part | Source | What it does |
|---|---|---|
| Signing engine | `lib/cosi/cosi.go` | One `Cosi` struct per node and round: `CreateAnnouncement`, `Announce`, `CreateCommitment`/`Commit`, `CreateChallenge`/`Challenge`, `CreateResponse`/`Response`, `genCommit`, `genResponse`, and the verifiers `VerifyResponses`, `VerifySignature`, `VerifySignatureWithException`. |
| Round orchestrator | `lib/sign/cosistruct.go`, `lib/sign/messagessign.go`, `lib/sign/nodeutils.go` | `CosiStruct` holds the round state: `ChildV_hat`, the exception sums, the Merkle leaves and proofs, and `InitCommitCrypto` and `InitResponseCrypto`. The four message types are in `messagessign.go`. `FillInWithDefaultMessages` adds a default message for every child that sent nothing, which is where exceptions come from. `multiplexOnChildren` pushes a message to all children. The round driver that sequences these calls (roundcosi, with the commit and response deadlines) is not under `src/` and is modelled from `spec.md` 4.2. |
| Lifecycle driver | `lib/conode/peer.go`, `lib/sign/nodeutils.go` | `LoopRounds` ticks a round every `ROUND_TIME` at the root. `ReceivedHeartbeat` re-arms the view-change timer. `ChangeView` and `updateLastSeenVote` handle view changes. `Close`, `SendCloseAll` and `WaitRoundSetup` handle shutdown and start-up. |
| Stamp client | `app/stamp/client_funcs.go` | `TimeStamp` sends a request and waits for its reply or a timeout. `ProcessStampSignature` delivers replies. `AddServer` reconnects with back-off and fans out EOF to pending requests. |
| Software-update check | `app/swupdate/verification.go` | `ApprovalCheck` loads the policy's developer keys and counts the distinct developers whose detached signature of a release commit verifies, against the policy's threshold. |
| Not protocol state | `app/conode/roundstats.go`, `lib/monitor`, `app/randhound`, `protocols/*`, `simul/*`, `deploy/*` | Statistics, measurement I/O, an unimplemented RandHound skeleton, and test-bed glue. |

How they interact: the lifecycle driver starts a round at the root. The orchestrator moves the four messages through the tree and calls the engine at each node. At the commit and response deadlines it declares the children that stayed silent exceptions. The stamp client feeds a hash into the root's round and waits for the signed reply.

The hard behaviours are these:
- A commitment or response arrives after its parent's deadline.
- A node crashes between commit and response.
- A message is lost.
- A challenge reaches a node that its parent timed out, so it never committed.
- The exceptions must be accounted for exactly once on the way up and in verification.
- Further out, the lifecycle has its own hazards: heartbeats of old views, a ticker that a new root never restarts, and racy shutdown. So does the stamp client: timeouts that report success, and replies sent to deleted channels.

The `hazards` list in `PROJECT.json` gives each hazard at its line.

## 2. Modules

| Module | Models | State | Actions |
|---|---|---|---|
| `CosiRound` | One round on a fixed tree, at the level of control: the driver plus the engine's phase changes. | `phase`, `alive`, `counted` (children whose commitment arrived before the deadline), `childSet` (`ChildV_hat` as a set of nodes), ghost sets `cset`/`rset`/`xset` (whose commitment, response and exception each aggregate holds), `msgs`, `faults` | `CreateAnnouncement`, `Announce`, `Commit`, `CreateChallenge`, `Challenge`, `Respond`, `RespondFails` (genResponse's "No random secret"), `Crash` (TryFailure), `Lose` |
| `Cosi` | Extends `CosiRound` with the values of `cosi.go`. The group is Z_Q with generator 1, so a point is its discrete log, `Add` is `+ mod Q` and `Mul(P,s)` is `P*s mod Q`. `Hash` is a constant operator. | `eng` (the six secret and point fields of `Cosi`), `comOut`, `respOut` | Each `CosiRound` step conjoined with the engine call it makes: `CreateCommitmentV`, `CommitV`, `CreateChallengeV`, `ChallengeV`, `CreateResponseV`, `ResponseV`. The verifiers are operators. |
| `CosiRoundProofs` | TLAPS proofs about `CosiRound`. | | |
| `SignRound` | The `CosiStruct` of `lib/sign/cosistruct.go` over consecutive rounds with values: `NewCosi`, `InitCommitCrypto`'s nonce, the Merkle root of the commitment log (`MerkleRound`), `InitResponseCrypto`, the root's recomputed challenge in `VerifyResponses`, and the `SignatureBroadcastMessage` of `messagessign.go`. | `round`, `stage`, `cs` (one `CosiStruct` record per node), `sentR`, `verified`, `seen` (the `<<V, C, R>>` triples of the responses a node has sent), `corrupt`, `sbm` | `StartRound`, `Announce`, `Commit` (children's Merkle roots in any arrival order), `CreateChallenge`, `Challenge`, `Respond` (correct, or a corrupted response up to `MaxCorrupt`), `Verify`, `Broadcast`, `ReceiveBroadcast` |
| `StampClient` | `app/stamp/client_funcs.go`: concurrent `TimeStamp` callers, one `AddServer` goroutine per server, `c.Mux` as its holder, each done channel as its buffer. | `mux`, `reqno`, `inMap`, `buf`, `cerr`, `conn`, `linkUp`, `pending`, the callers' `pc`, `my`, `to`, `got`, and the handler's `hchan` | `Call`, `Put`, `GetChan`, `Receive`, `Timeout`, `Delete`, `Connect`, `GetReply`, `Deliver`, `LinkDown`, `StartFanout`, `FanoutSend`, `FanoutEnd` |
| `StampClientProofs` | TLAPS proofs about `StampClient`. | | |
| `LifecycleProofs` | TLAPS proofs about `Lifecycle`. | | |
| `ApprovalProofs` | TLAPS proofs about `Approval`. | | |
| `Lifecycle` | `LoopRounds`, `ReceivedHeartbeat`, `ChangeView` and `updateLastSeenVote` over a set of nodes and views. | `view`, `ticking`, `lastRound`, `hb` (the view the timer in `sn.heartbeat` was armed with, or nil), `armed` (its `AfterFunc` has not fired yet), `ann`, `proposed`, `vcPending`, `closeSent`, `closeChan`, `listening`, the vote counter and handler registers, `started` | `Tick`, `LoopViewChange`, `LoopClose`, `ListenReturns`, `ReceivedHeartbeat`, `LoseAnn`, `HeartbeatFires`, `ChangeView`, `VoteLoad`, `VoteStore` |
| `Peer` | `Close` and `WaitRoundSetup` of `lib/conode/peer.go`. | `closed`, `closeChan`, `loopDone`, `cpc`, `nodeCloses`, `wpc`, `attempt`, `try`, `gor`, `gerr`, `result` | `ListenReturns`, `CallClose`, `CheckClosed`, `SetClosed`, `SendClose`, `CloseNode`, `LoopCloses`, `NewAttempt`, `RoundEnds`, `SelectDone`, `SelectCounted`, `Drain` |
| `Approval` | `ApprovalCheck` of `app/swupdate/verification.go`. A signature is the developer whose key made it, or `Invalid`. | `threshold`, `devKeys`, `signatures`, `developers`, `i`, `approvers`, `returned`, `result` | `LoadKey`, `CheckSignature`, `Return` |
| `MC*` | TLC instances: model-value nodes, tree functions, private keys, nonces and hash functions. | | |

The correspondence is kept in `PROJECT.json` `map`. Definitions that model code outside `src/` (the round driver, `ProofTree`, the view-change quorum) are marked `spec_modelled` there and follow `spec.md`.

A node's ghost set is the abstraction of a point aggregate: `cset[n]` is the set of nodes whose `V` is summed into `n`'s `V_hat`. `Cosi` shows the abstraction is faithful. Its `AggregationAdditive` invariant states that every aggregate the code computes equals the sum over exactly the nodes of the ghost set.

Deadlines and timers are not clocks. A step guarded by a deadline may fire at any moment after its phase is reached, with whatever has arrived, and that covers every order of deadline and message. Faults, rounds, views, requests and attempts are capped by named bounds (`MaxFaults`, `MaxRound`, `MaxView`, `MaxReq`, `MaxAttempts` and so on).

In `SignRound`, the Merkle tree builder `ProofTree` is not under `src/`. It is modelled by `TreeRoot`, a recursive pairwise hash that is injective enough for the properties, and `SortedSeq` sorts the leaves as the code does. `HashElGamal` and `HashIds` are constant operators. In the MC module they are a polynomial fold mod a large prime and a small hash mod Q.

## 3. Runs

| Run | Instance | Checks | Shows |
|---|---|---|---|
| `round_accounting` | Tree r→{a→b, c}, `MaxFaults = 2`. 138,186 states in about 15 s. | `ExceptionAccounting`, `SignersDisjoint`, `AccountingInv`, `DisjointInv` | A responding node's commitment set is exactly its responders plus its exceptions, with no node in both. The inductive invariants of both proofs hold: messages in flight and the stored `ChildV_hat` carry the sender's final sets. |
| `cosi_values` | Same tree, Q = 5, nonces {1,2}, keys summing to a non-zero key, `MaxFaults = 1`. 201,443 states in about 20 s. | `AggregationAdditive`, `RoundTrip` | The Schnorr arithmetic sums exactly the counted signers, and a round with no exception verifies with `VerifySignature`. |
| `exception_verify` (violation) | Chain r→a→b, Q = 5, nonces {1,2,4}. | `ExceptionVerification` | Finding 1 below. |
| `stamp_client` | Two callers, two servers, `MaxReq = 3`, symmetry over callers. About 680,000 states in about 20 s. | `EOFReachesWaiters`, `StampInv` | Once `c.Error` is set, every caller still waiting has a value in its channel. The proof's inductive invariant holds. |
| `stamp_eof_deadlock` (violation) | Two callers, one server, `MaxReq = 2`, under `FairSpec`. | `TimeStampReturns` | Finding 2 below. |
| `lifecycle_views` | Nodes r, a, b; views 0 and 1 with a as root of view 1; two rounds; one vote handler. 178,731 states in about 10 s. | `TypeOK` | Every state is well typed although timers fire, are re-armed by late heartbeats of an old view, and vote handlers interleave: `CloseChan` never overflows its capacity of 5, and a timer that fires always proposes a view number. |
| `lifecycle_new_root` (violation) | Same instance without vote handlers, under `FairSpec`. | `NewRootRuns` | Finding 3 below. |
| `peer_close` | Two closers (the Listen goroutine and one outside caller), `NbHost = 2`, `Retry = 2`, three attempts, under `FairSpec`. 29,484 states. | `CloseReturns` | Every call of `Close` returns: `CloseChan` has room for every value sent to it, though `LoopRounds` takes only one. |
| `peer_double_close` (violation) | Same instance. | `NodeClosedOnce` | Finding 4 below. |
| `sign_round` | Tree r→{a, b}, Q = 5, two messages, two timestamps, `MaxRound = 2`, `MaxVerify = 2`, `MaxCorrupt = 1`. 175,333 states in about 15 s. | `ResponsesVerify`, `PublishedSignatureValid` | With no corrupted response, every `VerifyResponses` succeeds, the second call of a round too, after the root's first call overwrote `C`. A signed node holds a broadcast signature that satisfies the Schnorr equation for the sum of all keys and the root's challenge. |
| `sign_nonce_reuse` (violation) | Same instance. | `NonceNotReused` | Finding 5 below. |
| `approval_check` | Two developers, up to three signatures, thresholds 0 to 3, symmetry over developers. 1,992 states. | `ApprovalCorrect` | `ApprovalCheck` returns true exactly when at least `Threshold` distinct developers with a loaded key signed. Duplicates count once, and unloadable keys and invalid signatures count for nothing. |

Why these bounds are enough:
- **CoSi trees.** The tree has a node with two children (the root) and a node with a child and a parent (`a`). It therefore has every shape of aggregation: leaf, inner node and root, with one child late while its sibling answers.
- **Faults.** Two faults allow a crash together with a lost message. One fault is enough to make an exception.
- **Group and keys.** Q = 5 is prime. The keys are chosen so that the aggregate key is not 0 mod 5, because with a zero key a sign error in `r = v - c*x` would go unseen.
- **`sign_round`.** Two rounds are what nonce reuse needs, and `MaxVerify = 2` calls `VerifyResponses` again after the root overwrote `C`. Both children of the root may arrive in either order, which exercises the sorting of the Merkle leaves.
- **Stamp client.** Three requests over two callers let one caller time out and call again while the other's reply is in flight.
- **Lifecycle.** Two views are the least that has a view change. Two rounds let a heartbeat of view 0 arrive after the change and re-arm a fired timer.
- **Approval.** Three signatures over two developers and `Invalid` include a duplicate signer, an invalid signature and every threshold from zero to above the number of developers.

Deadlock checking is off in every run. The systems modelled really stop: a round ends, callers stop once `MaxReq` requests are used, and a closed peer does nothing more.

Each property of a passing run has a mutant, a plausible bug that TLC must catch (`PROJECT.json` `mutants`):
- **CoSi engine and round.** `Late` declaring no exceptions or all of them. `Arrived` counting every child. `OwnResponse` computed as `v + c*x`. `ChildCommit` dropping `ChildrenCommit`.
- **Stamp client.** `TimeStamp` ignoring `c.Error` (for `EOFReachesWaiters` and `StampInv`).
- **Lifecycle.** The round budget tested with `>`.
- **Peer.** `CloseChan` with capacity 1.
- **`SignRound`.** `InitResponseCrypto` computing `v + x*C`. The broadcast sent without checking the root's verification.
- **Approval.** A strict comparison with the threshold (for `ApprovalCorrect`).

### Findings

1. **`VerifySignatureWithException` ignores `subPublic` (cosi.go:293).** The function computes `subPublic = public - Σ exception keys` and then recomputes the commitment with the full `public`. TLC's trace: `b` commits and never responds, and becomes the root's only exception. With r̂ = 4, c = 1 and X = 1, the code recomputes 0 + V_b = 1 and `Hash(1, msg) = 4 ≠ c`. So every signature with an exception is rejected, although the doc comment and `spec.md` 4.1 say it verifies.
2. **The EOF fan-out can deadlock (client_funcs.go:114).** A caller times out while its reply is buffered. The link then breaks, and the fan-out takes `c.Mux` and blocks on `ch <- io.EOF` on that full channel. Meanwhile the caller waits for `c.Mux` to delete its channel. Neither moves, and every later `TimeStamp` blocks on `c.Mux`. The comment at line 108 says the fan-out terminates all pending transactions.
3. **A new root never starts a round (peer.go:98).** `LoopRounds` stops the ticker of every node that is not root of its first view, and its `ViewChangeCh` case only logs. A node that becomes root by a view change therefore never ticks, while `spec.md` 4.3 says the root of the current view starts a round on every interval.
4. **`Close` is not idempotent (peer.go:149).** `peer.Closed` is tested and set without a lock. The Listen goroutine and an outside caller can both pass the test and both close the node.
5. **Commitment nonces are reused (cosistruct.go:111).** `InitCommitCrypto` seeds the cipher with the node's name only, so every round of a node picks the same `v`. Two responses to different challenges give away the key: x = (R1 - R2)/(C2 - C1). `NonceNotReused` requires that no commitment `V` of a node answers two different challenges; `V`, `C` and `R_hat` travel in clear, and `R` is `R_hat` minus the children's. TLC finds a node whose two rounds, signing different messages, answer two challenges under the same `V`.

## 4. Fairness

Only the liveness runs use fairness (`FairSpec`):
- **StampClient.** Each caller's steps are weakly fair, and so is a server goroutine's connection, delivery and fan-out. Every goroutine that can run eventually runs. The select with a timeout makes `Receive \/ Timeout` fair as one alternative. The remote server is not fair: it may never answer, and its link may break or not.
- **Lifecycle.** The ticker, the select of `LoopRounds`, each goroutine's next step and the TCP delivery of `CloseAll` are weakly fair. The heartbeat timer, message loss and the vote quorum are not: traffic re-arms a timer, and the quorum is outside `src/`.
- **Peer.** Each step of `Close` and of `WaitRoundSetup` is weakly fair, and so is the end of a setup round, which has a timeout. `Node.Listen` returning and an outside `Close` are up to the environment.

## 5. Proofs

Four modules hold proofs: `CosiRoundProofs`, `StampClientProofs`, `LifecycleProofs` and `ApprovalProofs`. Each invariant is proved the same way. An inductive invariant `IInv` is found, and TLC checks it on the component's run first. Then three facts are proved:
- `Init => IInv`;
- `IInv /\ [Next]_vars => IInv'`, with one lemma per action;
- `IInv => Inv`.

PTL then gives `Spec => []Inv`. The only assumptions are the named `ASSUME`s of the modelled modules. These are that `Root` is a node and `Parent` maps the other nodes to nodes, that the bounds are naturals, that `None` is neither a caller nor a server, and that `Invalid` is not a developer.

### The CoSi round (`CosiRoundProofs`)

These theorems hold for every `Node`, `Root`, `Parent` function and `MaxFaults`. That includes cycles and self-loops: the proofs never need the tree to be acyclic.
- **`TypeCorrect`**: `Spec => []TypeOK`. It uses `TypeStep`, with one step per action.
- **`AccountingInvariant`**: `Spec => []AccountingInv`, the inductive invariant below, which `round_accounting` also checks.
- **`ExceptionAccountingThm`**: `Spec => []ExceptionAccounting`. `ExceptionAccounting` is not inductive on its own: whether a parent's sets add up depends on what its children sent and on what it stored at commit time. The inductive invariant `AccountingInv` adds five conjuncts:
  - `ComMsgInv`: a commitment message carries its sender's final aggregate set.
  - `ChildSetInv`: the `ChildV_hat` stored for a counted child is that child's aggregate.
  - `CsetInv`: a committed node's aggregate is itself plus what it stored for its counted children.
  - `PhaseInv`: a node commits and responds at most once.
  - `RespMsgInv`: a response message carries its sender's final response and exception sets.

  There is one lemma per kind of step:
  - `PhaseOnlyStep` covers the steps that only move a phase forward.
  - `CommitStep`: the committing node has not committed before, so nothing refers to it yet.
  - `RespondStep` carries the main argument. Each counted child either answered, in which case its response's `rset ∪ xset` equals the stored `ChildV_hat`, or it is late and that `ChildV_hat` becomes exceptions. The union over the counted children is then the node's aggregate.
- **`DisjointInvariant`** and **`SignersDisjointThm`**: `Spec => []DisjointInv` and `Spec => []SignersDisjoint`. When a node responds, no node is both a signer and an exception.
  - The danger is a node that reaches its parent along two paths. It would then be a signer through one child and late through another.
  - That cannot happen even on a cyclic `Parent`, because a node commits once and only after the children it counts have committed. The commit order breaks every cycle.
  - `DisjointInv` adds three conjuncts to `AccountingInv` that capture this:
    - `CsetClosedInv`: every member of an aggregate other than its owner is committed and has its parent in that aggregate.
    - `LaminarInv`: any two aggregates are disjoint or nested.
    - `SiblingInv`: a counted child is a child, and its aggregate does not hold its parent.
  - `CommitDisjointStep`: the committing node is in no aggregate yet. Its new aggregate sits above those of its arrived children, so it meets any other aggregate only by containing it.
  - `SiblingsDisjoint`: if two counted siblings' aggregates overlapped, one would hold the other. It would then hold their common parent, which `SiblingInv` rules out.
  - `RespondDisjointStep` uses `SiblingsDisjoint`. Signers come from the answering children and exceptions from the answering and the late ones. Each child's own sets are disjoint, and different children's aggregates do not meet.
  - `AccountingInv` is used both before and after each step.

### The stamp client (`StampClientProofs`)

These theorems hold for any sets of callers and servers and any `MaxReq`: `StampInvariant` and `EOFReachesWaitersThm` (the lemma `StampTypeCorrect` gives `TypeOK`).
- `EOFReachesWaiters` is not inductive alone, and neither is `TypeOK`: `Receive` takes the head of `buf[my[c]]`, which needs `my[c]` to be a request number. `StampInv` adds four conjuncts:
  - `MuxInv`: only a server in its EOF fan-out holds `c.Mux` across steps.
  - `ReqnoInv`: the callers that hold a request number, from `Call` to their `Delete`, hold distinct numbers already given out, and those numbers are still in `c.doneChan`.
  - `FanoutInv`: a fan-out in progress has left a value in the channel of every active caller it has passed. Once `c.Error` is set, it has done so for every active caller.
  - `ReplyInv`: a buffered reply, and a reply a handler is carrying, belong to an answered request.
- `ReqnoInv` is what makes `StartFanout` (the whole map is the fan-out's to-do set) and `Delete` (it removes only its own number) keep `FanoutInv`. `FreeNoFanout` says that a free mutex means no fan-out runs, so the callers' critical sections cannot interleave with one.
### The lifecycle driver (`LifecycleProofs`)

`LifecycleTypeCorrect` holds for any nodes, root assignment of views, `MaxView`, `Rounds`, handlers and `MaxVote`. `TypeOK` is not inductive; the lemma `LifecycleInvariant` proves `LifecycleInv`, which adds two conjuncts:
- `ArmedInv`: a pending timer is a non-nil one (`armed[n] => hb[n] \in Views`). `ReceivedHeartbeat` re-arms only a non-nil timer, and a fired timer keeps its view, so `HeartbeatFires` proposes `hb[n] + 1`, a view number.
- `CloseChanInv`: `CloseChan` holds at most the two values of the Listen goroutine and `Close`, and none before `Node.Listen` returns. Without it, `TypeOK`'s capacity bound of 5 is not inductive.

### The approval check (`ApprovalProofs`)

`ApprovalCorrectThm` holds for any set of developers, any threshold up to `MaxThreshold`, any key list and any signatures file of at most `MaxSigs` signatures. It rests on the lemma `ApprovalInvariant`.
- `ApprovalCorrect` speaks only of the value returned, so it is not inductive. `ApprovalInv` is the loop invariant of `ApprovalCheck`:
  - no signature is checked before the last key is loaded (`i = 1` while keys remain);
  - `approvers` is exactly the loaded developers among `signatures[1 .. i-1]`;
  - once returned, the loop has run to the end and `result` is `Cardinality(approvers) >= threshold`.
- `CheckSignatureStep` shows that checking signature `i` extends the prefix by one, whether the signer is new, a duplicate or not a loaded developer. `LoadKeyStep` shows that loading a key leaves the empty prefix empty, even though `developers` grows.
- At return `i = Len(signatures) + 1`, so `approvers` is `ValidSigners` and `ApprovalCorrect` follows. No fact about cardinality is needed: both sides compare the cardinality of the same set.

TLC checked every inductive invariant (`AccountingInv`, `DisjointInv`, `StampInv`, `LifecycleInv`, `ApprovalInv`) before the proofs were written. The runs still check `AccountingInv`, `DisjointInv` and `StampInv`.

### What only TLC checks

- The value-level properties of `Cosi` and `SignRound`. `Cosi`'s responses and commitments are sums over sets of nodes (`MapThenSumSet` of the community folds). What such a sum is for every set needs induction over the fold's recursive function, and the library's induction theorems take an operator parameter, which the installed provers cannot instantiate. `SignRound` also declares RECURSIVE operators (`SumOver`, `SortedSeq`, `TreeRoot`), which remove the SMT backend from any module that reaches them.
- The liveness properties (`CloseReturns`, `TimeStampReturns`, `NewRootRuns`): the provers do not handle fairness or ENABLED.
- `Peer` has no safety invariant that a passing run checks: `CloseReturns` is liveness, and `NodeClosedOnce` is violated.

## 6. Not modelled, and why

- **Transport, framing, tree and peer configuration.** The tree is a constant `Parent`.
- **The Merkle proof half of the orchestrator.** `SeparateProofs`, `StoreLocalMerkleProof`'s proofs and `CheckProof` rest on `ProofTree` and `CheckProof` of a package not under `src/`. Only the roots are modelled, through `TreeRoot`.
- **`StatusReturn` of `nodeutils.go` and `app/conode/roundstats.go`.** They count and print statistics and change no protocol state.
- **`lib/monitor`.** Measurement I/O over sockets.
- **`app/randhound`.** An unimplemented skeleton with no state transitions to model.
- **`simul/*`, `deploy/*`, examples and tests.** Test-bed glue that converts trees (`convertTree`), adds private keys to configurations (`addPrivateKey`) and launches processes.
- **Randomness and hashing.** `genCommit` picks from the constant set `Nonces`, and the cipher-based hashes are constant operators.
- **Hazards without a property** (`PROJECT.json` `hazards` gives the reason for each): the lost update of `updateLastSeenVote` (nodeutils.go:178), the blocked `ChangeView` send (nodeutils.go:192), the leaked setup goroutine (peer.go:175), the timeout reported as success (client_funcs.go:181), and the handler blocked forever on a reply whose channel was deleted (client_funcs.go:212), the heartbeat of an old view re-arming a fired timer so that it proposes a view the node has left (nodeutils.go:66), and the stale challenge of a second `VerifyResponses` (cosistruct.go:259), whose recomputed message is built outside `src/` and is the same expression in the model.

## 7. Further work

- A violation run for the stale heartbeat: a timer re-armed by a heartbeat of view v after the node reached view v + 1 proposes v + 1 again, which the comment of `ReceivedHeartbeat` says should not change anything.
- Approvers keyed by entity id, as the code does: a developer with two entities whose keys both verify would count twice.
- A property for the lost update of `updateLastSeenVote`: a vote number never moves back. TLC already reaches the interleaving in `lifecycle_views`.
- A proof that a send on `CloseChan` in `Peer` never waits for room. More than five values are sent only when at least five goroutines race past the unlocked `Closed` test, so the proof would need a bound on the callers that the code does not give.
