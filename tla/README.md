# A verification project for Web4

Web4 (the repository this directory belongs to) is a peer-to-peer ledger
without global consensus.  Every node keeps all transfers it has heard of,
scores the ones that compete for a value, selects one of them per value, and
derives from the selection and from the evidence of its peers whether a
transfer is PENDING, SELECTED or FINAL.  Transfers spread by gossip over TCP.

This directory holds TLA+ models of the parts that decide whether that works,
TLC configurations that check them, and TLAPS proofs, for every size of their
parameters, of every safety property the configurations check: of the node, of
the network of nodes, of nodes that block, of the transport, of the bytes on a
connection, and of the node processes and commands; of the node's refinement of
an abstract ledger; and of the agreement of the code's loops with what the
models say they compute.  Liveness is model-checked.

## 1. The system and its parts

| Part | Source | State it keeps | Operations | What makes it correct |
| --- | --- | --- | --- | --- |
| Selection | `node/selection.go` | selected lineage per value | score, rank, select, recompute | the recorded winner is the one the present evidence gives |
| Finality | `node/finality.go` | status, confidence and score per transfer | update after every recomputation | one selected transfer per value; FINAL never unjustified |
| Node | `node/node.go`, `handlers.go`, `store.go` | transfers, values, conflict sets, observations, proofs, peers | `OnMessage` (INV, GET, TX, PROOF_REQ, PROOF_RESP), `AcceptLocalTransfer`, `SeedValue` | stores agree with each other; only owners spend |
| Replay cache, input tracker | `protocol/replay.go` | seen message IDs with expiry; consumed inputs | mark, prune, consume | a user never spends a value twice locally |
| Gossip | the handlers of all nodes over connections | frames in flight | announce, ask, deliver, prove | what one node holds all nodes hold; the flood ends |
| TCP transport | `transport/tcp.go` | connection registry, handshake state, wait group | `Start`, `Send`, accept loop, read loops, `Close` | no dead entries, leaked sockets, forgotten waiters |
| Node process | `internal/cli/runtime.go` | control socket, mutex around the node | start, `Close`, crash, restart, `sendTx`, reports | one reachable node per control path; a payment can be repeated |
| Commands | `internal/cli/cli.go`, `runtime.go` | none | find the path, dial, call, report | a command returns if its node can; success means what it says |
| Inspection | `node/inspect.go` | none | counts, lineages, finality, conflicts, values | the reports of one state agree |
| Codecs | `protocol/message.go`, `payload_*.go`, `transport/transport.go`, `crypto/encode.go`, `decode.go` | none | encode, decode, cut a stream into frames | what is sent arrives whole and in order; one encoding per content |
| Cryptography | `crypto/` | none | sign, verify, hash | external |
| Shell, demos | `internal/cli/repl.go`, `demo.go` | none | edit lines, run scripts | not modelled |

How they interact.  A read loop of the transport decodes a frame and calls the
runtime's handler, which takes the runtime's mutex, calls `Node.OnMessage` and
holds the mutex while the node's replies are written through `Transport.Send`.
A control client's `sendTx` takes the same mutex around
`AcceptLocalTransfer`, and so do the reports and the beginning of `Close`.  So
a node handles one call at a time, but its transport, its control socket and
its peers run concurrently.  `Transport.Send` dials, waits for the peer's
handshake and writes, all under that mutex and without a deadline: a peer that
accepts a connection and then stays silent stops the node that sends to it, its
commands and its shutdown.

Each node of the runtime seeds its own developer value and no other
(`runtime.go:271-285`), and the command line has no way to give it more.  A
peer therefore refuses its payments, whose input it does not know
(`handlers.go:160`): they are announced and fetched, and not stored.  The tests
and demos seed several nodes alike, and between those transfers do spread.

What is hard.  Scores depend on the clock but are only recomputed when a
message arrives; a transfer with several inputs takes part in several
conflicts; a handler changes its state before it sends, and the first failed
send ends it; nothing is ever sent twice; a transfer that arrives before its
parent is refused; connections are registered, used, dropped and closed by
several goroutines under two kinds of locks; the control path is probed,
removed and created in separate system calls.  `PROJECT.json` lists these
hazards at their lines, with the property that covers each.

## 2. Modules

    Web4Selection          scores, selection, finality: functions of a node state
      Web4Handlers         node state, stores, validation, handlers, replay cache
        Web4Inspect        the reports of a node
          Web4Node         one node in an arbitrary environment
            Web4Loops      the code's loops, compared with what they compute
            Web4NodeLedger the node implements Web4Ledger
              MCWeb4Node
        Web4Gossip         a network of nodes, connections, crashes, restarts
          MCWeb4Gossip
          Web4Causal       the same, with what the nodes have refused
            MCWeb4Causal
        Web4Link           nodes whose sends block, mutex in hand
          MCWeb4Link
    Web4Ledger             what a node promises, without the evidence
    Web4Codec              byte formats: transfers, payloads, messages, frames
      Web4Wire             one connection, byte by byte
        MCWeb4Wire
    TCPTransport           one transport, goroutine by goroutine
      MCTCPTransport
    Web4Runtime            processes and their control paths
      MCWeb4Runtime
      Web4Control          commands, processes and nodes (with Web4Handlers)
        MCWeb4Control

    Web4HandlersProofs     the proofs: scores, order, confidence; what every
                           handler preserves and changes
      Web4NodeProofs       one node: invariants, refinement of Web4Ledger, loops
      Web4GossipProofs     the network
        Web4CausalProofs   Web4Causal; what is under way on a link
          Web4LinkProofs   nodes that block (by INSTANCE of Web4CausalProofs)
      Web4ControlProofs    processes and commands
    TCPTransportProofs     the transport
    Web4WireProofs         the codec and one connection, byte by byte

Operators under a comment that begins "Mutant:" are wrong variants of the
definition that follows.  They are used by nothing; they exist to show that
the properties notice such a mistake.

**Web4Selection.**  Transfers and values are content addressed, so what an ID
stands for (inputs, outputs, owner, amount, expiry) is a constant function.
Equal contents are one ID, as in the code's maps.  `scoreTx`,
`conflictCleanliness`, `betterScore`, `computeConfidence`, ... have the names
of the Go functions.  Scores are float64 in the code and fixed point here:
components in units of 1/1000000, weights in percent; `math.Log` is the
constant table `LogCount`.  Rounding can therefore order two scores that are
within 1e-6 of each other differently from the code; no property depends on
such a tie, since `betterScore` is total either way.  Amounts are summed modulo
`AmountModulus`, as uint64 wraps.

**Web4Handlers.**  A node's state is a record with one field per map of the Go
struct; a Go map is a function whose domain is its keys.  Every operation is an
operator from a state to a reply: the new state and the messages to send.  In
the code every send of a handler comes after its last state change, so this
loses nothing.  Left out because no decision reads them: the times of
observations and proofs, `SeenCount`, the encoded bytes, the log of sent
messages, TTL and timestamp of messages.  A signature is the key that made it.
A handler that fails to decode its payload does nothing, which is the message
`ACK` here.  The code reads the clock several times in a handler; the model
reads it once, and the clock never goes back.

**Web4Node.**  One node, and an environment that may send any message from any
peer with any message ID, at any time, valid or not.  `seeded` and `accepted`
are history variables.

**Web4Loops.**  `selectBest` in the code is a running maximum over a ranked
list, `recomputeSelectionForTransfer` visits input after input and refreshes
finality in between, `resolveSigner` walks the inputs.  The other modules say
what these loops compute; this one states the loops as recursive functions, one
iteration after the other with their intermediate states.  TLC compares the two
in every reachable state of the instances, and section 4 proves them equal.

**Web4Inspect.**  Every report of `node/inspect.go` as the set of its entries.

**Web4Ledger, Web4NodeLedger.**  The abstract specification has four
variables: the known transfers, the values, the winner of each spent value, and
the final transfers.  It may `Grant` a value, `Learn` a well-formed transfer of
known values, or `Reconsider` one it knows; the last two decide the inputs of
that one transfer anew and leave every other decision alone.  Scores, proofs,
observations, replay and the clock are gone.  The refinement mapping reads the
four variables off a node's stores; `ImplementsLedger` says that every message,
submission and tick is such a step or none.

**Web4Gossip.**  `chan[p][q]` is the sequence of frames p has written to q.
It is FIFO because p uses one connection for q at a time and q handles its
frames in one read loop.  `send` sends a prefix of a reply: it stops at the
first peer that cannot be reached.  A reply has at most one message for a peer
(`OnePerPeer`, proved), which `written` relies on.  A process may stop (`Crash`)
and be started again at its address with the memory of a new process
(`Restart`; what its last process wrote may still be read); a connection may
break and lose what is in flight (`Drop`); each end notices when its read loop
ends (`Notice`) or a write fails.  Writes to a broken connection may succeed and
be lost.  `lost` is a history variable: what a node held in earlier lives.  A
proof request is made only when the two nodes have nothing else under way and
the asker has no answer yet, which bounds the model and not the code.  Message
IDs are 16 random bytes and nothing is sent
twice, so the replay cache is not consulted here.  The in-memory network of the
tests and demos, where `send` calls the peer's `OnMessage` directly, is not
modelled.

**Web4Causal.**  Web4Gossip with a history variable: the transfers that were
delivered to a node and not stored.  `handleTX` drops them without a trace, and
nobody asks for them again.

**Web4Link.**  The same handlers where a send can block: a read loop reads a
frame, waits for the mutex, and keeps it until the last message of its reply is
written.  The first send to a peer waits for the handshake of the connection
(`Handshake`), and a connection takes `Capacity` units before the other end must
read.  Nothing has a deadline.  A process may stand still for good with its
connections open (`Freeze`): then handshakes with it are not finished and it
reads no more.  Here a handler is several steps, so two nodes can meet in the
middle.

**Web4Codec, Web4Wire.**  Encoders and decoders are operators on sequences of
bytes, and an integer is its digits to the base 256 (`digits`, `number`), two's
complement for signed ones.  The widths of the fields are parameters, and a
small instance (64-bit integers of one byte, lengths of two) goes through every
branch, the sign included.  Web4Wire is one
direction of one connection: an opener that writes the handshake, senders that
find the connection in the registry before that, wait for `ready`, take
`writeMu` and write a frame in pieces; a read loop that cuts the stream; a
connection that breaks between any two bytes; and a foreign implementation that
writes good frames with one byte changed, added or missing at the level of the
frame, the body or the payload.

**TCPTransport.**  One step runs from one lock or blocking call to the next.
Sender goroutines go through `getOrDial`, dial, `startConn`, the handshake,
`waitReady` and the write; a reader goroutine per connection through the
handshake, `registerConnKey`, `markReady`, the frame loop and `dropConn`;
`Close` through its snapshot, the listener, the connections and `wg.Wait`.
The other ends do what they like: refuse, send any address, garbage, nothing,
or close.  A read loop hands frames to the handler (`HandleFrame`), which may
return (`HandlerReturns`) or not: the runtime's handler waits for a mutex whose
holder may be in `Send`.  Meanwhile the loop reads nothing, not even the end of
its connection.  One stay in the handler stands for all frames that have come by
its end.

**Web4Runtime.**  One step per system call on a control path; which path a
process or command uses follows `startControlSocketPath` and
`clientControlSocketPath`.  The Go net package unlinks the path of a Unix
listener on close, by name.  `rival` is a history variable: who with the same
path was alive during a process's last start.

**Web4Control.**  Web4Runtime composed with the node: a process starts with an
empty memory and seeds its developer value; a command dials the path, is
accepted, and is served by `sendTx` or by one of the reports; the end of the
process, of the listener or of a connection is an error of the call.  A user
repeats what failed.  `mu[d]` is the runtime's mutex.  A payment takes it, makes
and stores its transfer, and has it until its announcements are sent
(`SendReturns`), which may take for ever, or fail in the middle.  Messages of
peers are handled under it too (`Receive`, `HandlerReturns`): any INV, GET or TX
about a transfer that was made at some node, including one that this node made
in an earlier life and has forgotten.  `Close` takes it first.  The ID of a
transfer leaves out the timestamp, as the canonical encoding does.

## 3. What TLC checks

| Run | Instance | Checks | States |
| --- | --- | --- | --- |
| `node_conflicts` | 3 transfers, t1 and t2 compete for v1, t2 and t3 for v2; 2 peers; times 0..2 | `TypeOK`, `ConflictSetsExact`, `SelectionReproducible`, `FinalityMatchesSelection`, `NoDoubleSelection`, `RecomputeMatchesLoop`, `LocalSingleUse`, `ReportsAgree`, `ImplementsLedger` | 59,260 |
| `node_lineage` | a chain and its rivals, 4 transfers, 2 keys, an empty owner, an expiring output; proofs; times 0..3 | `FinalJustified`, `FinalNeedsPeers`, `ValueProvenance`, `SignerMatchesLoop`, `FinalDemotion` | 151,056 |
| `gossip_faults` | 3 nodes in a triangle, 1 transfer, 1 proof request, 1 crash and restart, 1 broken connection, times 0..1 | `TypeOK`, `EvidenceTruthful`, `OneConversation`, `Quiesces`, `OneBreakHeals` | 221,782 |
| `gossip_spread` | the triangle, rivals and a child of one of them, a node without one of the seeds, no faults | `ParentsFirst`, `Propagates` | 32,633 |
| `link_blocking` | 2 nodes, 2 transfers submitted at each, 1 frame per connection, 1 process may stand still | `CircleNeedsTraffic`, `MutexReleased`, `BlockingSpreads` | 36,939 |
| `wire_stream` | 2 senders, 2 sends out of 3 messages, one of them too long for a frame; every single-byte edit of a frame of four types | `DeliveredAsSent`, `OneEncoding`, `RefusesOnlyStrangers`, `EverythingArrives` | 41,783 |
| `tcp_registry` | 2 addresses, 1 sender, 2 connections | `TypeOK`, `RegisteredIsOwned`, `OpenIsOwned`, `WaiterIsServed`, `CloseWaitsForAll`, `EndedIsForgotten` | 676,578 |
| `runtime_path` | 2 nodes at one path, 1 crash, a payment and a report, messages of a peer, times 0..1 | `LoneStartSucceeds`, `LoneNodeReachable`, `RetryMakesNoRival`, `OkMeansAnnounced`, `ForeignFileKept`, `CommandReturns` | 199,361 |

Why the bounds are enough.

- Node: one unit of time is 15 s, so `stabilityTau` is 2: an age of zero, part
  and all of it occurs.  A transfer with two inputs between two rivals is the
  smallest case in which selection per input and status per transfer can
  disagree.  The replay TTL is 1 unit instead of 4, so that IDs expire and are
  reused within the bound, and the number of IDs bounds messages per unit of
  time, not messages per behaviour.
- Gossip: three nodes in a triangle give every transfer two ways to each node,
  hence duplicates, and a way around one broken connection.  One crash is enough
  for a restart, after which the others count on a node that has forgotten; more
  of everything is in the proofs.
- Link: between two nodes a transfer has one message under way at a time, so a
  circular wait needs two messages more than both connections hold together.
  With 4 transfers and room for 1 frame per connection that is just enough: the
  instance is the smallest in which the circle occurs, and `link_deadlock` shows
  it.  The passing run says what the circle takes and that, apart from it and
  from a process that stands still, mutexes are released and transfers spread.
- Wire: two senders are enough to interleave, the transfer just fits into a
  frame and the long message is one byte over it.
- TCP: two connections give a dial against an accept and a re-dial after a
  failure.  Two addresses give a peer that claims another's.  A second
  sender (double dial) is in the proofs, for any number of them.
- Runtime: a start against a running, stopping or crashed predecessor needs two
  processes and one crash; so does a payment that is repeated at a node that has
  forgotten it.  Two times of the clock tell a transfer that is made again from
  the one that was made first.

Symmetry is over peers and message IDs (Web4Node, where peers are never ordered
because nothing is sent).

Deadlock checking is off where the system may rightly stop: a network or
connection with nothing left to say, a closed transport, commands that have
succeeded.

Fairness.  Each is weak fairness of a goroutine that is not blocked; where
ENABLED would make TLC evaluate a whole handler it is written out as "infinitely
often idle or infinitely often a step".

- Web4Gossip: as long as frames wait at running processes, some read loop
  handles one, and broken connections are noticed.  None for submissions,
  faults or questions.
- Web4Link: between processes that run, a handshake is answered, a read loop
  reads what has come, a write returns once there is room, and a goroutine that
  waits for the mutex gets it: a Go mutex is handed over to a waiter after 1 ms.
  A process that stands still does nothing.
- Web4Wire: goroutines go on; the handshake of the other end is taken to come,
  which the code does not guarantee: a silent other end is the matter of
  TCPTransport and Web4Link.
- TCPTransport: every goroutine that is not blocked runs; nothing is assumed of
  the other ends, of the handler or of the callers, and a write on an open
  connection may wait for ever.
- Web4Control: a start goes on, connections are accepted, commands dial, and a
  call that waits for the mutex gets it if it is free again and again.  Sending
  may take for ever, nobody has to start or stop a node, and the transport may
  take for ever to close (`tcp_close` shows that it can).

Scope of some properties.  `SelectionReproducible` compares a recorded winner
with the evidence of now at the time at which it was recorded (its `UpdatedAt`):
the winner is decided anew when evidence changes, and not when the clock moves
on, although the scores change with it; `Web4_Storage_Architecture.md:122` has
it "Updated whenever scores change".  `OneBreakHeals` is about a break after the
announcement has gone out; before that the announcement itself may be what is
lost.  `EvidenceTruthful` says of a peer that counts as evidence that it holds
the transfer or held it before it was started again: nodes keep nothing on
disk, and nothing takes evidence back.  `ForeignFileKept` is about files that
are there when the first node starts: nothing else creates one.  `FinalNeedsPeers`
leaves out totals that do not fit into a uint64, which wrap into another tier.
`OneConversation` is about transfers that are submitted at one node and not
forgotten by a restart: a user who submits what the node has already learned
from a peer makes `AcceptLocalTransfer` announce it a second time, and TLC finds
two announcements under way when two nodes may submit the same transfer; a node
that has forgotten a transfer fetches and announces it anew.  `ParentsFirst` and
`Propagates` are about nodes with any seeds, and excuse what a node refuses: a
transfer with an expired output, one that spends a seed the node was not given,
and one that spends an output of what it has refused.  Between nodes with the
same seeds that leaves expiry alone; between the nodes of the runtime, which
have one seed each and no common one, it excuses every payment, and neither
property promises anything there.  `CloseWaitsForAll` is about the moment at
which `Close` returns: a Send that is still dialling then may register its
connection, and start a read loop for it, afterwards.  `EndedIsForgotten`,
`CommandReturns`, `MutexReleased` and `BlockingSpreads` name the waits that the
code does not bound (a handler that does not return, a mutex that is never given
up, a circle of writers, a process that stands still) and say that there are no
others.

### Disagreements with the documents and tests

| Run | Statement | What the code does |
| --- | --- | --- |
| `link_deadlock` | "Under normal network conditions, honest transactions should propagate widely" (`selection_convergence.md:298`) | nodes write to each other under their mutexes without a deadline, and two whose connections are full wait for each other for ever, although nothing has failed |
| `gossip_partial` | "resilient to partial failure" (`Web4_P2P&Gossip-Protocol.md:445`) | the first unreachable peer ends a broadcast; peers after it are not told while it is down |
| `tcp_close` | "Close timed out" is a failure (`transport/tcp_test.go:194`) | `Close` waits for ever for a silent connection that is not in `t.conns` |
| `runtime_exclusive` | "another local node is already running" (`internal/cli/runtime.go:590`) | two simultaneous starts can both succeed |

On `link_deadlock`: real socket buffers hold thousands of the usual frames, and a
node of the command line has a key for one value, so that it makes one payment in
its life.  By `CircleNeedsTraffic` two such nodes meet in a circle only when a
connection holds less than one payment's frame.  The instance, with two values at
each node, is a node that serves more than that; frames may have 16 MB, nothing
bounds the number of transfers, and only their number keeps the circle away.

Four more disagreements were met and have no run.  `validateTransfer` never
compares the amounts of inputs and outputs, where `Web4_Selection_Function.md:80`
asks for "Unit-wise conservation holds" (`sendTx` of the runtime does compare).
The winner of a value is not decided anew when scores change with the clock
(`Web4_Storage_Architecture.md:122`, see above).  A SELECTED transfer whose age
lifts it over the threshold becomes FINAL only when the next message about it
arrives (`Web4_Selection_Function.md:240` states it without that condition).
A transfer of the medium tier can become FINAL by observations alone, where
the table at `Web4_Selection_Function.md:253` asks for 1-hop proofs.

## 4. What is proved

All theorems are about every instance of the constants that satisfies the named
ASSUMEs of the modules, which TLC evaluates in every run.  They type the
constants and say that hashes do not collide (`HashOrder`), that peers are
finitely many and can be sorted (`PeerOrder` lists each once), that `LogCount`
is zero for nobody and does not fall, as `math.Log(1 + n)`, and that the
developer value of a process has an owner; that fields have at least one byte,
an address fits the handshake and a message has fewer bytes than its uint32
length can count (`WireAssumption`); and that no node is its own peer
(`NetworkAssumption`, `LinkAssumption`).

### One node

`Web4NodeProofs`, for any sets of transfers, values, keys, message IDs and
distances, any finite set of peers and any bound on the clock:

| Theorem | Statement |
| --- | --- |
| `TypeCorrect` | `Spec => []TypeOK` |
| `ConflictSetsExactHolds` | `Spec => []ConflictSetsExact` |
| `SelectionCorrect` | `Spec => []SelectionReproducible` |
| `FinalityMatchesSelectionHolds` | `Spec => []FinalityMatchesSelection` |
| `NoDoubleSelectionHolds` | `Spec => []NoDoubleSelection` |
| `FinalJustifiedHolds` | `Spec => []FinalJustified` |
| `ValueProvenanceHolds` | `Spec => []ValueProvenance` |
| `LocalSingleUseHolds` | `Spec => []LocalSingleUse` |
| `ReportsAgreeHolds` | `Spec => []ReportsAgree` |
| `FinalDemotionHolds` | `Spec => FinalDemotion` |
| `FinalNeedsPeersHolds` | `Spec => []FinalNeedsPeers` |
| `Refinement` | `Spec => ImplementsLedger` |
| `RecomputeMatchesLoopHolds` | `Spec => []RecomputeMatchesLoop` |
| `SignerMatchesLoopHolds` | `Spec => []SignerMatchesLoop` |

*The invariant.*  None of the first six is inductive alone: the status of a
transfer is right only because the lineage entries it was derived from are, and
those only because the conflict sets are exact and finite.  The inductive
invariant `IInv` is `NodeInv(node, now)`: stores well typed, conflict sets exact
and finite, and *everything current* (`CurrentExcept(s, now, {}, {})`), where
`CurrentExcept(s, now, V, U)` says that every selection outside V and every
status outside U is what the evidence gives.  A change of the stores for a
transfer t breaks currency at most for t's inputs and their contenders
(`TouchDisturbs`); `recomputeSelectionForTransfer` repairs exactly those
(`RecomputeRepairs`).  The handlers combine the two; a proof that comes before
its transfer touches nothing current (`ProofResponseInv`).  The passing of time
keeps FINAL justified because confidence never falls with the clock
(`ConfidenceMonotone`).  `Web4HandlersProofs` supplies that `betterScore` is a
strict total order on the candidates of a value (`BetterScoreOrder`) and hence
that `selectBest` exists in a finite conflict set (`SelectBestFacts`, from
`FiniteMaximum`).

*What an operation does.*  Besides the invariant, `Web4HandlersProofs` proves
that every operation is one of three steps (`LedgerStep`): nothing that the
ledger shows (`Unrelated`), a valid transfer is `Learned`, or a known one is
`Rechecked`; in the last two cases the inputs of that transfer are decided anew
from the evidence, and every other decision is left alone (`Decided`).  The rest
follows from this classification.  `History` (values come from seeds and stored
transfers, stored transfers are signed by owners, accepted transfers are
disjoint and exactly consumed) is preserved step by step.  The refinement maps
`Learned` to Learn, `Rechecked` to Reconsider and `SeedValue` to Grant.
`FinalDemotion` uses that confidence does not fall when observations and proofs
are added (`ConfidenceGrows`: a sum over a set of proofs by induction over its
finite subsets), so only a lost input or a replaced proof can take FINAL away.
`FinalNeedsPeers` bounds the confidence that age and selection give without
peers by the thresholds.  `ReportsAgree` follows from `IInv` and `History`.

*The loops.*  For each loop of the code the proof says what its variables hold
after k iterations, shows that one more iteration keeps that, and concludes by
`SameWay`: two lists that start alike and go on alike agree.  (The library's
induction theorems cannot be used, see below; `SameWay` looks at the first
position where the lists would differ, which exists by `Earliest`.)
`resolveSigner` holds the owner the inputs so far agree on (`SignerAt`);
`updateFinalityForTransfer` holds the score of the last input before the first
lost one (`WalkAt`); the ranks of n candidates are 0 to n - 1, so that the
sorted list names every candidate (`RankedFacts`); the scan over it holds the
best so far (`RunningMaximum`), which is unique because `betterScore` is a
strict total order, so it ends with what `selectBest` chooses
(`SelectBestLoop`); the loop over the candidates of one input has refreshed the
entries of those it has passed (`InputLoop`).  The hard case is the loop over
the inputs: it refreshes the contenders of an input while later inputs still
have their old selection, or none.  A contender of a later input is refreshed
again when that input's turn comes, and one that is not a contender of it does
not read its selection (`MoreInputs`, from `JudgementFrame` and the exactness of
the conflict sets).  `TransferLoop` holds in every state with well-typed stores
and exact conflict sets, also in those where the handlers call
`recomputeSelectionForTransfer`, when the evidence has changed and the selections
have not; `RecomputeMatchesLoop` is its consequence for the states between
operations.

### The network

`Web4GossipProofs` and `Web4CausalProofs`, for any number of nodes, any
topology, any seeds, and any number of submissions, questions, crashes, restarts
and broken connections:

| Theorem | Statement |
| --- | --- |
| `TypeCorrect` | `Spec => []TypeOK` |
| `EvidenceTruthfulHolds` | `Spec => []EvidenceTruthful` |
| `OneConversationHolds` | `OneSubmitter` implies `Spec => []OneConversation` |
| `ParentsFirstHolds` | `CausalSpec => []ParentsFirst` |

*Evidence* is true because a frame is: the sender of an INV, a TX or a positive
proof holds the transfer or held it, and so does the receiver of a GET
(`FramesSound`).  Only a restart makes a node forget, and what a node held before
it is remembered in `lost` (`AllHeld`); so frames stay sound while they wait, and
what a handler writes down about a peer is what a sound frame of that peer says
(`NetworkInv`, with every node's `NodeInv`).

*One conversation.*  `Conversations` says of a transfer that no node has
forgotten (`Remembered`): of the offers (INV, TX) from p to q and the requests
(GET) back at most one is under way.  A reply takes the place of the frame it
answers.  An announcement starts a conversation, and is made when the announcer
did not hold the transfer before; by `FramesSound` nobody can then have been
offered it, or be asking for it, there.  For a submission that needs `Origins`:
what any node holds was submitted somewhere, and its inputs are consumed there.
With one submitter per transfer (`OneSubmitter`) a second submission is refused.
Without it the property is false (section 3).

*Parents first.*  Let a transfer t be announced by a to b, and let v be a value
t spends that b does not have.  Either v is a seed that b was not given, and b may
refuse t, or v is the output of a transfer u that a has stored.  A transfer that
has arrived at a node is stored or refused there (`Done`).  `Spreading` says that
what a node has stored has arrived at its peers, or has been offered to them, or
is being asked for; so u has arrived at b, or the conversation between a and b
about u is under way.  `Ordered` says that it stays ahead: behind the INV of u
comes the INV of t, behind the GET the GET, and behind the TX the TX (`OfferOK`,
`RequestOK`, `DeliveryOK`).  When t's TX is at the head of the queue nothing is
ahead of it, so u has arrived at b.  If b has stored u, it has v; if b has refused
u, it may refuse t (`Refusals`).  Nothing else makes b refuse it but an expired
output, since signatures do not depend on the node (`Honest`, `HonestValid`).  A
transfer that is stored is announced to every other peer (`LearnedSpread`), which
keeps `Spreading`.  All of this holds only while nothing has failed
(`Faultless`).

### Nodes that block

`Web4LinkProofs`, for any number of nodes, any topology, any capacity and any
frame size:

| Theorem | Statement |
| --- | --- |
| `LinkImplementsGossip` | `Spec => Network!Init /\ [][Network!Next]_(Network!vars)` |
| `LinkEvidenceTruthful` | `Spec => []Network!EvidenceTruthful` |
| `CircleNeedsTrafficHolds` | `Apart`, `IsFiniteSet(TxIDs)` imply `Spec => []CircleNeedsTraffic` |

*The mapping.*  A handler is one step in Web4Gossip and many here: it reads a
frame, waits for the mutex, and writes its reply message by message, each time
it has room.  The queue from p to q of the abstract network is what q's read
loop has in hand, followed by what is on the connection, followed by what p
holds its mutex to write to q (`line`).  With that, `Handle` and `Submit` are
`Deliver` and `Submit` of Web4Gossip, and reading, waiting, handshakes and writing
change nothing, nor does a process that stands still (`ReadStep`, `WriteStep`,
`HandleStep`, `SubmitStep`).  It works because
a handler changes its node's state before its first write and has one message
for a peer (`OnePerPeer`).  No process stops and no connection breaks here, so the instance has neither.

*The circle.*  A node that cannot write to q has a line to q that is longer than
the connection holds (`StuckFull`).  `Web4CausalProofs` bounds the lines by the
transfers stored so far (`Circulating`): without questions a line carries
announcements, requests and deliveries only, no node writes to itself, and in a
network of two nodes a transfer is announced and delivered by the node where it
was submitted and requested by the other (`RouteInv`).  With one conversation per
transfer and pair (`FloodInv`) a line has at most two frames about a transfer,
one of them a request (`QueueBound`), and in a network of two nodes both lines
together have at most one (`PairBound`).  So a circle takes that many transfers
(`CircleIsFull`); nothing is assumed of the room in the connections.
For two nodes the bound is sharp: four transfers of one unit and a capacity of
one are the smallest case, and there TLC finds the circle (`link_deadlock`).
`Apart` says that no two users submit the same transfer, as `sendTx` needs the
key of the node's own developer value (`runtime.go:310`); without it a node
announces what it was just told (section 3).  Hashes have 32 bytes, so the
transfers are finitely many.

### The wire

`Web4WireProofs`, for fields of any width, any frame limit, any number of senders
and messages:

| Theorem | Statement |
| --- | --- |
| `WireInvariant` | `Spec => []WireInv` |
| `DeliveredAsSentHolds` | `Spec => []DeliveredAsSent` |
| `OneEncodingHolds` | `Spec => []OneEncoding` |
| `RefusesOnlyStrangersHolds` | `Spec => []RefusesOnlyStrangers` |

*The codec.*  What is written is read: a number below 256^w comes back from its
w digits, a signed one from its two's complement (`UintReadBack`, `IntReadBack`),
a message from its fields (`MessageRead`).  What is read was written so: each
decoder, when it accepts, has read exactly the encoding of what it returns
(`UintWriteBack`, `IntWriteBack`, `BytesWritten`, ..., `MessageWritten`,
`PayloadWritten`, `TransferWritten`).  Transfers are lists of inputs and values
behind a count, so this goes by induction over the elements (`ManyWritten`).
Induction and the existence of the recursive functions are proved with sets and
functions in the place of operators (`Least`, `Induction`, `WalkUnique`,
`WalkExists`, `EndlessWalk`), and so are the equations of the community module's
FlattenSeq (`FlattenEnd`, `FlattenFront`).

*The stream.*  `WireInv == Flow /\ Reads /\ Handed /\ Stream /\ Reason`.  `Flow`:
whoever writes holds `writeMu`, the handshake goes before everything else, and
nothing is on the wire before it.  `Reads`: what was handed over was decoded.
`Stream`: as long as both ends run this code, the bytes on the wire followed by
those that the holder of `writeMu` has left are the frames of the messages that
were sent and not yet handed on (or a part of them, when the connection broke).
`Handed`: what was handed on is the beginning of what was sent.  `Reason`: a read
loop that gave up, on a connection that was not broken, met a stranger or a
message too long for a frame.  The step that matters is `StreamFrame`: a prefix of the stream that
looks like a whole frame to the reader is the first frame, because its length
field is (`StreamRead`).

### Processes and commands

`Web4ControlProofs`, for any number of processes, paths, commands, crashes,
restarts and repetitions:

| Theorem | Statement |
| --- | --- |
| `LoneStartSucceedsHolds` | `Spec => []LoneStartSucceeds` (Web4Runtime) |
| `LoneNodeReachableHolds` | `Spec => []LoneNodeReachable` (Web4Runtime) |
| `ForeignFileKeptHolds` | `Spec => ForeignFileKept` (Web4Runtime) |
| `ControlImplementsRuntime` | `ControlSpec => Spec` |
| `RetryMakesNoRivalHolds` | `ControlSpec => []RetryMakesNoRival` |
| `OkMeansAnnouncedHolds` | `ControlSpec => []OkMeansAnnounced` |

The first three rest on `RuntimeInv`.  A socket at a path belongs to a process
that uses the path and listens (`SocketOwned`); a start has met all who are alive
at its path (`RivalsMet`); one that met nobody finds exactly what it expects at
each of its system calls (`AlonePath`), and later starts get no further than the
probe (`LateComers`); past Stat the path holds no foreign file (`NoForeign`).
The last two rest on `ControlInv`: for a command only one transfer can be made
(`MadeOnce`), because the timestamp is not part of the content; and what a payment
that is being sent, or has been reported, names is the transfer made for it,
announced if the report says ok (`Honest`).  What peers send in between changes
the stores and answers them; it makes nothing, and is in no report.

### The transport

`TCPTransportProofs`, for any set of addresses (that does not contain the marks
of the model), any set of senders and any number of connections:

| Theorem | Statement |
| --- | --- |
| `TypeCorrect` | `Spec => []TypeOK` |
| `RegisteredIsOwnedHolds` | `Spec => []RegisteredIsOwned` |
| `OpenIsOwnedHolds` | `Spec => []OpenIsOwned` |
| `WaiterIsServedHolds` | `Spec => []WaiterIsServed` |
| `CloseWaits` | `Spec => CloseWaitsForAll` |

A connection has an owner: first the Send that dials it or the
accept loop, then its read loop.  That an owner lets go only of what is closed
and forgotten needs more than the three properties say: a connection is in the
registry only under keys it remembers, or `dropConn` would miss an entry
(`Keyed`); after that it is in no entry (`Unregistered`); and while it is brought
up nobody else owns it, or a second owner could undo the first one's work
(`OneOwner`).  With types (`Typed`), program counters (`Placed`) and the
connections that do not exist yet (`Created`) this is `Shape`, which is inductive
together with the three properties (`NextShape`, `NextOwnership`).  `Counted`
says that the wait group is the number of goroutines that run (`NextCounted`);
so it never goes below zero, and when `Close` sees zero nothing runs.  A handler
that does not return keeps its goroutine, and with it the ownership of the
connection.

### Only model-checked

- Liveness: `Propagates`, `Quiesces`, `OneBreakHeals`, `MutexReleased`,
  `BlockingSpreads`, `EverythingArrives`, `EndedIsForgotten`, `CommandReturns`.
  TLAPS does not reason about fairness and ENABLED.

All invariants and all action properties of the runs are proved.  Two remarks on
their reach.  `OneConversation` and `CircleNeedsTraffic` are proved where
transfers have one submitter, and are false elsewhere.  The library's induction theorems take an operator as a
parameter, which the installed provers cannot instantiate; where a proof needs
induction it uses sets and functions instead, as described above.  That works
for a recursion along a list or a number, which is all that this code has.

## 5. Not modelled

- Cryptographic primitives: a signature verifies under exactly one key, hashes
  are injective, random message IDs are distinct.  The AEAD is used by no other
  package.
- The shell's line editing, history and completion; the parsing of arguments
  and the printing; the demos, which script what the models do in any order.
- `AttachNode`, which registers a handler without a mutex: only a test and the
  TCP demo use it.
- The replay cache's own clock, which only tests and demos set apart from the
  node's; `MarkConsumed`, which only tests call.
- Memory: `MaxFrame` bounds a frame, nothing bounds the stores.
- The lists that `decode.go:39` and `decode.go:56` allocate for a count before
  they read its elements: a count that the rest of the bytes cannot fill is a
  refusal in Web4Codec, after which the memory is free again.
- A failure of `RegisterName`, which happens once on a new server.

One observation without a property: without `--control` and environment
variable a node listens at a path made from its id, while commands dial
`web4-cli.sock`; they meet only for the id `cli`, as in `runtime_path`.

## 6. Plan

Done: all modules above with their runs, and the proofs of section 4.  What would
carry on from here:

1. The network with several submitters of one transfer: a bound on what is under
   way that counts submissions instead of conversations, and with it a circle
   condition without `Apart`.
2. Crashes, restarts and broken connections in Web4Link.
3. The replay cache in the network, with message IDs that may repeat.
4. A node whose clock goes back.

## 7. Running

    tlc -workers 2 -config Node_conflicts.cfg MCWeb4Node
    tlapm Web4HandlersProofs.tla
    tlapm Web4NodeProofs.tla
    tlapm Web4GossipProofs.tla
    tlapm Web4CausalProofs.tla
    tlapm Web4LinkProofs.tla
    tlapm Web4WireProofs.tla
    tlapm Web4ControlProofs.tla
    tlapm TCPTransportProofs.tla

tlapm checks the proofs of the module it is given; the modules below it in the
tree of section 2 are checked by calls of their own.

`PROJECT.json` maps every definition to the lines it models and lists runs,
mutants, findings, hazards and theorems.
