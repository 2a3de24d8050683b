--------------------------- MODULE Web4Handlers ----------------------------
(***************************************************************************)
(* The state of a Web4 node and the operations on it: the stores           *)
(* (node/store.go), the message handlers (node/handlers.go), the entry     *)
(* points OnMessage and AcceptLocalTransfer (node/node.go) and the replay  *)
(* cache and input tracker they consult (protocol/replay.go).              *)
(*                                                                         *)
(* An operation is an operator from a node state to a reply: the new state *)
(* and the messages to send, in order.  In the code every send of a        *)
(* handler comes after its last change of state, so a send that fails only *)
(* cuts the list short.  The operators are shared by Web4Node (one node    *)
(* and an arbitrary environment) and Web4Gossip (a network of nodes).      *)
(***************************************************************************)
EXTENDS Web4Selection

CONSTANTS
    PeerOrder,    \* the peer IDs in the order of sort.Slice
    MsgIDs,       \* 16-byte message IDs
    ReplayTTL,    \* the replay cache's defaultTTL, in units of the clock
    Distances,    \* the hop distances a proof response can claim
    Local         \* the empty PeerID, "from" of a locally accepted transfer

ASSUME PeerOrderAssumption ==
    /\ PeerOrder \in Seq(PeerIDs)
    /\ Range(PeerOrder) = PeerIDs /\ IsInjective(PeerOrder)
    /\ Local \notin PeerIDs

\* A node answers a proof request with distance 1.
ASSUME ReplayAssumption ==
    ReplayTTL \in Nat /\ Distances \subseteq Int /\ 1 \in Distances

----------------------------------------------------------------------------
(* Messages.                                                               *)

INV(t)          == [type |-> "INV", tx |-> t]
GET(t)          == [type |-> "GET", tx |-> t]
\* A transfer travels with a signature, identified by the key that made it.
TX(t, sig)      == [type |-> "TX", tx |-> t, sig |-> sig]
PROOF_REQ(t)    == [type |-> "PROOF_REQ", tx |-> t]
PROOF_RESP(t, seen, conflict, distance) ==
    [type |-> "PROOF_RESP", tx |-> t,
     seen |-> seen, conflict |-> conflict, distance |-> distance]
\* ACK, ERROR, an unknown type, or a payload that does not decode.
ACK             == [type |-> "ACK"]

Messages ==
         [type : {"INV", "GET", "PROOF_REQ"}, tx : TxIDs]
    \cup [type : {"TX"}, tx : TxIDs, sig : Keys]
    \cup [type : {"PROOF_RESP"}, tx : TxIDs, seen : BOOLEAN,
          conflict : BOOLEAN, distance : Distances]
    \cup {ACK}

----------------------------------------------------------------------------
(* Node state.  A Go map is a function whose domain is the map's keys.     *)

IsMap(f, keys, values) ==
    /\ DOMAIN f \subseteq keys
    /\ f \in [DOMAIN f -> values]

Put(f, k, v) == [x \in DOMAIN f \cup {k} |-> IF x = k THEN v ELSE f[x]]

EmptyMap == [x \in {} |-> x]

TxRecord == [firstSeen : Nat, arrivalSeq : Nat, sig : Keys]
SelectedLineage == [tx : TxIDs, score : Int, updatedAt : Nat]
FinalityState ==
    [score : Int, confidence : Int, status : {"PENDING", "SELECTED", "FINAL"}]
ProofRecord == [seen : BOOLEAN, conflict : BOOLEAN, distance : Distances]

IsNodeState(s) ==
    /\ DOMAIN s = {"txStore", "valueStore", "conflictSets", "selectedLineage",
                   "finalityState", "peerObservations", "proofStore",
                   "replayCache", "consumed", "peers", "arrivalSeq"}
    /\ IsMap(s.txStore, TxIDs, TxRecord)
    /\ s.valueStore \subseteq ValueIDs
    /\ s.conflictSets \in [ValueIDs -> SUBSET TxIDs]
    /\ IsMap(s.selectedLineage, ValueIDs, SelectedLineage)
    /\ IsMap(s.finalityState, TxIDs, FinalityState)
    /\ s.peerObservations \in [TxIDs -> SUBSET PeerIDs]
    /\ DOMAIN s.proofStore = TxIDs
    /\ \A t \in TxIDs : IsMap(s.proofStore[t], PeerIDs, ProofRecord)
    /\ IsMap(s.replayCache, MsgIDs, Nat)      \* message ID -> expiry
    /\ s.consumed \subseteq ValueIDs          \* the input tracker
    /\ s.peers \subseteq PeerIDs
    /\ s.arrivalSeq \in Nat

NewNode ==
    [txStore          |-> EmptyMap,
     valueStore       |-> {},
     conflictSets     |-> [v \in ValueIDs |-> {}],
     selectedLineage  |-> EmptyMap,
     finalityState    |-> EmptyMap,
     peerObservations |-> [t \in TxIDs |-> {}],
     proofStore       |-> [t \in TxIDs |-> EmptyMap],
     replayCache      |-> EmptyMap,
     consumed         |-> {},
     peers            |-> {},
     arrivalSeq       |-> 0]

Stored(s) == DOMAIN s.txStore

SeedValue(s, v) == [s EXCEPT !.valueStore = @ \cup {v}]

----------------------------------------------------------------------------
(* Selection and finality after a change that concerns transfer t.  The    *)
(* code visits the inputs of t one after the other and refreshes the       *)
(* finality of all their contenders; a contender of one input only does    *)
(* not depend on the others, so the order is immaterial (Web4Loops).       *)

\* Mutant: UpdatedAt and score are kept while the winner stays the same.
recomputeSelectionIfChanged(s, now, inputs) ==
    [s EXCEPT !.selectedLineage =
        [v \in DOMAIN @ \cup inputs |->
            LET best == selectBest(s, now, v)
            IN  IF v \in inputs /\ (v \notin DOMAIN @ \/ @[v].tx # best.tx)
                THEN [tx |-> best.tx, score |-> best.score, updatedAt |-> now]
                ELSE @[v]]]

recomputeSelectionForInputs(s, now, inputs) ==
    [s EXCEPT !.selectedLineage =
        [v \in DOMAIN @ \cup inputs |->
            IF v \in inputs
            THEN LET best == selectBest(s, now, v)
                 IN  [tx |-> best.tx, score |-> best.score, updatedAt |-> now]
            ELSE @[v]]]

updateFinality(s, now, txs) ==
    [s EXCEPT !.finalityState =
        [u \in DOMAIN @ \cup txs |->
            IF u \in txs THEN finalityOf(s, now, u) ELSE @[u]]]

\* Mutant: only the transfer that came in.
contendersSelf(s, t) == {t}

contenders(s, t) == {t} \cup UNION {s.conflictSets[v] : v \in Inputs(t)}

recomputeSelectionForTransfer(s, now, t) ==
    updateFinality(recomputeSelectionForInputs(s, now, Inputs(t)), now,
                   contenders(s, t))

----------------------------------------------------------------------------
(* Stores.                                                                 *)

\* Mutant: a local transfer observed by the empty peer ID.
observeAnyone(s, t, from) == [s EXCEPT !.peerObservations[t] = @ \cup {from}]

observePeer(s, t, from) ==
    IF from = Local THEN s
    ELSE [s EXCEPT !.peerObservations[t] = @ \cup {from}]

\* Mutant: the conflict set is replaced instead of extended.
insertReplacing(s, now, t, sig) ==
    [s EXCEPT
        !.arrivalSeq   = @ + 1,
        !.txStore      = Put(@, t, [firstSeen  |-> now,
                                    arrivalSeq |-> s.arrivalSeq + 1,
                                    sig        |-> sig]),
        !.valueStore   = @ \cup Range(TxOutputs[t]),
        !.conflictSets = [v \in ValueIDs |->
                            IF v \in Inputs(t) THEN {t} ELSE @[v]]]

insertTransfer(s, now, t, sig) ==
    [s EXCEPT
        !.arrivalSeq   = @ + 1,
        !.txStore      = Put(@, t, [firstSeen  |-> now,
                                    arrivalSeq |-> s.arrivalSeq + 1,
                                    sig        |-> sig]),
        !.valueStore   = @ \cup Range(TxOutputs[t]),
        !.conflictSets = [v \in ValueIDs |->
                            IF v \in Inputs(t) THEN @[v] \cup {t} ELSE @[v]]]

\* Mutant: a transfer seen again is stored again, with a new FirstSeen.
upsertAgain(s, now, t, sig, from) ==
    observePeer(insertTransfer(s, now, t, sig), t, from)

upsertTransfer(s, now, t, sig, from) ==
    observePeer(IF t \in Stored(s) THEN s ELSE insertTransfer(s, now, t, sig),
                t, from)

updateProof(s, t, from, proof) ==
    [s EXCEPT !.proofStore[t] = Put(@, from, proof)]

----------------------------------------------------------------------------
(* Validation.                                                             *)

\* Mutant: no tolerance for a nil owner.
signedByAllOwners(s, t, sig) ==
    /\ Inputs(t) \subseteq s.valueStore
    /\ \A v \in Inputs(t) : ValueOwner[v] = sig

\* resolveSigner: inputs with an empty owner before the first owned one are
\* passed over, every later input must have the same owner as that one.
signedByOwner(s, t, sig) ==
    LET in == TxInputs[t]
    IN  /\ Inputs(t) \subseteq s.valueStore
        /\ \E i \in DOMAIN in :
              /\ ValueOwner[in[i]] = sig
              /\ \A j \in DOMAIN in : /\ j < i => ValueOwner[in[j]] = NoOwner
                                      /\ j > i => ValueOwner[in[j]] = sig

\* Mutant: the signature is not verified.
validateUnsigned(s, now, t, sig) ==
    /\ Len(TxInputs[t]) > 0 /\ Len(TxOutputs[t]) > 0
    /\ IsInjective(TxInputs[t])
    /\ Inputs(t) \subseteq s.valueStore

validateTransfer(s, now, t, sig) ==
    /\ Len(TxInputs[t]) > 0
    /\ Len(TxOutputs[t]) > 0
    /\ IsInjective(TxInputs[t])
    /\ \A v \in Range(TxOutputs[t]) : ValueExpiry[v] = 0 \/ ValueExpiry[v] > now
    /\ signedByOwner(s, t, sig)

hasConflict(s, t) ==
    t \in Stored(s) /\ \E v \in Inputs(t) : Cardinality(s.conflictSets[v]) > 1

----------------------------------------------------------------------------
(* Handlers.  A reply is the new state and the messages to send.           *)

Reply(s, sends) == [st |-> s, out |-> sends]

precedes(p, q) ==
    \E i, j \in DOMAIN PeerOrder : i < j /\ PeerOrder[i] = p /\ PeerOrder[j] = q

\* The keys of the map but skip, sorted.
peerIDsExcept(s, skip) ==
    LET ids == s.peers \ {skip}
        n   == Cardinality(ids)
    IN  CHOOSE list \in [1..n -> ids] :
            \A i, j \in 1..n : i < j => precedes(list[i], list[j])

\* Mutant: the loop over the peers starts at the second.
announceFromSecond(s, t, skip) ==
    LET to == peerIDsExcept(s, skip)
    IN  [i \in 1..(Len(to) - 1) |-> [to |-> to[i + 1], msg |-> INV(t)]]

announce(s, t, skip) ==
    LET to == peerIDsExcept(s, skip)
    IN  [i \in DOMAIN to |-> [to |-> to[i], msg |-> INV(t)]]

\* Mutant: every peer is asked, not only the one that announced.
handleINVAskAll(s, from, t) ==
    LET to == peerIDsExcept(s, Local)
    IN  Reply(s, IF t \in Stored(s) THEN <<>>
                 ELSE [i \in DOMAIN to |-> [to |-> to[i], msg |-> GET(t)]])

\* Mutant: an announcement of a known transfer is answered by another one.
handleINVBack(s, from, t) ==
    Reply(s, <<[to |-> from, msg |-> IF t \in Stored(s) THEN INV(t) ELSE GET(t)]>>)

handleINV(s, from, t) ==
    Reply(s, IF t \in Stored(s) THEN <<>> ELSE <<[to |-> from, msg |-> GET(t)]>>)

\* Mutant: who asks for a transfer is counted as having it.
handleGETObserves(s, from, t) ==
    IF t \in Stored(s)
    THEN Reply(observePeer(s, t, from),
               <<[to |-> from, msg |-> TX(t, s.txStore[t].sig)]>>)
    ELSE Reply(s, <<>>)

handleGET(s, from, t) ==
    Reply(s, IF t \in Stored(s)
             THEN <<[to |-> from, msg |-> TX(t, s.txStore[t].sig)]>>
             ELSE <<>>)

\* Mutant: no recomputation for a transfer that is stored already.
handleTXOnce(s, now, from, t, sig) ==
    LET s1 == upsertTransfer(s, now, t, sig, from)
        s2 == recomputeSelectionForTransfer(s1, now, t)
    IN  CASE ~validateTransfer(s, now, t, sig) -> Reply(s, <<>>)
          [] validateTransfer(s, now, t, sig) /\ t \in Stored(s) -> Reply(s1, <<>>)
          [] OTHER -> Reply(s2, announce(s2, t, from))

handleTX(s, now, from, t, sig) ==
    LET s1 == recomputeSelectionForTransfer(
                  upsertTransfer(s, now, t, sig, from), now, t)
    IN  CASE ~validateTransfer(s, now, t, sig) -> Reply(s, <<>>)
          [] validateTransfer(s, now, t, sig) /\ t \in Stored(s) -> Reply(s1, <<>>)
          [] OTHER -> Reply(s1, announce(s1, t, from))

handleProofRequest(s, from, t) ==
    Reply(s, <<[to  |-> from,
                msg |-> PROOF_RESP(t, t \in Stored(s), hasConflict(s, t), 1)]>>)

\* Mutant: the proof is filed and nothing is recomputed.
handleProofQuietly(s, now, from, m) ==
    Reply(updateProof(s, m.tx, from,
            [seen |-> m.seen, conflict |-> m.conflict, distance |-> m.distance]),
          <<>>)

handleProofResponse(s, now, from, m) ==
    LET s1 == updateProof(s, m.tx, from,
                [seen |-> m.seen, conflict |-> m.conflict, distance |-> m.distance])
    IN  Reply(IF m.tx \in Stored(s)
              THEN recomputeSelectionForTransfer(s1, now, m.tx) ELSE s1, <<>>)

dispatch(s, now, from, m) ==
    CASE m.type = "INV"        -> handleINV(s, from, m.tx)
      [] m.type = "GET"        -> handleGET(s, from, m.tx)
      [] m.type = "TX"         -> handleTX(s, now, from, m.tx, m.sig)
      [] m.type = "PROOF_REQ"  -> handleProofRequest(s, from, m.tx)
      [] m.type = "PROOF_RESP" -> handleProofResponse(s, now, from, m)
      [] OTHER                 -> Reply(s, <<>>)

PruneExpired(s, now) ==
    LET live == {id \in DOMAIN s.replayCache :
                    s.replayCache[id] = 0 \/ s.replayCache[id] > now}
    IN  [s EXCEPT !.replayCache = [id \in live |-> @[id]]]

MarkSeen(s, now, id) ==
    [s EXCEPT !.replayCache =
        Put(@, id, IF ReplayTTL > 0 THEN now + ReplayTTL ELSE 0)]

IsSeen(s, id) == id \in DOMAIN s.replayCache

OnMessage(s, now, from, id, m) ==
    LET pruned == PruneExpired(s, now)
    IN  IF IsSeen(pruned, id) THEN Reply(pruned, <<>>)
        ELSE dispatch(MarkSeen(pruned, now, id), now, from, m)

----------------------------------------------------------------------------
(* Local transfers.                                                        *)

\* Mutant: the input tracker is not asked.
canAcceptAny(s, now, t, sig) == validateTransfer(s, now, t, sig)

canAcceptLocal(s, now, t, sig) ==
    /\ validateTransfer(s, now, t, sig)
    /\ Inputs(t) \cap s.consumed = {}

ConsumeInputs(s, t) == [s EXCEPT !.consumed = @ \cup Inputs(t)]

AcceptLocalTransfer(s, now, t, sig) ==
    LET s1 == recomputeSelectionForTransfer(
                  upsertTransfer(ConsumeInputs(s, t), now, t, sig, Local), now, t)
    IN  IF canAcceptLocal(s, now, t, sig)
        THEN Reply(s1, announce(s1, t, Local))
        ELSE Reply(s, <<>>)

----------------------------------------------------------------------------
(* What holds of a node state between two operations, at time now.         *)

(* The conflict set of a value is exactly the set of stored transfers that
   spend it: upsertTransfer enters a transfer under every input, once. *)
ConflictSetsExactIn(s) ==
    \A v \in ValueIDs :
        s.conflictSets[v] = {t \in Stored(s) : v \in Inputs(t)}

(* recomputeSelectionForTransfer keeps every selection current: for each
   contested value the recorded winner and its score are what selectBest
   yields from the evidence the node holds now, evaluated at the time the
   selection records as UpdatedAt.  No observation, proof or rival that
   arrived since has been left out. *)
SelectionReproducibleIn(s, now) ==
    /\ DOMAIN s.selectedLineage = {v \in ValueIDs : s.conflictSets[v] # {}}
    /\ \A v \in DOMAIN s.selectedLineage :
          LET sel  == s.selectedLineage[v]
              best == selectBest(s, sel.updatedAt, v)
          IN  /\ sel.tx \in s.conflictSets[v]
              /\ sel.tx = best.tx
              /\ sel.score = best.score
              /\ sel.updatedAt <= now

(* updateFinalityForTransfer is called for every transfer that a change of
   selection touches: a stored transfer is SELECTED or FINAL exactly when it
   is the selected transfer of all of its inputs, and its score is that of
   the lineage entries it was derived from. *)
FinalityMatchesSelectionIn(s) ==
    /\ DOMAIN s.finalityState = Stored(s)
    /\ \A t \in Stored(s) :
          /\ (s.finalityState[t].status # "PENDING") <=> selectedOnAllInputs(s, t)
          /\ s.finalityState[t].score = lineageScore(s, t)

(* Of two stored transfers that spend a common value at most one is SELECTED
   or FINAL, whatever came in and in whatever order. *)
NoDoubleSelectionIn(s) ==
    \A t, u \in Stored(s) :
        /\ t # u
        /\ Inputs(t) \cap Inputs(u) # {}
        => \/ s.finalityState[t].status = "PENDING"
           \/ s.finalityState[u].status = "PENDING"

(* A FINAL transfer still deserves it: the status is written at one moment
   and read later, but the confidence recomputed now, from all the evidence
   the node holds now, still reaches the transfer's threshold. *)
FinalJustifiedIn(s, now) ==
    \A t \in Stored(s) :
        s.finalityState[t].status = "FINAL" =>
            /\ selectedOnAllInputs(s, t)
            /\ computeConfidence(s, now, t) >= finalityThreshold(t)

=============================================================================
