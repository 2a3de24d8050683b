-------------------------- MODULE Web4NodeProofs ---------------------------
(***************************************************************************)
(* The invariants of Web4Node, for any number of transfers, values, peers, *)
(* keys and message IDs and any bound on the clock, and the refinement of  *)
(* Web4Ledger.                                                             *)
(***************************************************************************)
EXTENDS Web4NodeLedger, Web4Loops, Web4HandlersProofs

\* The inductive invariant: the node invariant at the current time.
IInv ==
    /\ NodeInv(node, now)
    /\ now \in Nat
    /\ seeded \in SUBSET Seedable
    /\ accepted \in SUBSET LocalTxs

(* NewNode starts in the invariant. *)
LEMMA InitIInv == Init => IInv
<1> SUFFICES ASSUME Init PROVE IInv
  OBVIOUS
<1>1. NodeInv(NewNode, 0)
  BY NewNodeInv
<1> QED BY <1>1 DEF Init, IInv

(* Every operation of the node keeps the invariant: a message of any type, a
   local transfer, a seeded value, the passing of time. *)
LEMMA NextIInv == IInv /\ [Next]_vars => IInv'
<1> SUFFICES ASSUME IInv, [Next]_vars PROVE IInv'
  OBVIOUS
<1> USE DEF IInv
<1>0. ASSUME NEW from \in PeerIDs, NEW id \in MsgIDs, NEW m \in Messages,
             Receive(from, id, m)
      PROVE  IInv'
  <2>1. NodeInv(OnMessage(node, now, from, id, m).st, now)
    BY OnMessageInv
  <2> QED BY <1>0, <2>1 DEF Receive
<1>1. CASE ReceiveINV
  BY <1>0, <1>1, MessageTypes DEF ReceiveINV
<1>2. CASE ReceiveGET
  BY <1>0, <1>2, MessageTypes DEF ReceiveGET
<1>3. CASE ReceiveTX
  BY <1>0, <1>3, MessageTypes DEF ReceiveTX
<1>4. CASE ReceiveProofRequest
  BY <1>0, <1>4, MessageTypes DEF ReceiveProofRequest
<1>5. CASE ReceiveProofResponse
  <2>1. PICK from \in PeerIDs, id \in MsgIDs, t \in TxIDs, seen \in BOOLEAN,
             conflict \in BOOLEAN, distance \in Distances :
                Receive(from, id, PROOF_RESP(t, seen, conflict, distance))
    BY <1>5 DEF ReceiveProofResponse
  <2>2. PROOF_RESP(t, seen, conflict, distance) \in Messages
    BY MessageTypes
  <2> QED BY <1>0, <2>1, <2>2
<1>6. CASE ReceiveAck
  <2>1. ACK \in Messages
    BY DEF Messages
  <2> QED BY <1>0, <1>6, <2>1 DEF ReceiveAck
<1>7. ASSUME NEW t \in LocalTxs, NEW sig \in Keys, Submit(t, sig) PROVE IInv'
  <2>1. NodeInv(AcceptLocalTransfer(node, now, t, sig).st, now)
    BY AcceptLocalInv, NodeAssumption
  <2> QED BY <1>7, <2>1 DEF Submit
<1>8. ASSUME NEW v \in Seedable, Seed(v) PROVE IInv'
  <2>1. NodeInv(SeedValue(node, v), now)
    BY SeedInv, NodeAssumption
  <2> QED BY <1>8, <2>1 DEF Seed
<1>9. CASE Tick
  <2>1. now + 1 \in Nat /\ now <= now + 1
    OBVIOUS
  <2>2. NodeInv(node, now + 1)
    BY <2>1, TimePasses
  <2> QED BY <1>9, <2>1, <2>2 DEF Tick
<1>10. CASE UNCHANGED vars
  BY <1>10 DEF vars
<1> QED BY <1>1, <1>2, <1>3, <1>4, <1>5, <1>6, <1>7, <1>8, <1>9, <1>10 DEF Next

(* The inductive invariant of the node: between two operations every selection,
   finality entry and conflict set is current (NodeInv), whatever was
   received. *)
THEOREM IInvariant == Spec => []IInv
BY InitIInv, NextIInv, PTL DEF Spec

(* Every operation of the node keeps every field of its state well typed:
   scores and confidences are numbers, a selection names a transfer. *)
THEOREM TypeCorrect == Spec => []TypeOK
<1>1. IInv => TypeOK
  BY NodeInvImplies DEF IInv, TypeOK
<1> QED BY <1>1, IInvariant, PTL

(* The conflict set of a value holds exactly the stored transfers that spend
   it, in whatever order insertTransfer saw them. *)
THEOREM ConflictSetsExactHolds == Spec => []ConflictSetsExact
<1>1. IInv => ConflictSetsExact
  BY NodeInvImplies DEF IInv, ConflictSetsExact
<1> QED BY <1>1, IInvariant, PTL

(* After every operation each contested value has a selection, and it is the
   one recomputeSelectionForInputs would make again from the evidence. *)
THEOREM SelectionCorrect == Spec => []SelectionReproducible
<1>1. IInv => SelectionReproducible
  BY NodeInvImplies DEF IInv, SelectionReproducible
<1> QED BY <1>1, IInvariant, PTL

(* Every finality entry agrees with the selections of all inputs of its
   transfer, also where updateFinality ran between two of them. *)
THEOREM FinalityMatchesSelectionHolds == Spec => []FinalityMatchesSelection
<1>1. IInv => FinalityMatchesSelection
  BY NodeInvImplies DEF IInv, FinalityMatchesSelection
<1> QED BY <1>1, IInvariant, PTL

(* A node never shows two transfers that spend a common value as SELECTED or
   FINAL. *)
THEOREM NoDoubleSelectionHolds == Spec => []NoDoubleSelection
<1>1. IInv => NoDoubleSelection
  BY SelectionExcludes DEF IInv, NoDoubleSelection
<1> QED BY <1>1, IInvariant, PTL

(* Although finality is only recomputed when a message arrives, a FINAL
   status is never out of date in the unsafe direction. *)
THEOREM FinalJustifiedHolds == Spec => []FinalJustified
<1>1. IInv => FinalJustified
  BY NodeInvImplies DEF IInv, FinalJustified
<1> QED BY <1>1, IInvariant, PTL

----------------------------------------------------------------------------
(* Where values come from and who spends them.                             *)

\* An operation of the node, as the history variables see it.
AcceptStep(t, sig) ==
    /\ canAcceptLocal(node, now, t, sig)
    /\ LedgerStep(node', node, now)
    /\ node'.consumed = node.consumed \cup Inputs(t)
    /\ t \in Stored(node')
    /\ accepted' = accepted \cup {t}
    /\ seeded' = seeded

QuietHistoryStep ==
    /\ LedgerStep(node', node, now)
    /\ node'.consumed = node.consumed
    /\ UNCHANGED <<seeded, accepted>>

(* Every step of the node is a step of its ledger, and only an accepted local
   transfer consumes inputs. *)
LEMMA NodeStep ==
    ASSUME IInv, [Next]_vars
    PROVE  \/ QuietHistoryStep
           \/ \E t \in LocalTxs, sig \in Keys : AcceptStep(t, sig)
           \/ \E v \in Seedable : Seed(v)
<1> USE DEF IInv
<1>0. ASSUME NEW from \in PeerIDs, NEW id \in MsgIDs, NEW m \in Messages,
             Receive(from, id, m)
      PROVE  QuietHistoryStep
  <2>1. LET r == OnMessage(node, now, from, id, m).st
        IN  LedgerStep(r, node, now) /\ r.consumed = node.consumed
    BY OnMessageStep
  <2> QED BY <1>0, <2>1 DEF Receive, QuietHistoryStep
<1>1. CASE ReceiveINV
  BY <1>0, <1>1, MessageTypes DEF ReceiveINV
<1>2. CASE ReceiveGET
  BY <1>0, <1>2, MessageTypes DEF ReceiveGET
<1>3. CASE ReceiveTX
  BY <1>0, <1>3, MessageTypes DEF ReceiveTX
<1>4. CASE ReceiveProofRequest
  BY <1>0, <1>4, MessageTypes DEF ReceiveProofRequest
<1>5. CASE ReceiveProofResponse
  <2>1. PICK from \in PeerIDs, id \in MsgIDs, t \in TxIDs, seen \in BOOLEAN,
             conflict \in BOOLEAN, distance \in Distances :
                Receive(from, id, PROOF_RESP(t, seen, conflict, distance))
    BY <1>5 DEF ReceiveProofResponse
  <2>2. PROOF_RESP(t, seen, conflict, distance) \in Messages
    BY MessageTypes
  <2> QED BY <1>0, <2>1, <2>2
<1>6. CASE ReceiveAck
  <2>1. ACK \in Messages
    BY DEF Messages
  <2> QED BY <1>0, <1>6, <2>1 DEF ReceiveAck
<1>7. ASSUME NEW t \in LocalTxs, NEW sig \in Keys, Submit(t, sig)
      PROVE  QuietHistoryStep \/ AcceptStep(t, sig)
  <2> DEFINE r == AcceptLocalTransfer(node, now, t, sig).st
  <2>1. /\ LedgerStep(r, node, now)
        /\ canAcceptLocal(node, now, t, sig) =>
              r.consumed = node.consumed \cup Inputs(t) /\ t \in Stored(r)
        /\ ~canAcceptLocal(node, now, t, sig) => r = node
    BY AcceptLocalStep, NodeAssumption
  <2>2. node' = r
    BY <1>7 DEF Submit
  <2> HIDE DEF r
  <2>3. CASE canAcceptLocal(node, now, t, sig)
    BY <1>7, <2>1, <2>2, <2>3 DEF Submit, AcceptStep
  <2>4. CASE ~canAcceptLocal(node, now, t, sig)
    BY <1>7, <2>1, <2>2, <2>4 DEF Submit, QuietHistoryStep
  <2> QED BY <2>3, <2>4
<1>8. CASE Tick \/ UNCHANGED vars
  <2>1. UNCHANGED <<node, seeded, accepted>>
    BY <1>8 DEF Tick, vars
  <2>2. LedgerStep(node, node, now)
    BY DEF LedgerStep, Unrelated
  <2> QED BY <2>1, <2>2 DEF QuietHistoryStep
<1> QED BY <1>1, <1>2, <1>3, <1>4, <1>5, <1>6, <1>7, <1>8 DEF Next

\* With IInv the histories are inductive; that the stored transfers are finitely
\* many makes the counts of the reports numbers.
History ==
    /\ IsFiniteSet(Stored(node))
    /\ ValueProvenance
    /\ LocalSingleUse

(* A ledger step keeps the stored transfers finitely many, with their
   signatures, and adds values only as outputs of what it stores. *)
LEMMA LedgerStepProvenance ==
    ASSUME NEW s, NEW r, NEW time, LedgerStep(r, s, time), NEW given,
           IsFiniteSet(Stored(s)),
           s.valueStore = given \cup UNION {Range(TxOutputs[t]) : t \in Stored(s)},
           \A t \in Stored(s) : signedByOwner(s, t, s.txStore[t].sig)
    PROVE  /\ IsFiniteSet(Stored(r))
           /\ Stored(s) \subseteq Stored(r)
           /\ r.valueStore = given \cup UNION {Range(TxOutputs[t]) : t \in Stored(r)}
           /\ \A t \in Stored(r) : signedByOwner(r, t, r.txStore[t].sig)
<1>0. ASSUME NEW t, NEW sig, s.valueStore \subseteq r.valueStore,
             signedByOwner(s, t, sig)
      PROVE  signedByOwner(r, t, sig)
  BY <1>0 DEF signedByOwner
<1>1. CASE Unrelated(r, s)
  BY <1>0, <1>1 DEF Unrelated, Stored
<1>2. CASE \E t \in TxIDs, sig \in Keys : Learned(r, s, time, t, sig)
  <2>1. PICK t \in TxIDs, sig \in Keys : Learned(r, s, time, t, sig)
    BY <1>2
  <2>2. /\ Stored(r) = Stored(s) \cup {t}
        /\ \A u \in Stored(s) : r.txStore[u] = s.txStore[u]
        /\ r.txStore[t].sig = sig
        /\ signedByOwner(s, t, sig)
        /\ r.valueStore = s.valueStore \cup Range(TxOutputs[t])
    BY <2>1 DEF Learned, Reconsidered, validateTransfer
  <2>3. IsFiniteSet(Stored(r))
    BY <2>2, FS_AddElement
  <2>4. r.valueStore = given \cup UNION {Range(TxOutputs[u]) : u \in Stored(r)}
    BY <2>2
  <2>5. \A u \in Stored(r) : signedByOwner(r, u, r.txStore[u].sig)
    BY <1>0, <2>2
  <2> QED BY <2>2, <2>3, <2>4, <2>5
<1>3. CASE \E t \in TxIDs : Rechecked(r, s, time, t)
  <2>1. PICK t \in TxIDs : Rechecked(r, s, time, t)
    BY <1>3
  <2>2. /\ Stored(r) = Stored(s)
        /\ \A u \in Stored(s) : r.txStore[u] = s.txStore[u]
        /\ r.valueStore = s.valueStore
    BY <2>1 DEF Rechecked, Reconsidered
  <2> QED BY <1>0, <2>2
<1> QED BY <1>1, <1>2, <1>3 DEF LedgerStep

(* A new node has no history. *)
LEMMA InitHistory == Init => History
<1> SUFFICES ASSUME Init PROVE History
  OBVIOUS
<1>1. Stored(node) = {} /\ node.valueStore = {} /\ node.consumed = {}
  BY DEF Init, NewNode, Stored, EmptyMap
<1> QED BY <1>1, FS_EmptySet DEF Init, History, ValueProvenance, LocalSingleUse

(* Every operation keeps the history: a transfer is stored with the outputs it
   creates, and accepted locally with the inputs it consumes. *)
LEMMA NextHistory == IInv /\ History /\ [Next]_vars => History'
<1> SUFFICES ASSUME IInv, History, [Next]_vars PROVE History'
  OBVIOUS
<1>1. /\ IsFiniteSet(Stored(node))
      /\ node.valueStore = seeded \cup UNION {Range(TxOutputs[t]) : t \in Stored(node)}
      /\ \A t \in Stored(node) : signedByOwner(node, t, node.txStore[t].sig)
  BY DEF History, ValueProvenance
<1>2. /\ accepted \subseteq Stored(node)
      /\ node.consumed = UNION {Inputs(t) : t \in accepted}
      /\ \A t, u \in accepted : t # u => Inputs(t) \cap Inputs(u) = {}
  BY DEF History, LocalSingleUse
<1>3. ASSUME LedgerStep(node', node, now), seeded' = seeded
      PROVE  /\ IsFiniteSet(Stored(node')) /\ ValueProvenance'
             /\ Stored(node) \subseteq Stored(node')
  <2>1. /\ IsFiniteSet(Stored(node'))
        /\ Stored(node) \subseteq Stored(node')
        /\ node'.valueStore = seeded \cup UNION {Range(TxOutputs[t]) : t \in Stored(node')}
        /\ \A t \in Stored(node') : signedByOwner(node', t, node'.txStore[t].sig)
    BY <1>1, <1>3, LedgerStepProvenance
  <2> QED BY <1>3, <2>1 DEF ValueProvenance
<1>4. CASE QuietHistoryStep
  <2>1. IsFiniteSet(Stored(node')) /\ ValueProvenance' /\ Stored(node) \subseteq Stored(node')
    BY <1>3, <1>4 DEF QuietHistoryStep
  <2>2. LocalSingleUse'
    BY <1>2, <1>4, <2>1 DEF QuietHistoryStep, LocalSingleUse
  <2> QED BY <2>1, <2>2 DEF History
<1>5. ASSUME NEW t \in LocalTxs, NEW sig \in Keys, AcceptStep(t, sig) PROVE History'
  <2>1. IsFiniteSet(Stored(node')) /\ ValueProvenance' /\ Stored(node) \subseteq Stored(node')
    BY <1>3, <1>5 DEF AcceptStep
  <2>2. Inputs(t) \cap node.consumed = {}
    BY <1>5 DEF AcceptStep, canAcceptLocal
  <2>3. /\ accepted' = accepted \cup {t}
        /\ node'.consumed = node.consumed \cup Inputs(t)
        /\ t \in Stored(node')
    BY <1>5 DEF AcceptStep
  <2>4. node'.consumed = UNION {Inputs(u) : u \in accepted'}
    BY <1>2, <2>3
  <2>5. \A u \in accepted : Inputs(u) \subseteq node.consumed
    BY <1>2
  <2>6. \A u, w \in accepted' : u # w => Inputs(u) \cap Inputs(w) = {}
    BY <1>2, <2>2, <2>3, <2>5
  <2> QED BY <1>2, <2>1, <2>3, <2>4, <2>6 DEF History, LocalSingleUse
<1>6. ASSUME NEW v \in Seedable, Seed(v) PROVE History'
  <2>1. IsNodeState(node)
    BY DEF IInv, NodeInv, StoresOK
  <2>2. /\ node'.txStore = node.txStore /\ node'.consumed = node.consumed
        /\ node'.valueStore = node.valueStore \cup {v}
        /\ seeded' = seeded \cup {v} /\ accepted' = accepted
    BY <1>6, <2>1 DEF Seed, SeedValue, IsNodeState
  <2>3. Stored(node') = Stored(node)
    BY <2>2 DEF Stored
  <2>4. \A t \in Stored(node') : signedByOwner(node', t, node'.txStore[t].sig)
    BY <1>1, <2>2, <2>3 DEF signedByOwner
  <2>5. ValueProvenance'
    BY <1>1, <2>2, <2>3, <2>4 DEF ValueProvenance
  <2>6. LocalSingleUse'
    BY <1>2, <2>2, <2>3 DEF LocalSingleUse
  <2> QED BY <1>1, <2>3, <2>5, <2>6 DEF History
<1> QED BY <1>4, <1>5, <1>6, NodeStep

(* The history invariant, which holds together with IInv. *)
THEOREM HistoryInvariant == Spec => []History
BY InitHistory, NextHistory, IInvariant, PTL DEF Spec

(* The value store holds what was seeded and the outputs of stored transfers,
   and every stored transfer is signed by the owner of what it spends: no
   sequence of messages makes up a value or stores an unsigned transfer. *)
THEOREM ValueProvenanceHolds == Spec => []ValueProvenance
<1>1. History => ValueProvenance
  BY DEF History
<1> QED BY <1>1, HistoryInvariant, PTL

(* AcceptLocalTransfer never spends an input twice, and consumes exactly the
   inputs of what it accepted. *)
THEOREM LocalSingleUseHolds == Spec => []LocalSingleUse
<1>1. History => LocalSingleUse
  BY DEF History
<1> QED BY <1>1, HistoryInvariant, PTL

----------------------------------------------------------------------------
(* The reports and the loss of FINAL.                                      *)

(* A set of entries with one entry for each element of a finite set has as many
   elements as that set. *)
LEMMA OneEntryEach ==
    ASSUME NEW S, IsFiniteSet(S), NEW f, DOMAIN f = S,
           \A x, y \in S : f[x] = f[y] => x = y
    PROVE  Cardinality({f[x] : x \in S}) = Cardinality(S)
<1> DEFINE T == {f[x] : x \in S}
           g == [x \in S |-> f[x]]
<1>1. g \in Bijection(S, T)
  BY DEF Bijection, Injection, Surjection, IsInjective
<1>2. ExistsBijection(S, T)
  BY <1>1 DEF ExistsBijection
<1> QED BY <1>2, FS_Bijection

(* The reports of node/inspect.go, taken from a state with the node invariant
   and the history, agree with each other. *)
LEMMA ReportsFollow ==
    ASSUME NEW s, NEW time, NodeInv(s, time), IsFiniteSet(Stored(s)),
           \A t \in Stored(s) : Range(TxOutputs[t]) \subseteq s.valueStore
    PROVE  ReportsAgreeIn(s)
<1> DEFINE entry(t) == [tx |-> t, status |-> s.finalityState[t].status,
                        confidence |-> s.finalityState[t].confidence,
                        amount |-> transferAmount(t)]
           choice(v) == [input |-> v, tx |-> s.selectedLineage[v].tx]
<1>1. IsNodeState(s) /\ CurrentExcept(s, time, {}, {}) /\ ConflictSetsExactIn(s)
  BY DEF NodeInv, StoresOK
<1>2. DOMAIN s.finalityState = Stored(s)
  BY <1>1 DEF CurrentExcept
<1>3. DOMAIN s.selectedLineage = {v \in ValueIDs : s.conflictSets[v] # {}}
  BY <1>1 DEF CurrentExcept
<1>4. FinalityEntries(s) = {entry(t) : t \in Stored(s)}
  BY <1>2 DEF FinalityEntries
<1>5. SelectedLineages(s) = {choice(v) : v \in DOMAIN s.selectedLineage}
  BY DEF SelectedLineages
<1>6. /\ \A t : entry(t).tx = t /\ entry(t).status = s.finalityState[t].status
      /\ \A v : choice(v).input = v /\ choice(v).tx = s.selectedLineage[v].tx
  OBVIOUS
<1> HIDE DEF entry
<1>7. TransferCount(s) = Cardinality(FinalityEntries(s))
  <2> DEFINE f == [t \in Stored(s) |-> entry(t)]
  <2>1. \A t, u \in Stored(s) : f[t] = f[u] => t = u
    BY <1>6
  <2>2. {f[t] : t \in Stored(s)} = FinalityEntries(s) /\ DOMAIN f = Stored(s)
    BY <1>4
  <2> HIDE DEF f
  <2>3. Cardinality({f[t] : t \in Stored(s)}) = Cardinality(Stored(s))
    BY <2>1, <2>2, OneEntryEach
  <2> QED BY <2>2, <2>3 DEF TransferCount
<1>8. ConflictSetCount(s) = SelectedLineageCount(s)
  BY <1>3 DEF ConflictSetCount, SelectedLineageCount
<1>9. ASSUME NEW v \in ValueIDs, s.conflictSets[v] # {}
      PROVE  Cardinality({e \in SelectedLineages(s) :
                            e.input = v /\ e.tx \in s.conflictSets[v]}) = 1
  <2>1. v \in DOMAIN s.selectedLineage
    BY <1>3, <1>9
  <2>2. s.selectedLineage[v].tx \in s.conflictSets[v]
    BY <1>1, <2>1 DEF CurrentExcept
  <2> HIDE DEF choice
  <2>3. {e \in SelectedLineages(s) : e.input = v /\ e.tx \in s.conflictSets[v]}
           = {choice(v)}
    BY <1>5, <1>6, <2>1, <2>2
  <2> QED BY <2>3, FS_Singleton
<1>10. ASSUME NEW t \in Stored(s)
       PROVE  Cardinality({f \in FinalityEntries(s) : f.tx = t}) = 1
  <2>1. {f \in FinalityEntries(s) : f.tx = t} = {entry(t)}
    BY <1>4, <1>6
  <2> QED BY <2>1, FS_Singleton
<1>11. ASSUME NEW c \in ConflictSetEntries(s)
       PROVE  /\ Cardinality({e \in SelectedLineages(s) :
                                e.input = c.input /\ e.tx \in c.txs}) = 1
              /\ \A t \in c.txs : Cardinality({f \in FinalityEntries(s) : f.tx = t}) = 1
  <2>1. PICK v \in ValueIDs : /\ s.conflictSets[v] # {}
                              /\ c = [input |-> v, txs |-> s.conflictSets[v]]
    BY DEF ConflictSetEntries
  <2>2. c.input = v /\ c.txs = s.conflictSets[v]
    BY <2>1
  <2>3. s.conflictSets[v] \subseteq Stored(s)
    BY <1>1 DEF ConflictSetsExactIn
  <2> QED BY <1>9, <1>10, <2>1, <2>2, <2>3
<1>12. ASSUME NEW f \in FinalityEntries(s)
       PROVE  /\ Range(TxOutputs[f.tx]) \subseteq Values(s)
              /\ f.status # "PENDING" =>
                   \A v \in Inputs(f.tx) : [input |-> v, tx |-> f.tx] \in SelectedLineages(s)
  <2>1. PICK t \in Stored(s) : f = entry(t)
    BY <1>4
  <2>2. f.tx = t /\ f.status = s.finalityState[t].status
    BY <1>6, <2>1
  <2>3. ASSUME f.status # "PENDING", NEW v \in Inputs(t)
        PROVE  [input |-> v, tx |-> t] \in SelectedLineages(s)
    <3>1. lostInputs(s, t) = {}
      BY <1>1, <2>2, <2>3 DEF CurrentExcept, selectedOnAllInputs
    <3>2. v \in DOMAIN s.selectedLineage /\ s.selectedLineage[v].tx = t
      BY <2>3, <3>1 DEF Inputs, Range, lostInputs
    <3> QED BY <1>5, <3>2
  <2> QED BY <2>2, <2>3 DEF Values
<1> QED BY <1>7, <1>8, <1>11, <1>12 DEF ReportsAgreeIn

(* Whatever was received before, "node status", "tx show" and the state
   commands agree. *)
THEOREM ReportsAgreeHolds == Spec => []ReportsAgree
<1>1. IInv /\ History => ReportsAgree
  <2> SUFFICES ASSUME IInv, History PROVE ReportsAgreeIn(node)
    BY DEF ReportsAgree
  <2>1. \A t \in Stored(node) : Range(TxOutputs[t]) \subseteq node.valueStore
    BY DEF History, ValueProvenance
  <2> QED BY <2>1, ReportsFollow DEF IInv, History
<1> QED BY <1>1, IInvariant, HistoryInvariant, PTL

(* updateFinalityForTransfer takes FINAL from a transfer only when an input goes
   to a rival or a peer replaces its proof: new peers, new proofs, seeded
   values and the passing of time never do. *)
THEOREM FinalDemotionHolds == Spec => FinalDemotion
<1> DEFINE Kept == \A t \in Stored(node) :
                      /\ node.finalityState[t].status = "FINAL"
                      /\ node'.finalityState[t].status # "FINAL"
                      => \/ \E v \in Inputs(t) : node'.selectedLineage[v].tx # t
                         \/ \E p \in DOMAIN node.proofStore[t] :
                                node'.proofStore[t][p] # node.proofStore[t][p]
<1>1. IInv /\ [Next]_vars => Kept
  <2> SUFFICES ASSUME IInv, [Next]_vars PROVE Kept
    OBVIOUS
  <2>0. IInv'
    BY NextIInv
  <2>1. NodeInv(node, now) /\ now \in Nat /\ IsNodeState(node')
    BY <2>0 DEF IInv, NodeInv, StoresOK
  <2>2. CASE LedgerStep(node', node, now)
    <3> SUFFICES ASSUME NEW t \in Stored(node),
                        node.finalityState[t].status = "FINAL",
                        \A v \in Inputs(t) : node'.selectedLineage[v].tx = t,
                        \A p \in DOMAIN node.proofStore[t] :
                            node'.proofStore[t][p] = node.proofStore[t][p]
                 PROVE  node'.finalityState[t].status = "FINAL"
      OBVIOUS
    <3> QED BY <2>1, <2>2, FinalKept
  <2>3. ASSUME NEW v \in Seedable, Seed(v) PROVE Kept
    <3>1. IsNodeState(node)
      BY <2>1 DEF NodeInv, StoresOK
    <3>2. node'.finalityState = node.finalityState
      BY <2>3, <3>1 DEF Seed, SeedValue, IsNodeState
    <3> QED BY <3>2
  <2> QED BY <2>2, <2>3, NodeStep DEF QuietHistoryStep, AcceptStep
<1>2. Spec => [][Kept]_vars
  BY <1>1, IInvariant, PTL DEF Spec
<1> QED BY <1>2 DEF FinalDemotion

----------------------------------------------------------------------------
(* What FINAL takes.                                                       *)

(* The sum of transferAmount, taken modulo the range of a uint64 after every
   addition, is the exact sum if that fits. *)
LEMMA AmountFits ==
    ASSUME NEW t \in TxIDs, totalAmount(TxOutputs[t]) < AmountModulus
    PROVE  transferAmount(t) = totalAmount(TxOutputs[t])
<1> DEFINE out == TxOutputs[t]
           D == DOMAIN out
           M == AmountModulus
           x(s) == CHOOSE y \in s : TRUE
           sumStep(g, s) == IF s = {} THEN 0 ELSE g[s \ {x(s)}] + ValueAmount[out[x(s)]]
           modStep(g, s) == IF s = {} THEN 0
                            ELSE (g[s \ {x(s)}] + ValueAmount[out[x(s)]]) % M
           exact == CHOOSE g : g = [s \in SUBSET D |-> sumStep(g, s)]
           wrapped == CHOOSE g : g = [s \in SUBSET D |-> modStep(g, s)]
<1>1. /\ totalAmount(out) = exact[D]
      /\ transferAmount(t) = wrapped[D]
  BY DEF totalAmount, transferAmount, FoldFunction, FoldFunctionOnSet, MapThenFoldSet
<1>2. /\ IsFiniteSet(D) /\ M \in Nat \ {0}
      /\ \A i \in D : ValueAmount[out[i]] \in Nat
  <2>1. out \in Seq(ValueIDs)
    BY TransferAssumption
  <2>2. D = 1..Len(out) /\ Len(out) \in Nat
    BY <2>1
  <2>3. IsFiniteSet(D)
    BY <2>2, FS_Interval
  <2>4. \A i \in D : out[i] \in ValueIDs
    BY <2>1
  <2> QED BY <2>3, <2>4, ValueAssumption, ScoreAssumption
<1> HIDE DEF out, D, M
<1>3. \A s \in SUBSET D : s # {} => x(s) \in s /\ x(s) \in D
  OBVIOUS
<1> HIDE DEF x
<1>4. exact = [s \in SUBSET D |-> sumStep(exact, s)] /\ exact \in [SUBSET D -> Nat]
  <2> DEFINE h == [p \in D \X Nat |-> p[2] + ValueAmount[out[p[1]]]]
  <2>1. h \in [D \X Nat -> Nat] /\ \A i \in D, n \in Nat : h[<<i, n>>] = n + ValueAmount[out[i]]
    BY <1>2
  <2> HIDE DEF h
  <2>2. PICK g : IsFold(h, 0, Nat, D, g)
    BY <1>2, <2>1, FoldExists
  <2>3. g = [s \in SUBSET D |-> sumStep(g, s)]
    <3>1. g \in [SUBSET D -> Nat]
      BY <2>2 DEF IsFold
    <3>2. ASSUME NEW s \in SUBSET D PROVE g[s] = sumStep(g, s)
      <4>1. g[s] = FoldStep(h, 0, g, s)
        BY <2>2 DEF IsFold
      <4>2. CASE s = {}
        BY <4>1, <4>2 DEF FoldStep
      <4>3. CASE s # {}
        <5>1. g[s] = h[<<x(s), g[s \ {x(s)}]>>]
          BY <4>1, <4>3 DEF FoldStep, x
        <5>2. g[s \ {x(s)}] \in Nat
          BY <3>1
        <5> QED BY <1>3, <2>1, <4>3, <5>1, <5>2
      <4> QED BY <4>2, <4>3
    <3> HIDE DEF sumStep
    <3> QED BY <3>1, <3>2
  <2>4. exact = [s \in SUBSET D |-> sumStep(exact, s)]
    <3> HIDE DEF sumStep
    <3> QED BY <2>3
  <2> HIDE DEF exact
  <2>5. ASSUME NEW bad \in SUBSET D, exact[bad] \notin Nat PROVE FALSE
    <3> DEFINE Bad == {s \in SUBSET D : exact[s] \notin Nat}
    <3>1. Bad \in SUBSET (SUBSET D) /\ Bad # {}
      BY <2>5
    <3>2. PICK T \in Bad : \A U \in SUBSET T : U # T => U \notin Bad
      <4> HIDE DEF Bad
      <4> QED BY <1>2, <3>1, MinimalSubset
    <3>3. T \in SUBSET D /\ exact[T] \notin Nat
      BY <3>2
    <3>4. exact[T] = sumStep(exact, T)
      <4> HIDE DEF sumStep
      <4> QED BY <2>4, <3>3
    <3>5. T # {}
      BY <3>3, <3>4
    <3>6. x(T) \in T /\ x(T) \in D
      BY <1>3, <3>3, <3>5
    <3>7. T \ {x(T)} \notin Bad
      <4> HIDE DEF Bad
      <4> QED BY <3>2, <3>6
    <3>8. exact[T \ {x(T)}] \in Nat
      BY <3>3, <3>7
    <3> QED BY <1>2, <3>3, <3>4, <3>5, <3>6, <3>8
  <2> HIDE DEF sumStep
  <2> QED BY <2>4, <2>5
<1>5. wrapped = [s \in SUBSET D |-> modStep(wrapped, s)]
  <2> DEFINE h == [p \in D \X Nat |-> (p[2] + ValueAmount[out[p[1]]]) % M]
  <2>1. \A n \in Nat : n % M \in Nat
    BY <1>2
  <2>2. h \in [D \X Nat -> Nat]
        /\ \A i \in D, n \in Nat : h[<<i, n>>] = (n + ValueAmount[out[i]]) % M
    BY <1>2, <2>1
  <2> HIDE DEF h
  <2>3. PICK g : IsFold(h, 0, Nat, D, g)
    BY <1>2, <2>2, FoldExists
  <2>4. g = [s \in SUBSET D |-> modStep(g, s)]
    <3>1. g \in [SUBSET D -> Nat]
      BY <2>3 DEF IsFold
    <3>2. ASSUME NEW s \in SUBSET D PROVE g[s] = modStep(g, s)
      <4>1. g[s] = FoldStep(h, 0, g, s)
        BY <2>3 DEF IsFold
      <4>2. CASE s = {}
        BY <4>1, <4>2 DEF FoldStep
      <4>3. CASE s # {}
        <5>1. g[s] = h[<<x(s), g[s \ {x(s)}]>>]
          BY <4>1, <4>3 DEF FoldStep, x
        <5>2. g[s \ {x(s)}] \in Nat
          BY <3>1
        <5> QED BY <1>3, <2>2, <4>3, <5>1, <5>2
      <4> QED BY <4>2, <4>3
    <3> HIDE DEF modStep
    <3> QED BY <3>1, <3>2
  <2> HIDE DEF modStep
  <2> QED BY <2>4
<1> HIDE DEF exact, wrapped
<1>6. ASSUME NEW bad \in SUBSET D, exact[bad] < M, wrapped[bad] # exact[bad] PROVE FALSE
  <2> DEFINE Bad == {s \in SUBSET D : exact[s] < M /\ wrapped[s] # exact[s]}
  <2>1. Bad \in SUBSET (SUBSET D) /\ Bad # {}
    BY <1>6
  <2>2. PICK T \in Bad : \A U \in SUBSET T : U # T => U \notin Bad
    <3> HIDE DEF Bad
    <3> QED BY <1>2, <2>1, MinimalSubset
  <2>3. T \in SUBSET D /\ exact[T] < M /\ wrapped[T] # exact[T]
    BY <2>2
  <2>4. exact[T] = sumStep(exact, T) /\ wrapped[T] = modStep(wrapped, T)
    <3> HIDE DEF sumStep, modStep
    <3> QED BY <1>4, <1>5, <2>3
  <2>5. T # {}
    BY <2>3, <2>4
  <2>6. x(T) \in T /\ x(T) \in D
    BY <1>3, <2>3, <2>5
  <2> DEFINE U == T \ {x(T)}
             a == ValueAmount[out[x(T)]]
  <2>7. U \notin Bad /\ U \in SUBSET D
    <3> HIDE DEF Bad
    <3> QED BY <2>2, <2>3, <2>6
  <2>8. exact[T] = exact[U] + a /\ wrapped[T] = (wrapped[U] + a) % M
    BY <2>4, <2>5
  <2>9. a \in Nat /\ exact[U] \in Nat
    BY <1>2, <1>4, <2>6, <2>7
  <2>10. wrapped[U] = exact[U]
    <3>1. exact[U] < M
      BY <1>2, <2>3, <2>8, <2>9
    <3> QED BY <2>7, <3>1
  <2> HIDE DEF U, a
  <2>11. \A n \in Nat : n < M => n % M = n
    BY <1>2
  <2> QED BY <2>3, <2>8, <2>9, <2>10, <2>11
<1>7. exact[D] < M => wrapped[D] = exact[D]
  BY <1>6
<1> QED BY <1>1, <1>7 DEF out, M

(* The confidence without observers is that of age and proofs alone: less than
   the medium threshold, and less than the small one without a proof. *)
LEMMA UnobservedConfidence ==
    ASSUME NEW s, IsNodeState(s), NEW time \in Nat, NEW t \in Stored(s),
           s.peerObservations[t] = {}
    PROVE  /\ computeConfidence(s, time, t) \in Int
           /\ computeConfidence(s, time, t) < thresholdMedium
           /\ supporting(s, t, Distances) = {} =>
                 computeConfidence(s, time, t) < thresholdSmall
<1>1. t \in TxIDs /\ s.txStore[t].firstSeen \in Nat
  BY DEF IsNodeState, IsMap, TxRecord, Stored
<1> DEFINE N == neighborhood(s, t)
           T == timeStability(s, time, t)
<1>2. propagationScore(s, t) = 0
  BY FS_EmptySet, ScoreAssumption DEF propagationScore
<1>3. T \in Int /\ T <= Scale
  BY <1>1, TimeStabilityFacts
<1>4. proofWeight(s, t) \in Nat
  BY <1>1, ProofWeightFacts
<1>5. N \in Int /\ N < Scale
  BY <1>4, QuotientFacts DEF neighborhood
<1>6. ASSUME supporting(s, t, Distances) = {} PROVE N = 0
  <2>1. proofWeight(s, t) = 0
    BY <1>1, <1>6, ProofWeightFacts
  <2> QED BY <2>1 DEF neighborhood, Scale
<1>7. computeConfidence(s, time, t) = 35 * T + 35 * N
  BY <1>2, <1>3, <1>5
     DEF computeConfidence, confidencePropagation, confidenceTime, confidenceProof
<1> HIDE DEF N, T
<1> QED BY <1>3, <1>5, <1>6, <1>7 DEF thresholdMedium, thresholdSmall, Scale

(* No transfer becomes FINAL by age alone, and none that is worth more than the
   lowest tier without a peer that sent it, for any number of peers and any
   proofs they send. *)
THEOREM FinalNeedsPeersHolds == Spec => []FinalNeedsPeers
<1>1. IInv => FinalNeedsPeers
  <2> SUFFICES ASSUME IInv, NEW t \in Stored(node),
                      node.finalityState[t].status = "FINAL",
                      node.peerObservations[t] = {}
               PROVE  /\ supporting(node, t, Distances) # {}
                      /\ totalAmount(TxOutputs[t]) \notin tierSmallMax..(AmountModulus - 1)
    BY DEF FinalNeedsPeers
  <2>1. IsNodeState(node) /\ FinalJustifiedIn(node, now) /\ now \in Nat
    BY NodeInvImplies DEF IInv
  <2>2. computeConfidence(node, now, t) >= finalityThreshold(t)
    BY <2>1 DEF FinalJustifiedIn
  <2>3. /\ computeConfidence(node, now, t) \in Int
        /\ computeConfidence(node, now, t) < thresholdMedium
        /\ supporting(node, t, Distances) = {} =>
              computeConfidence(node, now, t) < thresholdSmall
    BY <2>1, UnobservedConfidence
  <2>4. finalityThreshold(t) \in {thresholdSmall, thresholdMedium, thresholdLarge}
    BY DEF finalityThreshold
  <2>5. supporting(node, t, Distances) # {}
    BY <2>2, <2>3, <2>4
       DEF thresholdSmall, thresholdMedium, thresholdLarge, Scale
  <2>6. ASSUME totalAmount(TxOutputs[t]) \in tierSmallMax..(AmountModulus - 1)
        PROVE  FALSE
    <3>1. t \in TxIDs
      BY <2>1 DEF IsNodeState, IsMap, Stored
    <3>2. /\ totalAmount(TxOutputs[t]) < AmountModulus
          /\ totalAmount(TxOutputs[t]) >= tierSmallMax
          /\ totalAmount(TxOutputs[t]) \in Int
      BY <2>6, ScoreAssumption DEF tierSmallMax
    <3>3. transferAmount(t) >= tierSmallMax /\ transferAmount(t) \in Int
      BY <3>1, <3>2, AmountFits
    <3>4. finalityThreshold(t) \in {thresholdMedium, thresholdLarge}
      BY <3>3 DEF finalityThreshold, tierSmallMax, tierMediumMax
    <3> QED BY <2>2, <2>3, <3>4 DEF thresholdMedium, thresholdLarge, Scale
  <2> QED BY <2>5, <2>6
<1> QED BY <1>1, IInvariant, PTL

----------------------------------------------------------------------------
(* The refinement: a node implements the ledger of Web4Ledger, whatever    *)
(* the environment sends it.  A step of the node is a ledger step in the   *)
(* sense of NodeStep; here each kind of ledger step is shown to be the     *)
(* action of Web4Ledger it is meant to be.                                 *)

\* The ledger a node state stands for.
winnerOf(s) == [v \in DOMAIN s.selectedLineage |-> s.selectedLineage[v].tx]
finalOf(s) == {t \in Stored(s) :
                  t \in DOMAIN s.finalityState /\ s.finalityState[t].status = "FINAL"}

\* The stored transfers that share an input with t.
rivals(s, t) == {u \in Stored(s) : Inputs(u) \cap Inputs(t) # {}}

(* The decision about a value of a consistent node is a stored transfer that
   spends the value, and a FINAL transfer holds the decision of all its
   inputs. *)
LEMMA DecisionsStand ==
    ASSUME NEW s, NEW time, NodeInv(s, time)
    PROVE  /\ \A v \in DOMAIN winnerOf(s) :
                 winnerOf(s)[v] \in Stored(s) /\ v \in Inputs(winnerOf(s)[v])
           /\ finalOf(s) \subseteq
                 {u \in Stored(s) : \A v \in Inputs(u) : winnerOf(s)[v] = u}
<1>1. CurrentExcept(s, time, {}, {}) /\ ConflictSetsExactIn(s)
  BY DEF NodeInv, StoresOK
<1>2. ASSUME NEW v \in DOMAIN s.selectedLineage
      PROVE  s.selectedLineage[v].tx \in Stored(s) /\ v \in Inputs(s.selectedLineage[v].tx)
  BY <1>1 DEF CurrentExcept, ConflictSetsExactIn
<1>3. ASSUME NEW u \in finalOf(s), NEW v \in Inputs(u)
      PROVE  v \in DOMAIN s.selectedLineage /\ s.selectedLineage[v].tx = u
  <2>1. lostInputs(s, u) = {}
    BY <1>1 DEF CurrentExcept, finalOf, selectedOnAllInputs
  <2> QED BY <1>3, <2>1 DEF Inputs, Range, lostInputs
<1> QED BY <1>2, <1>3 DEF winnerOf, finalOf

(* The transfers refreshed by recomputeSelectionForTransfer are the stored ones
   that share an input with the one decided. *)
LEMMA ContendersExact ==
    ASSUME NEW s, IsNodeState(s), ConflictSetsExactIn(s), NEW t \in Stored(s),
           Inputs(t) # {}
    PROVE  contenders(s, t) = rivals(s, t)
<1>1. t \in TxIDs
  BY DEF IsNodeState, IsMap, Stored
<1>2. Inputs(t) \subseteq ValueIDs
  BY <1>1, InputsType
<1>3. \A v \in Inputs(t) : s.conflictSets[v] = {u \in Stored(s) : v \in Inputs(u)}
  BY <1>2 DEF ConflictSetsExactIn
<1> QED BY <1>3 DEF contenders, rivals

\* From s to r, only the inputs of t were decided.
DecidesOnly(r, s, t) ==
    /\ DOMAIN winnerOf(r) = DOMAIN winnerOf(s) \cup Inputs(t)
    /\ \A v \in DOMAIN winnerOf(r) \ Inputs(t) : winnerOf(r)[v] = winnerOf(s)[v]
    /\ finalOf(r) \ rivals(r, t) = finalOf(s) \ rivals(r, t)

(* Deciding the inputs of t leaves all other winners, and the FINAL status of
   all transfers that do not contend with t, as they were. *)
LEMMA DecidedOnly ==
    ASSUME NEW s, NEW clock, NodeInv(s, clock), NEW r, NEW time, NodeInv(r, time),
           NEW t \in TxIDs, Inputs(t) # {}, Reconsidered(r, s, clock, t)
    PROVE  DecidesOnly(r, s, t)
<1>1. /\ Decided(r, s, clock, t)
      /\ Stored(r) = Stored(s) \cup {t}
  BY DEF Reconsidered
<1>2. /\ IsNodeState(r) /\ ConflictSetsExactIn(r)
      /\ DOMAIN r.finalityState = Stored(r)
      /\ DOMAIN s.finalityState = Stored(s)
  BY DEF NodeInv, StoresOK, CurrentExcept
<1>3. contenders(r, t) = rivals(r, t)
  BY <1>1, <1>2, ContendersExact
<1>4. t \in rivals(r, t)
  BY <1>1 DEF rivals
<1>5. \A u \in Stored(s) \ rivals(r, t) : r.finalityState[u] = s.finalityState[u]
  BY <1>1, <1>2, <1>3 DEF Decided
<1>6. finalOf(r) \ rivals(r, t) = finalOf(s) \ rivals(r, t)
  BY <1>1, <1>2, <1>4, <1>5 DEF finalOf
<1>7. /\ DOMAIN r.selectedLineage = DOMAIN s.selectedLineage \cup Inputs(t)
      /\ \A v \in DOMAIN s.selectedLineage \ Inputs(t) :
            r.selectedLineage[v] = s.selectedLineage[v]
  BY <1>1 DEF Decided
<1> QED BY <1>6, <1>7 DEF winnerOf, DecidesOnly

(* A reconsidered transfer is Web4Ledger's Decide. *)
LEMMA DecideStep ==
    ASSUME IInv, IInv', NEW t \in TxIDs, Inputs(t) # {},
           Reconsidered(node', node, now, t)
    PROVE  Ledger!Decide(t)
<1>1. NodeInv(node, now) /\ NodeInv(node', now')
  BY DEF IInv
<1>2. /\ \A v \in DOMAIN winnerOf(node') :
            winnerOf(node')[v] \in Stored(node') /\ v \in Inputs(winnerOf(node')[v])
      /\ finalOf(node') \subseteq
            {u \in Stored(node') : \A v \in Inputs(u) : winnerOf(node')[v] = u}
  BY <1>1, DecisionsStand
<1>3. DecidesOnly(node', node, t)
  BY <1>1, DecidedOnly
<1>4. \A u : Ledger!Inputs(u) = Inputs(u)
  BY DEF Ledger!Inputs, Inputs, Ledger!Range, Range
<1>5. Ledger!Contenders(Stored(node'), t) = rivals(node', t)
  BY <1>4 DEF Ledger!Contenders, rivals
<1>6. /\ winnerOf(node) = [v \in DOMAIN node.selectedLineage |-> node.selectedLineage[v].tx]
      /\ winnerOf(node') = [v \in DOMAIN node'.selectedLineage |-> node'.selectedLineage[v].tx]
      /\ finalOf(node) = {u \in Stored(node) : u \in DOMAIN node.finalityState
                                               /\ node.finalityState[u].status = "FINAL"}
      /\ finalOf(node') = {u \in Stored(node') : u \in DOMAIN node'.finalityState
                                                /\ node'.finalityState[u].status = "FINAL"}
  BY DEF winnerOf, finalOf
<1> QED BY <1>2, <1>3, <1>4, <1>5, <1>6 DEF Ledger!Decide, DecidesOnly

(* A transfer that passed validateTransfer is in order. *)
LEMMA ValidIsWellFormed ==
    ASSUME NEW s, NEW time, NEW t \in TxIDs, NEW sig \in Keys,
           validateTransfer(s, time, t, sig)
    PROVE  Ledger!WellFormed(t) /\ Inputs(t) \subseteq s.valueStore /\ Inputs(t) # {}
<1>1. /\ Len(TxInputs[t]) > 0 /\ Len(TxOutputs[t]) > 0
      /\ IsInjective(TxInputs[t])
      /\ signedByOwner(s, t, sig)
  BY DEF validateTransfer
<1>2. TxInputs[t] # <<>> /\ TxOutputs[t] # <<>>
  BY <1>1
<1>3. Ledger!IsInjective(TxInputs[t])
  BY <1>1 DEF IsInjective, Ledger!IsInjective
<1>4. PICK i \in DOMAIN TxInputs[t] :
         /\ ValueOwner[TxInputs[t][i]] = sig
         /\ \A j \in DOMAIN TxInputs[t] :
               /\ j < i => ValueOwner[TxInputs[t][j]] = NoOwner
               /\ j > i => ValueOwner[TxInputs[t][j]] = sig
  BY <1>1 DEF signedByOwner
<1>5. \A j \in DOMAIN TxInputs[t] : ValueOwner[TxInputs[t][j]] \in {sig, NoOwner}
  <2>1. DOMAIN TxInputs[t] = 1..Len(TxInputs[t]) /\ Len(TxInputs[t]) \in Nat
    BY InputsType
  <2> QED BY <1>4, <2>1
<1>6. Ledger!Inputs(t) = {TxInputs[t][j] : j \in DOMAIN TxInputs[t]}
  BY DEF Ledger!Inputs, Ledger!Range
<1>7. Inputs(t) # {} /\ Inputs(t) \subseteq s.valueStore
  BY <1>1, <1>4 DEF Inputs, Range, signedByOwner
<1> QED BY <1>2, <1>3, <1>4, <1>5, <1>6, <1>7 DEF Ledger!WellFormed

(* Every step of the node is a step of the ledger or leaves it alone. *)
LEMMA LedgerRefinedStep ==
    ASSUME IInv, IInv', History, [Next]_vars
    PROVE  [Ledger!Next]_(Ledger!vars)
<1>1. CASE LedgerStep(node', node, now)
  <2>1. CASE Unrelated(node', node)
    <3>1. /\ Stored(node') = Stored(node)
          /\ node'.valueStore = node.valueStore
          /\ node'.selectedLineage = node.selectedLineage
          /\ node'.finalityState = node.finalityState
      BY <2>1 DEF Unrelated, Stored
    <3> QED BY <3>1 DEF Ledger!vars
  <2>2. ASSUME NEW t \in TxIDs, NEW sig \in Keys, Learned(node', node, now, t, sig)
        PROVE  Ledger!Learn(t)
    <3>1. /\ t \notin Stored(node) /\ validateTransfer(node, now, t, sig)
          /\ Reconsidered(node', node, now, t)
          /\ node'.valueStore = node.valueStore \cup Range(TxOutputs[t])
          /\ Stored(node') = Stored(node) \cup {t}
      BY <2>2 DEF Learned, Reconsidered
    <3>2. /\ Ledger!WellFormed(t)
          /\ Inputs(t) \subseteq node.valueStore
          /\ Inputs(t) # {}
      BY <3>1, ValidIsWellFormed
    <3>3. Ledger!Decide(t)
      BY <3>1, <3>2, DecideStep
    <3>4. Ledger!Inputs(t) = Inputs(t) /\ Ledger!Range(TxOutputs[t]) = Range(TxOutputs[t])
      BY DEF Ledger!Inputs, Inputs, Ledger!Range, Range
    <3> QED BY <3>1, <3>2, <3>3, <3>4 DEF Ledger!Learn
  <2>3. ASSUME NEW t \in TxIDs, Rechecked(node', node, now, t)
        PROVE  Ledger!Reconsider(t)
    <3>1. /\ t \in Stored(node)
          /\ Reconsidered(node', node, now, t)
          /\ node'.valueStore = node.valueStore
          /\ Stored(node') = Stored(node)
      BY <2>3 DEF Rechecked, Reconsidered
    <3>2. Inputs(t) # {}
      <4>1. signedByOwner(node, t, node.txStore[t].sig)
        BY <3>1 DEF History, ValueProvenance
      <4> QED BY <4>1 DEF signedByOwner, Inputs, Range
    <3>3. Ledger!Decide(t)
      BY <3>1, <3>2, DecideStep
    <3> QED BY <3>1, <3>3 DEF Ledger!Reconsider
  <2> QED BY <1>1, <2>1, <2>2, <2>3 DEF LedgerStep, Ledger!Next
<1>2. ASSUME NEW v \in Seedable, Seed(v) PROVE Ledger!Next
  <2>1. IsNodeState(node)
    BY DEF IInv, NodeInv, StoresOK
  <2>2. /\ node'.txStore = node.txStore
        /\ node'.valueStore = node.valueStore \cup {v}
        /\ node'.selectedLineage = node.selectedLineage
        /\ node'.finalityState = node.finalityState
    BY <1>2, <2>1 DEF Seed, SeedValue, IsNodeState
  <2>3. Stored(node') = Stored(node)
    BY <2>2 DEF Stored
  <2>4. Ledger!Grant(v)
    BY <2>2, <2>3 DEF Ledger!Grant
  <2> QED BY <2>4, NodeAssumption DEF Ledger!Next
<1> QED BY <1>1, <1>2, NodeStep DEF QuietHistoryStep, AcceptStep

(* A new node is an empty ledger. *)
LEMMA LedgerRefinedInit == Init => Ledger!Init
<1> SUFFICES ASSUME Init PROVE Ledger!Init
  OBVIOUS
<1>1. /\ Stored(node) = {} /\ node.valueStore = {}
      /\ DOMAIN node.selectedLineage = {}
  BY DEF Init, NewNode, Stored, EmptyMap
<1> QED BY <1>1 DEF Ledger!Init

(* A node implements the ledger: whatever peers and users do, and however often
   the evidence moves, its stores, its selection and its FINAL statuses change
   only as Web4Ledger allows. *)
THEOREM Refinement == Spec => ImplementsLedger
<1>1. IInv /\ IInv' /\ History /\ [Next]_vars => [Ledger!Next]_(Ledger!vars)
  BY LedgerRefinedStep
<1>2. Spec => Ledger!Spec
  BY <1>1, LedgerRefinedInit, IInvariant, HistoryInvariant, PTL DEF Spec, Ledger!Spec
<1> QED BY <1>2 DEF ImplementsLedger

----------------------------------------------------------------------------
(* The loops of the code (Web4Loops).  Each is shown to keep, at every      *)
(* position, what the definition it stands for says of the part of the      *)
(* list it has passed.                                                      *)

(* A nonempty set of positions has a first one. *)
LEMMA Earliest ==
    ASSUME NEW n \in Nat, NEW B, B \subseteq 0..n, B # {}
    PROVE  \E m \in B : \A k \in B : m <= k
<1> DEFINE R == {p \in Int \X Int : p[1] < p[2]}
<1>1. IsFiniteSet(B)
  <2>1. IsFiniteSet(0..n)
    BY FS_Interval
  <2> QED BY <2>1, FS_Subset
<1>2. \A x, y \in B : x # y => <<x, y>> \in R \/ <<y, x>> \in R
  OBVIOUS
<1>3. \A x, y, z \in B : <<x, y>> \in R /\ <<y, z>> \in R => <<x, z>> \in R
  OBVIOUS
<1>4. PICK m \in B : \A y \in B \ {m} : <<m, y>> \in R
  <2> HIDE DEF R
  <2>1. Orders(R, B)
    BY <1>2, <1>3 DEF Orders
  <2>2. IsFiniteSet(B) /\ B # {}
    BY <1>1
  <2> QED BY <2>1, <2>2, FiniteMaximum
<1>5. \A y \in B : m <= y
  <2> TAKE y \in B
  <2>1. y # m => m < y
    BY <1>4
  <2>2. m \in Int /\ y \in Int
    OBVIOUS
  <2> QED BY <2>1, <2>2
<1> QED BY <1>5

(* Two lists of values that go the same way agree. *)
LEMMA SameWay ==
    ASSUME NEW n \in Nat, NEW f, NEW g, f[0] = g[0],
           \A k \in 1..n : f[k - 1] = g[k - 1] => f[k] = g[k]
    PROVE  \A k \in 0..n : f[k] = g[k]
<1> DEFINE B == {k \in 0..n : f[k] # g[k]}
<1> SUFFICES ASSUME B # {} PROVE FALSE
  OBVIOUS
<1>1. PICK m \in B : \A k \in B : m <= k
  <2>1. B \in SUBSET (0..n)
    OBVIOUS
  <2> HIDE DEF B
  <2> QED BY <2>1, Earliest
<1>2. m \in 1..n
  BY <1>1
<1>3. m - 1 \in 0..n /\ ~(m <= m - 1)
  BY <1>2
<1>4. f[m - 1] = g[m - 1]
  BY <1>1, <1>3
<1> QED BY <1>1, <1>2, <1>4

----------------------------------------------------------------------------
(* The signer.                                                             *)

\* The first k inputs of t are known and have one owner, after those that have
\* none.
OwnersAgree(s, t, k) ==
    /\ \A j \in 1..k : TxInputs[t][j] \in s.valueStore
    /\ \A i, j \in 1..k :
          i < j => ValueOwner[TxInputs[t][i]] \in {NoOwner, ValueOwner[TxInputs[t][j]]}

Refused == [ok |-> FALSE, owner |-> NoOwner]

SignerAt(s, t, k) ==
    IF OwnersAgree(s, t, k)
    THEN [ok |-> TRUE, owner |-> IF k = 0 THEN NoOwner ELSE ValueOwner[TxInputs[t][k]]]
    ELSE Refused

SignerStep(s, t, k, x) ==
    IF /\ x.ok
       /\ TxInputs[t][k] \in s.valueStore
       /\ x.owner \in {NoOwner, ValueOwner[TxInputs[t][k]]}
    THEN [ok |-> TRUE, owner |-> ValueOwner[TxInputs[t][k]]]
    ELSE Refused

(* One more input: the step of resolveSigner keeps what SignerAt says. *)
LEMMA SignerStepped ==
    ASSUME NEW s, NEW t \in TxIDs, NEW k \in 1..Len(TxInputs[t])
    PROVE  SignerAt(s, t, k) = SignerStep(s, t, k, SignerAt(s, t, k - 1))
<1> DEFINE own(i) == ValueOwner[TxInputs[t][i]]
           x == SignerAt(s, t, k - 1)
           next == /\ OwnersAgree(s, t, k - 1)
                   /\ TxInputs[t][k] \in s.valueStore
                   /\ k = 1 \/ own(k - 1) \in {NoOwner, own(k)}
<1>1. Len(TxInputs[t]) \in Nat /\ k \in Nat /\ k # 0
  BY TransferAssumption
<1>2. OwnersAgree(s, t, k) <=> next
  <2>1. ASSUME OwnersAgree(s, t, k) PROVE next
    <3>1. \A i \in 1..(k - 1) : i \in 1..k
      BY <1>1
    <3>2. OwnersAgree(s, t, k - 1)
      BY <2>1, <3>1 DEF OwnersAgree
    <3>3. k # 1 => k - 1 \in 1..k /\ k - 1 < k
      BY <1>1
    <3>4. k \in 1..k
      BY <1>1
    <3> QED BY <2>1, <3>2, <3>3, <3>4 DEF OwnersAgree
  <2>2. ASSUME next PROVE OwnersAgree(s, t, k)
    <3>1. \A j \in 1..k : j = k \/ j \in 1..(k - 1)
      BY <1>1
    <3>2. \A j \in 1..k : TxInputs[t][j] \in s.valueStore
      BY <2>2, <3>1 DEF OwnersAgree
    <3>3. ASSUME NEW i \in 1..k, NEW j \in 1..k, i < j PROVE own(i) \in {NoOwner, own(j)}
      <4>1. i \in 1..(k - 1)
        BY <1>1, <3>3
      <4>2. CASE j \in 1..(k - 1)
        BY <2>2, <3>3, <4>1, <4>2 DEF OwnersAgree
      <4>3. CASE j = k
        <5>1. k # 1 /\ k - 1 \in 1..(k - 1)
          BY <1>1, <4>1
        <5>2. own(k - 1) \in {NoOwner, own(k)}
          BY <2>2, <5>1
        <5>3. CASE i = k - 1
          BY <4>3, <5>2, <5>3
        <5>4. CASE i # k - 1
          <6>1. i < k - 1
            BY <1>1, <4>1, <5>4
          <6>2. own(i) \in {NoOwner, own(k - 1)}
            BY <2>2, <4>1, <5>1, <6>1 DEF OwnersAgree
          <6> QED BY <4>3, <5>2, <6>2
        <5> QED BY <5>3, <5>4
      <4> QED BY <3>1, <4>2, <4>3
    <3> QED BY <3>2, <3>3 DEF OwnersAgree
  <2> QED BY <2>1, <2>2
<1>3. CASE OwnersAgree(s, t, k - 1)
  <2>1. x.ok /\ x.owner = IF k = 1 THEN NoOwner ELSE own(k - 1)
    BY <1>1, <1>3 DEF SignerAt
  <2>2. (x.owner \in {NoOwner, own(k)}) <=> (k = 1 \/ own(k - 1) \in {NoOwner, own(k)})
    BY <2>1
  <2> HIDE DEF x
  <2>3. SignerStep(s, t, k, x) = IF next THEN [ok |-> TRUE, owner |-> own(k)] ELSE Refused
    BY <1>3, <2>1, <2>2, Zenon DEF SignerStep
  <2>4. SignerAt(s, t, k) = IF next THEN [ok |-> TRUE, owner |-> own(k)] ELSE Refused
    BY <1>1, <1>2, Zenon DEF SignerAt
  <2> QED BY <2>3, <2>4, Zenon DEF x
<1>4. CASE ~OwnersAgree(s, t, k - 1)
  <2>1. x = Refused
    BY <1>4 DEF SignerAt
  <2>2. SignerStep(s, t, k, Refused) = Refused
    BY DEF SignerStep, Refused
  <2>3. SignerAt(s, t, k) = Refused
    BY <1>2, <1>4 DEF SignerAt
  <2> QED BY <2>1, <2>2, <2>3, Zenon
<1> QED BY <1>3, <1>4

(* resolveSigner at the end of the inputs. *)
LEMMA SignerLoop ==
    ASSUME NEW s, NEW t \in TxIDs
    PROVE  resolveSignerLoop(s, t) = SignerAt(s, t, Len(TxInputs[t]))
<1> DEFINE n == Len(TxInputs[t])
           g == [k \in 0..n |-> SignerAt(s, t, k)]
           base == [ok |-> TRUE, owner |-> NoOwner]
           is(f) == f = [k \in 0..n |-> IF k = 0 THEN base ELSE SignerStep(s, t, k, f[k - 1])]
           w == CHOOSE f : is(f)
<1>1. n \in Nat
  BY TransferAssumption
<1>2. resolveSignerLoop(s, t) = w[n]
  BY Zenon DEF resolveSignerLoop, SignerStep, Refused
<1>3. SignerAt(s, t, 0) = base
  BY DEF SignerAt, OwnersAgree
<1>4. \A k \in 1..n : SignerAt(s, t, k) = SignerStep(s, t, k, SignerAt(s, t, k - 1))
  BY SignerStepped
<1> HIDE DEF base
<1>5. is(g)
  <2>1. ASSUME NEW k \in 0..n
        PROVE  SignerAt(s, t, k) = IF k = 0 THEN base ELSE SignerStep(s, t, k, g[k - 1])
    <3>1. CASE k = 0
      BY <1>3, <3>1
    <3>2. CASE k # 0
      <4>1. k \in 1..n /\ k - 1 \in 0..n
        BY <1>1, <3>2
      <4> QED BY <1>4, <3>2, <4>1
    <3> QED BY <3>1, <3>2
  <2> QED BY <2>1
<1>6. is(w)
  <2> HIDE DEF is, g
  <2> QED BY <1>5
<1> DEFINE v == w
<1> HIDE DEF w
<1>7. \A k \in 0..n : w[k] = IF k = 0 THEN base ELSE SignerStep(s, t, k, w[k - 1])
  BY <1>6
<1>8. w[0] = g[0]
  BY <1>1, <1>3, <1>7
<1>9. ASSUME NEW k \in 1..n, w[k - 1] = g[k - 1] PROVE w[k] = g[k]
  <2>1. k \in 0..n /\ k # 0 /\ k - 1 \in 0..n
    BY <1>1
  <2>2. w[k] = SignerStep(s, t, k, w[k - 1])
    BY <1>7, <2>1
  <2>3. w[k - 1] = SignerAt(s, t, k - 1) /\ g[k] = SignerAt(s, t, k)
    BY <1>9, <2>1
  <2> QED BY <1>4, <2>2, <2>3
<1>10. w[n] = g[n]
  <2>1. n \in 0..n
    BY <1>1
  <2> HIDE DEF g, n
  <2> QED BY <1>1, <1>8, <1>9, <2>1, SameWay
<1> QED BY <1>1, <1>2, <1>10

(* resolveSigner and signedByOwner agree in any state of the node: what the
   first of the inputs with an owner decides the later ones confirm. *)
LEMMA SignersAgree ==
    ASSUME NEW s, NEW t \in TxIDs, NEW sig \in Keys
    PROVE  signedByOwner(s, t, sig)
             <=> resolveSignerLoop(s, t).ok /\ resolveSignerLoop(s, t).owner = sig
<1> DEFINE n == Len(TxInputs[t])
           own(i) == ValueOwner[TxInputs[t][i]]
           signer == resolveSignerLoop(s, t)
           signs(i) == /\ own(i) = sig
                       /\ \A j \in 1..n : /\ j < i => own(j) = NoOwner
                                          /\ j > i => own(j) = sig
<1>1. n \in Nat /\ DOMAIN TxInputs[t] = 1..n /\ sig # NoOwner
  BY TransferAssumption, ValueAssumption
<1>2. Inputs(t) \subseteq s.valueStore <=> \A j \in 1..n : TxInputs[t][j] \in s.valueStore
  BY <1>1 DEF Inputs, Range
<1>3. signedByOwner(s, t, sig) <=> Inputs(t) \subseteq s.valueStore /\ \E i \in 1..n : signs(i)
  BY <1>1, Zenon DEF signedByOwner
<1>4. /\ signer.ok <=> OwnersAgree(s, t, n)
      /\ OwnersAgree(s, t, n) => signer.owner = IF n = 0 THEN NoOwner ELSE own(n)
  BY SignerLoop DEF SignerAt, Refused
<1>5. ASSUME signedByOwner(s, t, sig) PROVE signer.ok /\ signer.owner = sig
  <2>1. PICK i \in 1..n : signs(i)
    BY <1>3, <1>5
  <2>2. ASSUME NEW j \in 1..n, NEW k \in 1..n, j < k PROVE own(j) \in {NoOwner, own(k)}
    <3>1. CASE j < i
      BY <2>1, <3>1
    <3>2. CASE ~(j < i)
      <4>1. (j = i \/ j > i) /\ k > i
        BY <1>1, <2>2, <3>2
      <4> QED BY <2>1, <4>1
    <3> QED BY <3>1, <3>2
  <2>3. OwnersAgree(s, t, n)
    BY <1>2, <1>3, <1>5, <2>2 DEF OwnersAgree
  <2>4. n # 0 /\ n \in 1..n /\ own(n) = sig
    <3>1. n # 0 /\ n \in 1..n /\ (n = i \/ n > i)
      BY <1>1
    <3> QED BY <2>1, <3>1
  <2> QED BY <1>4, <2>3, <2>4
<1>6. ASSUME signer.ok, signer.owner = sig PROVE signedByOwner(s, t, sig)
  <2>1. OwnersAgree(s, t, n) /\ n # 0 /\ own(n) = sig
    BY <1>1, <1>4, <1>6
  <2> DEFINE B == {j \in 1..n : own(j) # NoOwner}
  <2>2. n \in B
    BY <1>1, <2>1
  <2>3. PICK i \in B : \A k \in B : i <= k
    <3>1. B \in SUBSET (0..n) /\ B # {}
      BY <2>2
    <3> HIDE DEF B
    <3> QED BY <1>1, <3>1, Earliest
  <2>4. own(i) = sig
    <3>1. i = n \/ i < n
      BY <1>1, <2>3
    <3>2. i < n => own(i) \in {NoOwner, own(n)}
      BY <2>1, <2>2 DEF OwnersAgree
    <3> QED BY <2>1, <3>1, <3>2
  <2>5. ASSUME NEW j \in 1..n PROVE (j < i => own(j) = NoOwner) /\ (j > i => own(j) = sig)
    <3>1. ASSUME j < i PROVE own(j) = NoOwner
      <4>1. ~(i <= j)
        BY <1>1, <3>1
      <4> QED BY <2>3, <4>1
    <3>2. ASSUME j > i PROVE own(j) = sig
      <4>1. own(i) \in {NoOwner, own(j)}
        BY <1>1, <2>1, <3>2 DEF OwnersAgree
      <4> QED BY <2>4, <4>1
    <3> QED BY <3>1, <3>2
  <2>6. signs(i)
    BY <2>4, <2>5
  <2>7. Inputs(t) \subseteq s.valueStore
    BY <1>2, <2>1 DEF OwnersAgree
  <2> QED BY <1>3, <2>6, <2>7
<1> QED BY <1>5, <1>6

(* resolveSigner (handlers.go), which walks the inputs and tolerates a nil
   owner until it meets another one, accepts exactly the signers that the
   model's signedByOwner accepts. *)
THEOREM SignerMatchesLoopHolds == Spec => []SignerMatchesLoop
<1>1. SignerMatchesLoop
  BY SignersAgree DEF SignerMatchesLoop
<1>2. QED
  BY <1>1, PTL

----------------------------------------------------------------------------
(* The finality of one transfer.                                           *)

firstLost(s, t) ==
    CHOOSE i \in lostInputs(s, t) : \A j \in lostInputs(s, t) : i <= j

\* The walk over the inputs of t, after k of them: whether none is lost, and
\* the position of the last one before a loss.
unbroken(s, t, k) == lostInputs(s, t) \cap (1..k) = {}

reached(s, t, k) == IF unbroken(s, t, k) THEN k ELSE firstLost(s, t) - 1

scoreAt(s, t, m) == IF m = 0 THEN 0 ELSE s.selectedLineage[TxInputs[t][m]].score

WalkAt(s, t, k) == [selected |-> unbroken(s, t, k), score |-> scoreAt(s, t, reached(s, t, k))]

WalkStep(s, t, k, x) ==
    IF x.selected /\ (/\ TxInputs[t][k] \in DOMAIN s.selectedLineage
                      /\ s.selectedLineage[TxInputs[t][k]].tx = t)
    THEN [selected |-> TRUE, score |-> s.selectedLineage[TxInputs[t][k]].score]
    ELSE [selected |-> FALSE, score |-> x.score]

(* One more input: the step of updateFinalityForTransfer keeps what WalkAt
   says. *)
LEMMA WalkStepped ==
    ASSUME NEW s, NEW t \in TxIDs, NEW k \in 1..Len(TxInputs[t])
    PROVE  WalkAt(s, t, k) = WalkStep(s, t, k, WalkAt(s, t, k - 1))
<1> DEFINE n == Len(TxInputs[t])
           lost == lostInputs(s, t)
           x == WalkAt(s, t, k - 1)
<1>1. n \in Nat /\ DOMAIN TxInputs[t] = 1..n /\ k \in Nat /\ k # 0 /\ k \in 1..n
  BY TransferAssumption
<1>2. lost \in SUBSET (1..n)
  BY <1>1 DEF lostInputs
<1>3. k \in lost <=> ~ /\ TxInputs[t][k] \in DOMAIN s.selectedLineage
                       /\ s.selectedLineage[TxInputs[t][k]].tx = t
  BY <1>1 DEF lostInputs
<1>4. x.selected = unbroken(s, t, k - 1) /\ x.score = scoreAt(s, t, reached(s, t, k - 1))
  BY DEF WalkAt
<1>5. 1..k = (1..(k - 1)) \cup {k}
  BY <1>1
<1>6. unbroken(s, t, k) <=> unbroken(s, t, k - 1) /\ k \notin lost
  BY <1>5 DEF unbroken
<1>7. CASE unbroken(s, t, k)
  <2>1. WalkAt(s, t, k) = [selected |-> TRUE, score |-> s.selectedLineage[TxInputs[t][k]].score]
    <3>1. scoreAt(s, t, reached(s, t, k)) = s.selectedLineage[TxInputs[t][k]].score
      BY <1>1, <1>7, Zenon DEF scoreAt, reached
    <3>2. unbroken(s, t, k) = TRUE
      BY <1>7 DEF unbroken
    <3> QED BY <3>1, <3>2, Zenon DEF WalkAt
  <2>2. x.selected
    BY <1>4, <1>6, <1>7
  <2> HIDE DEF x
  <2>3. WalkStep(s, t, k, x) = [selected |-> TRUE, score |-> s.selectedLineage[TxInputs[t][k]].score]
    BY <1>3, <1>6, <1>7, <2>2, Zenon DEF WalkStep
  <2> QED BY <2>1, <2>3, Zenon DEF x
<1>8. CASE ~unbroken(s, t, k)
  <2>1. reached(s, t, k) = reached(s, t, k - 1)
    <3>1. CASE ~unbroken(s, t, k - 1)
      BY <1>8, <3>1, Zenon DEF reached
    <3>2. CASE unbroken(s, t, k - 1)
      <4>1. k \in lost
        BY <1>6, <1>8, <3>2
      <4>2. \A j \in lost : k <= j
        <5> SUFFICES ASSUME NEW j \in lost, ~(k <= j) PROVE FALSE
          OBVIOUS
        <5>1. j \in 1..(k - 1)
          BY <1>1, <1>2
        <5> QED BY <3>2, <5>1 DEF unbroken
      <4>3. firstLost(s, t) = k
        <5> DEFINE least(i) == i \in lost /\ \A j \in lost : i <= j
        <5>1. least(k) /\ \A i : least(i) => i = k
          BY <1>1, <1>2, <4>1, <4>2
        <5>2. firstLost(s, t) = CHOOSE i \in lost : \A j \in lost : i <= j
          BY DEF firstLost
        <5> HIDE DEF lost
        <5> QED BY <5>1, <5>2
      <4> QED BY <1>8, <3>2, <4>3 DEF reached
    <3> QED BY <3>1, <3>2
  <2>2. WalkAt(s, t, k) = [selected |-> FALSE, score |-> x.score]
    <3>1. scoreAt(s, t, reached(s, t, k)) = x.score
      BY <1>4, <2>1, Zenon
    <3>2. unbroken(s, t, k) = FALSE
      BY <1>8 DEF unbroken
    <3> HIDE DEF x
    <3> QED BY <3>1, <3>2, Zenon DEF WalkAt
  <2>3. ~(x.selected /\ (/\ TxInputs[t][k] \in DOMAIN s.selectedLineage
                         /\ s.selectedLineage[TxInputs[t][k]].tx = t))
    BY <1>3, <1>4, <1>6, <1>8
  <2> HIDE DEF x
  <2>4. WalkStep(s, t, k, x) = [selected |-> FALSE, score |-> x.score]
    BY <2>3, Zenon DEF WalkStep
  <2> QED BY <2>2, <2>4, Zenon DEF x
<1> QED BY <1>7, <1>8

\* The entry the loop of updateFinalityForTransfer ends with.
Judged(s, time, t, end) ==
    [score      |-> end.score,
     confidence |-> IF end.selected THEN computeConfidence(s, time, t) ELSE 0,
     status     |-> IF ~end.selected THEN "PENDING"
                    ELSE IF computeConfidence(s, time, t) >= finalityThreshold(t)
                    THEN "FINAL" ELSE "SELECTED"]

(* updateFinalityForTransfer: the walk over the inputs stores what finalityOf
   says. *)
LEMMA UpdateFinalityLoop ==
    ASSUME NEW s, IsNodeState(s), NEW t \in Stored(s), NEW time \in Nat
    PROVE  updateFinalityLoop(s, time, t)
             = [s EXCEPT !.finalityState = Put(@, t, finalityOf(s, time, t))]
<1>0. t \in TxIDs
  BY DEF IsNodeState, IsMap, Stored
<1> DEFINE n == Len(TxInputs[t])
           g == [k \in 0..n |-> WalkAt(s, t, k)]
           base == [selected |-> TRUE, score |-> 0]
           is(f) == f = [k \in 0..n |-> IF k = 0 THEN base ELSE WalkStep(s, t, k, f[k - 1])]
           w == CHOOSE f : is(f)
<1>1. n \in Nat /\ DOMAIN TxInputs[t] = 1..n
  BY <1>0, TransferAssumption
<1>2. updateFinalityLoop(s, time, t)
        = [s EXCEPT !.finalityState = Put(@, t, Judged(s, time, t, w[n]))]
  BY Zenon DEF updateFinalityLoop, WalkStep, Judged
<1>3. WalkAt(s, t, 0) = base
  <2>1. unbroken(s, t, 0) = TRUE
    BY DEF unbroken
  <2>2. scoreAt(s, t, reached(s, t, 0)) = 0
    BY <2>1 DEF reached, scoreAt
  <2> QED BY <2>1, <2>2, Zenon DEF WalkAt
<1>4. \A k \in 1..n : WalkAt(s, t, k) = WalkStep(s, t, k, WalkAt(s, t, k - 1))
  BY <1>0, WalkStepped
<1> HIDE DEF base
<1>5. is(g)
  <2>1. ASSUME NEW k \in 0..n
        PROVE  WalkAt(s, t, k) = IF k = 0 THEN base ELSE WalkStep(s, t, k, g[k - 1])
    <3>1. CASE k = 0
      BY <1>3, <3>1
    <3>2. CASE k # 0
      <4>1. k \in 1..n /\ k - 1 \in 0..n
        BY <1>1, <3>2
      <4> QED BY <1>4, <3>2, <4>1
    <3> QED BY <3>1, <3>2
  <2> QED BY <2>1
<1>6. is(w)
  <2> HIDE DEF is, g
  <2> QED BY <1>5
<1> HIDE DEF w
<1>7. \A k \in 0..n : w[k] = IF k = 0 THEN base ELSE WalkStep(s, t, k, w[k - 1])
  BY <1>6
<1>8. w[0] = g[0]
  BY <1>1, <1>3, <1>7
<1>9. ASSUME NEW k \in 1..n, w[k - 1] = g[k - 1] PROVE w[k] = g[k]
  <2>1. k \in 0..n /\ k # 0 /\ k - 1 \in 0..n
    BY <1>1
  <2>2. w[k] = WalkStep(s, t, k, w[k - 1])
    BY <1>7, <2>1
  <2>3. w[k - 1] = WalkAt(s, t, k - 1) /\ g[k] = WalkAt(s, t, k)
    BY <1>9, <2>1
  <2> QED BY <1>4, <2>2, <2>3
<1>10. w[n] = WalkAt(s, t, n)
  <2>1. n \in 0..n
    BY <1>1
  <2>2. w[n] = g[n]
    <3>1. n \in Nat /\ w[0] = g[0] /\ \A k \in 1..n : w[k - 1] = g[k - 1] => w[k] = g[k]
      BY <1>1, <1>8, <1>9
    <3> HIDE DEF g, n
    <3>2. \A k \in 0..n : w[k] = g[k]
      BY <3>1, SameWay
    <3> QED BY <2>1, <3>2
  <2> QED BY <2>1, <2>2
<1>11. /\ unbroken(s, t, n) = selectedOnAllInputs(s, t)
       /\ scoreAt(s, t, reached(s, t, n)) = lineageScore(s, t)
  <2> DEFINE lost == lostInputs(s, t)
  <2>1. lost \in SUBSET (1..n)
    BY <1>1 DEF lostInputs
  <2>2. unbroken(s, t, n) = (lost = {})
    BY <2>1 DEF unbroken
  <2> DEFINE m == IF lost = {} THEN n ELSE firstLost(s, t) - 1
  <2>3. reached(s, t, n) = m
    BY <2>2, Zenon DEF reached
  <2>4. lineageScore(s, t) = scoreAt(s, t, m)
    <3> DEFINE p == CHOOSE i \in lost : \A j \in lost : i <= j
               q == IF lost = {} THEN n ELSE p - 1
    <3>1. lineageScore(s, t) = IF q = 0 THEN 0 ELSE s.selectedLineage[TxInputs[t][q]].score
      BY DEF lineageScore
    <3>2. m = q
      BY Zenon DEF firstLost
    <3> HIDE DEF m, q
    <3> QED BY <3>1, <3>2, Zenon DEF scoreAt
  <2>5. selectedOnAllInputs(s, t) = (lost = {})
    BY Zenon DEF selectedOnAllInputs
  <2> HIDE DEF lost, m, n
  <2>6. unbroken(s, t, n) = selectedOnAllInputs(s, t)
    BY <2>2, <2>5
  <2>7. scoreAt(s, t, reached(s, t, n)) = lineageScore(s, t)
    BY <2>3, <2>4
  <2> QED BY <2>6, <2>7
<1>12. Judged(s, time, t, WalkAt(s, t, n)) = finalityOf(s, time, t)
  <2> DEFINE e == WalkAt(s, t, n)
             c == computeConfidence(s, time, t)
             h == finalityThreshold(t)
  <2>1. e.selected = selectedOnAllInputs(s, t) /\ e.score = lineageScore(s, t)
    BY <1>11 DEF WalkAt
  <2>2. c \in Int /\ h \in Int
    BY ConfidenceMonotone, ThresholdType
  <2>3. c >= h <=> ~(c < h)
    <3> HIDE DEF c, h
    <3> QED BY <2>2
  <2> DEFINE judged == IF ~e.selected THEN "PENDING" ELSE IF c >= h THEN "FINAL" ELSE "SELECTED"
             found == CASE ~selectedOnAllInputs(s, t) -> "PENDING"
                        [] selectedOnAllInputs(s, t) /\ c < h -> "SELECTED"
                        [] OTHER -> "FINAL"
  <2>4. judged = found
    <3> HIDE DEF c, h, e
    <3> QED BY <2>1, <2>3
  <2>5. Judged(s, time, t, e)
          = [score |-> e.score, confidence |-> IF e.selected THEN c ELSE 0, status |-> judged]
    BY Zenon DEF Judged
  <2>6. finalityOf(s, time, t)
          = [score |-> lineageScore(s, t),
             confidence |-> IF selectedOnAllInputs(s, t) THEN c ELSE 0, status |-> found]
    BY Zenon DEF finalityOf
  <2> HIDE DEF judged, found, c, e
  <2> QED BY <2>1, <2>4, <2>5, <2>6, Zenon DEF e
<1> QED BY <1>2, <1>10, <1>12, Zenon

----------------------------------------------------------------------------
(* The order of arrival, and the best candidate.                           *)

(* arrivedBefore is a strict total order on the candidates of an input. *)
LEMMA ArrivalOrder ==
    ASSUME NEW s, IsNodeState(s), NEW C, C \subseteq Stored(s)
    PROVE  /\ \A t \in C : ~arrivedBefore(s, t, t)
           /\ \A t, u \in C : t # u => arrivedBefore(s, t, u) \/ arrivedBefore(s, u, t)
           /\ \A t, u, x \in C :
                 arrivedBefore(s, t, u) /\ arrivedBefore(s, u, x) => arrivedBefore(s, t, x)
<1> DEFINE a(t) == s.txStore[t].arrivalSeq
           h(t) == HashOrder[t]
<1>1. \A t \in C : a(t) \in Nat /\ h(t) \in Nat
  BY TransferAssumption DEF IsNodeState, IsMap, TxRecord, Stored
<1>2. \A t, u \in C : h(t) = h(u) => t = u
  BY TransferAssumption DEF IsNodeState, IsMap, Stored
<1>3. \A t, u : arrivedBefore(s, t, u) <=> a(t) < a(u) \/ (a(t) = a(u) /\ h(t) < h(u))
  BY DEF arrivedBefore
<1> HIDE DEF a, h
<1> QED BY <1>1, <1>2, <1>3

(* The ranks of n candidates are 0 to n - 1, so that the sorted list is the list
   of all of them. *)
LEMMA RankedFacts ==
    ASSUME NEW s, IsNodeState(s), FiniteConflicts(s), NEW v \in ValueIDs,
           s.conflictSets[v] \subseteq Stored(s)
    PROVE  LET n == Cardinality(s.conflictSets[v])
           IN  /\ n \in Nat /\ (n = 0 <=> s.conflictSets[v] = {})
               /\ ranked(s, v) \in [1..n -> s.conflictSets[v]]
               /\ Len(ranked(s, v)) = n
               /\ \A t \in s.conflictSets[v] : \E i \in 1..n : ranked(s, v)[i] = t
<1> DEFINE C == s.conflictSets[v]
           n == Cardinality(C)
           before(t) == {u \in C : arrivedBefore(s, u, t)}
           pos(t) == rankByArrival(s, v, t)
<1>1. IsFiniteSet(C) /\ n \in Nat /\ (n = 0 <=> C = {})
  BY FS_CardinalityType, FS_EmptySet DEF FiniteConflicts
<1>2. /\ \A t \in C : ~arrivedBefore(s, t, t)
      /\ \A t, u \in C : t # u => arrivedBefore(s, t, u) \/ arrivedBefore(s, u, t)
      /\ \A t, u, x \in C :
            arrivedBefore(s, t, u) /\ arrivedBefore(s, u, x) => arrivedBefore(s, t, x)
  BY ArrivalOrder
<1>3. \A t : pos(t) = Cardinality(before(t))
  BY DEF rankByArrival
<1> HIDE DEF C, pos
<1>4. ASSUME NEW t \in C PROVE IsFiniteSet(before(t)) /\ pos(t) \in Nat /\ pos(t) < n
  <2> DEFINE rest == C \ {t}
             b == before(t)
  <2>1. IsFiniteSet(rest) /\ Cardinality(rest) = n - 1
    BY <1>1, FS_RemoveElement
  <2>2. b \in SUBSET rest
    BY <1>2
  <2> HIDE DEF rest, b, n
  <2>3. IsFiniteSet(b) /\ Cardinality(b) <= n - 1
    BY <2>1, <2>2, FS_Subset
  <2>4. Cardinality(b) \in Nat /\ pos(t) = Cardinality(b)
    BY <1>3, <2>3, FS_CardinalityType DEF b
  <2> QED BY <1>1, <2>3, <2>4 DEF b
<1>5. ASSUME NEW t \in C, NEW u \in C, arrivedBefore(s, t, u) PROVE pos(t) < pos(u)
  <2> DEFINE b == before(t)
             c == before(u)
             d == b \cup {t}
  <2>1. t \notin b /\ d \in SUBSET c
    BY <1>2, <1>5
  <2>2. IsFiniteSet(b) /\ IsFiniteSet(c) /\ pos(t) = Cardinality(b) /\ pos(u) = Cardinality(c)
        /\ pos(t) \in Nat /\ pos(u) \in Nat
    BY <1>3, <1>4
  <2> HIDE DEF b, c
  <2>3. Cardinality(d) = Cardinality(b) + 1
    BY <2>1, <2>2, FS_AddElement
  <2> HIDE DEF d
  <2>4. Cardinality(d) <= Cardinality(c)
    BY <2>1, <2>2, FS_Subset
  <2> QED BY <2>2, <2>3, <2>4
<1>6. \A t, u \in C : pos(t) = pos(u) => t = u
  <2> SUFFICES ASSUME NEW t \in C, NEW u \in C, pos(t) = pos(u), t # u PROVE FALSE
    OBVIOUS
  <2>1. pos(t) < pos(u) \/ pos(u) < pos(t)
    BY <1>2, <1>5
  <2>2. pos(t) \in Nat /\ pos(u) \in Nat
    BY <1>4
  <2> QED BY <2>1, <2>2
<1> HIDE DEF n, before
<1>7. \A i \in 1..n : \E t \in C : pos(t) = i - 1
  <2> DEFINE f == [t \in C |-> pos(t) + 1]
             D == 1..n
  <2>1. IsFiniteSet(D) /\ Cardinality(D) = n
    BY <1>1, FS_Interval
  <2>2. \A t \in C : f[t] = pos(t) + 1 /\ f[t] \in D
    BY <1>1, <1>4
  <2>3. f \in Injection(C, D)
    <3>1. f \in [C -> D]
      BY <2>2
    <3>2. \A t, u \in C : f[t] = f[u] => t = u
      BY <1>4, <1>6, <2>2
    <3> HIDE DEF f, D
    <3> QED BY <3>1, <3>2 DEF Injection, IsInjective
  <2>4. f \in Surjection(C, D)
    <3>1. n = Cardinality(C)
      BY DEF n
    <3> HIDE DEF f, D
    <3> QED BY ONLY <2>1, <2>3, <3>1, FS_Injection
  <2>5. \A i \in D : \E t \in C : f[t] = i
    <3> HIDE DEF f, D
    <3> QED BY <2>4 DEF Surjection
  <2> QED BY <1>4, <2>2, <2>5
<1> DEFINE at(i) == CHOOSE t \in C : pos(t) = i - 1
           order == [i \in 1..n |-> at(i)]
<1>8. ranked(s, v) = order
  BY Zenon DEF ranked, C, n, pos
<1>9. \A i \in 1..n : at(i) \in C /\ pos(at(i)) = i - 1
  BY <1>7
<1>10. \A t \in C : \E i \in 1..n : at(i) = t
  <2> TAKE t \in C
  <2>1. pos(t) + 1 \in 1..n /\ (pos(t) + 1) - 1 = pos(t)
    BY <1>1, <1>4
  <2> DEFINE j == pos(t) + 1
  <2> HIDE DEF j, at
  <2>2. at(j) \in C /\ pos(at(j)) = pos(t)
    BY <1>9, <2>1 DEF j
  <2> QED BY <1>6, <2>1, <2>2 DEF j
<1> HIDE DEF at
<1>11. order \in [1..n -> C] /\ Len(order) = n /\ \A i \in 1..n : order[i] = at(i)
  BY <1>1, <1>9
<1>12. \A t \in C : \E i \in 1..n : order[i] = t
  BY <1>10, <1>11
<1> HIDE DEF order
<1> QED BY <1>1, <1>8, <1>11, <1>12 DEF C, n

(* What a loop that keeps the better of two keeps: at every position the best
   so far. *)
LEMMA RunningMaximum ==
    ASSUME NEW n \in Nat \ {0}, NEW R,
           \A x \in 1..n : <<x, x>> \notin R,
           Orders(R, 1..n)
    PROVE  \E top \in [0..(n - 1) -> 1..n] :
              /\ top[0] = 1
              /\ \A k \in 1..(n - 1) :
                    top[k] = IF <<k + 1, top[k - 1]>> \in R THEN k + 1 ELSE top[k - 1]
              /\ \A y \in 1..n : y # top[n - 1] => <<top[n - 1], y>> \in R
<1> DEFINE Top(k, m) == /\ m \in 1..(k + 1)
                        /\ \A y \in 1..(k + 1) : y # m => <<m, y>> \in R
           top == [k \in 0..(n - 1) |-> CHOOSE m : Top(k, m)]
<1>1. ASSUME NEW k \in 0..(n - 1) PROVE \E m : Top(k, m)
  <2> DEFINE S == 1..(k + 1)
  <2>1. \A x \in S : x \in 1..n
    OBVIOUS
  <2>2. IsFiniteSet(S) /\ S # {}
    <3>1. k + 1 \in Int /\ 1 \in Int /\ 1 \in S
      OBVIOUS
    <3> QED BY <3>1, FS_Interval
  <2> HIDE DEF S
  <2>3. Orders(R, S)
    BY <2>1 DEF Orders
  <2>4. \E m \in S : \A y \in S \ {m} : <<m, y>> \in R
    BY <2>2, <2>3, FiniteMaximum
  <2> QED BY <2>4 DEF S
<1>2. ASSUME NEW k \in 0..(n - 1), NEW m, NEW o, Top(k, m), Top(k, o) PROVE m = o
  <2> SUFFICES ASSUME m # o PROVE FALSE
    OBVIOUS
  <2>1. m \in 1..n /\ o \in 1..n
    BY <1>2
  <2>2. <<m, o>> \in R /\ <<o, m>> \in R
    BY <1>2
  <2> QED BY <2>1, <2>2 DEF Orders
<1>3. ASSUME NEW k \in 0..(n - 1) PROVE Top(k, top[k])
  <2> HIDE DEF Top
  <2> QED BY <1>1
<1>4. ASSUME NEW k \in 0..(n - 1) PROVE top[k] \in 1..(k + 1) /\ top[k] \in 1..n
  <2> HIDE DEF top
  <2>1. top[k] \in 1..(k + 1)
    BY <1>3
  <2> QED BY <2>1
<1> HIDE DEF top
<1>5. top[0] = 1
  <2>1. 0 \in 0..(n - 1)
    OBVIOUS
  <2>2. top[0] \in 1..(0 + 1)
    BY <1>4, <2>1
  <2> QED BY <2>2
<1>6. ASSUME NEW k \in 1..(n - 1)
      PROVE  top[k] = IF <<k + 1, top[k - 1]>> \in R THEN k + 1 ELSE top[k - 1]
  <2> DEFINE p == top[k - 1]
             i == k + 1
  <2>1. k \in 0..(n - 1) /\ k - 1 \in 0..(n - 1) /\ i \in 1..n
    OBVIOUS
  <2>2. Top(k - 1, p)
    BY <1>3, <2>1
  <2>3. \A y \in 1..(k + 1) : y = i \/ y \in 1..k
    OBVIOUS
  <2>4. p \in 1..k /\ \A y \in 1..k : y # p => <<p, y>> \in R
    <3>1. (k - 1) + 1 = k
      OBVIOUS
    <3> HIDE DEF p
    <3> QED BY <2>2, <3>1
  <2>5. \A y \in 1..k : y \in 1..n /\ y # i
    OBVIOUS
  <2> HIDE DEF p
  <2>6. CASE <<i, p>> \in R
    <3>1. Top(k, i)
      <4>1. \A y \in 1..k : y # i => <<i, y>> \in R
        BY <2>1, <2>4, <2>5, <2>6 DEF Orders
      <4>2. i \in 1..(k + 1)
        OBVIOUS
      <4> QED BY <2>3, <4>1, <4>2
    <3> HIDE DEF Top
    <3> QED BY <1>2, <1>3, <2>1, <2>6, <3>1 DEF p
  <2>7. CASE <<i, p>> \notin R
    <3>1. <<p, i>> \in R
      BY <2>1, <2>4, <2>5, <2>7 DEF Orders
    <3>2. Top(k, p)
      <4>1. p \in 1..(k + 1)
        BY <2>4
      <4> QED BY <2>3, <2>4, <3>1, <4>1
    <3> HIDE DEF Top
    <3> QED BY <1>2, <1>3, <2>1, <2>7, <3>2 DEF p
  <2> QED BY <2>6, <2>7 DEF p
<1>7. \A y \in 1..n : y # top[n - 1] => <<top[n - 1], y>> \in R
  <2>1. n - 1 \in 0..(n - 1) /\ (n - 1) + 1 = n
    OBVIOUS
  <2> QED BY <1>3, <2>1
<1>8. top \in [0..(n - 1) -> 1..n]
  <2>1. top = [k \in 0..(n - 1) |-> top[k]]
    BY DEF top
  <2> QED BY <1>4, <2>1
<1> QED BY <1>5, <1>6, <1>7, <1>8

BestStep(s, time, v, k, x) ==
    IF betterScore(scoreTx(s, time, v, ranked(s, v)[k + 1]), x)
    THEN scoreTx(s, time, v, ranked(s, v)[k + 1]) ELSE x

(* The loop of selectBest and the definition by the best candidate. *)
LEMMA SelectBestLoop ==
    ASSUME NEW s, IsNodeState(s), FiniteConflicts(s), NEW time \in Nat,
           NEW v \in ValueIDs, s.conflictSets[v] # {},
           s.conflictSets[v] \subseteq Stored(s)
    PROVE  selectBestLoop(s, time, v) = selectBest(s, time, v)
<1> DEFINE C == s.conflictSets[v]
           n == Cardinality(C)
           order == ranked(s, v)
           sc(t) == scoreTx(s, time, v, t)
           cand == {sc(t) : t \in C}
           R == {p \in (1..n) \X (1..n) : betterScore(sc(order[p[1]]), sc(order[p[2]]))}
<1>1. /\ n \in Nat \ {0} /\ order \in [1..n -> C] /\ Len(order) = n
      /\ \A t \in C : \E i \in 1..n : order[i] = t
  BY RankedFacts
<1>2. \A t \in C : sc(t) \in ScoreBreakdown /\ sc(t).tx = t
  BY ScoreType
<1>3. \A l \in ScoreBreakdown : ~betterScore(l, l)
  BY TransferAssumption DEF betterScore, ScoreBreakdown
<1> DEFINE is(f) == f = [k \in 0..(Len(order) - 1) |->
                            IF k = 0 THEN sc(order[k + 1])
                            ELSE BestStep(s, time, v, k, f[k - 1])]
           w == CHOOSE f : is(f)
<1>4. selectBestLoop(s, time, v) = w[Len(order) - 1]
  BY Zenon DEF selectBestLoop, BestStep
<1>5. selectBest(s, time, v) =
         CHOOSE best \in cand : \A other \in cand \ {best} : betterScore(best, other)
  BY DEF selectBest
<1> HIDE DEF order, C, n
<1>6. \A k, x : BestStep(s, time, v, k, x)
                  = IF betterScore(sc(order[k + 1]), x) THEN sc(order[k + 1]) ELSE x
  BY Zenon DEF BestStep, order
<1> HIDE DEF sc
<1>7. \A x, y \in C : x # y => sc(x) # sc(y)
  BY <1>2
<1>8. PICK top \in [0..(n - 1) -> 1..n] :
         /\ top[0] = 1
         /\ \A k \in 1..(n - 1) :
               top[k] = IF <<k + 1, top[k - 1]>> \in R THEN k + 1 ELSE top[k - 1]
         /\ \A y \in 1..n : y # top[n - 1] => <<top[n - 1], y>> \in R
  <2>0. \A i \in 1..n : order[i] \in C
    BY <1>1
  <2>1. \A x \in 1..n : <<x, x>> \notin R
    BY <1>2, <1>3, <2>0
  <2>2. ASSUME NEW x \in 1..n, NEW y \in 1..n, NEW z \in 1..n,
               <<x, y>> \in R, <<y, z>> \in R
        PROVE  <<x, z>> \in R
    BY <1>2, <2>0, <2>2, BetterScoreOrder
  <2>3. \A i, j \in 1..n : i # j => order[i] # order[j]
    <3>1. order \in Surjection(1..n, C)
      BY <1>1 DEF Surjection
    <3>2. IsFiniteSet(1..n) /\ Cardinality(1..n) = Cardinality(C)
      BY <1>1, FS_Interval DEF n
    <3>3. order \in Injection(1..n, C)
      BY ONLY <3>1, <3>2, FS_SurjSameCardinalityImpliesInj
    <3> QED BY <3>3 DEF Injection, IsInjective
  <2>4. ASSUME NEW x \in 1..n, NEW y \in 1..n, x # y PROVE <<x, y>> \in R \/ <<y, x>> \in R
    BY <1>2, <2>0, <2>3, <2>4, BetterScoreOrder
  <2> HIDE DEF R
  <2>5. Orders(R, 1..n)
    BY <2>2, <2>4 DEF Orders
  <2>6. n \in Nat \ {0}
    BY <1>1
  <2> HIDE DEF n
  <2> QED BY <2>1, <2>5, <2>6, RunningMaximum, Zenon
<1> DEFINE g == [k \in 0..(n - 1) |-> sc(order[top[k]])]
<1>9. /\ g[0] = sc(order[1])
      /\ \A k \in 1..(n - 1) : g[k] = BestStep(s, time, v, k, g[k - 1])
  <2>1. 0 \in 0..(n - 1)
    BY <1>1
  <2>2. ASSUME NEW k \in 1..(n - 1) PROVE g[k] = BestStep(s, time, v, k, g[k - 1])
    <3>1. k \in 0..(n - 1) /\ k - 1 \in 0..(n - 1) /\ k + 1 \in 1..n /\ top[k - 1] \in 1..n
      BY <1>1, <1>8
    <3>2. <<k + 1, top[k - 1]>> \in R <=> betterScore(sc(order[k + 1]), sc(order[top[k - 1]]))
      BY <3>1
    <3>3. g[k] = sc(order[top[k]]) /\ g[k - 1] = sc(order[top[k - 1]])
      BY <3>1
    <3> HIDE DEF R, g
    <3>4. CASE betterScore(sc(order[k + 1]), sc(order[top[k - 1]]))
      <4>1. top[k] = k + 1
        BY <1>8, <3>2, <3>4
      <4>2. BestStep(s, time, v, k, g[k - 1]) = sc(order[k + 1])
        BY <1>6, <3>3, <3>4, Zenon
      <4> QED BY <3>3, <4>1, <4>2, Zenon
    <3>5. CASE ~betterScore(sc(order[k + 1]), sc(order[top[k - 1]]))
      <4>1. top[k] = top[k - 1]
        BY <1>8, <3>2, <3>5
      <4>2. BestStep(s, time, v, k, g[k - 1]) = sc(order[top[k - 1]])
        BY <1>6, <3>3, <3>5, Zenon
      <4> QED BY <3>3, <4>1, <4>2, Zenon
    <3> QED BY <3>4, <3>5
  <2> QED BY <1>8, <2>1, <2>2
<1>10. is(g)
  <2>1. \A k \in 0..(n - 1) : k # 0 => k \in 1..(n - 1)
    BY <1>1
  <2>2. \A k \in 0..(n - 1) :
           g[k] = IF k = 0 THEN sc(order[k + 1]) ELSE BestStep(s, time, v, k, g[k - 1])
    <3> HIDE DEF g
    <3> QED BY <1>9, <2>1
  <2>3. g = [k \in 0..(n - 1) |-> g[k]]
    OBVIOUS
  <2> HIDE DEF g
  <2> QED BY <1>1, <2>2, <2>3, Zenon
<1>11. is(w)
  <2> HIDE DEF is, g
  <2> QED BY <1>10
<1> HIDE DEF w
<1>12. \A k \in 0..(n - 1) :
          w[k] = IF k = 0 THEN sc(order[k + 1]) ELSE BestStep(s, time, v, k, w[k - 1])
  BY <1>1, <1>11
<1>13. w[n - 1] = g[n - 1]
  <2>1. w[0] = g[0]
    <3>1. 0 \in 0..(n - 1) /\ 0 + 1 = 1
      BY <1>1
    <3> HIDE DEF g
    <3> QED BY <1>9, <1>12, <3>1
  <2>2. ASSUME NEW k \in 1..(n - 1), w[k - 1] = g[k - 1] PROVE w[k] = g[k]
    <3>1. k \in 0..(n - 1) /\ k # 0
      BY <1>1
    <3> HIDE DEF g
    <3> QED BY <1>9, <1>12, <2>2, <3>1
  <2>3. n - 1 \in Nat /\ n - 1 \in 0..(n - 1)
    BY <1>1
  <2> DEFINE m == n - 1
  <2> HIDE DEF g, m
  <2>4. \A k \in 0..m : w[k] = g[k]
    <3>1. m \in Nat
      BY <2>3 DEF m
    <3>2. \A k \in 1..m : w[k - 1] = g[k - 1] => w[k] = g[k]
      BY <2>2 DEF m
    <3> QED BY <2>1, <3>1, <3>2, SameWay, SMTT(30)
  <2> QED BY <2>3, <2>4 DEF m
<1> DEFINE b == sc(order[top[n - 1]])
<1>14. n - 1 \in 0..(n - 1) /\ top[n - 1] \in 1..n
  BY <1>1, <1>8
<1>15. g[n - 1] = b
  BY <1>14
<1>16. b \in cand /\ \A other \in cand \ {b} : betterScore(b, other)
  <2>1. b \in cand
    BY <1>1, <1>14
  <2>2. ASSUME NEW t \in C, sc(t) # b PROVE betterScore(b, sc(t))
    <3>1. PICK y \in 1..n : order[y] = t
      BY <1>1
    <3>2. y # top[n - 1]
      BY <2>2, <3>1
    <3>3. <<top[n - 1], y>> \in R
      <4> HIDE DEF R
      <4> QED BY <1>8, <3>2
    <3> QED BY <3>1, <3>3
  <2> QED BY <2>1, <2>2
<1>17. \A l \in cand : (\A other \in cand \ {l} : betterScore(l, other)) => l = b
  <2> SUFFICES ASSUME NEW l \in cand, \A other \in cand \ {l} : betterScore(l, other), l # b
               PROVE  FALSE
    OBVIOUS
  <2>1. betterScore(l, b) /\ betterScore(b, l)
    BY <1>16
  <2>2. l \in ScoreBreakdown /\ b \in ScoreBreakdown
    BY <1>2, <1>16
  <2> HIDE DEF cand, b
  <2> QED BY <1>3, <2>1, <2>2, BetterScoreOrder
<1>18. selectBest(s, time, v) = b
  <2> HIDE DEF cand, b
  <2> QED BY <1>5, <1>16, <1>17
<1> QED BY <1>1, <1>4, <1>13, <1>15, <1>18

----------------------------------------------------------------------------
(* Recomputing input by input.                                             *)

(* The walk over the inputs ends at one that it has not lost, or before the
   first. *)
LEMMA WalkWon ==
    ASSUME NEW s, NEW t \in TxIDs
    PROVE  LET lost == lostInputs(s, t)
               n == IF lost = {} THEN Len(TxInputs[t])
                    ELSE (CHOOSE i \in lost : \A j \in lost : i <= j) - 1
           IN  n # 0 => n \in DOMAIN TxInputs[t] /\ n \notin lost
<1> DEFINE lost == lostInputs(s, t)
           first == CHOOSE i \in lost : \A j \in lost : i <= j
           n == IF lost = {} THEN Len(TxInputs[t]) ELSE first - 1
<1>1. DOMAIN TxInputs[t] = 1..Len(TxInputs[t]) /\ Len(TxInputs[t]) \in Nat
  BY InputsType
<1>2. n = 0 \/ n \in DOMAIN TxInputs[t]
  BY WalkEnd
<1>4. lost # {} => first \in lost /\ \A j \in lost : first <= j
  <2> SUFFICES ASSUME lost # {} PROVE first \in lost /\ \A j \in lost : first <= j
    OBVIOUS
  <2>1. lost \in SUBSET (0..Len(TxInputs[t]))
    BY <1>1 DEF lostInputs
  <2> HIDE DEF lost
  <2>2. \E m \in lost : \A j \in lost : m <= j
    BY <1>1, <2>1, Earliest
  <2> QED BY <2>2
<1>5. lost \subseteq 1..Len(TxInputs[t])
  BY <1>1 DEF lostInputs
<1>6. n # 0 => n \notin lost
  <2>1. CASE lost = {}
    BY <2>1
  <2>2. CASE lost # {}
    <3> HIDE DEF lost, first
    <3>0. first \in lost /\ \A j \in lost : first <= j
      BY <1>4, <2>2
    <3>1. first \in Int /\ \A j \in lost : first <= j
      BY <1>5, <3>0
    <3>2. n = first - 1
      BY <2>2
    <3>3. first - 1 \notin lost
      BY <3>1
    <3> QED BY <3>2, <3>3
  <2> QED BY <2>1, <2>2
<1> QED BY <1>2, <1>6

(* The walk over the inputs copies a score it has read from the lineage, also
   where some inputs have no selection yet. *)
LEMMA WalkScoreType ==
    ASSUME NEW s, IsNodeState(s), NEW t \in TxIDs
    PROVE  lineageScore(s, t) \in Int
<1> DEFINE lost == lostInputs(s, t)
           n == IF lost = {} THEN Len(TxInputs[t])
                ELSE (CHOOSE i \in lost : \A j \in lost : i <= j) - 1
<1>1. n # 0 => n \in DOMAIN TxInputs[t] /\ n \notin lost
  BY WalkWon
<1>2. lineageScore(s, t) = IF n = 0 THEN 0 ELSE s.selectedLineage[TxInputs[t][n]].score
  BY DEF lineageScore
<1> HIDE DEF n
<1>3. n # 0 => TxInputs[t][n] \in DOMAIN s.selectedLineage
  BY <1>1 DEF lostInputs
<1> QED BY <1>2, <1>3 DEF IsNodeState, IsMap, SelectedLineage

(* What updateFinalityForTransfer stores is a finality entry. *)
LEMMA JudgementType ==
    ASSUME NEW s, IsNodeState(s), NEW t \in Stored(s), NEW time \in Nat
    PROVE  finalityOf(s, time, t) \in FinalityState
<1>1. t \in TxIDs
  BY DEF IsNodeState, IsMap, Stored
<1>2. lineageScore(s, t) \in Int
  BY <1>1, WalkScoreType
<1>3. computeConfidence(s, time, t) \in Int
  BY <1>1, ConfidenceMonotone
<1> QED BY <1>2, <1>3 DEF finalityOf, FinalityState

\* The inputs in V can be decided: each has candidates, all of them stored.
Decidable(s, V) ==
    /\ V \subseteq ValueIDs
    /\ \A v \in V : s.conflictSets[v] # {} /\ s.conflictSets[v] \subseteq Stored(s)

choice(s, time, v) ==
    LET best == selectBest(s, time, v)
    IN  [tx |-> best.tx, score |-> best.score, updatedAt |-> time]

\* The selections once the inputs in V are decided, and the finality entries once
\* those of the transfers in U are derived from them.
lineageWith(s, time, V) ==
    [v \in DOMAIN s.selectedLineage \cup V |->
        IF v \in V THEN choice(s, time, v) ELSE s.selectedLineage[v]]

finalityWith(s, time, U) ==
    [u \in DOMAIN s.finalityState \cup U |->
        IF u \in U THEN finalityOf(s, time, u) ELSE s.finalityState[u]]

(* Deciding inputs changes the lineage of these inputs and nothing else. *)
LEMMA DecideInputs ==
    ASSUME NEW s, IsNodeState(s), FiniteConflicts(s), NEW time \in Nat,
           NEW V, Decidable(s, V)
    PROVE  LET r == recomputeSelectionForInputs(s, time, V)
           IN  /\ r = [s EXCEPT !.selectedLineage = lineageWith(s, time, V)]
               /\ IsNodeState(r)
               /\ SameEvidence(r, s)
               /\ r.finalityState = s.finalityState
               /\ r.selectedLineage = lineageWith(s, time, V)
<1> DEFINE r == recomputeSelectionForInputs(s, time, V)
           lin == lineageWith(s, time, V)
<1>1. \A v \in V : choice(s, time, v) \in SelectedLineage
  <2> TAKE v \in V
  <2>1. /\ selectBest(s, time, v) \in ScoreBreakdown
        /\ selectBest(s, time, v).tx \in s.conflictSets[v]
    BY SelectBestFacts DEF Decidable
  <2> QED BY <2>1 DEF choice, ScoreBreakdown, SelectedLineage
<1>2. r = [s EXCEPT !.selectedLineage = lin]
  BY Zenon DEF recomputeSelectionForInputs, lineageWith, choice
<1>3. IsMap(lin, ValueIDs, SelectedLineage)
  <2>1. \A v \in DOMAIN s.selectedLineage : s.selectedLineage[v] \in SelectedLineage
    BY DEF IsNodeState, IsMap
  <2>2. DOMAIN s.selectedLineage \subseteq ValueIDs
    BY DEF IsNodeState, IsMap
  <2> QED BY <1>1, <2>1, <2>2 DEF IsMap, lineageWith, Decidable
<1> HIDE DEF r, lin
<1>4. /\ DOMAIN r = DOMAIN s /\ r.selectedLineage = lin
      /\ r.txStore = s.txStore /\ r.valueStore = s.valueStore
      /\ r.conflictSets = s.conflictSets /\ r.finalityState = s.finalityState
      /\ r.peerObservations = s.peerObservations /\ r.proofStore = s.proofStore
      /\ r.replayCache = s.replayCache /\ r.consumed = s.consumed
      /\ r.peers = s.peers /\ r.arrivalSeq = s.arrivalSeq
  BY <1>2 DEF IsNodeState
<1>5. IsNodeState(r)
  BY <1>3, <1>4 DEF IsNodeState
<1>6. SameEvidence(r, s)
  BY <1>4 DEF SameEvidence
<1> QED BY <1>2, <1>4, <1>5, <1>6 DEF r, lin

(* Refreshing finality entries changes these entries and nothing else. *)
LEMMA RefreshEntries ==
    ASSUME NEW s, IsNodeState(s), NEW time \in Nat, NEW U, U \subseteq Stored(s)
    PROVE  LET r == updateFinality(s, time, U)
           IN  /\ r = [s EXCEPT !.finalityState = finalityWith(s, time, U)]
               /\ IsNodeState(r)
               /\ SameEvidence(r, s)
               /\ r.selectedLineage = s.selectedLineage
               /\ r.finalityState = finalityWith(s, time, U)
<1> DEFINE r == updateFinality(s, time, U)
           fin == finalityWith(s, time, U)
<1>1. \A u \in U : finalityOf(s, time, u) \in FinalityState
  BY JudgementType
<1>2. r = [s EXCEPT !.finalityState = fin]
  BY Zenon DEF updateFinality, finalityWith
<1>3. IsMap(fin, TxIDs, FinalityState)
  <2>1. \A u \in DOMAIN s.finalityState : s.finalityState[u] \in FinalityState
    BY DEF IsNodeState, IsMap
  <2>2. DOMAIN s.finalityState \subseteq TxIDs /\ U \subseteq TxIDs
    BY DEF IsNodeState, IsMap, Stored
  <2> QED BY <1>1, <2>1, <2>2 DEF IsMap, finalityWith
<1> HIDE DEF r, fin
<1>4. /\ DOMAIN r = DOMAIN s /\ r.finalityState = fin
      /\ r.txStore = s.txStore /\ r.valueStore = s.valueStore
      /\ r.conflictSets = s.conflictSets /\ r.selectedLineage = s.selectedLineage
      /\ r.peerObservations = s.peerObservations /\ r.proofStore = s.proofStore
      /\ r.replayCache = s.replayCache /\ r.consumed = s.consumed
      /\ r.peers = s.peers /\ r.arrivalSeq = s.arrivalSeq
  BY <1>2 DEF IsNodeState
<1>5. IsNodeState(r)
  BY <1>3, <1>4 DEF IsNodeState
<1>6. SameEvidence(r, s)
  BY <1>4 DEF SameEvidence
<1> QED BY <1>2, <1>4, <1>5, <1>6 DEF r, fin

(* The finality of a transfer is the same in two states with the same evidence
   and the same lineage of its inputs, as far as these have one. *)
LEMMA JudgementFrame ==
    ASSUME NEW s, NEW r, SameEvidence(r, s), NEW time, NEW t \in TxIDs,
           \A v \in Inputs(t) :
              /\ v \in DOMAIN r.selectedLineage <=> v \in DOMAIN s.selectedLineage
              /\ v \in DOMAIN s.selectedLineage =>
                    r.selectedLineage[v] = s.selectedLineage[v]
    PROVE  finalityOf(r, time, t) = finalityOf(s, time, t)
<1>1. computeConfidence(r, time, t) = computeConfidence(s, time, t)
  BY EvidenceFrame
<1>2. \A i \in DOMAIN TxInputs[t] : TxInputs[t][i] \in Inputs(t)
  BY InputsType
<1>3. lostInputs(r, t) = lostInputs(s, t)
  BY <1>2 DEF lostInputs
<1> DEFINE lost == lostInputs(s, t)
           n == IF lost = {} THEN Len(TxInputs[t])
                ELSE (CHOOSE i \in lost : \A j \in lost : i <= j) - 1
<1>4. n # 0 => n \in DOMAIN TxInputs[t] /\ n \notin lost
  BY WalkWon
<1>5. /\ lineageScore(s, t)
           = IF n = 0 THEN 0 ELSE s.selectedLineage[TxInputs[t][n]].score
      /\ lineageScore(r, t)
           = IF n = 0 THEN 0 ELSE r.selectedLineage[TxInputs[t][n]].score
  BY <1>3 DEF lineageScore
<1> HIDE DEF n
<1>6. n # 0 => /\ TxInputs[t][n] \in Inputs(t)
               /\ TxInputs[t][n] \in DOMAIN s.selectedLineage
  BY <1>2, <1>4 DEF lostInputs
<1>7. lineageScore(r, t) = lineageScore(s, t)
  BY <1>5, <1>6
<1>8. selectedOnAllInputs(r, t) <=> selectedOnAllInputs(s, t)
  BY <1>3 DEF selectedOnAllInputs
<1> QED BY <1>1, <1>7, <1>8 DEF finalityOf

(* One more transfer visited by the loop is one more entry refreshed. *)
LEMMA RefreshOne ==
    ASSUME NEW s, IsNodeState(s), NEW time \in Nat, NEW U, U \subseteq Stored(s),
           NEW t \in Stored(s)
    PROVE  updateFinalityLoop(updateFinality(s, time, U), time, t)
             = updateFinality(s, time, U \cup {t})
<1> DEFINE r == updateFinality(s, time, U)
           F == finalityWith(s, time, U)
           G == finalityWith(s, time, U \cup {t})
<1>0. t \in TxIDs
  BY DEF IsNodeState, IsMap, Stored
<1>1. /\ r = [s EXCEPT !.finalityState = F] /\ IsNodeState(r) /\ SameEvidence(r, s)
      /\ r.selectedLineage = s.selectedLineage /\ r.finalityState = F
  BY RefreshEntries
<1>2. updateFinality(s, time, U \cup {t}) = [s EXCEPT !.finalityState = G]
  <2>1. U \cup {t} \subseteq Stored(s)
    OBVIOUS
  <2> QED BY <2>1, RefreshEntries
<1> HIDE DEF r
<1>3. t \in Stored(r)
  BY <1>1 DEF SameEvidence, Stored
<1>4. updateFinalityLoop(r, time, t)
        = [r EXCEPT !.finalityState = Put(r.finalityState, t, finalityOf(r, time, t))]
  <2>1. IsNodeState(r)
    BY <1>1
  <2> QED BY <1>3, <2>1, UpdateFinalityLoop, Zenon
<1>5. finalityOf(r, time, t) = finalityOf(s, time, t)
  <2>1. \A v \in Inputs(t) :
           /\ v \in DOMAIN r.selectedLineage <=> v \in DOMAIN s.selectedLineage
           /\ r.selectedLineage[v] = s.selectedLineage[v]
    BY <1>1
  <2>2. SameEvidence(r, s)
    BY <1>1
  <2> QED BY <1>0, <2>1, <2>2, JudgementFrame
<1>6. Put(F, t, finalityOf(s, time, t)) = G
  BY DEF Put, finalityWith
<1>7. updateFinalityLoop(r, time, t) = [r EXCEPT !.finalityState = G]
  BY <1>1, <1>4, <1>5, <1>6, Zenon
<1> HIDE DEF F, G
<1>8. [r EXCEPT !.finalityState = G] = [s EXCEPT !.finalityState = G]
  BY <1>1
<1> QED BY <1>2, <1>7, <1>8 DEF r

(* Before the loop has visited a transfer no entry is refreshed. *)
LEMMA RefreshNone ==
    ASSUME NEW s, IsNodeState(s), NEW time \in Nat, NEW V, Decidable(s, V),
           FiniteConflicts(s)
    PROVE  LET r == recomputeSelectionForInputs(s, time, V)
           IN  updateFinality(r, time, {}) = r
<1> DEFINE r == recomputeSelectionForInputs(s, time, V)
           lin == lineageWith(s, time, V)
           fin == finalityWith(r, time, {})
<1>1. r = [s EXCEPT !.selectedLineage = lin] /\ IsNodeState(r)
  BY DecideInputs
<1> HIDE DEF r, lin
<1>2. updateFinality(r, time, {}) = [r EXCEPT !.finalityState = fin]
  <2>1. {} \subseteq Stored(r)
    OBVIOUS
  <2>2. IsNodeState(r)
    BY <1>1
  <2> QED BY <2>1, <2>2, RefreshEntries, Zenon
<1>3. fin = r.finalityState
  <2>1. r.finalityState = [u \in DOMAIN r.finalityState |-> r.finalityState[u]]
    BY <1>1 DEF IsNodeState, IsMap
  <2>2. fin = [u \in DOMAIN r.finalityState |-> r.finalityState[u]]
    BY DEF finalityWith
  <2> QED BY <2>1, <2>2
<1> HIDE DEF fin
<1>4. [r EXCEPT !.finalityState = r.finalityState] = r
  BY <1>1
<1> QED BY <1>2, <1>3, <1>4 DEF r

(* recomputeSelectionForInput: the loop over the candidates of an input leaves
   the input decided and the finality of all its candidates refreshed. *)
LEMMA InputLoop ==
    ASSUME NEW s, IsNodeState(s), FiniteConflicts(s), NEW time \in Nat,
           NEW v \in ValueIDs, Decidable(s, {v})
    PROVE  recomputeSelectionForInputLoop(s, time, v)
             = updateFinality(recomputeSelectionForInputs(s, time, {v}), time,
                              s.conflictSets[v])
<1> DEFINE C == s.conflictSets[v]
           n == Cardinality(C)
           order == ranked(s, v)
           s1 == recomputeSelectionForInputs(s, time, {v})
           seen(k) == {order[j] : j \in 1..k}
           best == selectBestLoop(s, time, v)
           base == [s EXCEPT !.selectedLineage =
                       Put(@, v, [tx |-> best.tx, score |-> best.score,
                                  updatedAt |-> time])]
           is(f) == f = [k \in 0..Len(order) |->
                            IF k = 0 THEN base
                            ELSE updateFinalityLoop(f[k - 1], time, order[k])]
           w == CHOOSE f : is(f)
           g == [k \in 0..n |-> updateFinality(s1, time, seen(k))]
<1>0. C # {} /\ C \subseteq Stored(s)
  BY DEF Decidable
<1>1. /\ n \in Nat /\ order \in [1..n -> C] /\ Len(order) = n
      /\ \A t \in C : \E i \in 1..n : order[i] = t
  BY <1>0, RankedFacts
<1>2. recomputeSelectionForInputLoop(s, time, v) = w[Len(order)]
  BY <1>0, Zenon DEF recomputeSelectionForInputLoop
<1>3. /\ s1 = [s EXCEPT !.selectedLineage = lineageWith(s, time, {v})]
      /\ IsNodeState(s1) /\ SameEvidence(s1, s)
  BY DecideInputs
<1>4. base = s1
  <2>1. best = selectBest(s, time, v)
    BY <1>0, SelectBestLoop
  <2>2. [tx |-> best.tx, score |-> best.score, updatedAt |-> time] = choice(s, time, v)
    BY <2>1, Zenon DEF choice
  <2>3. Put(s.selectedLineage, v, choice(s, time, v)) = lineageWith(s, time, {v})
    BY DEF Put, lineageWith
  <2> HIDE DEF s1, best
  <2> QED BY <1>3, <2>2, <2>3, Zenon
<1>5. updateFinality(s1, time, {}) = s1
  BY RefreshNone
<1>6. Stored(s1) = Stored(s)
  BY <1>3 DEF SameEvidence, Stored
<1> HIDE DEF C, order, s1, base
<1>7. g[0] = base
  <2>1. 0 \in 0..n
    BY <1>1
  <2>2. seen(0) = {}
    OBVIOUS
  <2> QED BY <1>4, <1>5, <2>1, <2>2
<1>8. ASSUME NEW k \in 1..n
      PROVE  g[k] = updateFinalityLoop(g[k - 1], time, order[k])
  <2>1. k \in 0..n /\ k - 1 \in 0..n /\ k \in Int
    BY <1>1
  <2>2. seen(k) = seen(k - 1) \cup {order[k]}
    <3>1. \A j : j \in 1..k <=> j \in 1..(k - 1) \/ j = k
      BY <2>1
    <3> QED BY <3>1
  <2>3. seen(k - 1) \subseteq Stored(s1) /\ order[k] \in Stored(s1)
    <3>1. \A j \in 1..k : order[j] \in C
      BY <1>1
    <3>2. \A j \in 1..(k - 1) : j \in 1..k
      BY <2>1
    <3>3. k \in 1..k
      BY <2>1
    <3> QED BY <1>0, <1>6, <3>1, <3>2, <3>3
  <2>4. g[k] = updateFinality(s1, time, seen(k))
        /\ g[k - 1] = updateFinality(s1, time, seen(k - 1))
    BY <2>1
  <2> HIDE DEF seen, g
  <2>5. updateFinalityLoop(updateFinality(s1, time, seen(k - 1)), time, order[k])
          = updateFinality(s1, time, seen(k - 1) \cup {order[k]})
    <3> DEFINE U == seen(k - 1)
               t == order[k]
    <3>1. U \subseteq Stored(s1) /\ t \in Stored(s1) /\ IsNodeState(s1)
      BY <1>3, <2>3
    <3> HIDE DEF U, t
    <3>2. updateFinalityLoop(updateFinality(s1, time, U), time, t)
            = updateFinality(s1, time, U \cup {t})
      BY <3>1, RefreshOne
    <3> QED BY <3>2 DEF U, t
  <2> QED BY <2>2, <2>4, <2>5, Zenon
<1>9. is(g)
  <2>1. \A k \in 0..n : k # 0 => k \in 1..n
    BY <1>1
  <2>2. \A k \in 0..n :
           g[k] = IF k = 0 THEN base ELSE updateFinalityLoop(g[k - 1], time, order[k])
    <3> HIDE DEF g
    <3> QED BY <1>7, <1>8, <2>1
  <2>3. g = [k \in 0..n |-> g[k]]
    OBVIOUS
  <2> HIDE DEF g
  <2> QED BY <1>1, <2>2, <2>3, Zenon
<1>10. is(w)
  <2> HIDE DEF is, g
  <2> QED BY <1>9
<1> HIDE DEF w
<1>11. \A k \in 0..n :
          w[k] = IF k = 0 THEN base ELSE updateFinalityLoop(w[k - 1], time, order[k])
  BY <1>1, <1>10
<1>12. w[n] = g[n]
  <2> HIDE DEF g, n
  <2>1. w[0] = g[0]
    <3>1. 0 \in 0..n
      BY <1>1
    <3> QED BY <1>7, <1>11, <3>1
  <2>2. ASSUME NEW k \in 1..n, w[k - 1] = g[k - 1] PROVE w[k] = g[k]
    <3>1. k \in 0..n /\ k # 0
      BY <1>1
    <3>2. w[k] = updateFinalityLoop(w[k - 1], time, order[k])
      BY <1>11, <3>1
    <3> QED BY <1>8, <2>2, <3>2, Zenon
  <2>3. \A k \in 0..n : w[k] = g[k]
    <3>1. n \in Nat
      BY <1>1
    <3>2. \A k \in 1..n : w[k - 1] = g[k - 1] => w[k] = g[k]
      BY <2>2
    <3> HIDE DEF is
    <3> QED BY <2>1, <3>1, <3>2, SameWay
  <2>4. n \in 0..n
    BY <1>1
  <2> QED BY <2>3, <2>4
<1>13. g[n] = updateFinality(s1, time, C)
  <2>1. n \in 0..n
    BY <1>1
  <2>2. seen(n) = C
    <3> HIDE DEF n
    <3> QED BY <1>1
  <2>3. g[n] = updateFinality(s1, time, seen(n))
    BY <2>1
  <2> QED BY <2>2, <2>3, Zenon
<1> QED BY <1>1, <1>2, <1>12, <1>13 DEF C, s1

\* The candidates of the inputs in V.
Hits(s, V) == UNION {s.conflictSets[v] : v \in V}

\* The state once the inputs in V are decided and their candidates refreshed.
recomputedFor(s, time, V) ==
    updateFinality(recomputeSelectionForInputs(s, time, V), time, Hits(s, V))

(* Selections and finality entries written twice are as written last. *)
LEMMA Overwritten ==
    ASSUME NEW s, {"selectedLineage", "finalityState"} \subseteq DOMAIN s,
           NEW L, NEW F, NEW M, NEW G, NEW a, NEW r, NEW b, NEW q,
           a = [s EXCEPT !.selectedLineage = L],
           r = [a EXCEPT !.finalityState = F],
           b = [r EXCEPT !.selectedLineage = M],
           q = [b EXCEPT !.finalityState = G]
    PROVE  \A o : o = [s EXCEPT !.selectedLineage = M] => q = [o EXCEPT !.finalityState = G]
OBVIOUS

(* The loop body for one more input.  A candidate of an earlier input that does
   not spend this one keeps the finality it was given. *)
LEMMA MoreInputs ==
    ASSUME NEW s, StoresOK(s), NEW time \in Nat, NEW V, Decidable(s, V),
           NEW v \in ValueIDs, Decidable(s, {v})
    PROVE  recomputeSelectionForInputLoop(recomputedFor(s, time, V), time, v)
             = recomputedFor(s, time, V \cup {v})
<1> DEFINE U == V \cup {v}
           C == s.conflictSets[v]
           a == recomputeSelectionForInputs(s, time, V)
           r == updateFinality(a, time, Hits(s, V))
           b == recomputeSelectionForInputs(r, time, {v})
           q == updateFinality(b, time, C)
           o == recomputeSelectionForInputs(s, time, U)
           lin == lineageWith(s, time, V)
           linU == lineageWith(s, time, U)
           fin == finalityWith(a, time, Hits(s, V))
           finU == finalityWith(o, time, Hits(s, U))
<1>1. /\ IsNodeState(s) /\ FiniteConflicts(s) /\ ConflictSetsExactIn(s)
      /\ Decidable(s, U)
      /\ Hits(s, V) \subseteq Stored(s) /\ C \subseteq Stored(s)
      /\ Hits(s, U) = Hits(s, V) \cup C
  BY DEF StoresOK, Decidable, Hits
<1>2. /\ a = [s EXCEPT !.selectedLineage = lin]
      /\ IsNodeState(a) /\ SameEvidence(a, s)
      /\ a.finalityState = s.finalityState /\ a.selectedLineage = lin
  BY <1>1, DecideInputs
<1>3. /\ o = [s EXCEPT !.selectedLineage = linU]
      /\ IsNodeState(o) /\ SameEvidence(o, s)
      /\ o.finalityState = s.finalityState /\ o.selectedLineage = linU
  BY <1>1, DecideInputs
<1>4. Stored(a) = Stored(s) /\ Stored(o) = Stored(s)
  BY <1>2, <1>3 DEF SameEvidence, Stored
<1> HIDE DEF a, o, U
<1>5. /\ r = [a EXCEPT !.finalityState = fin]
      /\ IsNodeState(r) /\ SameEvidence(r, a)
      /\ r.selectedLineage = a.selectedLineage /\ r.finalityState = fin
  <2> DEFINE H == Hits(s, V)
  <2>1. IsNodeState(a) /\ H \subseteq Stored(a)
    BY <1>1, <1>2, <1>4
  <2> HIDE DEF H
  <2>2. LET x == updateFinality(a, time, H)
        IN  /\ x = [a EXCEPT !.finalityState = finalityWith(a, time, H)]
            /\ IsNodeState(x)
            /\ SameEvidence(x, a)
            /\ x.selectedLineage = a.selectedLineage
            /\ x.finalityState = finalityWith(a, time, H)
    BY <2>1, RefreshEntries
  <2> QED BY <2>2 DEF H
<1>6. updateFinality(o, time, Hits(s, U)) = [o EXCEPT !.finalityState = finU]
  <2> DEFINE H == Hits(s, U)
  <2>1. IsNodeState(o) /\ H \subseteq Stored(o)
    BY <1>1, <1>3, <1>4
  <2> HIDE DEF H
  <2>2. updateFinality(o, time, H) = [o EXCEPT !.finalityState = finalityWith(o, time, H)]
    BY <2>1, RefreshEntries
  <2> QED BY <2>2 DEF H
<1> HIDE DEF r
<1>7. SameEvidence(r, s) /\ FiniteConflicts(r) /\ Stored(r) = Stored(s)
      /\ r.conflictSets = s.conflictSets
  <2>1. SameEvidence(r, s)
    BY <1>2, <1>5 DEF SameEvidence
  <2> QED BY <1>1, <2>1, EvidenceFrame DEF SameEvidence
<1>8. Decidable(r, {v})
  BY <1>7 DEF Decidable
<1>9. recomputeSelectionForInputLoop(r, time, v) = q
  <2>1. recomputeSelectionForInputLoop(r, time, v)
          = updateFinality(b, time, r.conflictSets[v])
    <3>1. IsNodeState(r) /\ FiniteConflicts(r) /\ Decidable(r, {v})
      BY <1>5, <1>7, <1>8
    <3> QED BY <3>1, InputLoop
  <2> QED BY <1>7, <2>1
<1>10. /\ b = [r EXCEPT !.selectedLineage = lineageWith(r, time, {v})]
       /\ IsNodeState(b) /\ SameEvidence(b, r)
       /\ b.finalityState = r.finalityState
       /\ b.selectedLineage = lineageWith(r, time, {v})
  <2> DEFINE W == {v}
  <2>1. IsNodeState(r) /\ FiniteConflicts(r) /\ Decidable(r, W)
    BY <1>5, <1>7, <1>8
  <2> HIDE DEF W
  <2>2. LET x == recomputeSelectionForInputs(r, time, W)
        IN  /\ x = [r EXCEPT !.selectedLineage = lineageWith(r, time, W)]
            /\ IsNodeState(x)
            /\ SameEvidence(x, r)
            /\ x.finalityState = r.finalityState
            /\ x.selectedLineage = lineageWith(r, time, W)
    BY <2>1, DecideInputs
  <2> QED BY <2>2 DEF W
<1>11. lineageWith(r, time, {v}) = linU
  <2>1. choice(r, time, v) = choice(s, time, v)
    BY <1>7, EvidenceFrame DEF choice
  <2> DEFINE L == r.selectedLineage
             D == DOMAIN s.selectedLineage
  <2>2. L = [w \in D \cup V |-> IF w \in V THEN choice(s, time, w) ELSE s.selectedLineage[w]]
    BY <1>2, <1>5 DEF lineageWith
  <2>3. lineageWith(r, time, {v})
          = [w \in DOMAIN L \cup {v} |-> IF w = v THEN choice(s, time, v) ELSE L[w]]
    BY <2>1 DEF lineageWith
  <2>4. linU = [w \in D \cup U |-> IF w \in U THEN choice(s, time, w) ELSE s.selectedLineage[w]]
    BY DEF lineageWith
  <2> HIDE DEF L, linU
  <2> QED BY <2>2, <2>3, <2>4 DEF U
<1> HIDE DEF b
<1>12. SameEvidence(b, s) /\ Stored(b) = Stored(s)
  BY <1>7, <1>10 DEF SameEvidence, Stored
<1>13. q = [b EXCEPT !.finalityState = finalityWith(b, time, C)]
  <2>1. IsNodeState(b) /\ C \subseteq Stored(b)
    BY <1>1, <1>10, <1>12
  <2> HIDE DEF C
  <2> QED BY <2>1, RefreshEntries
<1>14. Stored(s) \subseteq TxIDs
  BY <1>1 DEF IsNodeState, IsMap, Stored
<1>15. \A u \in C : finalityOf(b, time, u) = finalityOf(o, time, u)
  <2> TAKE u \in C
  <2>1. u \in TxIDs
    BY <1>1, <1>14
  <2>2. SameEvidence(b, o) /\ b.selectedLineage = o.selectedLineage
    BY <1>3, <1>10, <1>11, <1>12 DEF SameEvidence
  <2> QED BY <2>1, <2>2, JudgementFrame
<1>16. \A u \in Hits(s, V) \ C : finalityOf(a, time, u) = finalityOf(o, time, u)
  <2> TAKE u \in Hits(s, V) \ C
  <2>1. u \in TxIDs /\ u \in Stored(s)
    BY <1>1, <1>14
  <2>2. v \notin Inputs(u)
    BY <1>1, <2>1 DEF ConflictSetsExactIn
  <2>3. ASSUME NEW x \in Inputs(u)
        PROVE  /\ x \in DOMAIN a.selectedLineage <=> x \in DOMAIN o.selectedLineage
               /\ x \in DOMAIN o.selectedLineage =>
                     a.selectedLineage[x] = o.selectedLineage[x]
    <3>1. x # v
      BY <2>2
    <3> QED BY <1>2, <1>3, <3>1 DEF lineageWith, U
  <2>4. SameEvidence(a, o)
    BY <1>2, <1>3 DEF SameEvidence
  <2> QED BY <2>1, <2>3, <2>4, JudgementFrame
<1>17. finalityWith(b, time, C) = finU
  <2>1. b.finalityState = fin /\ a.finalityState = s.finalityState
        /\ o.finalityState = s.finalityState
    BY <1>2, <1>3, <1>5, <1>10
  <2> QED BY <1>1, <1>15, <1>16, <2>1 DEF finalityWith
<1> HIDE DEF lin, linU, fin, finU, q, C
<1>18. q = [o EXCEPT !.finalityState = finU]
  <2>1. {"selectedLineage", "finalityState"} \subseteq DOMAIN s
    BY <1>1 DEF IsNodeState
  <2>2. b = [r EXCEPT !.selectedLineage = linU] /\ q = [b EXCEPT !.finalityState = finU]
    BY <1>10, <1>11, <1>13, <1>17
  <2> QED BY <1>2, <1>3, <1>5, <2>1, <2>2, Overwritten
<1> QED BY <1>6, <1>9, <1>18 DEF recomputedFor, r, a, o, U

\* The first k inputs of t.
firstInputs(t, k) == {TxInputs[t][i] : i \in 1..k}

(* A transfer without inputs: there is only its own entry to refresh. *)
LEMMA NoInputsLoop ==
    ASSUME NEW s, StoresOK(s), NEW t \in Stored(s), NEW time \in Nat, Inputs(t) = {}
    PROVE  updateFinalityLoop(s, time, t) = recomputeSelectionForTransfer(s, time, t)
<1> DEFINE W == {}
           T == {t}
           o == recomputeSelectionForInputs(s, time, W)
           G == finalityWith(o, time, T)
<1>1. IsNodeState(s) /\ FiniteConflicts(s) /\ t \in TxIDs /\ Decidable(s, W)
  BY DEF StoresOK, IsNodeState, IsMap, Stored, Decidable
<1>2. /\ o = [s EXCEPT !.selectedLineage = lineageWith(s, time, W)]
      /\ IsNodeState(o) /\ SameEvidence(o, s)
      /\ o.finalityState = s.finalityState
      /\ o.selectedLineage = lineageWith(s, time, W)
  <2> HIDE DEF W
  <2> QED BY <1>1, DecideInputs
<1>3. lineageWith(s, time, W) = s.selectedLineage
  <2>1. s.selectedLineage = [v \in DOMAIN s.selectedLineage |-> s.selectedLineage[v]]
    BY <1>1 DEF IsNodeState, IsMap
  <2>2. lineageWith(s, time, W) = [v \in DOMAIN s.selectedLineage |-> s.selectedLineage[v]]
    BY DEF lineageWith
  <2> QED BY <2>1, <2>2
<1>4. recomputeSelectionForTransfer(s, time, t) = updateFinality(o, time, T)
  BY DEF recomputeSelectionForTransfer, contenders
<1> HIDE DEF o, W
<1>5. updateFinality(o, time, T) = [o EXCEPT !.finalityState = G]
  <2>1. T \subseteq Stored(o) /\ IsNodeState(o)
    BY <1>2 DEF SameEvidence, Stored
  <2> HIDE DEF T
  <2> QED BY <2>1, RefreshEntries, Zenon
<1>6. updateFinalityLoop(s, time, t)
        = [s EXCEPT !.finalityState = Put(s.finalityState, t, finalityOf(s, time, t))]
  BY <1>1, UpdateFinalityLoop
<1>7. finalityOf(o, time, t) = finalityOf(s, time, t)
  <2>1. SameEvidence(o, s) /\ o.selectedLineage = s.selectedLineage
    BY <1>2, <1>3
  <2> QED BY <1>1, <2>1, JudgementFrame
<1>8. Put(s.finalityState, t, finalityOf(s, time, t)) = G
  BY <1>2, <1>7 DEF Put, finalityWith
<1> HIDE DEF G, T
<1>9. [o EXCEPT !.finalityState = G] = [s EXCEPT !.finalityState = G]
  <2>1. o = [s EXCEPT !.selectedLineage = s.selectedLineage]
    BY <1>2, <1>3, Zenon
  <2> QED BY <2>1
<1> QED BY <1>4, <1>5, <1>6, <1>8, <1>9

(* recomputeSelectionForTransfer: the loop over the inputs, which refreshes the
   candidates of each input before it looks at the next one, ends in the state
   that deciding all inputs and then refreshing all contenders leads to.  It
   does so in every state of the stores, also in the ones the handlers call
   it in, where the evidence has changed and the selection has not yet. *)
LEMMA TransferLoop ==
    ASSUME NEW s, StoresOK(s), NEW t \in Stored(s), NEW time \in Nat
    PROVE  recomputeSelectionForTransferLoop(s, time, t)
             = recomputeSelectionForTransfer(s, time, t)
<1> DEFINE in == TxInputs[t]
           n == Len(in)
           upto(k) == firstInputs(t, k)
           is(f) == f = [k \in 0..Len(in) |->
                            IF k = 0 THEN s
                            ELSE recomputeSelectionForInputLoop(f[k - 1], time, in[k])]
           w == CHOOSE f : is(f)
           g == [k \in 0..n |-> IF k = 0 THEN s ELSE recomputedFor(s, time, upto(k))]
<1>1. /\ IsNodeState(s) /\ FiniteConflicts(s) /\ ConflictSetsExactIn(s)
      /\ t \in TxIDs
  BY DEF StoresOK, IsNodeState, IsMap, Stored
<1>2. n \in Nat /\ DOMAIN in = 1..n /\ in \in Seq(ValueIDs)
  BY <1>1, TransferAssumption
<1>3. recomputeSelectionForTransferLoop(s, time, t) = updateFinalityLoop(w[n], time, t)
  BY Zenon DEF recomputeSelectionForTransferLoop
<1>4. \A i \in 1..n : /\ in[i] \in ValueIDs
                      /\ s.conflictSets[in[i]] # {}
                      /\ s.conflictSets[in[i]] \subseteq Stored(s)
  <2> TAKE i \in 1..n
  <2>1. in[i] \in ValueIDs
    BY <1>2
  <2>2. in[i] \in Inputs(t)
    BY <1>1, <1>2, InputsType
  <2> QED BY <1>1, <2>1, <2>2 DEF ConflictSetsExactIn
<1>5. \A k \in 0..n : Decidable(s, upto(k))
  BY <1>2, <1>4 DEF Decidable, firstInputs
<1>6. \A i \in 1..n : Decidable(s, {in[i]})
  BY <1>4 DEF Decidable
<1>7. upto(n) = Inputs(t)
  BY <1>2 DEF firstInputs, Inputs, Range
<1>8. \A k \in 1..n : upto(k) = upto(k - 1) \cup {in[k]}
  <2> TAKE k \in 1..n
  <2>1. \A j : j \in 1..k <=> j \in 1..(k - 1) \/ j = k
    BY <1>2
  <2> QED BY <2>1 DEF firstInputs
<1>9. upto(0) = {}
  BY DEF firstInputs
<1> HIDE DEF in, n
<1>10. ASSUME NEW k \in 1..n
       PROVE  g[k] = recomputeSelectionForInputLoop(g[k - 1], time, in[k])
  <2> DEFINE V == upto(k - 1)
             v == in[k]
  <2>1. k \in 0..n /\ k - 1 \in 0..n /\ k # 0
    BY <1>2
  <2>2. g[k] = recomputedFor(s, time, V \cup {v})
    BY <1>8, <2>1
  <2>3. v \in ValueIDs /\ Decidable(s, {v}) /\ Decidable(s, V)
    BY <1>4, <1>5, <1>6, <2>1
  <2>4. CASE k = 1
    <3>1. g[k - 1] = s
      BY <2>1, <2>4
    <3>2. V \cup {v} = {v}
      BY <1>9, <2>4
    <3>3. Hits(s, {v}) = s.conflictSets[v]
      BY DEF Hits
    <3> HIDE DEF V, v, g
    <3>4. recomputeSelectionForInputLoop(s, time, v) = recomputedFor(s, time, {v})
      <4>1. recomputeSelectionForInputLoop(s, time, v)
              = updateFinality(recomputeSelectionForInputs(s, time, {v}), time,
                               s.conflictSets[v])
        BY <1>1, <2>3, InputLoop
      <4> QED BY <3>3, <4>1, Zenon DEF recomputedFor
    <3> QED BY <2>2, <3>1, <3>2, <3>4, Zenon DEF v
  <2>5. CASE k # 1
    <3>1. g[k - 1] = recomputedFor(s, time, V)
      BY <2>1, <2>5
    <3> HIDE DEF V, v, g
    <3>2. recomputeSelectionForInputLoop(recomputedFor(s, time, V), time, v)
            = recomputedFor(s, time, V \cup {v})
      BY <2>3, MoreInputs
    <3> QED BY <2>2, <3>1, <3>2, Zenon DEF v
  <2> QED BY <2>4, <2>5
<1>11. g[0] = s
  BY <1>2
<1>12. is(g)
  <2>1. \A k \in 0..n : k # 0 => k \in 1..n
    BY <1>2
  <2>2. \A k \in 0..n :
           g[k] = IF k = 0 THEN s
                  ELSE recomputeSelectionForInputLoop(g[k - 1], time, in[k])
    <3> HIDE DEF g
    <3> QED BY <1>10, <1>11, <2>1
  <2>3. g = [k \in 0..n |-> g[k]]
    OBVIOUS
  <2> HIDE DEF g
  <2> QED BY <2>2, <2>3, Zenon DEF n
<1>13. is(w)
  <2> HIDE DEF is, g
  <2> QED BY <1>12
<1> HIDE DEF w
<1>14. \A k \in 0..n :
          w[k] = IF k = 0 THEN s
                 ELSE recomputeSelectionForInputLoop(w[k - 1], time, in[k])
  BY <1>13 DEF n
<1>15. w[n] = g[n]
  <2> HIDE DEF g, is
  <2>1. w[0] = g[0]
    <3>1. 0 \in 0..n
      BY <1>2
    <3> QED BY <1>11, <1>14, <3>1
  <2>2. ASSUME NEW k \in 1..n, w[k - 1] = g[k - 1] PROVE w[k] = g[k]
    <3>1. k \in 0..n /\ k # 0
      BY <1>2
    <3>2. w[k] = recomputeSelectionForInputLoop(w[k - 1], time, in[k])
      BY <1>14, <3>1
    <3> QED BY <1>10, <2>2, <3>2, Zenon
  <2>3. \A k \in 0..n : w[k] = g[k]
    <3>1. n \in Nat
      BY <1>2
    <3>2. \A k \in 1..n : w[k - 1] = g[k - 1] => w[k] = g[k]
      BY <2>2
    <3> QED BY <2>1, <3>1, <3>2, SameWay, ZenonT(60)
  <2>4. n \in 0..n
    BY <1>2
  <2> QED BY <2>3, <2>4
<1>16. CASE n = 0
  <2>1. Inputs(t) = {} /\ w[n] = s
    BY <1>7, <1>9, <1>11, <1>15, <1>16
  <2> HIDE DEF g, is
  <2>2. updateFinalityLoop(s, time, t) = recomputeSelectionForTransfer(s, time, t)
    BY <2>1, NoInputsLoop
  <2> QED BY <1>3, <2>1, <2>2, Zenon
<1>17. CASE n # 0
  <2> DEFINE I == Inputs(t)
             o == recomputeSelectionForInputs(s, time, I)
             U == Hits(s, I)
  <2>1. w[n] = updateFinality(o, time, U)
    <3>1. g[n] = recomputedFor(s, time, upto(n))
      BY <1>2, <1>17
    <3> HIDE DEF g
    <3> QED BY <1>7, <1>15, <3>1 DEF recomputedFor
  <2>2. contenders(s, t) = U \cup {t}
    BY DEF contenders, Hits
  <2>3. recomputeSelectionForTransfer(s, time, t) = updateFinality(o, time, U \cup {t})
    BY <2>2, Zenon DEF recomputeSelectionForTransfer
  <2>4. Decidable(s, I) /\ U \subseteq Stored(s)
    BY <1>2, <1>5, <1>7 DEF Decidable, Hits
  <2> HIDE DEF I
  <2>5. IsNodeState(o) /\ SameEvidence(o, s)
    BY <1>1, <2>4, DecideInputs
  <2>6. U \subseteq Stored(o) /\ t \in Stored(o)
    BY <2>4, <2>5 DEF SameEvidence, Stored
  <2> HIDE DEF o, U, is, g
  <2>7. updateFinalityLoop(updateFinality(o, time, U), time, t)
          = updateFinality(o, time, U \cup {t})
    BY <2>5, <2>6, RefreshOne
  <2> QED BY <1>3, <2>1, <2>3, <2>7, Zenon
<1> QED BY <1>16, <1>17

(* The loops of recomputeSelectionForTransfer, with their intermediate states,
   and the definition the rest of the model and of the proofs is built on give
   the same state for every stored transfer, however many inputs it has and
   however many transfers compete for them. *)
THEOREM RecomputeMatchesLoopHolds == Spec => []RecomputeMatchesLoop
<1>1. IInv => RecomputeMatchesLoop
  <2> SUFFICES ASSUME IInv, NEW t \in Stored(node)
               PROVE  recomputeSelectionForTransferLoop(node, now, t)
                        = recomputeSelectionForTransfer(node, now, t)
    BY DEF RecomputeMatchesLoop
  <2>1. StoresOK(node) /\ now \in Nat
    BY DEF IInv, NodeInv
  <2> QED BY <2>1, TransferLoop
<1> QED BY <1>1, IInvariant, PTL

=============================================================================
