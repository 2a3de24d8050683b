--------------------------- MODULE Web4Selection ---------------------------
(***************************************************************************)
(* The local decision procedure of a Web4 node: scoring of the transfers   *)
(* that compete for an input (node/selection.go) and the finality derived  *)
(* from the selection (node/finality.go).  Everything here is a function   *)
(* of a node's state s (a record, see NodeState in Web4Handlers) and of    *)
(* the node's clock.                                                       *)
(*                                                                         *)
(* Transfers and values are content addressed: an ID is a hash of the      *)
(* content (crypto/id.go), so what an ID stands for is a constant.  Two    *)
(* outputs with equal content are one ValueID, which is what the code's    *)
(* maps make of them too.                                                  *)
(*                                                                         *)
(* The float64 arithmetic of the code is fixed point: a score component    *)
(* is a natural number of units of 1/Scale, a weight is in percent.        *)
(***************************************************************************)
EXTENDS Integers, Sequences, FiniteSets, Functions

CONSTANTS
    TxIDs,          \* transfers, by ID
    ValueIDs,       \* values (transfer inputs and outputs), by ID
    PeerIDs,        \* the peers a node can hear from
    Keys,           \* well-formed ed25519 public keys
    NoOwner,        \* the empty Owner field of a value
    TxInputs,       \* Transfer.Inputs
    TxOutputs,      \* Transfer.Outputs, as value IDs
    ValueOwner,     \* Value.Owner
    ValueAmount,    \* Value.Amount
    ValueExpiry,    \* Value.Expiry, 0 for never
    HashOrder,      \* the position of a transfer ID in the order of bytes.Compare
    LogCount,       \* LogCount[n] is math.Log(1+n), in units of 1/Scale
    StabilityTau,   \* stabilityTau, in units of the model's clock
    AmountModulus   \* the range of a uint64 amount

ASSUME TransferAssumption ==
    /\ TxInputs \in [TxIDs -> Seq(ValueIDs)]
    /\ TxOutputs \in [TxIDs -> Seq(ValueIDs)]
    /\ HashOrder \in [TxIDs -> Nat]
    /\ \A t, u \in TxIDs : HashOrder[t] = HashOrder[u] => t = u

ASSUME ValueAssumption ==
    /\ NoOwner \notin Keys
    /\ ValueOwner \in [ValueIDs -> Keys \cup {NoOwner}]
    /\ ValueAmount \in [ValueIDs -> Nat]
    /\ ValueExpiry \in [ValueIDs -> Nat]

ASSUME PeersFinite == IsFiniteSet(PeerIDs)

\* Of the logarithm: log 1 is 0, and more peers never count for less.
ASSUME ScoreAssumption ==
    /\ LogCount \in [0..Cardinality(PeerIDs) -> Nat]
    /\ LogCount[0] = 0
    /\ \A m, n \in 0..Cardinality(PeerIDs) : m <= n => LogCount[m] <= LogCount[n]
    /\ StabilityTau \in Nat \ {0}
    /\ AmountModulus \in Nat \ {0}

Inputs(t) == Range(TxInputs[t])

(***************************************************************************)
(* Weights and thresholds, in percent.                                     *)
(***************************************************************************)
Scale == 1000000

weightFirstSeen == 35
weightPropagation == 20
weightTime == 20
weightProof == 20
weightConflict == 5

confidencePropagation == 30
confidenceTime == 35
confidenceProof == 35

thresholdSmall == 45 * Scale
thresholdMedium == 70 * Scale
thresholdLarge == 88 * Scale

tierSmallMax == 50000
tierMediumMax == 500000

(***************************************************************************)
(* Score components.                                                       *)
(***************************************************************************)

\* Order of first arrival at this node; equal sequence numbers, which the
\* counter never produces, would fall back on the hash order.
arrivedBefore(s, u, t) ==
    \/ s.txStore[u].arrivalSeq < s.txStore[t].arrivalSeq
    \/ /\ s.txStore[u].arrivalSeq = s.txStore[t].arrivalSeq
       /\ HashOrder[u] < HashOrder[t]

\* The index of t in rankByArrival(conflictSets[input]).
rankByArrival(s, input, t) ==
    Cardinality({u \in s.conflictSets[input] : arrivedBefore(s, u, t)})

timeStability(s, now, t) ==
    LET age == now - s.txStore[t].firstSeen
    IN  CASE age < 0             -> 0
          [] age >= StabilityTau -> Scale
          [] OTHER               -> (age * Scale) \div StabilityTau

\* A proof counts when its sender has seen the transfer and no conflict.
supporting(s, t, distances) ==
    {p \in DOMAIN s.proofStore[t] :
        /\ s.proofStore[t][p].seen
        /\ ~s.proofStore[t][p].conflict
        /\ s.proofStore[t][p].distance \in distances}

\* The sum of the distance weights 1.0, 0.6 and 0.3, in tenths.
proofWeight(s, t) ==
      10 * Cardinality(supporting(s, t, {0, 1}))
    + 6 * Cardinality(supporting(s, t, {2}))
    + 3 * Cardinality(supporting(s, t, Int \ {0, 1, 2}))

\* proofSmoothing is 1.0, ten tenths.
neighborhood(s, t) ==
    LET weight == proofWeight(s, t)
    IN  (weight * Scale) \div (weight + 10)

conflictCleanliness(s, input, t) ==
    LET rivals  == Cardinality(s.conflictSets[input]) - 1
        proofs  == DOMAIN s.proofStore[t]
        against == {p \in proofs : s.proofStore[t][p].conflict}
        signals == rivals + Cardinality(against)
        most    == rivals + Cardinality(proofs)
    IN  Scale - (signals * Scale) \div (most + 1)

propagationScore(s, t) == LogCount[Cardinality(s.peerObservations[t])]

scoreTx(s, now, input, t) ==
    LET first   == Scale \div (1 + rankByArrival(s, input, t))
        spread  == propagationScore(s, t)
        time    == timeStability(s, now, t)
        support == neighborhood(s, t)
    IN  [tx            |-> t,
         score         |-> weightFirstSeen * first
                           + weightPropagation * spread
                           + weightTime * time
                           + weightProof * support
                           + weightConflict * conflictCleanliness(s, input, t),
         firstSeen     |-> first,
         propagation   |-> spread,
         timeStability |-> time,
         neighborhood  |-> support]

(***************************************************************************)
(* Selection.                                                              *)
(***************************************************************************)
betterScore(left, right) ==
    \/ left.score > right.score
    \/ /\ left.score = right.score
       /\ \/ left.firstSeen > right.firstSeen
          \/ /\ left.firstSeen = right.firstSeen
             /\ \/ left.propagation > right.propagation
                \/ /\ left.propagation = right.propagation
                   /\ \/ left.timeStability > right.timeStability
                      \/ /\ left.timeStability = right.timeStability
                         /\ \/ left.neighborhood > right.neighborhood
                            \/ /\ left.neighborhood = right.neighborhood
                               /\ HashOrder[left.tx] < HashOrder[right.tx]

\* The code's loop over the ranked candidates keeps the running maximum;
\* betterScore is a strict total order, so that is the only candidate that
\* beats all others (Web4Loops checks the two against each other).
selectBest(s, now, input) ==
    LET candidates == {scoreTx(s, now, input, t) : t \in s.conflictSets[input]}
    IN  CHOOSE best \in candidates :
            \A other \in candidates \ {best} : betterScore(best, other)

(***************************************************************************)
(* Finality.                                                               *)
(***************************************************************************)
\* Mutant: the first output counts, not the sum.
transferAmountFirst(t) == ValueAmount[TxOutputs[t][1]] % AmountModulus

transferAmount(t) ==
    FoldFunction(LAMBDA v, sum : (sum + ValueAmount[v]) % AmountModulus,
                 0, TxOutputs[t])

finalityThreshold(t) ==
    CASE transferAmount(t) < tierSmallMax  -> thresholdSmall
      [] transferAmount(t) >= tierSmallMax
         /\ transferAmount(t) < tierMediumMax -> thresholdMedium
      [] OTHER                             -> thresholdLarge

computeConfidence(s, now, t) ==
      confidencePropagation * propagationScore(s, t)
    + confidenceTime * timeStability(s, now, t)
    + confidenceProof * neighborhood(s, t)

\* Mutant: one selected input is enough.
lostInputsAny(s, t) ==
    IF \E v \in Inputs(t) : v \in DOMAIN s.selectedLineage /\ s.selectedLineage[v].tx = t
    THEN {} ELSE DOMAIN TxInputs[t]

\* The positions of the inputs for which t is not the selected transfer.
lostInputs(s, t) ==
    {i \in DOMAIN TxInputs[t] :
        ~ /\ TxInputs[t][i] \in DOMAIN s.selectedLineage
          /\ s.selectedLineage[TxInputs[t][i]].tx = t}

selectedOnAllInputs(s, t) == lostInputs(s, t) = {}

\* The walk over the inputs stops at the first lost one; the score is that of
\* the last input before it, 0 if there is none.
lineageScore(s, t) ==
    LET lost == lostInputs(s, t)
        n    == IF lost = {} THEN Len(TxInputs[t])
                ELSE (CHOOSE i \in lost : \A j \in lost : i <= j) - 1
    IN  IF n = 0 THEN 0 ELSE s.selectedLineage[TxInputs[t][n]].score

finalityOf(s, now, t) ==
    LET confidence == computeConfidence(s, now, t)
        selected   == selectedOnAllInputs(s, t)
    IN  [score      |-> lineageScore(s, t),
         confidence |-> IF selected THEN confidence ELSE 0,
         status     |-> CASE ~selected -> "PENDING"
                          [] selected /\ confidence < finalityThreshold(t) -> "SELECTED"
                          [] OTHER -> "FINAL"]

=============================================================================
