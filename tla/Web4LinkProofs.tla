--------------------------- MODULE Web4LinkProofs ----------------------------
(***************************************************************************)
(* Proofs about nodes whose sends can block (Web4Link), for any number of  *)
(* nodes, any topology and connections of any capacity.                    *)
(*                                                                         *)
(* A handler that blocks between two writes is still one step of the       *)
(* network of Web4Gossip: what it has yet to write is on its way already.  *)
(* So everything proved there about safety holds here, and from what is    *)
(* proved there of the frames under way it follows how much traffic it     *)
(* takes for nodes to wait for one another in a circle.                    *)
(***************************************************************************)
EXTENDS Web4Link, FiniteSetTheorems, TLAPS

----------------------------------------------------------------------------
(* The refinement mapping.                                                 *)

\* Of the messages still to be written, the one for q.
toSend(out, q) ==
    LET mine == {i \in DOMAIN out : out[i].to = q}
    IN  IF mine = {} THEN <<>> ELSE <<out[CHOOSE i \in mine : TRUE].msg>>

\* The frames from p that q has not handled: the one its read loop has in hand,
\* those on the connection, and the one that p holds its mutex to write.
line(p, q) == inbox[q][p] \o buf[p][q] \o toSend(hold[p].out, q)

lines == [p \in PeerIDs |-> [q \in PeerIDs |-> line(p, q)]]

none == [n \in PeerIDs |-> {}]

\* No faults, no questions, and the clock stands still; what is refused is not
\* looked at here.
Network == INSTANCE Web4CausalProofs WITH
    chan <- lines, up <- PeerIDs, stale <- {}, drops <- 0, crashes <- 0, now <- 0,
    lost <- none, refused <- none, Questions <- {}, MaxCrashes <- 0, MaxDrops <- 0, MaxTime <- 0

----------------------------------------------------------------------------
(* The handlers of the instance are those of Web4Handlers: the constants   *)
(* they depend on are the same.                                            *)

(* The standard operators of the instance are the standard operators. *)
LEMMA SetsSame ==
    /\ \A S : /\ Network!Cardinality(S) = Cardinality(S)
              /\ Network!IsFiniteSet(S) = IsFiniteSet(S)
    /\ \A f : /\ Network!Range(f) = Range(f)
              /\ Network!IsInjective(f) = IsInjective(f)
<1>1. \A S : Network!Cardinality(S) = Cardinality(S)
  BY SMT DEF Network!Cardinality, Cardinality
<1>2. \A S : Network!IsFiniteSet(S) = IsFiniteSet(S)
  BY Zenon DEF Network!IsFiniteSet, IsFiniteSet
<1>3. \A f : Network!Range(f) = Range(f)
  BY Zenon DEF Network!Range, Range
<1>4. \A f : Network!IsInjective(f) = IsInjective(f)
  BY Zenon DEF Network!IsInjective, IsInjective
<1> QED BY <1>1, <1>2, <1>3, <1>4

(* What the modules of the network assume of their constants holds of these, so
   that the instances of its lemmas may be used. *)
LEMMA NetworkConstants ==
    /\ /\ Peers \in [PeerIDs -> SUBSET PeerIDs]
       /\ \A n \in PeerIDs : n \notin Peers[n]
       /\ Genesis \in [PeerIDs -> SUBSET ValueIDs]
       /\ Submissions \in [PeerIDs -> SUBSET TxIDs]
       /\ {} \subseteq PeerIDs \X PeerIDs \X TxIDs
       /\ 0 \in Nat /\ 0 \in Nat /\ 0 \in Nat
    /\ ReplayTTL \in Nat /\ Distances \subseteq Int /\ 1 \in Distances
    /\ /\ PeerOrder \in Seq(PeerIDs)
       /\ Network!Range(PeerOrder) = PeerIDs /\ Network!IsInjective(PeerOrder)
       /\ Local \notin PeerIDs
    /\ /\ LogCount \in [0..Network!Cardinality(PeerIDs) -> Nat]
       /\ LogCount[0] = 0
       /\ \A m, n \in 0..Network!Cardinality(PeerIDs) : m <= n => LogCount[m] <= LogCount[n]
       /\ StabilityTau \in Nat \ {0}
       /\ AmountModulus \in Nat \ {0}
    /\ Network!IsFiniteSet(PeerIDs)
    /\ /\ NoOwner \notin Keys
       /\ ValueOwner \in [ValueIDs -> Keys \cup {NoOwner}]
       /\ ValueAmount \in [ValueIDs -> Nat]
       /\ ValueExpiry \in [ValueIDs -> Nat]
    /\ /\ TxInputs \in [TxIDs -> Seq(ValueIDs)]
       /\ TxOutputs \in [TxIDs -> Seq(ValueIDs)]
       /\ HashOrder \in [TxIDs -> Nat]
       /\ \A t, u \in TxIDs : HashOrder[t] = HashOrder[u] => t = u
<1>1. /\ Peers \in [PeerIDs -> SUBSET PeerIDs]
      /\ \A n \in PeerIDs : n \notin Peers[n]
      /\ Genesis \in [PeerIDs -> SUBSET ValueIDs]
      /\ Submissions \in [PeerIDs -> SUBSET TxIDs]
      /\ {} \subseteq PeerIDs \X PeerIDs \X TxIDs
      /\ 0 \in Nat
  BY LinkAssumption
<1>2. /\ PeerOrder \in Seq(PeerIDs)
      /\ Network!Range(PeerOrder) = PeerIDs /\ Network!IsInjective(PeerOrder)
      /\ Local \notin PeerIDs
  BY PeerOrderAssumption, SetsSame, Zenon
<1>3. /\ LogCount \in [0..Network!Cardinality(PeerIDs) -> Nat]
      /\ LogCount[0] = 0
      /\ \A m, n \in 0..Network!Cardinality(PeerIDs) : m <= n => LogCount[m] <= LogCount[n]
      /\ StabilityTau \in Nat \ {0}
      /\ AmountModulus \in Nat \ {0}
  BY ScoreAssumption, SetsSame, Zenon
<1>4. Network!IsFiniteSet(PeerIDs)
  BY PeersFinite, SetsSame, Zenon
<1> QED BY <1>1, <1>2, <1>3, <1>4, ReplayAssumption, ValueAssumption, TransferAssumption, Zenon

(* transferAmount. *)
LEMMA AmountSame ==
    \A t : Network!transferAmount(t) = transferAmount(t)
BY SMT
   DEF Network!transferAmount, transferAmount, Network!FoldFunction,
       FoldFunction, Network!FoldFunctionOnSet, FoldFunctionOnSet,
       Network!MapThenFoldSet, MapThenFoldSet

(* finalityThreshold. *)
LEMMA ThresholdSame ==
    ASSUME NEW t PROVE Network!finalityThreshold(t) = finalityThreshold(t)
<1>1. Network!transferAmount(t) = transferAmount(t)
  BY AmountSame
<1>2. /\ Network!tierSmallMax = tierSmallMax /\ Network!tierMediumMax = tierMediumMax
      /\ Network!thresholdSmall = thresholdSmall /\ Network!thresholdMedium = thresholdMedium
      /\ Network!thresholdLarge = thresholdLarge
  BY DEF Network!tierSmallMax, tierSmallMax, Network!tierMediumMax, tierMediumMax,
         Network!thresholdSmall, thresholdSmall, Network!thresholdMedium, thresholdMedium,
         Network!thresholdLarge, thresholdLarge, Network!Scale, Scale
<1> QED BY <1>1, <1>2, SMT DEF Network!finalityThreshold, finalityThreshold

(* The components of a score. *)
LEMMA ComponentsSame ==
    ASSUME NEW s, NEW time, NEW v, NEW t
    PROVE  /\ Network!rankByArrival(s, v, t) = rankByArrival(s, v, t)
           /\ Network!propagationScore(s, t) = propagationScore(s, t)
           /\ Network!timeStability(s, time, t) = timeStability(s, time, t)
           /\ Network!neighborhood(s, t) = neighborhood(s, t)
           /\ Network!conflictCleanliness(s, v, t) = conflictCleanliness(s, v, t)
<1>1. Network!rankByArrival(s, v, t) = rankByArrival(s, v, t)
  <2>1. \A u : Network!arrivedBefore(s, u, t) <=> arrivedBefore(s, u, t)
    BY Zenon DEF Network!arrivedBefore, arrivedBefore
  <2>2. {u \in s.conflictSets[v] : Network!arrivedBefore(s, u, t)}
            = {u \in s.conflictSets[v] : arrivedBefore(s, u, t)}
    BY <2>1
  <2> QED BY <2>2, SetsSame, Zenon DEF Network!rankByArrival, rankByArrival
<1>2. Network!propagationScore(s, t) = propagationScore(s, t)
  BY SetsSame, Zenon DEF Network!propagationScore, propagationScore
<1>3. Network!timeStability(s, time, t) = timeStability(s, time, t)
  BY SMT DEF Network!timeStability, timeStability, Network!Scale, Scale
<1>4. Network!proofWeight(s, t) = proofWeight(s, t)
  <2>1. \A D : Network!supporting(s, t, D) = supporting(s, t, D)
    BY DEF Network!supporting, supporting
  <2>2. \A D : Network!Cardinality(Network!supporting(s, t, D)) = Cardinality(supporting(s, t, D))
    BY <2>1, SetsSame, Zenon
  <2> QED BY <2>2, SMT DEF Network!proofWeight, proofWeight
<1>5. Network!neighborhood(s, t) = neighborhood(s, t)
  BY <1>4, SMT DEF Network!neighborhood, neighborhood, Network!Scale, Scale
<1>6. Network!conflictCleanliness(s, v, t) = conflictCleanliness(s, v, t)
  BY SetsSame, SMT
     DEF Network!conflictCleanliness, conflictCleanliness, Network!Scale, Scale
<1> QED BY <1>1, <1>2, <1>3, <1>5, <1>6

(* scoreTx. *)
LEMMA ScoreSame ==
    ASSUME NEW s, NEW time, NEW v, NEW t
    PROVE  Network!scoreTx(s, time, v, t) = scoreTx(s, time, v, t)
<1>1. /\ Network!rankByArrival(s, v, t) = rankByArrival(s, v, t)
      /\ Network!propagationScore(s, t) = propagationScore(s, t)
      /\ Network!timeStability(s, time, t) = timeStability(s, time, t)
      /\ Network!neighborhood(s, t) = neighborhood(s, t)
      /\ Network!conflictCleanliness(s, v, t) = conflictCleanliness(s, v, t)
  BY ComponentsSame
<1>2. /\ Network!Scale = Scale
      /\ Network!weightFirstSeen = weightFirstSeen
      /\ Network!weightPropagation = weightPropagation
      /\ Network!weightTime = weightTime /\ Network!weightProof = weightProof
      /\ Network!weightConflict = weightConflict
  BY DEF Network!Scale, Scale, Network!weightFirstSeen, weightFirstSeen,
         Network!weightPropagation, weightPropagation, Network!weightTime, weightTime,
         Network!weightProof, weightProof, Network!weightConflict, weightConflict
<1> QED BY <1>1, <1>2, Zenon DEF Network!scoreTx, scoreTx

(* selectBest. *)
LEMMA BestSame ==
    ASSUME NEW s, NEW time, NEW v
    PROVE  Network!selectBest(s, time, v) = selectBest(s, time, v)
<1> DEFINE c == {scoreTx(s, time, v, t) : t \in s.conflictSets[v]}
           d == {Network!scoreTx(s, time, v, t) : t \in s.conflictSets[v]}
           pick(X) == CHOOSE best \in X :
                          \A other \in X \ {best} : Network!betterScore(best, other)
<1>1. c = d
  BY ScoreSame
<1>2. selectBest(s, time, v) = pick(c)
  BY Zenon DEF selectBest, betterScore, Network!betterScore
<1>3. Network!selectBest(s, time, v) = pick(d)
  BY Zenon DEF Network!selectBest
<1> HIDE DEF c, d, pick
<1> QED BY <1>1, <1>2, <1>3

(* updateFinalityForTransfer, what it stores. *)
LEMMA FinalitySame ==
    ASSUME NEW s, NEW time, NEW t
    PROVE  Network!finalityOf(s, time, t) = finalityOf(s, time, t)
<1>1. Network!finalityThreshold(t) = finalityThreshold(t)
  BY ThresholdSame
<1>2. Network!lostInputs(s, t) = lostInputs(s, t)
  BY Zenon DEF Network!lostInputs, lostInputs
<1>3. Network!selectedOnAllInputs(s, t) = selectedOnAllInputs(s, t)
  BY <1>2, Zenon DEF Network!selectedOnAllInputs, selectedOnAllInputs
<1>4. Network!lineageScore(s, t) = lineageScore(s, t)
  <2> DEFINE n(lost) == IF lost = {} THEN Len(TxInputs[t])
                        ELSE (CHOOSE i \in lost : \A j \in lost : i <= j) - 1
             score(lost) == IF n(lost) = 0 THEN 0
                            ELSE s.selectedLineage[TxInputs[t][n(lost)]].score
  <2>1. lineageScore(s, t) = score(lostInputs(s, t))
    BY Zenon DEF lineageScore
  <2>2. Network!lineageScore(s, t) = score(Network!lostInputs(s, t))
    BY Zenon DEF Network!lineageScore
  <2> HIDE DEF score
  <2> QED BY <1>2, <2>1, <2>2
<1>5. Network!computeConfidence(s, time, t) = computeConfidence(s, time, t)
  <2>1. /\ Network!propagationScore(s, t) = propagationScore(s, t)
        /\ Network!timeStability(s, time, t) = timeStability(s, time, t)
        /\ Network!neighborhood(s, t) = neighborhood(s, t)
    BY ComponentsSame
  <2>2. /\ Network!confidencePropagation = confidencePropagation
        /\ Network!confidenceTime = confidenceTime /\ Network!confidenceProof = confidenceProof
    BY DEF Network!confidencePropagation, confidencePropagation, Network!confidenceTime,
           confidenceTime, Network!confidenceProof, confidenceProof
  <2> QED BY <2>1, <2>2, Zenon DEF Network!computeConfidence, computeConfidence
<1> QED BY <1>1, <1>3, <1>4, <1>5, Zenon DEF Network!finalityOf, finalityOf

(* updateFinalityForTransfer, the entries it refreshes. *)
LEMMA UpdateSame ==
    ASSUME NEW s, NEW time, NEW txs
    PROVE  Network!updateFinality(s, time, txs) = updateFinality(s, time, txs)
<1>1. \A u : Network!finalityOf(s, time, u) = finalityOf(s, time, u)
  BY FinalitySame
<1> QED BY <1>1, SMT DEF Network!updateFinality, updateFinality

(* recomputeSelectionForTransfer. *)
LEMMA RecomputeSame ==
    ASSUME NEW s, NEW time, NEW t
    PROVE  Network!recomputeSelectionForTransfer(s, time, t)
               = recomputeSelectionForTransfer(s, time, t)
<1>1. Network!Inputs(t) = Inputs(t)
  BY Zenon DEF Network!Inputs, Inputs, Network!Range, Range
<1>2. ASSUME NEW in
      PROVE  Network!recomputeSelectionForInputs(s, time, in)
                 = recomputeSelectionForInputs(s, time, in)
  <2>1. \A v : Network!selectBest(s, time, v) = selectBest(s, time, v)
    BY BestSame
  <2> QED BY <2>1, SMT DEF Network!recomputeSelectionForInputs, recomputeSelectionForInputs
<1>3. Network!contenders(s, t) = contenders(s, t)
  BY <1>1, Zenon DEF Network!contenders, contenders
<1>4. \A q, txs : Network!updateFinality(q, time, txs) = updateFinality(q, time, txs)
  BY UpdateSame
<1> QED BY <1>1, <1>2, <1>3, <1>4, Zenon
        DEF Network!recomputeSelectionForTransfer, recomputeSelectionForTransfer

(* upsertTransfer. *)
LEMMA StoreSame ==
    ASSUME NEW s, NEW time, NEW t, NEW sig, NEW from
    PROVE  Network!upsertTransfer(s, time, t, sig, from) = upsertTransfer(s, time, t, sig, from)
<1>1. Network!Inputs(t) = Inputs(t)
  BY Zenon DEF Network!Inputs, Inputs, Network!Range, Range
<1>2. Network!insertTransfer(s, time, t, sig) = insertTransfer(s, time, t, sig)
  BY <1>1, Zenon DEF Network!insertTransfer, insertTransfer, Network!Put, Put, Network!Range, Range
<1>3. Network!Stored(s) = Stored(s)
  BY DEF Network!Stored, Stored
<1>4. \A q : Network!observePeer(q, t, from) = observePeer(q, t, from)
  BY Zenon DEF Network!observePeer, observePeer
<1> QED BY <1>2, <1>3, <1>4, Zenon DEF Network!upsertTransfer, upsertTransfer

(* validateTransfer. *)
LEMMA ValidSame ==
    ASSUME NEW s, NEW time, NEW t, NEW sig
    PROVE  Network!validateTransfer(s, time, t, sig) = validateTransfer(s, time, t, sig)
<1>1. Network!Inputs(t) = Inputs(t)
  BY Zenon DEF Network!Inputs, Inputs, Network!Range, Range
<1>2. Network!signedByOwner(s, t, sig) = signedByOwner(s, t, sig)
  BY <1>1, Zenon DEF Network!signedByOwner, signedByOwner
<1>3. /\ Network!IsInjective(TxInputs[t]) = IsInjective(TxInputs[t])
      /\ Network!Range(TxOutputs[t]) = Range(TxOutputs[t])
  BY Zenon DEF Network!IsInjective, IsInjective, Network!Range, Range
<1> QED BY <1>2, <1>3, Zenon DEF Network!validateTransfer, validateTransfer

(* The announcement to all peers but one. *)
LEMMA AnnounceSame ==
    ASSUME NEW s, NEW t, NEW skip
    PROVE  Network!announce(s, t, skip) = announce(s, t, skip)
<1>1. Network!peerIDsExcept(s, skip) = peerIDsExcept(s, skip)
  <2> DEFINE ids == s.peers \ {skip}
             pick(n) == CHOOSE list \in [1..n -> ids] :
                            \A i, j \in 1..n : i < j => precedes(list[i], list[j])
  <2>1. peerIDsExcept(s, skip) = pick(Cardinality(ids))
    BY Zenon DEF peerIDsExcept
  <2>2. Network!peerIDsExcept(s, skip) = pick(Network!Cardinality(ids))
    BY Zenon DEF Network!peerIDsExcept, precedes, Network!precedes
  <2> HIDE DEF pick, ids
  <2> QED BY <2>1, <2>2, SetsSame
<1> QED BY <1>1, Zenon DEF Network!announce, announce, Network!INV, INV

(* handleTX. *)
LEMMA HandleTXSame ==
    ASSUME NEW s, NEW time, NEW from, NEW t, NEW sig
    PROVE  Network!handleTX(s, time, from, t, sig) = handleTX(s, time, from, t, sig)
<1>1. /\ Network!upsertTransfer(s, time, t, sig, from) = upsertTransfer(s, time, t, sig, from)
      /\ Network!validateTransfer(s, time, t, sig) = validateTransfer(s, time, t, sig)
      /\ Network!Stored(s) = Stored(s)
  BY StoreSame, ValidSame DEF Network!Stored, Stored
<1> DEFINE q == recomputeSelectionForTransfer(
                    upsertTransfer(s, time, t, sig, from), time, t)
<1>2. q = Network!recomputeSelectionForTransfer(
              Network!upsertTransfer(s, time, t, sig, from), time, t)
  BY <1>1, RecomputeSame, Zenon
<1> HIDE DEF q
<1>3. Network!announce(q, t, from) = announce(q, t, from)
  BY AnnounceSame
<1>4. Network!handleTX(s, time, from, t, sig) =
        CASE ~validateTransfer(s, time, t, sig) -> Reply(s, <<>>)
          [] validateTransfer(s, time, t, sig) /\ t \in Stored(s) -> Reply(q, <<>>)
          [] OTHER -> Reply(q, announce(q, t, from))
  BY <1>1, <1>2, <1>3, Zenon DEF Network!handleTX, Network!Reply, Reply
<1>5. handleTX(s, time, from, t, sig) =
        CASE ~validateTransfer(s, time, t, sig) -> Reply(s, <<>>)
          [] validateTransfer(s, time, t, sig) /\ t \in Stored(s) -> Reply(q, <<>>)
          [] OTHER -> Reply(q, announce(q, t, from))
  BY Zenon DEF handleTX, q
<1> QED BY <1>4, <1>5

(* handleProofResponse. *)
LEMMA HandleProofSame ==
    ASSUME NEW s, NEW time, NEW from, NEW m
    PROVE  Network!handleProofResponse(s, time, from, m) = handleProofResponse(s, time, from, m)
<1> DEFINE p == [seen |-> m.seen, conflict |-> m.conflict, distance |-> m.distance]
           q == updateProof(s, m.tx, from, p)
<1>1. q = Network!updateProof(s, m.tx, from, p)
  BY Zenon DEF Network!updateProof, updateProof, Network!Put, Put
<1>2. Network!Stored(s) = Stored(s)
  BY DEF Network!Stored, Stored
<1>3. Network!handleProofResponse(s, time, from, m) =
        [st |-> IF m.tx \in Stored(s)
                THEN Network!recomputeSelectionForTransfer(q, time, m.tx) ELSE q,
         out |-> <<>>]
  BY <1>1, <1>2, Zenon DEF Network!handleProofResponse, Network!Reply
<1>4. handleProofResponse(s, time, from, m) =
        [st |-> IF m.tx \in Stored(s)
                THEN recomputeSelectionForTransfer(q, time, m.tx) ELSE q,
         out |-> <<>>]
  BY Zenon DEF handleProofResponse, Reply
<1> HIDE DEF q
<1>5. Network!recomputeSelectionForTransfer(q, time, m.tx)
          = recomputeSelectionForTransfer(q, time, m.tx)
  BY RecomputeSame
<1> QED BY <1>3, <1>4, <1>5

(* OnMessage. *)
LEMMA DispatchSame ==
    ASSUME NEW s, NEW time, NEW from, NEW m
    PROVE  Network!dispatch(s, time, from, m) = dispatch(s, time, from, m)
<1>1. Network!Stored(s) = Stored(s)
  BY DEF Network!Stored, Stored
<1>2. Network!handleINV(s, from, m.tx) = handleINV(s, from, m.tx)
  BY <1>1, Zenon DEF Network!handleINV, handleINV, Network!Reply, Reply, Network!GET, GET
<1>3. Network!handleGET(s, from, m.tx) = handleGET(s, from, m.tx)
  BY <1>1, Zenon DEF Network!handleGET, handleGET, Network!Reply, Reply, Network!TX, TX
<1>4. Network!handleTX(s, time, from, m.tx, m.sig) = handleTX(s, time, from, m.tx, m.sig)
  BY HandleTXSame
<1>5. Network!handleProofRequest(s, from, m.tx) = handleProofRequest(s, from, m.tx)
  <2>1. Network!hasConflict(s, m.tx) = hasConflict(s, m.tx)
    <3>1. Network!Inputs(m.tx) = Inputs(m.tx)
      BY Zenon DEF Network!Inputs, Inputs, Network!Range, Range
    <3> QED BY <1>1, <3>1, SetsSame, Zenon DEF Network!hasConflict, hasConflict
  <2> QED BY <1>1, <2>1, Zenon DEF Network!handleProofRequest, handleProofRequest,
                                   Network!Reply, Reply, Network!PROOF_RESP, PROOF_RESP
<1>6. Network!handleProofResponse(s, time, from, m) = handleProofResponse(s, time, from, m)
  BY HandleProofSame
<1>7. Network!Reply(s, <<>>) = Reply(s, <<>>)
  BY DEF Network!Reply, Reply
<1> QED BY <1>2, <1>3, <1>4, <1>5, <1>6, <1>7, Zenon DEF Network!dispatch, dispatch

(* AcceptLocalTransfer. *)
LEMMA AcceptSame ==
    ASSUME NEW s, NEW time, NEW t, NEW sig
    PROVE  Network!AcceptLocalTransfer(s, time, t, sig) = AcceptLocalTransfer(s, time, t, sig)
<1> DEFINE c == ConsumeInputs(s, t)
           q == recomputeSelectionForTransfer(
                    upsertTransfer(c, time, t, sig, Local), time, t)
<1>1. Network!Inputs(t) = Inputs(t)
  BY Zenon DEF Network!Inputs, Inputs, Network!Range, Range
<1>2. c = Network!ConsumeInputs(s, t)
  BY <1>1, Zenon DEF Network!ConsumeInputs, ConsumeInputs
<1> HIDE DEF c
<1>3. q = Network!recomputeSelectionForTransfer(
              Network!upsertTransfer(Network!ConsumeInputs(s, t), time, t, sig, Local), time, t)
  <2>1. Network!upsertTransfer(c, time, t, sig, Local) = upsertTransfer(c, time, t, sig, Local)
    BY StoreSame
  <2> QED BY <1>2, <2>1, RecomputeSame, Zenon
<1> HIDE DEF q
<1>4. Network!announce(q, t, Local) = announce(q, t, Local)
  BY AnnounceSame
<1>5. Network!canAcceptLocal(s, time, t, sig) = canAcceptLocal(s, time, t, sig)
  BY <1>1, ValidSame, Zenon DEF Network!canAcceptLocal, canAcceptLocal
<1>6. Network!AcceptLocalTransfer(s, time, t, sig) =
        IF canAcceptLocal(s, time, t, sig) THEN Reply(q, announce(q, t, Local)) ELSE Reply(s, <<>>)
  BY <1>3, <1>4, <1>5, Zenon DEF Network!AcceptLocalTransfer, Network!Reply, Reply
<1>7. AcceptLocalTransfer(s, time, t, sig) =
        IF canAcceptLocal(s, time, t, sig) THEN Reply(q, announce(q, t, Local)) ELSE Reply(s, <<>>)
  BY Zenon DEF AcceptLocalTransfer, q, c
<1> QED BY <1>6, <1>7

----------------------------------------------------------------------------
(* The inductive invariant, as far as it is not that of the network.       *)

Channels == [PeerIDs -> [PeerIDs -> Seq(Network!Messages)]]

\* A mutex is taken as long as there is something to write.
HoldOK(h) ==
    /\ DOMAIN h = {"by", "out"}
    /\ h.by \in PeerIDs \cup {Nobody}
    /\ h.out \in Seq(Network!Outgoing) /\ Network!OnePerPeer(h.out)
    /\ h.by = Nobody <=> h.out = <<>>

LinkType ==
    /\ buf \in Channels
    /\ inbox \in Channels /\ \A n, p \in PeerIDs : Len(inbox[n][p]) <= 1
    /\ DOMAIN hold = PeerIDs /\ \A n \in PeerIDs : HoldOK(hold[n])

LinkInv == LinkType /\ Network!NetworkInv

----------------------------------------------------------------------------
(* Sequences, and what is still to be written.                             *)

(* A sequence is its head and its tail. *)
LEMMA HeadThenTail ==
    ASSUME NEW S, NEW seq \in Seq(S), seq # <<>>
    PROVE  /\ Head(seq) \in S /\ Tail(seq) \in Seq(S)
           /\ <<Head(seq)>> \o Tail(seq) = seq
OBVIOUS

(* Nothing put before or behind a sequence. *)
LEMMA EmptyEnds ==
    ASSUME NEW S, NEW seq \in Seq(S)
    PROVE  <<>> \o seq = seq /\ seq \o <<>> = seq
OBVIOUS

(* The empty sequence is the one of length zero. *)
LEMMA EmptySeq ==
    ASSUME NEW S, NEW seq \in Seq(S)
    PROVE  seq = <<>> <=> Len(seq) = 0
OBVIOUS

(* A sequence with one element is that element. *)
LEMMA OnlyFrame ==
    ASSUME NEW S, NEW seq \in Seq(S), seq # <<>>, Len(seq) <= 1
    PROVE  seq[1] \in S /\ seq = <<seq[1]>>
<1>1. Len(seq) = 1
  <2>1. Len(seq) \in Nat /\ Len(seq) # 0
    BY EmptySeq
  <2> QED BY <2>1
<1>2. seq[1] \in S
  BY <1>1
<1>3. <<seq[1]>> \in Seq(S) /\ Len(<<seq[1]>>) = 1 /\ <<seq[1]>>[1] = seq[1]
  BY <1>2
<1>4. \A i \in 1..Len(seq) : seq[i] = <<seq[1]>>[i]
  BY <1>1, <1>3
<1> DEFINE one == <<seq[1]>>
<1> HIDE DEF one
<1>5. seq = one
  <2>1. seq = [i \in 1..Len(seq) |-> seq[i]]
    OBVIOUS
  <2>2. one = [i \in 1..Len(one) |-> one[i]]
    BY DEF one
  <2>3. Len(one) = Len(seq) /\ \A i \in 1..Len(seq) : seq[i] = one[i]
    BY <1>1, <1>3, <1>4 DEF one
  <2> QED BY <2>1, <2>2, <2>3, Zenon
<1> QED BY <1>2, <1>5 DEF one

(* Nothing follows the only element. *)
LEMMA TailEmpty ==
    ASSUME NEW S, NEW seq \in Seq(S), seq # <<>>
    PROVE  Tail(seq) = <<>> <=> Len(seq) = 1
<1>1. Tail(seq) \in Seq(S) /\ Len(Tail(seq)) = Len(seq) - 1 /\ Len(seq) \in Nat
  OBVIOUS
<1> DEFINE rest == Tail(seq)
<1>2. rest = <<>> <=> Len(rest) = 0
  <2> HIDE DEF rest
  <2>1. rest \in Seq(S)
    BY <1>1 DEF rest
  <2> QED BY <2>1, EmptySeq
<1> QED BY <1>1, <1>2

(* Concatenation is associative and adds up the lengths. *)
LEMMA Associates ==
    ASSUME NEW S, NEW a \in Seq(S), NEW b \in Seq(S), NEW c \in Seq(S)
    PROVE  /\ a \o b \in Seq(S)
           /\ (a \o b) \o c = a \o (b \o c)
           /\ Len(a \o b) = Len(a) + Len(b)
OBVIOUS

(* Appending is concatenating one element. *)
LEMMA Appended ==
    ASSUME NEW S, NEW seq \in Seq(S), NEW m \in S
    PROVE  Append(seq, m) = seq \o <<m>> /\ <<m>> \in Seq(S) /\ Append(seq, m) \in Seq(S)
OBVIOUS

(* A reply has one message for a peer, so that is the one still to be written
   to it. *)
LEMMA ToSendIs ==
    ASSUME NEW out, Network!OnePerPeer(out), NEW j \in DOMAIN out
    PROVE  toSend(out, out[j].to) = <<out[j].msg>>
<1> DEFINE mine == {i \in DOMAIN out : out[i].to = out[j].to}
<1>1. mine = {j}
  BY DEF Network!OnePerPeer
<1>2. toSend(out, out[j].to) = IF mine = {} THEN <<>> ELSE <<out[CHOOSE i \in mine : TRUE].msg>>
  BY DEF toSend
<1> HIDE DEF mine
<1>3. (CHOOSE i \in mine : TRUE) = j
  BY <1>1
<1> QED BY <1>1, <1>2, <1>3

(* A reply without a message for q leaves q nothing to wait for. *)
LEMMA ToSendNone ==
    ASSUME NEW out, NEW q, \A i \in DOMAIN out : out[i].to # q
    PROVE  toSend(out, q) = <<>>
<1>1. {i \in DOMAIN out : out[i].to = q} = {}
  OBVIOUS
<1> QED BY <1>1 DEF toSend

(* Once everything is written there is nothing left for anyone. *)
LEMMA ToSendNothing == \A q : toSend(<<>>, q) = <<>>
<1>1. DOMAIN <<>> = {}
  OBVIOUS
<1> QED BY <1>1, ToSendNone

(* What is to be written to a peer is at most one message. *)
LEMMA ToSendType ==
    ASSUME NEW out \in Seq(Network!Outgoing), Network!OnePerPeer(out), NEW q
    PROVE  toSend(out, q) \in Seq(Network!Messages) /\ Len(toSend(out, q)) <= 1
<1>1. CASE \A i \in DOMAIN out : out[i].to # q
  <2>1. toSend(out, q) = <<>>
    BY <1>1, ToSendNone
  <2> QED BY <2>1
<1>2. CASE \E i \in DOMAIN out : out[i].to = q
  <2>1. PICK j \in DOMAIN out : out[j].to = q
    BY <1>2
  <2>2. out[j] \in Network!Outgoing
    OBVIOUS
  <2> DEFINE m == out[j].msg
  <2>3. m \in Network!Messages
    BY <2>2 DEF Network!Outgoing
  <2>4. toSend(out, q) = <<m>>
    BY <2>1, ToSendIs
  <2> HIDE DEF m
  <2> QED BY <2>3, <2>4
<1> QED BY <1>1, <1>2

\* The first message is written.
LEMMA ToSendFirst ==
    ASSUME NEW out \in Seq(Network!Outgoing), Network!OnePerPeer(out), out # <<>>
    PROVE  /\ out[1] \in Network!Outgoing /\ 1 \in DOMAIN out
           /\ Tail(out) \in Seq(Network!Outgoing) /\ Network!OnePerPeer(Tail(out))
           /\ toSend(out, out[1].to) = <<out[1].msg>>
           /\ toSend(Tail(out), out[1].to) = <<>>
           /\ \A q : q # out[1].to => toSend(Tail(out), q) = toSend(out, q)
<1> DEFINE n == Len(out)
           t == Tail(out)
<1>1. /\ n \in Nat /\ n > 0 /\ DOMAIN out = 1..n /\ out[1] \in Network!Outgoing
      /\ t \in Seq(Network!Outgoing) /\ DOMAIN t = 1..(n - 1)
      /\ \A i \in 1..(n - 1) : t[i] = out[i + 1]
  OBVIOUS
<1> HIDE DEF n, t
<1>2. \A i \in DOMAIN t : i + 1 \in DOMAIN out /\ t[i] = out[i + 1] /\ i + 1 # 1 /\ i \in Nat
  BY <1>1
<1>3. 1 \in DOMAIN out /\ \A i \in DOMAIN out : i # 1 => i - 1 \in DOMAIN t /\ t[i - 1] = out[i]
  BY <1>1
<1>4. ASSUME NEW i \in DOMAIN t, NEW j \in DOMAIN t, t[i].to = t[j].to PROVE i = j
  <2>1. i + 1 = j + 1
    BY <1>2, <1>4 DEF Network!OnePerPeer
  <2> QED BY <1>2, <2>1
<1>5. Network!OnePerPeer(t)
  BY <1>4 DEF Network!OnePerPeer
<1>6. toSend(out, out[1].to) = <<out[1].msg>>
  BY <1>3, ToSendIs
<1>7. toSend(t, out[1].to) = <<>>
  <2>1. \A i \in DOMAIN t : t[i].to # out[1].to
    BY <1>2, <1>3 DEF Network!OnePerPeer
  <2> QED BY <2>1, ToSendNone
<1>8. ASSUME NEW q, q # out[1].to PROVE toSend(t, q) = toSend(out, q)
  <2>1. CASE \E i \in DOMAIN out : out[i].to = q
    <3>1. PICK i \in DOMAIN out : out[i].to = q
      BY <2>1
    <3>2. i # 1
      BY <1>8, <3>1
    <3> DEFINE j == i - 1
    <3>3. j \in DOMAIN t /\ t[j] = out[i]
      BY <1>3, <3>2
    <3> HIDE DEF j
    <3>4. toSend(t, q) = <<t[j].msg>>
      BY <1>5, <3>1, <3>3, ToSendIs
    <3>5. toSend(out, q) = <<out[i].msg>>
      BY <3>1, ToSendIs
    <3> QED BY <3>3, <3>4, <3>5
  <2>2. CASE \A i \in DOMAIN out : out[i].to # q
    <3>1. \A i \in DOMAIN t : t[i].to # q
      BY <1>2, <2>2
    <3> QED BY <2>2, <3>1, ToSendNone
  <2> QED BY <2>1, <2>2
<1> QED BY <1>1, <1>3, <1>5, <1>6, <1>7, <1>8 DEF t

----------------------------------------------------------------------------
(* The steps that the network does not see: a frame is read, a message is  *)
(* written.                                                                *)

(* The three parts of a line are lists of messages. *)
LEMMA LineType ==
    ASSUME LinkType, NEW p \in PeerIDs, NEW q \in PeerIDs
    PROVE  /\ inbox[q][p] \in Seq(Network!Messages) /\ Len(inbox[q][p]) <= 1
           /\ buf[p][q] \in Seq(Network!Messages)
           /\ HoldOK(hold[p]) /\ hold[p].out \in Seq(Network!Outgoing)
           /\ toSend(hold[p].out, q) \in Seq(Network!Messages)
<1>1. /\ inbox[q][p] \in Seq(Network!Messages) /\ Len(inbox[q][p]) <= 1
      /\ buf[p][q] \in Seq(Network!Messages) /\ HoldOK(hold[p])
  BY DEF LinkType, Channels
<1>2. hold[p].out \in Seq(Network!Outgoing) /\ Network!OnePerPeer(hold[p].out)
  BY <1>1 DEF HoldOK
<1> QED BY <1>1, <1>2, ToSendType

(* A step that leaves every line and every node as they are is no step of the
   network. *)
LEMMA SameLines ==
    ASSUME \A p, q \in PeerIDs : line(p, q)' = line(p, q), UNCHANGED node
    PROVE  UNCHANGED Network!vars
<1>1. lines' = lines
  BY DEF lines
<1> QED BY <1>1 DEF Network!vars, none

(* A read loop that takes a frame off the connection moves it within its line. *)
LEMMA ReadStep ==
    ASSUME LinkType, NEW n \in PeerIDs, NEW p \in PeerIDs, ReadFrame(n, p)
    PROVE  LinkType' /\ UNCHANGED Network!vars
<1> DEFINE b == buf[p][n]
           h == Head(b)
<1>1. /\ inbox[n][p] = <<>> /\ b # <<>>
      /\ inbox' = [inbox EXCEPT ![n][p] = <<h>>]
      /\ buf' = [buf EXCEPT ![p][n] = Tail(b)]
      /\ UNCHANGED node /\ UNCHANGED hold
  BY DEF ReadFrame, reading, LinkType, Channels
<1>2. b \in Seq(Network!Messages) /\ toSend(hold[p].out, n) \in Seq(Network!Messages)
  BY LineType
<1> HIDE DEF b
<1>3. h \in Network!Messages /\ Tail(b) \in Seq(Network!Messages) /\ <<h>> \o Tail(b) = b
  BY <1>1, <1>2, HeadThenTail
<1> HIDE DEF h
<1>4. <<h>> \in Seq(Network!Messages) /\ Len(<<h>>) = 1
  BY <1>3
<1>5. /\ inbox' \in Channels /\ inbox'[n][p] = <<h>>
      /\ \A x, y \in PeerIDs : x # n \/ y # p => inbox'[x][y] = inbox[x][y]
  BY <1>1, <1>4, Zenon DEF LinkType, Channels
<1>6. /\ buf' \in Channels /\ buf'[p][n] = Tail(b)
      /\ \A x, y \in PeerIDs : x # p \/ y # n => buf'[x][y] = buf[x][y]
  BY <1>1, <1>3, Zenon DEF LinkType, Channels
<1>7. ASSUME NEW x \in PeerIDs, NEW y \in PeerIDs PROVE Len(inbox'[x][y]) <= 1
  <2>1. 1 <= 1
    OBVIOUS
  <2> QED BY <1>4, <1>5, <2>1, Zenon DEF LinkType
<1>8. LinkType'
  BY <1>1, <1>5, <1>6, <1>7, Zenon DEF LinkType
<1>9. ASSUME NEW x \in PeerIDs, NEW y \in PeerIDs PROVE line(x, y)' = line(x, y)
  <2>1. CASE x = p /\ y = n
    <3> DEFINE w == toSend(hold[p].out, n)
    <3>1. <<>> \o b = b
      BY <1>2, EmptyEnds
    <3>2. line(x, y) = <<>> \o b \o w
      BY <1>1, <2>1, Zenon DEF line, b
    <3>3. line(x, y)' = <<h>> \o Tail(b) \o w
      BY <1>1, <1>5, <1>6, <2>1, Zenon DEF line
    <3> QED BY <1>3, <3>1, <3>2, <3>3, Zenon
  <2>2. CASE x # p \/ y # n
    BY <1>1, <1>5, <1>6, <2>2, Zenon DEF line
  <2> QED BY <2>1, <2>2
<1> QED BY <1>1, <1>8, <1>9, SameLines

(* A write that returns moves the message within its line. *)
LEMMA WriteStep ==
    ASSUME LinkType, NEW n \in PeerIDs, Send(n)
    PROVE  LinkType' /\ UNCHANGED Network!vars
<1> DEFINE out == hold[n].out
           q == out[1].to
           m == out[1].msg
           rest == Tail(out)
<1>1. /\ out # <<>>
      /\ buf' = [buf EXCEPT ![n][q] = Append(@, m)]
      /\ hold' = [hold EXCEPT ![n] = IF Len(out) = 1 THEN Free
                                     ELSE [hold[n] EXCEPT !.out = rest]]
      /\ UNCHANGED node /\ UNCHANGED inbox
  <2>1. /\ out # <<>>
        /\ buf' = [buf EXCEPT ![n][q] = Append(@, m)]
        /\ UNCHANGED node /\ UNCHANGED inbox
    BY Zenon DEF Send
  <2>2. hold' = [hold EXCEPT ![n] = IF Len(out) = 1 THEN Free
                                     ELSE [hold[n] EXCEPT !.out = rest]]
    BY Zenon DEF Send
  <2> QED BY <2>1, <2>2, Zenon
<1>2. HoldOK(hold[n]) /\ DOMAIN hold = PeerIDs
  BY DEF LinkType
<1>3. out \in Seq(Network!Outgoing) /\ Network!OnePerPeer(out)
  BY <1>2 DEF HoldOK
<1>4. /\ out[1] \in Network!Outgoing
      /\ rest \in Seq(Network!Outgoing) /\ Network!OnePerPeer(rest)
      /\ toSend(out, q) = <<m>> /\ toSend(rest, q) = <<>>
      /\ \A y : y # q => toSend(rest, y) = toSend(out, y)
  <2> HIDE DEF out
  <2> QED BY <1>1, <1>3, ToSendFirst
<1>5. q \in PeerIDs /\ m \in Network!Messages
  <2> HIDE DEF out
  <2> QED BY <1>4 DEF Network!Outgoing
<1>6. /\ HoldOK(hold'[n]) /\ hold'[n].out = rest
      /\ \A x \in PeerIDs : x # n => hold'[x] = hold[x]
      /\ DOMAIN hold' = PeerIDs
  <2> DEFINE h == IF Len(out) = 1 THEN Free ELSE [hold[n] EXCEPT !.out = rest]
  <2>1. hold' = [hold EXCEPT ![n] = h]
    BY <1>1, Zenon
  <2>2. CASE Len(out) = 1
    <3>1. rest = <<>>
      <4> HIDE DEF out
      <4> QED BY <1>1, <1>3, <2>2, TailEmpty
    <3>2. h = [by |-> Nobody, out |-> <<>>]
      BY <2>2 DEF Free
    <3>3. DOMAIN h = {"by", "out"} /\ h.by = Nobody /\ h.out = <<>>
      BY <3>2
    <3> HIDE DEF h, rest
    <3>4. HoldOK(h) /\ h.out = rest
      BY <1>4, <3>1, <3>3 DEF HoldOK
    <3> QED BY <1>2, <2>1, <3>4
  <2>3. CASE Len(out) # 1
    <3>1. rest # <<>>
      <4> HIDE DEF out
      <4> QED BY <1>1, <1>3, <2>3, TailEmpty
    <3>2. h = [hold[n] EXCEPT !.out = rest]
      BY <2>3
    <3>3. /\ DOMAIN hold[n] = {"by", "out"} /\ hold[n].by \in PeerIDs \cup {Nobody}
          /\ hold[n].by # Nobody
      BY <1>1, <1>2 DEF HoldOK
    <3> HIDE DEF h, rest, out
    <3>4. DOMAIN h = {"by", "out"} /\ h.by = hold[n].by /\ h.out = rest
      BY <3>2, <3>3
    <3>5. HoldOK(h)
      BY <1>4, <3>1, <3>3, <3>4 DEF HoldOK
    <3> QED BY <1>2, <2>1, <3>4, <3>5
  <2> QED BY <2>2, <2>3
<1>7. /\ buf[n][q] \in Seq(Network!Messages) /\ inbox[q][n] \in Seq(Network!Messages)
  BY <1>5, LineType
<1> HIDE DEF m, q, rest
<1>8. /\ Append(buf[n][q], m) = buf[n][q] \o <<m>> /\ <<m>> \in Seq(Network!Messages)
      /\ Append(buf[n][q], m) \in Seq(Network!Messages)
  BY <1>5, <1>7, Appended
<1>9. /\ buf' \in Channels /\ buf'[n][q] = Append(buf[n][q], m)
      /\ \A x, y \in PeerIDs : x # n \/ y # q => buf'[x][y] = buf[x][y]
  <2>1. buf' = [buf EXCEPT ![n][q] = Append(buf[n][q], m)]
    BY <1>1, <1>5 DEF LinkType, Channels
  <2> QED BY <1>5, <1>8, <2>1, Zenon DEF LinkType, Channels
<1>10. LinkType'
  <2>1. \A x \in PeerIDs : HoldOK(hold'[x])
    BY <1>6 DEF LinkType
  <2> QED BY <1>1, <1>6, <1>9, <2>1, Zenon DEF LinkType
<1>11. ASSUME NEW x \in PeerIDs, NEW y \in PeerIDs PROVE line(x, y)' = line(x, y)
  <2>1. CASE x = n /\ y = q
    <3> DEFINE i == inbox[q][n]
               b == buf[n][q]
    <3>1. line(x, y) = i \o b \o <<m>>
      BY <1>4, <2>1, Zenon DEF line, out
    <3>2. line(x, y)' = i \o (b \o <<m>>) \o <<>>
      BY <1>1, <1>4, <1>6, <1>8, <1>9, <2>1, Zenon DEF line
    <3>3. i \o b \o <<m>> = i \o (b \o <<m>>) /\ i \o (b \o <<m>>) \in Seq(Network!Messages)
      <4>1. i \in Seq(Network!Messages) /\ b \in Seq(Network!Messages)
            /\ <<m>> \in Seq(Network!Messages)
        BY <1>7, <1>8
      <4> HIDE DEF i, b
      <4>2. i \o b \o <<m>> = i \o (b \o <<m>>) /\ b \o <<m>> \in Seq(Network!Messages)
        BY <4>1, Associates
      <4> QED BY <4>1, <4>2, Associates
    <3>4. i \o (b \o <<m>>) \o <<>> = i \o (b \o <<m>>)
      BY <3>3, EmptyEnds
    <3> QED BY <3>1, <3>2, <3>3, <3>4, Zenon
  <2>2. CASE x = n /\ y # q
    <3>1. toSend(rest, y) = toSend(hold[n].out, y)
      BY <1>4, <2>2
    <3> HIDE DEF out
    <3> QED BY <1>1, <1>6, <1>9, <2>2, <3>1, ZenonT(60) DEF line
  <2>3. CASE x # n
    BY <1>1, <1>6, <1>9, <2>3, ZenonT(60) DEF line
  <2> QED BY <2>1, <2>2, <2>3
<1> QED BY <1>1, <1>10, <1>11, SameLines

----------------------------------------------------------------------------
(* The steps that are those of the network: a frame is handled, a transfer *)
(* is submitted.                                                           *)

\* What n's handler has to write stands at the end of its lines.
Acted(n, out, ch) ==
    \A p, q \in PeerIDs :
        line(p, q)' = IF p = n THEN ch[p][q] \o toSend(out, q) ELSE ch[p][q]

\* ch is what is on every line before that.
Before(ch) ==
    \A p, q \in PeerIDs : ch[p][q] = inbox'[q][p] \o buf[p][q] \o toSend(hold[p].out, q)

\* Whatever a handler has to write is on its way.
LEMMA AllSent ==
    ASSUME NEW n \in PeerIDs, NEW out \in Seq(Network!Outgoing), NEW ch \in Channels,
           Acted(n, out, ch)
    PROVE  Network!send(n, out, ch)
<1>0. \A p, q \in PeerIDs :
          line(p, q)' = IF p = n THEN ch[p][q] \o toSend(out, q) ELSE ch[p][q]
  BY Zenon DEF Acted
<1> DEFINE k == Len(out)
           w(q) == Network!written(n, out, k, q)
<1>1. k \in 0..Len(out) /\ ~(k < Len(out)) /\ 1..k = DOMAIN out
  OBVIOUS
<1>2. ASSUME NEW q \in PeerIDs PROVE w(q) = toSend(out, q)
  <2>1. ~Network!unreachable(n, q)
    BY DEF Network!unreachable
  <2> DEFINE mine(D) == {i \in D : out[i].to = q}
             first(D) == IF mine(D) = {} THEN <<>> ELSE <<out[CHOOSE i \in mine(D) : TRUE].msg>>
  <2>2. toSend(out, q) = first(DOMAIN out)
    BY Zenon DEF toSend
  <2>3. w(q) = first(1..k)
    <3> DEFINE d == 1..k
    <3>1. w(q) = IF Network!unreachable(n, q) \/ {i \in d : out[i].to = q} = {} THEN <<>>
                 ELSE <<out[CHOOSE i \in {i \in d : out[i].to = q} : TRUE].msg>>
      BY Zenon DEF Network!written
    <3> QED BY <2>1, <3>1, Zenon
  <2> HIDE DEF first, w, k
  <2> QED BY <1>1, <2>2, <2>3
<1> HIDE DEF w, k
<1>3. lines' = [ch EXCEPT ![n] = [q \in PeerIDs |-> ch[n][q] \o w(q)]]
  <2> DEFINE new == [ch EXCEPT ![n] = [q \in PeerIDs |-> ch[n][q] \o w(q)]]
  <2>1. /\ new = [p \in PeerIDs |-> new[p]]
        /\ new[n] = [q \in PeerIDs |-> ch[n][q] \o w(q)]
        /\ \A p \in PeerIDs : p # n => new[p] = ch[p]
    BY DEF Channels
  <2>2. \A p \in PeerIDs : ch[p] = [q \in PeerIDs |-> ch[p][q]]
    BY DEF Channels
  <2> HIDE DEF new
  <2>3. ASSUME NEW p \in PeerIDs PROVE new[p] = [q \in PeerIDs |-> line(p, q)']
    <3>1. CASE p = n
      <4>1. \A q \in PeerIDs : line(p, q)' = ch[n][q] \o w(q)
        BY <1>0, <1>2, <3>1, Zenon
      <4> QED BY <2>1, <3>1, <4>1, Zenon
    <3>2. CASE p # n
      <4>1. \A q \in PeerIDs : line(p, q)' = ch[p][q]
        BY <1>0, <3>2, Zenon
      <4>2. new[p] = ch[p]
        BY <2>1, <3>2
      <4> QED BY <2>2, <4>1, <4>2, Zenon
    <3> QED BY <3>1, <3>2
  <2>4. lines' = [p \in PeerIDs |-> [q \in PeerIDs |-> line(p, q)']]
    BY DEF lines
  <2>5. new = [p \in PeerIDs |-> [q \in PeerIDs |-> line(p, q)']]
    BY <2>1, <2>3, Zenon
  <2> QED BY <2>4, <2>5, Zenon DEF new
<1>4. lines' = [ch EXCEPT ![n] = [q \in PeerIDs |-> @[q] \o w(q)]]
  BY <1>3 DEF Channels
<1>5. {}' = IF k < Len(out) THEN {} \ {<<n, out[k+1].to>>} ELSE {}
  BY <1>1
<1>6. /\ k < Len(out) => Network!unreachable(n, out[k+1].to)
      /\ lines' = [ch EXCEPT ![n] = [q \in PeerIDs |-> @[q] \o Network!written(n, out, k, q)]]
  BY <1>1, <1>4 DEF w
<1> QED BY <1>1, <1>5, <1>6, Zenon DEF Network!send

\* The mutex of n is taken for a handler with this reply.
LEMMA RunFacts ==
    ASSUME LinkType, DOMAIN node = PeerIDs, NEW n \in PeerIDs, NEW by \in PeerIDs,
           NEW reply, reply.out \in Seq(Network!Outgoing), Network!OnePerPeer(reply.out),
           run(n, by, reply)
    PROVE  /\ hold[n].out = <<>> /\ hold'[n].out = reply.out
           /\ \A x \in PeerIDs : x # n => hold'[x] = hold[x]
           /\ DOMAIN hold' = PeerIDs /\ \A x \in PeerIDs : HoldOK(hold'[x])
           /\ node' = [node EXCEPT ![n] = reply.st]
<1> DEFINE h == IF reply.out = <<>> THEN Free ELSE [by |-> by, out |-> reply.out]
<1>1. /\ hold[n] = Free /\ node' = [node EXCEPT ![n] = reply.st]
      /\ hold' = [hold EXCEPT ![n] = h]
  BY DEF run
<1>2. DOMAIN h = {"by", "out"} /\ h.out = reply.out /\ h.by \in PeerIDs \cup {Nobody}
      /\ (h.by = Nobody <=> h.out = <<>>)
  <2>1. CASE reply.out = <<>>
    <3>1. h = [by |-> Nobody, out |-> <<>>]
      BY <2>1 DEF Free
    <3> QED BY <2>1, <3>1
  <2>2. CASE reply.out # <<>>
    <3>1. h = [by |-> by, out |-> reply.out] /\ by # Nobody
      BY <2>2, LinkAssumption
    <3> QED BY <2>2, <3>1
  <2> QED BY <2>1, <2>2
<1> HIDE DEF h
<1>3. HoldOK(h)
  BY <1>2 DEF HoldOK
<1>4. hold[n].out = <<>>
  BY <1>1 DEF Free
<1>5. DOMAIN hold = PeerIDs /\ \A x \in PeerIDs : HoldOK(hold[x])
  BY DEF LinkType
<1> QED BY <1>1, <1>2, <1>3, <1>4, <1>5, Zenon

\* n had nothing to write and has out to write now.
LEMMA ActedLines ==
    ASSUME LinkType, NEW n \in PeerIDs, NEW out,
           hold[n].out = <<>>, hold'[n].out = out,
           \A x \in PeerIDs : x # n => hold'[x] = hold[x],
           UNCHANGED buf, inbox' \in Channels, NEW ch, Before(ch)
    PROVE  Acted(n, out, ch)
<1> SUFFICES ASSUME NEW p \in PeerIDs, NEW q \in PeerIDs
             PROVE  line(p, q)' = IF p = n THEN ch[p][q] \o toSend(out, q) ELSE ch[p][q]
  BY DEF Acted
<1>0. \A x, y \in PeerIDs : ch[x][y] = inbox'[y][x] \o buf[x][y] \o toSend(hold[x].out, y)
  BY DEF Before
<1>1. CASE p = n
  <2> DEFINE i == inbox'[q][n]
             b == buf[n][q]
  <2>1. i \in Seq(Network!Messages) /\ b \in Seq(Network!Messages)
    BY LineType DEF Channels
  <2>2. ch[n][q] = i \o b \o <<>>
    <3>1. toSend(hold[n].out, q) = <<>>
      BY ToSendNothing, Zenon
    <3>2. ch[n][q] = inbox'[q][n] \o buf[n][q] \o toSend(hold[n].out, q)
      BY <1>0
    <3> QED BY <3>1, <3>2, Zenon
  <2>3. line(n, q)' = i \o b \o toSend(out, q)
    BY Zenon DEF line
  <2> HIDE DEF i, b
  <2>4. i \o b \in Seq(Network!Messages)
    BY <2>1, Associates
  <2>5. i \o b \o <<>> = i \o b
    BY <2>4, EmptyEnds
  <2> QED BY <1>1, <2>2, <2>3, <2>5, Zenon
<1>2. CASE p # n
  BY <1>0, <1>2, Zenon DEF line
<1> QED BY <1>1, <1>2

(* A handler is a delivery: the frame in hand is the first of its line, and all
   that the handler will write is appended to the lines at once. *)
LEMMA HandleStep ==
    ASSUME LinkInv, NEW n \in PeerIDs, NEW p \in PeerIDs, Handle(n, p)
    PROVE  LinkType' /\ Network!Deliver(p, n)
<1> DEFINE i == inbox[n][p]
           m == i[1]
           rest == buf[p][n] \o toSend(hold[p].out, n)
           r == dispatch(node[n], 0, p, m)
           out == r.out
           ch == [lines EXCEPT ![p][n] = Tail(@)]
<1>1. /\ i # <<>> /\ run(n, p, r)
      /\ inbox' = [inbox EXCEPT ![n][p] = <<>>] /\ UNCHANGED buf
  BY DEF Handle
<1>2. /\ LinkType /\ DOMAIN node = PeerIDs /\ Network!NodeInv(node[n], 0)
      /\ lines \in Channels
  BY DEF LinkInv, Network!NetworkInv, Network!NetworkType, Network!Channels, Channels
<1>3. /\ i \in Seq(Network!Messages) /\ Len(i) <= 1
      /\ buf[p][n] \in Seq(Network!Messages)
      /\ toSend(hold[p].out, n) \in Seq(Network!Messages)
  BY <1>2, LineType
<1>4. rest \in Seq(Network!Messages)
  BY <1>3, Associates
<1>5. lines[p][n] = i \o buf[p][n] \o toSend(hold[p].out, n)
  BY DEF lines, line
<1>6. i \o buf[p][n] \o toSend(hold[p].out, n) = i \o rest
  <2> DEFINE b == buf[p][n]
             w == toSend(hold[p].out, n)
  <2> HIDE DEF i
  <2>1. b \in Seq(Network!Messages) /\ w \in Seq(Network!Messages)
    BY <1>3
  <2> HIDE DEF b, w
  <2>2. i \o b \o w = i \o (b \o w)
    BY <1>3, <2>1, Associates, SMTT(30)
  <2> QED BY <2>2 DEF b, w
<1> HIDE DEF i, rest
<1>7. i = <<m>> /\ m \in Network!Messages
  BY <1>1, <1>3, OnlyFrame
<1>8. r = Network!dispatch(node[n], 0, p, m)
  BY DispatchSame
<1> HIDE DEF m
<1>9. lines[p][n] # <<>> /\ Head(lines[p][n]) = m /\ Tail(lines[p][n]) = rest
  <2>1. <<m>> \o rest # <<>> /\ Head(<<m>> \o rest) = m /\ Tail(<<m>> \o rest) = rest
    BY <1>4, <1>7
  <2>2. lines[p][n] = <<m>> \o rest
    BY <1>5, <1>6, <1>7
  <2> QED BY <2>1, <2>2
<1>10. out \in Seq(Network!Outgoing) /\ Network!OnePerPeer(out)
  <2>1. 0 \in Nat
    OBVIOUS
  <2>2. LET x == Network!dispatch(node[n], 0, p, m)
        IN  x.out \in Seq(Network!Outgoing) /\ Network!OnePerPeer(x.out)
    BY <1>2, <1>7, <2>1, NetworkConstants, Network!DispatchFacts
  <2> QED BY <1>8, <2>2, Zenon
<1> HIDE DEF r
<1>11. /\ hold[n].out = <<>> /\ hold'[n].out = out
       /\ \A x \in PeerIDs : x # n => hold'[x] = hold[x]
       /\ DOMAIN hold' = PeerIDs /\ \A x \in PeerIDs : HoldOK(hold'[x])
       /\ node' = [node EXCEPT ![n] = r.st]
  BY <1>1, <1>2, <1>10, RunFacts
<1> HIDE DEF out
<1>12. /\ inbox' \in Channels /\ inbox'[n][p] = <<>>
       /\ \A x, y \in PeerIDs : x # n \/ y # p => inbox'[x][y] = inbox[x][y]
  <2>1. <<>> \in Seq(Network!Messages)
    OBVIOUS
  <2> QED BY <1>1, <1>2, <2>1, Zenon DEF LinkType, Channels
<1>13. LinkType'
  <2>1. Len(<<>>) <= 1
    OBVIOUS
  <2>2. \A x, y \in PeerIDs : Len(inbox'[x][y]) <= 1
    BY <1>2, <1>12, <2>1, Zenon DEF LinkType
  <2> QED BY <1>1, <1>2, <1>11, <1>12, <2>2, Zenon DEF LinkType
<1>14. /\ ch \in Channels /\ ch[p][n] = rest
       /\ \A x, y \in PeerIDs : x # p \/ y # n => ch[x][y] = lines[x][y]
  <2>1. ch = [lines EXCEPT ![p][n] = rest]
    BY <1>2, <1>9 DEF Channels
  <2> HIDE DEF ch
  <2> QED BY <1>2, <1>4, <2>1, Zenon DEF Channels
<1> HIDE DEF ch
<1>15. \A x, y \in PeerIDs : ch[x][y] = inbox'[y][x] \o buf[x][y] \o toSend(hold[x].out, y)
  <2> SUFFICES ASSUME NEW x \in PeerIDs, NEW y \in PeerIDs
               PROVE  ch[x][y] = inbox'[y][x] \o buf[x][y] \o toSend(hold[x].out, y)
    OBVIOUS
  <2>1. CASE x = p /\ y = n
    <3>1. <<>> \o buf[p][n] = buf[p][n]
      BY <1>3, EmptyEnds
    <3> QED BY <1>12, <1>14, <2>1, <3>1, Zenon DEF rest
  <2>2. CASE x # p \/ y # n
    <3>1. lines[x][y] = inbox[y][x] \o buf[x][y] \o toSend(hold[x].out, y)
      BY DEF lines, line
    <3> QED BY <1>12, <1>14, <2>2, <3>1, Zenon
  <2> QED BY <2>1, <2>2
<1>16. Acted(n, out, ch)
  <2>1. Before(ch)
    BY <1>15 DEF Before
  <2> QED BY <1>1, <1>2, <1>11, <1>12, <2>1, ActedLines
<1>17. Network!send(n, out, ch)
  BY <1>10, <1>14, <1>16, AllSent
<1>18. Network!Deliver(p, n)
  BY <1>8, <1>9, <1>11, <1>17, Zenon DEF Network!Deliver, ch, out
<1> QED BY <1>13, <1>18

(* A submission is a submission: all announcements are appended at once. *)
LEMMA SubmitStep ==
    ASSUME LinkInv, NEW n \in PeerIDs, NEW t \in TxIDs, NEW sig \in Keys, Submit(n, t, sig)
    PROVE  LinkType' /\ Network!Submit(n, t, sig)
<1> DEFINE r == AcceptLocalTransfer(node[n], 0, t, sig)
           out == r.out
<1>1. run(n, n, r) /\ UNCHANGED buf /\ UNCHANGED inbox
  BY DEF Submit
<1>2. /\ LinkType /\ DOMAIN node = PeerIDs /\ Network!NodeInv(node[n], 0)
      /\ lines \in Channels
  BY DEF LinkInv, Network!NetworkInv, Network!NetworkType, Network!Channels, Channels
<1>3. r = Network!AcceptLocalTransfer(node[n], 0, t, sig)
  BY AcceptSame
<1>4. out \in Seq(Network!Outgoing) /\ Network!OnePerPeer(out)
  <2>1. 0 \in Nat
    OBVIOUS
  <2>2. LET x == Network!AcceptLocalTransfer(node[n], 0, t, sig)
        IN  x.out \in Seq(Network!Outgoing) /\ Network!OnePerPeer(x.out)
    BY <1>2, <2>1, NetworkConstants, Network!SubmitFacts
  <2> QED BY <1>3, <2>2, Zenon
<1> HIDE DEF r
<1>5. /\ hold[n].out = <<>> /\ hold'[n].out = out
      /\ \A x \in PeerIDs : x # n => hold'[x] = hold[x]
      /\ DOMAIN hold' = PeerIDs /\ \A x \in PeerIDs : HoldOK(hold'[x])
      /\ node' = [node EXCEPT ![n] = r.st]
  BY <1>1, <1>2, <1>4, RunFacts
<1> HIDE DEF out
<1>6. LinkType' /\ inbox' \in Channels
  BY <1>1, <1>2, <1>5, Zenon DEF LinkType
<1>7. \A x, y \in PeerIDs : lines[x][y] = inbox'[y][x] \o buf[x][y] \o toSend(hold[x].out, y)
  BY <1>1 DEF lines, line
<1>8. Acted(n, out, lines)
  <2>1. Before(lines)
    BY <1>7 DEF Before
  <2> QED BY <1>1, <1>2, <1>5, <1>6, <2>1, ActedLines
<1>9. Network!send(n, out, lines)
  BY <1>2, <1>4, <1>8, AllSent
<1>10. Network!Submit(n, t, sig)
  BY <1>3, <1>5, <1>9, Zenon DEF Network!Submit, out
<1> QED BY <1>6, <1>10

----------------------------------------------------------------------------
(* The refinement.                                                         *)

(* Every step keeps the invariant and is a step of the network or none. *)
LEMMA StepSimulated ==
    LinkInv /\ [Next]_vars => LinkInv' /\ [Network!Next]_(Network!vars)
<1> SUFFICES ASSUME LinkInv, [Next]_vars
             PROVE  LinkInv' /\ [Network!Next]_(Network!vars)
  OBVIOUS
<1>0. LinkType /\ Network!NetworkInv
  BY DEF LinkInv
<1>1. LinkType' /\ [Network!Next]_(Network!vars)
  <2>1. ASSUME NEW n \in PeerIDs, NEW p \in PeerIDs, ReadFrame(n, p)
        PROVE  LinkType' /\ [Network!Next]_(Network!vars)
    BY <1>0, <2>1, ReadStep
  <2>2. ASSUME NEW n \in PeerIDs, NEW p \in PeerIDs, Handle(n, p)
        PROVE  LinkType' /\ [Network!Next]_(Network!vars)
    <3>1. LinkType' /\ Network!Deliver(p, n)
      BY <2>2, HandleStep
    <3>2. Network!Next
      BY <3>1 DEF Network!Next
    <3> QED BY <3>1, <3>2
  <2>3. ASSUME NEW n \in PeerIDs, NEW t \in Submissions[n], NEW sig \in Keys, Submit(n, t, sig)
        PROVE  LinkType' /\ [Network!Next]_(Network!vars)
    <3>0. t \in TxIDs
      BY LinkAssumption
    <3>1. LinkType' /\ Network!Submit(n, t, sig)
      BY <2>3, <3>0, SubmitStep
    <3>2. Network!Next
      BY <3>1 DEF Network!Next, Network!OtherStep
    <3> QED BY <3>1, <3>2
  <2>4. ASSUME NEW n \in PeerIDs, Send(n)
        PROVE  LinkType' /\ [Network!Next]_(Network!vars)
    BY <1>0, <2>4, WriteStep
  <2>5. CASE UNCHANGED <<node, buf, inbox, hold>>
    <3>1. UNCHANGED node /\ UNCHANGED buf /\ UNCHANGED inbox /\ UNCHANGED hold
      BY <2>5
    <3>2. LinkType'
      BY <1>0, <3>1, Zenon DEF LinkType
    <3>3. \A p, q \in PeerIDs : line(p, q)' = line(p, q)
      BY <3>1, Zenon DEF line
    <3> QED BY <3>1, <3>2, <3>3, SameLines
  <2>6. ASSUME NEW n \in PeerIDs, NEW q \in PeerIDs, Handshake(n, q)
        PROVE  LinkType' /\ [Network!Next]_(Network!vars)
    BY <2>5, <2>6 DEF Handshake
  <2>7. ASSUME NEW n \in PeerIDs, Freeze(n)
        PROVE  LinkType' /\ [Network!Next]_(Network!vars)
    BY <2>5, <2>7 DEF Freeze
  <2>8. CASE UNCHANGED vars
    BY <2>5, <2>8 DEF vars
  <2> QED BY <2>1, <2>2, <2>3, <2>4, <2>6, <2>7, <2>8 DEF Next
<1>2. Network!NetworkInv'
  BY <1>0, <1>1, NetworkConstants, Network!NetworkInvStep
<1> QED BY <1>1, <1>2 DEF LinkInv

(* The first state is one of the network. *)
LEMMA StartSimulated == Init => LinkInv /\ Network!Init
<1> SUFFICES ASSUME Init PROVE LinkInv /\ Network!Init
  OBVIOUS
<1>1. \A x, y \in PeerIDs : buf[x][y] = <<>> /\ inbox[x][y] = <<>>
  BY DEF Init
<1>2. \A x \in PeerIDs : DOMAIN hold[x] = {"by", "out"} /\ hold[x].by = Nobody /\ hold[x].out = <<>>
  BY DEF Init, Free
<1>3. /\ <<>> \in Seq(Network!Messages) /\ <<>> \in Seq(Network!Outgoing) /\ Len(<<>>) = 0
      /\ DOMAIN <<>> = {} /\ <<>> \o <<>> \o <<>> = <<>>
  OBVIOUS
<1>4. Network!OnePerPeer(<<>>)
  BY <1>3 DEF Network!OnePerPeer
<1>5. \A x \in PeerIDs : HoldOK(hold[x])
  BY <1>2, <1>3, <1>4 DEF HoldOK
<1>6. buf \in Channels /\ inbox \in Channels
  BY <1>3, Zenon DEF Init, Channels
<1>7. LinkType
  <2>1. DOMAIN hold = PeerIDs
    BY DEF Init
  <2>2. \A x, y \in PeerIDs : Len(inbox[x][y]) <= 1
    BY <1>1, <1>3
  <2> QED BY <1>5, <1>6, <2>1, <2>2 DEF LinkType
<1>8. \A x, y \in PeerIDs : line(x, y) = <<>>
  BY <1>1, <1>2, <1>3, ToSendNothing, Zenon DEF line
<1>9. Network!Init
  <2>1. lines = [p \in PeerIDs |-> [q \in PeerIDs |-> <<>>]]
    BY <1>8, Zenon DEF lines
  <2>2. node = [n \in PeerIDs |-> Network!Startup(n)]
    BY DEF Init, Network!Startup, NewNode, Network!NewNode, EmptyMap, Network!EmptyMap
  <2> QED BY <2>1, <2>2, Zenon DEF Network!Init, none
<1>10. Network!NetworkInv
  BY <1>9, NetworkConstants, Network!NetworkInvInit
<1> QED BY <1>7, <1>9, <1>10 DEF LinkInv

(* Nodes that block are nodes of the network: with each handler's unwritten
   messages counted as sent, every behaviour of the runtimes is one of
   Web4Gossip's without faults, in which a handler is a single step although
   here it may wait for its peers between two writes. *)
THEOREM LinkImplementsGossip == Spec => Network!Init /\ [][Network!Next]_(Network!vars)
<1>1. Init => LinkInv /\ Network!Init
  BY StartSimulated
<1>2. LinkInv /\ [Next]_vars => LinkInv' /\ [Network!Next]_(Network!vars)
  BY StepSimulated
<1>3. QED
  BY <1>1, <1>2, PTL DEF Spec

(* Evidence is true at nodes that block as well: while a handler waits for room,
   with a part of its reply unwritten, no peer counts for a transfer that it
   does not hold. *)
THEOREM LinkEvidenceTruthful == Spec => []Network!EvidenceTruthful
<1>1. Init => LinkInv
  BY StartSimulated
<1>2. LinkInv /\ [Next]_vars => LinkInv'
  BY StepSimulated
<1>3. LinkInv => Network!EvidenceTruthful
  BY DEF LinkInv, Network!NetworkInv, Network!EvidenceSound, Network!Vouches,
         Network!EvidenceTruthful, Network!supporting, Network!AllHeld
<1>4. QED
  BY <1>1, <1>2, <1>3, PTL DEF Spec

----------------------------------------------------------------------------
(* How much traffic a circle of waiting nodes takes.                       *)

\* Every transfer is the business of one node's user: sendTx signs with the
\* developer key of the node that it runs at.
Apart == \A m, n \in PeerIDs : m # n => Submissions[m] \cap Submissions[n] = {}

(* Multiplication is monotone. *)
LEMMA Scaled ==
    ASSUME NEW k \in Nat, NEW x \in Nat, NEW y \in Nat, x <= y
    PROVE  /\ k * x <= k * y
           /\ k * x \in Nat /\ k * y \in Nat
OBVIOUS

(* The room that frames take on a connection. *)
LEMMA UsedBound ==
    ASSUME LinkType, NEW p \in PeerIDs, NEW q \in PeerIDs
    PROVE  used(p, q) \in Nat /\ used(p, q) <= TxUnits * Len(buf[p][q])
<1> DEFINE b == buf[p][q]
           txs == {i \in DOMAIN b : b[i].type = "TX"}
           c == Cardinality(txs)
           k == TxUnits - 1
<1>1. b \in Seq(Network!Messages)
  BY DEF LinkType, Channels
<1>2. c \in Nat /\ c <= Len(b)
  <2>1. DOMAIN b = 1..Len(b) /\ Len(b) \in Nat
    BY <1>1
  <2> DEFINE L == Len(b)
             D == 1..L
  <2>2. txs \subseteq D
    BY <2>1
  <2>3. L \in Nat
    BY <2>1
  <2> HIDE DEF L, txs
  <2>4. IsFiniteSet(D) /\ Cardinality(D) = L
    BY <2>3, FS_Interval
  <2> HIDE DEF D
  <2>5. IsFiniteSet(txs) /\ Cardinality(txs) <= L
    BY <2>2, <2>4, FS_Subset
  <2> QED BY <2>5, FS_CardinalityType DEF L
<1>3. used(p, q) = Len(b) + k * c
  BY Zenon DEF used
<1>4. k \in Nat /\ TxUnits = k + 1 /\ Len(b) \in Nat
  BY <1>1, LinkAssumption
<1> HIDE DEF b, c, k
<1>5. k * c <= k * Len(b) /\ k * c \in Nat /\ k * Len(b) \in Nat
  <2>1. /\ k * c <= k * Len(b)
        /\ k * c \in Nat /\ k * Len(b) \in Nat
    BY <1>2, <1>4, Scaled
  <2> QED BY <2>1
<1>6. TxUnits * Len(b) = k * Len(b) + Len(b)
  BY <1>4
<1>7. used(p, q) \in Nat /\ used(p, q) <= TxUnits * Len(b)
  BY <1>3, <1>4, <1>5, <1>6
<1> QED BY <1>7 DEF b

\* A writer that is stuck has filled its connection.
LEMMA StuckFull ==
    ASSUME LinkType, NEW n \in PeerIDs, NEW q \in PeerIDs, stuck(n, q)
    PROVE  /\ line(n, q) \in Seq(Network!Messages) /\ Len(line(n, q)) \in Nat \ {0}
           /\ Capacity + 1 <= TxUnits * Len(line(n, q))
<1> DEFINE out == hold[n].out
           m == out[1].msg
           b == buf[n][q]
           i == inbox[q][n]
           L == Len(b)
<1>1. out # <<>> /\ out[1].to = q /\ ~(used(n, q) + units(m) <= Capacity)
  BY Zenon DEF stuck, sendingTo, accepts
<1>2. out \in Seq(Network!Outgoing) /\ Network!OnePerPeer(out)
  BY DEF LinkType, HoldOK
<1>3. toSend(out, q) = <<m>> /\ out[1] \in Network!Outgoing
  <2> HIDE DEF out
  <2> QED BY <1>1, <1>2, ToSendFirst
<1>4. m \in Network!Messages
  <2> HIDE DEF out
  <2> QED BY <1>3 DEF Network!Outgoing
<1>5. b \in Seq(Network!Messages) /\ i \in Seq(Network!Messages)
  BY DEF LinkType, Channels
<1>6. line(n, q) = i \o b \o <<m>>
  BY <1>3, Zenon DEF line
<1> HIDE DEF b, i, m
<1>7. line(n, q) \in Seq(Network!Messages) /\ L \in Nat
      /\ Len(line(n, q)) \in Nat /\ L + 1 <= Len(line(n, q))
  BY <1>4, <1>5, <1>6
<1>8. units(m) \in Nat /\ units(m) <= TxUnits /\ TxUnits \in Nat /\ Capacity \in Nat
  BY LinkAssumption DEF units
<1>9. used(n, q) \in Nat /\ used(n, q) <= TxUnits * L
  BY UsedBound DEF b
<1> HIDE DEF L
<1>10. TxUnits * (L + 1) = TxUnits * L + TxUnits /\ TxUnits * L \in Nat
  BY <1>7, <1>8
<1>11. TxUnits * (L + 1) <= TxUnits * Len(line(n, q)) /\ TxUnits * Len(line(n, q)) \in Nat
  <2>1. L + 1 \in Nat
    BY <1>7
  <2>2. /\ TxUnits * (L + 1) <= TxUnits * Len(line(n, q))
        /\ TxUnits * Len(line(n, q)) \in Nat
    BY <1>7, <1>8, <2>1, Scaled
  <2> QED BY <2>2
<1>12. Capacity + 1 <= TxUnits * Len(line(n, q))
  BY <1>1, <1>8, <1>9, <1>10, <1>11
<1> QED BY <1>7, <1>12

(* Two nodes are all there is: any three of them are not different. *)
LEMMA PairOfNodes ==
    ASSUME TwoNodes
    PROVE  Network!Pair
<1> SUFFICES ASSUME NEW p \in PeerIDs, NEW q \in PeerIDs, NEW r \in PeerIDs,
                    p # q, q # r, p # r
             PROVE  FALSE
  BY DEF Network!Pair
<1> DEFINE one == {p}
           two == {p} \cup {q}
           three == two \cup {r}
<1>1. IsFiniteSet(one) /\ Cardinality(one) = 1
  BY FS_Singleton
<1>2. IsFiniteSet(two) /\ Cardinality(two) = Cardinality(one) + 1
  BY <1>1, FS_AddElement
<1>3. IsFiniteSet(three) /\ Cardinality(three) = Cardinality(two) + 1
  <2>1. r \notin two
    OBVIOUS
  <2> HIDE DEF two
  <2> QED BY <1>2, <2>1, FS_AddElement
<1>4. three \subseteq PeerIDs
  OBVIOUS
<1> HIDE DEF one, two, three
<1>5. Cardinality(three) <= Cardinality(PeerIDs)
  BY <1>4, PeersFinite, FS_Subset
<1> QED BY <1>1, <1>2, <1>3, <1>5 DEF TwoNodes

(* A node that is stuck has a line longer than its connection, and the network
   has no more frames than the traffic explains. *)
LEMMA CircleIsFull ==
    ASSUME LinkType, Network!FloodInv, Network!RouteInv, Apart,
           IsFiniteSet(TxIDs)
    PROVE  CircleNeedsTraffic
<1> DEFINE T == Cardinality(Traffic)
<1>1. /\ Network!IsFiniteSet(TxIDs) /\ Network!NothingLost /\ Network!OneSubmitter
      /\ Network!Circulating = Traffic /\ Network!Cardinality(Traffic) = T
  <2>1. Network!NothingLost
    BY DEF Network!NothingLost, none
  <2>2. \A n \in PeerIDs : Network!Stored(node[n]) = Stored(node[n])
    BY DEF Network!Stored, Stored
  <2>3. Network!Circulating = Traffic
    BY <2>2 DEF Network!Circulating, Traffic
  <2> QED BY <2>1, <2>3, SetsSame DEF Apart, Network!OneSubmitter
<1>2. T \in Nat /\ TxUnits \in Nat /\ Capacity \in Nat
  <2>1. Network!NetworkInv
    BY DEF Network!RouteInv
  <2>2. Network!Cardinality(Network!Circulating) \in Nat
    BY <1>1, <2>1, NetworkConstants, Network!CirculatingFinite
  <2> QED BY <1>1, <2>2, LinkAssumption
<1> HIDE DEF T
<1>3. ASSUME NEW a \in PeerIDs, NEW b \in PeerIDs, stuck(a, b)
      PROVE  /\ a # b /\ Len(line(a, b)) \in Nat
             /\ Capacity + 1 <= TxUnits * Len(line(a, b))
  <2>1. /\ line(a, b) \in Seq(Network!Messages) /\ Len(line(a, b)) \in Nat \ {0}
        /\ Capacity + 1 <= TxUnits * Len(line(a, b))
    BY <1>3, StuckFull
  <2>2. lines[a][b] = line(a, b)
    BY DEF lines
  <2> DEFINE seq == line(a, b)
  <2>3. seq[1] \in Network!Range(seq)
    <3> HIDE DEF seq
    <3>1. 1 \in DOMAIN seq
      BY <2>1 DEF seq
    <3> QED BY <3>1, SetsSame DEF Range
  <2>4. Network!Routed(seq[1], a, b)
    BY <2>2, <2>3 DEF Network!RouteInv, Network!FramesRouted
  <2> QED BY <2>1, <2>4 DEF Network!Routed
<1>4. ASSUME NEW a \in PeerIDs, NEW b \in PeerIDs, stuck(a, b)
      PROVE  2 * TxUnits * T >= Capacity + 1
  <2> DEFINE x == Len(line(a, b))
  <2>1. lines[a][b] = line(a, b)
    BY DEF lines
  <2>2. Len(lines[a][b]) <= 2 * Network!Cardinality(Network!Circulating)
    BY <1>1, NetworkConstants, Network!QueueBound
  <2>3. x <= 2 * T
    BY <1>1, <2>1, <2>2, Zenon
  <2>4. x \in Nat /\ Capacity + 1 <= TxUnits * x
    BY <1>3, <1>4
  <2> HIDE DEF x
  <2>5. 2 * T \in Nat
    BY <1>2
  <2>6. TxUnits * x <= TxUnits * (2 * T) /\ TxUnits * x \in Nat /\ TxUnits * (2 * T) \in Nat
    <3>1. /\ TxUnits * x <= TxUnits * (2 * T)
          /\ TxUnits * x \in Nat /\ TxUnits * (2 * T) \in Nat
      BY <1>2, <2>3, <2>4, <2>5, Scaled
    <3> QED BY <3>1
  <2>7. TxUnits * (2 * T) = 2 * TxUnits * T
    BY <1>2
  <2> QED BY <1>2, <2>4, <2>6, <2>7
<1>5. ASSUME Network!Pair, NEW a \in PeerIDs, NEW b \in PeerIDs, stuck(a, b), stuck(b, a)
      PROVE  TxUnits * T >= 2 * (Capacity + 1)
  <2> DEFINE x == Len(line(a, b))
             y == Len(line(b, a))
  <2>1. lines[a][b] = line(a, b) /\ lines[b][a] = line(b, a)
    BY DEF lines
  <2>2. a # b
    BY <1>3, <1>5
  <2>3. Len(lines[a][b]) + Len(lines[b][a]) <= Network!Cardinality(Network!Circulating)
    BY <1>1, <1>5, <2>2, NetworkConstants, Network!PairBound
  <2>4. x + y <= T
    BY <1>1, <2>1, <2>3, Zenon
  <2>5. /\ x \in Nat /\ Capacity + 1 <= TxUnits * x
        /\ y \in Nat /\ Capacity + 1 <= TxUnits * y
    BY <1>3, <1>5
  <2> HIDE DEF x, y
  <2>6. x + y \in Nat
    BY <2>5
  <2>7. TxUnits * (x + y) <= TxUnits * T
    <3>1. TxUnits * (x + y) <= TxUnits * T
      BY <1>2, <2>4, <2>6, Scaled
    <3> QED BY <3>1
  <2>8. TxUnits * (x + y) = TxUnits * x + TxUnits * y
    BY <1>2, <2>5
  <2>9. TxUnits * x \in Nat /\ TxUnits * y \in Nat /\ TxUnits * T \in Nat
    BY <1>2, <2>5
  <2> QED BY <1>2, <2>5, <2>7, <2>8, <2>9
<1> SUFFICES ASSUME NEW ring \in SUBSET PeerIDs, ring # {},
                    \A n \in ring : \E q \in ring : stuck(n, q)
             PROVE  IF TwoNodes THEN TxUnits * T >= 2 * (Capacity + 1)
                    ELSE 2 * TxUnits * T >= Capacity + 1
  BY DEF CircleNeedsTraffic, circle, T
<1>6. PICK a \in ring : TRUE
  OBVIOUS
<1>7. PICK b \in ring : stuck(a, b)
  OBVIOUS
<1>8. PICK c \in ring : stuck(b, c)
  OBVIOUS
<1>9. CASE TwoNodes
  <2>1. Network!Pair
    BY <1>9, PairOfNodes
  <2>2. a # b /\ b # c
    BY <1>3, <1>7, <1>8
  <2>3. c = a
    BY <2>1, <2>2 DEF Network!Pair
  <2> QED BY <1>5, <1>7, <1>8, <1>9, <2>1, <2>3
<1>10. CASE ~TwoNodes
  BY <1>4, <1>7, <1>10
<1> QED BY <1>9, <1>10

(* What it takes for nodes to wait for one another in a circle, each with its
   mutex in hand (runtime.go's mu around transport.Send, which has no deadline
   on a write), in every topology and whatever the connections hold: between two
   nodes, different transfers that together fill both connections and leave one
   message more in each hand; in a larger network, transfers that fill one
   connection, twice each.  The invariant is the network's, through the
   refinement: at most one conversation per transfer and pair of nodes, and
   frames only where they are asked for. *)
THEOREM CircleNeedsTrafficHolds ==
    ASSUME Apart, IsFiniteSet(TxIDs)
    PROVE  Spec => []CircleNeedsTraffic
<1> DEFINE Inv == LinkInv /\ Network!FloodInv /\ Network!RouteInv
<1>1. Init => Inv
  <2>1. Network!Init => Network!FloodInv
    BY NetworkConstants, Network!FloodInvInit
  <2>2. Network!Init => Network!RouteInv
    BY NetworkConstants, Network!RouteInvInit
  <2> QED BY <2>1, <2>2, StartSimulated
<1>2. Inv /\ [Next]_vars => Inv'
  <2> SUFFICES ASSUME Inv, [Next]_vars PROVE Inv'
    OBVIOUS
  <2>1. LinkInv' /\ [Network!Next]_(Network!vars)
    BY StepSimulated
  <2>2. Network!OneSubmitter /\ {} = {}
    BY DEF Apart, Network!OneSubmitter
  <2>3. Network!FloodInv'
    BY <2>1, <2>2, NetworkConstants, Network!FloodInvStep
  <2>4. Network!RouteInv'
    BY <2>1, <2>2, NetworkConstants, Network!RouteInvStep
  <2> QED BY <2>1, <2>3, <2>4
<1>3. Inv => CircleNeedsTraffic
  BY CircleIsFull DEF LinkInv
<1> HIDE DEF Inv
<1>4. QED
  BY <1>1, <1>2, <1>3, PTL DEF Spec

=============================================================================
