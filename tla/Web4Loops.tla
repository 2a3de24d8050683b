---------------------------- MODULE Web4Loops ------------------------------
(***************************************************************************)
(* Web4Selection and Web4Handlers say what the loops of the code compute:  *)
(* a maximum, a set of refreshed entries, an owner.  This module states    *)
(* the loops themselves, one iteration after the other and with their      *)
(* intermediate states, so that TLC can compare the two in every state a   *)
(* node reaches.                                                           *)
(***************************************************************************)
EXTENDS Web4Node

\* rankByArrival: the candidates of an input, sorted by arrival; i - 1 of them
\* come before the i-th.
ranked(s, input) ==
    [i \in 1..Cardinality(s.conflictSets[input]) |->
        CHOOSE t \in s.conflictSets[input] : rankByArrival(s, input, t) = i - 1]

\* selectBest: the running maximum over the ranked candidates.
selectBestLoop(s, now_, input) ==
    LET order == ranked(s, input)
        best[rank \in 0..(Len(order) - 1)] ==
            LET candidate == scoreTx(s, now_, input, order[rank + 1])
            IN  IF rank = 0 THEN candidate
                ELSE IF betterScore(candidate, best[rank - 1]) THEN candidate
                ELSE best[rank - 1]
    IN  best[Len(order) - 1]

\* updateFinalityForTransfer: walk the inputs, stop at the first lost one.
updateFinalityLoop(s, now_, t) ==
    LET inputs     == TxInputs[t]
        won(v)     == v \in DOMAIN s.selectedLineage /\ s.selectedLineage[v].tx = t
        walk[i \in 0..Len(inputs)] ==
            IF i = 0 THEN [selected |-> TRUE, score |-> 0]
            ELSE IF walk[i - 1].selected /\ won(inputs[i])
            THEN [selected |-> TRUE, score |-> s.selectedLineage[inputs[i]].score]
            ELSE [selected |-> FALSE, score |-> walk[i - 1].score]
        end        == walk[Len(inputs)]
        confidence == computeConfidence(s, now_, t)
        state      == [score      |-> end.score,
                       confidence |-> IF end.selected THEN confidence ELSE 0,
                       status     |-> IF ~end.selected THEN "PENDING"
                                      ELSE IF confidence >= finalityThreshold(t)
                                      THEN "FINAL" ELSE "SELECTED"]
    IN  IF t \in Stored(s)
        THEN [s EXCEPT !.finalityState = Put(@, t, state)] ELSE s

recomputeSelectionForInputLoop(s, now_, input) ==
    LET order == ranked(s, input)
        best  == selectBestLoop(s, now_, input)
        refreshed[i \in 0..Len(order)] ==
            IF i = 0
            THEN [s EXCEPT !.selectedLineage =
                     Put(@, input, [tx |-> best.tx, score |-> best.score,
                                    updatedAt |-> now_])]
            ELSE updateFinalityLoop(refreshed[i - 1], now_, order[i])
        kept  == DOMAIN s.selectedLineage \ {input}
    IN  IF s.conflictSets[input] = {}
        THEN [s EXCEPT !.selectedLineage = [v \in kept |-> @[v]]]
        ELSE refreshed[Len(order)]

recomputeSelectionForTransferLoop(s, now_, t) ==
    LET inputs == TxInputs[t]
        recomputed[i \in 0..Len(inputs)] ==
            IF i = 0 THEN s
            ELSE recomputeSelectionForInputLoop(recomputed[i - 1], now_, inputs[i])
    IN  updateFinalityLoop(recomputed[Len(inputs)], now_, t)

\* resolveSigner: NoOwner stands for a nil owner.
resolveSignerLoop(s, t) ==
    LET inputs == TxInputs[t]
        signer[i \in 0..Len(inputs)] ==
            IF i = 0 THEN [ok |-> TRUE, owner |-> NoOwner]
            ELSE IF /\ signer[i - 1].ok
                    /\ inputs[i] \in s.valueStore
                    /\ signer[i - 1].owner \in {NoOwner, ValueOwner[inputs[i]]}
            THEN [ok |-> TRUE, owner |-> ValueOwner[inputs[i]]]
            ELSE [ok |-> FALSE, owner |-> NoOwner]
    IN  signer[Len(inputs)]

----------------------------------------------------------------------------

(* Recomputing the selection of a stored transfer input by input, refreshing
   the finality of the contenders of each input before the next input is
   looked at, ends in the same state as refreshing everything at once. *)
RecomputeMatchesLoop ==
    \A t \in Stored(node) :
        recomputeSelectionForTransferLoop(node, now, t)
            = recomputeSelectionForTransfer(node, now, t)

(* The walk over the inputs that tolerates a nil owner accepts exactly the
   signers signedByOwner accepts, known inputs or not. *)
SignerMatchesLoop ==
    \A t \in TxIDs, sig \in Keys :
        LET signer == resolveSignerLoop(node, t)
        IN  signedByOwner(node, t, sig) <=> (signer.ok /\ signer.owner = sig)

=============================================================================
