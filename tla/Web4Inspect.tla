---------------------------- MODULE Web4Inspect ----------------------------
(***************************************************************************)
(* What a node tells about itself (node/inspect.go): the reports behind    *)
(* the commands "node status", "tx show" and "state ...".  Each is taken   *)
(* from one state of the node, under the runtime's mutex.  A report is a   *)
(* set of entries; their order by ID is left out.                          *)
(***************************************************************************)
EXTENDS Web4Handlers

TransferCount(s) == Cardinality(Stored(s))

\* The map has an entry for every value that some stored transfer spends.
ConflictSetCount(s) == Cardinality({v \in ValueIDs : s.conflictSets[v] # {}})

SelectedLineageCount(s) == Cardinality(DOMAIN s.selectedLineage)

SelectedLineages(s) ==
    {[input |-> v, tx |-> s.selectedLineage[v].tx] : v \in DOMAIN s.selectedLineage}

FinalityEntries(s) ==
    {[tx         |-> t,
      status     |-> s.finalityState[t].status,
      confidence |-> s.finalityState[t].confidence,
      amount     |-> transferAmount(t)] : t \in DOMAIN s.finalityState}

ConflictSetEntries(s) ==
    {[input |-> v, txs |-> s.conflictSets[v]] : v \in {w \in ValueIDs : s.conflictSets[w] # {}}}

Values(s) == s.valueStore

(* That the reports of a node agree with each other: the counts of "node status"
   are the numbers of entries; every contested value has one selected
   transfer, which is among its contenders and has a finality entry; a
   transfer that is reported SELECTED or FINAL is the selected one of all its
   inputs; and what transfers create is among the values. *)
ReportsAgreeIn(s) ==
    /\ TransferCount(s) = Cardinality(FinalityEntries(s))
    /\ ConflictSetCount(s) = SelectedLineageCount(s)
    /\ \A c \in ConflictSetEntries(s) :
          /\ Cardinality({e \in SelectedLineages(s) : e.input = c.input /\ e.tx \in c.txs}) = 1
          /\ \A t \in c.txs : Cardinality({f \in FinalityEntries(s) : f.tx = t}) = 1
    /\ \A f \in FinalityEntries(s) :
          /\ Range(TxOutputs[f.tx]) \subseteq Values(s)
          /\ f.status # "PENDING" =>
                \A v \in Inputs(f.tx) : [input |-> v, tx |-> f.tx] \in SelectedLineages(s)

=============================================================================
