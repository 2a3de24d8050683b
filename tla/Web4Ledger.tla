---------------------------- MODULE Web4Ledger -----------------------------
(***************************************************************************)
(* What one node promises its user, with the evidence left out: a ledger   *)
(* of transfers in which rivals are kept side by side, every spent value   *)
(* has one winner, and a transfer can be final only while it wins all of   *)
(* its inputs.  Evidence may move a decision at any time, but only a       *)
(* decision about the inputs of one transfer at a time, and nothing is     *)
(* ever forgotten.                                                         *)
(*                                                                         *)
(* Web4NodeLedger shows that Web4Node implements this specification.       *)
(***************************************************************************)
EXTENDS Integers, Sequences, Functions

CONSTANTS
    TxIDs, ValueIDs,      \* transfers and values
    Keys, NoOwner,        \* owners
    TxInputs, TxOutputs, ValueOwner

VARIABLES
    known,      \* the transfers of the ledger
    values,     \* the values that can be spent
    winner,     \* the winner of each value that is spent
    final       \* the transfers reported as FINAL

vars == <<known, values, winner, final>>

Inputs(t) == Range(TxInputs[t])

\* The transfers of txs that have an input in common with t.
Contenders(txs, t) == {u \in txs : Inputs(u) \cap Inputs(t) # {}}

\* t is in order: it spends something, each value once, creates something,
\* and one key owns what it spends, as far as it has an owner.
WellFormed(t) ==
    /\ TxInputs[t] # <<>> /\ TxOutputs[t] # <<>>
    /\ IsInjective(TxInputs[t])
    /\ \E k \in Keys : /\ \A v \in Inputs(t) : ValueOwner[v] \in {k, NoOwner}
                       /\ \E v \in Inputs(t) : ValueOwner[v] = k

Init ==
    /\ known = {}
    /\ values = {}
    /\ winner = [v \in {} |-> v]
    /\ final = {}

\* The inputs of t are decided anew among the transfers that are known then.
Decide(t) ==
    /\ DOMAIN winner' = DOMAIN winner \cup Inputs(t)
    /\ \A v \in DOMAIN winner' :
          IF v \in Inputs(t)
          THEN winner'[v] \in known' /\ v \in Inputs(winner'[v])
          ELSE winner'[v] = winner[v]
    /\ final' \ Contenders(known', t) = final \ Contenders(known', t)
    /\ final' \subseteq {u \in known' : \A v \in Inputs(u) : winner'[v] = u}

Grant(v) ==
    /\ values' = values \cup {v}
    /\ UNCHANGED <<known, winner, final>>

Learn(t) ==
    /\ t \notin known
    /\ WellFormed(t)
    /\ Inputs(t) \subseteq values
    /\ known' = known \cup {t}
    /\ values' = values \cup Range(TxOutputs[t])
    /\ Decide(t)

Reconsider(t) ==
    /\ t \in known
    /\ Decide(t)
    /\ UNCHANGED <<known, values>>

Next ==
    \/ \E v \in ValueIDs : Grant(v)
    \/ \E t \in TxIDs : Learn(t)
    \/ \E t \in TxIDs : Reconsider(t)

Spec == Init /\ [][Next]_vars

=============================================================================
