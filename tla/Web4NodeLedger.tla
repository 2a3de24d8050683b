-------------------------- MODULE Web4NodeLedger ---------------------------
(***************************************************************************)
(* A node implements the ledger of Web4Ledger: its stores, with scores,    *)
(* proofs, observations and clocks left out.                               *)
(***************************************************************************)
EXTENDS Web4Node

Ledger == INSTANCE Web4Ledger WITH
    known  <- Stored(node),
    values <- node.valueStore,
    winner <- [v \in DOMAIN node.selectedLineage |-> node.selectedLineage[v].tx],
    final  <- {t \in Stored(node) :
                  t \in DOMAIN node.finalityState /\ node.finalityState[t].status = "FINAL"}

(* Every message, submission and tick is a step of the ledger or none: a
   transfer is learned in order, whole and for good; a message about a
   transfer moves at most the winners of its own inputs; FINAL is reported
   only for a transfer that wins all of its inputs at that moment, and
   changes only together with a decision about one of them. *)
ImplementsLedger == Ledger!Spec

=============================================================================
