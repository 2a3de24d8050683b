----------------------------- MODULE Web4Node ------------------------------
(***************************************************************************)
(* One Web4 node (node/node.go) in an environment that may send it any     *)
(* message from any peer, with any message ID, at any time, and lets its   *)
(* user seed values and submit transfers.  The node handles one call at a  *)
(* time: the runtime holds a mutex around OnMessage and                    *)
(* AcceptLocalTransfer.                                                    *)
(*                                                                         *)
(* What the node sends, and to which peers, is the matter of Web4Gossip;   *)
(* the peer list has no influence on the rest of the state.                *)
(***************************************************************************)
EXTENDS Web4Inspect

CONSTANTS
    Seedable,   \* the values that may be given to SeedValue
    LocalTxs,   \* the transfers this node's own user may submit
    MaxTime     \* bound on the clock

ASSUME NodeAssumption ==
    /\ Seedable \subseteq ValueIDs
    /\ LocalTxs \subseteq TxIDs
    /\ MaxTime \in Nat

VARIABLES
    node,       \* the node's state
    now,        \* the node's clock; it also drives the replay cache
    seeded,     \* history: the values given to SeedValue
    accepted    \* history: the transfers AcceptLocalTransfer has taken

vars == <<node, now, seeded, accepted>>

Init ==
    /\ node = NewNode
    /\ now = 0
    /\ seeded = {}
    /\ accepted = {}

----------------------------------------------------------------------------

Receive(from, id, m) ==
    /\ node' = OnMessage(node, now, from, id, m).st
    /\ UNCHANGED <<now, seeded, accepted>>

ReceiveINV == \E from \in PeerIDs, id \in MsgIDs, t \in TxIDs :
    Receive(from, id, INV(t))

ReceiveGET == \E from \in PeerIDs, id \in MsgIDs, t \in TxIDs :
    Receive(from, id, GET(t))

ReceiveTX == \E from \in PeerIDs, id \in MsgIDs, t \in TxIDs, sig \in Keys :
    Receive(from, id, TX(t, sig))

ReceiveProofRequest == \E from \in PeerIDs, id \in MsgIDs, t \in TxIDs :
    Receive(from, id, PROOF_REQ(t))

ReceiveProofResponse ==
    \E from \in PeerIDs, id \in MsgIDs, t \in TxIDs,
       seen, conflict \in BOOLEAN, distance \in Distances :
        Receive(from, id, PROOF_RESP(t, seen, conflict, distance))

ReceiveAck == \E from \in PeerIDs, id \in MsgIDs : Receive(from, id, ACK)

Submit(t, sig) ==
    /\ node' = AcceptLocalTransfer(node, now, t, sig).st
    /\ accepted' = IF canAcceptLocal(node, now, t, sig)
                   THEN accepted \cup {t} ELSE accepted
    /\ UNCHANGED <<now, seeded>>

Seed(v) ==
    /\ node' = SeedValue(node, v)
    /\ seeded' = seeded \cup {v}
    /\ UNCHANGED <<now, accepted>>

Tick ==
    /\ now < MaxTime
    /\ now' = now + 1
    /\ UNCHANGED <<node, seeded, accepted>>

Next ==
    \/ ReceiveINV
    \/ ReceiveGET
    \/ ReceiveTX
    \/ ReceiveProofRequest
    \/ ReceiveProofResponse
    \/ ReceiveAck
    \/ \E t \in LocalTxs, sig \in Keys : Submit(t, sig)
    \/ \E v \in Seedable : Seed(v)
    \/ Tick

Spec == Init /\ [][Next]_vars

----------------------------------------------------------------------------
(* Properties.                                                             *)

(* Every field of the node has its type. *)
TypeOK ==
    /\ IsNodeState(node)
    /\ now \in Nat
    /\ seeded \in SUBSET Seedable
    /\ accepted \in SUBSET LocalTxs

(* The conflict sets that upsertTransfer builds are exact. *)
ConflictSetsExact == ConflictSetsExactIn(node)

(* Every selection is the one its evidence gives at its UpdatedAt. *)
SelectionReproducible == SelectionReproducibleIn(node, now)

(* Statuses and scores are those of the current selection. *)
FinalityMatchesSelection == FinalityMatchesSelectionIn(node)

(* At most one of two transfers that spend a common value is SELECTED or
   FINAL at this node. *)
NoDoubleSelection == NoDoubleSelectionIn(node)

(* A transfer that was made FINAL some time ago still reaches its threshold
   on the evidence of now. *)
FinalJustified == FinalJustifiedIn(node, now)

(* Values come from somewhere: the value store holds what was seeded and the
   outputs of the stored transfers, and nothing else; every stored transfer
   spends known values and carries the signature of their owner. *)
ValueProvenance ==
    /\ node.valueStore = seeded \cup UNION {Range(TxOutputs[t]) : t \in Stored(node)}
    /\ \A t \in Stored(node) : signedByOwner(node, t, node.txStore[t].sig)

(* The node's own user never spends a value twice: the transfers accepted
   locally have disjoint inputs, which are exactly the consumed values, and
   all of them are stored. *)
LocalSingleUse ==
    /\ accepted \subseteq Stored(node)
    /\ node.consumed = UNION {Inputs(t) : t \in accepted}
    /\ \A t, u \in accepted : t # u => Inputs(t) \cap Inputs(u) = {}

(* What "node status", "tx show" and the state commands tell is consistent
   with each other at any time. *)
ReportsAgree == ReportsAgreeIn(node)

(* FINAL is lost only for a reason: a step takes it from a transfer only if
   the selection of one of its inputs moves to a rival, or a peer replaces
   an earlier proof for it. *)
FinalDemotion ==
    [][\A t \in Stored(node) :
          /\ node.finalityState[t].status = "FINAL"
          /\ node'.finalityState[t].status # "FINAL"
          => \/ \E v \in Inputs(t) : node'.selectedLineage[v].tx # t
             \/ \E p \in DOMAIN node.proofStore[t] :
                    node'.proofStore[t][p] # node.proofStore[t][p]]_vars

\* The exact sum of the amounts of a sequence of values.
totalAmount(values) == FoldFunction(LAMBDA v, sum : sum + ValueAmount[v], 0, values)

(* Age alone finalizes nothing: behind a FINAL transfer there is a peer that
   sent it or vouches for it, and for a transfer whose outputs together leave
   the lowest tier proofs are not enough either: some peer has sent it to this
   node.  A total that does not fit into a uint64 is left out: transferAmount
   wraps, and such a transfer is in whatever tier the remainder belongs to. *)
FinalNeedsPeers ==
    \A t \in Stored(node) :
        node.finalityState[t].status = "FINAL" =>
            \/ node.peerObservations[t] # {}
            \/ /\ supporting(node, t, Distances) # {}
               /\ totalAmount(TxOutputs[t]) \notin tierSmallMax..(AmountModulus - 1)

=============================================================================
