--------------------------- MODULE MCWeb4Control ---------------------------
(***************************************************************************)
(* Instances of Web4Control for TLC: nodes with one control path, a        *)
(* payment at one of them, and a command that asks for a report.           *)
(***************************************************************************)
EXTENDS Web4Control, TLC

CONSTANTS d1, d2, pay, ask, v1, v2, o1, n1, alice, bob, shared

MCTxIDs == [input : {v1}, output : {o1}, timestamp : 0..MaxTime]
MCInputs == [t \in TxIDs |-> <<t.input>>]
MCOutputs == [t \in TxIDs |-> <<t.output>>]
MCHashOrder == [t \in TxIDs |-> t.timestamp]
MCLogCount == [n \in 0..Cardinality(PeerIDs) |-> <<0, 693147, 1098612>>[n + 1]]
MCOwner == [v \in ValueIDs |-> IF v = v2 THEN bob ELSE alice]
MCAmount == [v \in ValueIDs |-> IF v = o1 THEN 25 ELSE 1000000]
MCExpiry == [v \in ValueIDs |-> MaxTime + 1]
MCUnit == [v \in ValueIDs |-> "WEB4"]
MCPeerOrder == <<n1>>
MCSeeded == [d \in Daemons |-> IF d = d1 THEN v1 ELSE v2]
MCRequest == pay :> [input |-> v1, output |-> o1]

(* All meet at web4-cli.sock: it is the path made from the id of d1, which is
   "cli"; d2 and pay are given it as an argument, and ask takes it by default. *)
MCFlag == [x \in Daemons \cup Commands |-> IF x \in {d2, pay} THEN shared ELSE NoPath]
MCDerived == [d \in Daemons |-> shared]

=============================================================================
