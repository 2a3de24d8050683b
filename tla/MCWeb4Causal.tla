---------------------------- MODULE MCWeb4Causal ----------------------------
(***************************************************************************)
(* An instance of Web4Causal for TLC.  The order of the peers is n1, n2,   *)
(* n3.                                                                     *)
(***************************************************************************)
EXTENDS Web4Causal, TLC

CONSTANTS t1, t2, t3,          \* transfers
          v1, v2, o1, o2, o3,  \* values
          alice, bob,          \* keys
          n1, n2, n3           \* nodes

MCLogCount == [n \in 0..3 |-> <<0, 693147, 1098612, 1386294>>[n + 1]]
MCHashOrder == [t \in TxIDs |-> CASE t = t1 -> 3 [] t = t2 -> 1 [] OTHER -> 2]
MCPeerOrder == <<n1, n2, n3>>
MCAmount == [v \in ValueIDs |-> 10]

NeverExpires == [v \in ValueIDs |-> 0]

(* t1 and t2 compete for v1; t2 also spends v2, and t3 spends t1's output,
   which is bob's. *)
MCInputs == t1 :> <<v1>> @@ t2 :> <<v1, v2>> @@ t3 :> <<o1>>
MCOutputs == [t \in TxIDs |-> CASE t = t1 -> <<o1>> [] t = t2 -> <<o2>> [] OTHER -> <<o3>>]
MCOwner == [v \in ValueIDs |-> IF v = o1 THEN bob ELSE alice]

(* Every node knows every other. *)
Triangle == [n \in PeerIDs |-> PeerIDs \ {n}]

(* n1 was not given v2. *)
MCGenesis == [n \in PeerIDs |-> IF n = n1 THEN {v1} ELSE {v1, v2}]

(* alice submits rivals at two nodes, bob spends what the first one pays him. *)
RivalsAndChild == n1 :> {} @@ n2 :> {t1} @@ n3 :> {t2, t3}

=============================================================================
