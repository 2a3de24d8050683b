--------------------------- MODULE MCWeb4Gossip ----------------------------
(***************************************************************************)
(* Instances of Web4Gossip for TLC.  The order of the peers is n1, n2, n3. *)
(***************************************************************************)
EXTENDS Web4Gossip, TLC

CONSTANTS t1, t2, t3,          \* transfers
          v1, o1, o2, o3,      \* values
          alice, bob,          \* keys
          n1, n2, n3           \* nodes

MCLogCount == [n \in 0..3 |-> <<0, 693147, 1098612, 1386294>>[n + 1]]
MCHashOrder == [t \in TxIDs |-> CASE t = t1 -> 3 [] t = t2 -> 1 [] OTHER -> 2]
MCPeerOrder == <<n1, n2, n3>>
MCAmount == [v \in ValueIDs |-> 10]
NeverExpires == [v \in ValueIDs |-> 0]

(* t1 and t2 compete for v1; t3 spends t1's output, which is bob's. *)
MCInputs == [t \in TxIDs |-> IF t = t3 THEN <<o1>> ELSE <<v1>>]
MCOutputs == [t \in TxIDs |-> CASE t = t1 -> <<o1>> [] t = t2 -> <<o2>> [] OTHER -> <<o3>>]
MCOwner == [v \in ValueIDs |-> IF v = o1 THEN bob ELSE alice]

(* Every node knows every other. *)
Triangle == [n \in PeerIDs |-> PeerIDs \ {n}]

CommonGenesis == [n \in PeerIDs |-> {v1}]

OneTransfer == n1 :> {} @@ n2 :> {} @@ n3 :> {t1}

AskSome == {<<n1, n2, t1>>}
AskNobody == {}

=============================================================================
