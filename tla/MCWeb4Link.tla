---------------------------- MODULE MCWeb4Link -----------------------------
(***************************************************************************)
(* Instances of Web4Link for TLC: nodes that know each other, and          *)
(* transfers of different values.                                          *)
(***************************************************************************)
EXTENDS Web4Link, TLC

CONSTANTS t1, t2, t3, t4,                  \* transfers
          v1, v2, v3, v4, o1, o2, o3, o4,  \* the values they spend and create
          n1, n2                           \* nodes

MCLogCount == [n \in 0..Cardinality(PeerIDs) |-> <<0, 693147, 1098612, 1386294>>[n + 1]]
MCHashOrder == t1 :> 1 @@ t2 :> 2 @@ t3 :> 3 @@ t4 :> 4
MCPeerOrder == <<n1, n2>>
Zero == [v \in ValueIDs |-> 0]
MCInputs == t1 :> <<v1>> @@ t2 :> <<v2>> @@ t3 :> <<v3>> @@ t4 :> <<v4>>
MCOutputs == t1 :> <<o1>> @@ t2 :> <<o2>> @@ t3 :> <<o3>> @@ t4 :> <<o4>>
MCOwner == [v \in ValueIDs |-> CHOOSE k \in Keys : TRUE]

Everybody == [n \in PeerIDs |-> PeerIDs \ {n}]
CommonGenesis == [n \in PeerIDs |-> {v1, v2, v3, v4}]
MCSubmissions == n1 :> {t1, t2} @@ n2 :> {t3, t4}

=============================================================================
