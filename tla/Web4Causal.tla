----------------------------- MODULE Web4Causal -----------------------------
(***************************************************************************)
(* The order in which transfers reach the nodes of Web4Gossip, and what    *)
(* becomes of those that a node does not accept.                           *)
(*                                                                         *)
(* handleTX drops a transfer that does not validate, and nobody asks for   *)
(* it again.  A history variable keeps what was dropped, so that one can   *)
(* say why: the nodes of the runtime start from different values (each     *)
(* seeds its own, seedDeveloperValue), and values expire.                  *)
(***************************************************************************)
EXTENDS Web4Gossip

VARIABLE
    refused   \* history: refused[n]: the transfers that were delivered to n
              \* and not stored

cvars == <<vars, refused>>

CausalInit == Init /\ refused = [n \in PeerIDs |-> {}]

CausalDeliver(p, q) ==
    LET m == Head(chan[p][q])
    IN  /\ Deliver(p, q)
        /\ refused' = IF m.type = "TX" /\ m.tx \notin Stored(node'[q])
                      THEN [refused EXCEPT ![q] = @ \cup {m.tx}]
                      ELSE refused

CausalNext ==
    \/ \E p, q \in PeerIDs : CausalDeliver(p, q)
    \/ OtherStep /\ UNCHANGED refused

CausalSpec == CausalInit /\ [][CausalNext]_cvars /\ Fairness

----------------------------------------------------------------------------
(* Properties.                                                             *)

\* Some value created by t has expired.
expired(t) == \E v \in Range(TxOutputs[t]) : ValueExpiry[v] # 0 /\ ValueExpiry[v] <= now

\* v was given to some node when it started.
seed(v) == \E n \in PeerIDs : v \in Genesis[n]

(* Parents first: as long as no process or connection has failed, no transfer
   is refused only because it came too early, even if it spends outputs of
   transfers that were still spreading when it was made.  What a node refuses
   has an output that has expired, or spends a seed that the node was not
   given, or an output of a transfer that this node has refused before.
   handleTX rejects a transfer with an unknown input and nobody asks for it
   again. *)
ParentsFirst ==
    Faultless =>
        \A q \in PeerIDs : \A t \in refused[q] :
            \/ expired(t)
            \/ \E v \in Inputs(t) :
                  \/ seed(v) /\ v \notin Genesis[q]
                  \/ \E u \in refused[q] : v \in Range(TxOutputs[u])

(* What one node holds, all nodes hold in the end, unless something fails or
   some node refuses it; rival transfers spread like any other.  Nodes that
   share their seeds, as in the demo and the tests, refuse only what expires.
   Nodes of the runtime have each their own seed and refuse one another's
   payments: between them nothing of what this promises is left. *)
Propagates ==
    \A t \in TxIDs :
        (\E n \in PeerIDs : t \in Stored(node[n]))
            ~> \/ \A q \in PeerIDs : t \in Stored(node[q])
               \/ \E q \in PeerIDs : t \in refused[q]
               \/ ~Faultless

=============================================================================
