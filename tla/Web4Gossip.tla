---------------------------- MODULE Web4Gossip -----------------------------
(***************************************************************************)
(* A network of Web4 nodes that exchange INV, GET, TX and proof messages   *)
(* over TCP connections (node/node.go and node/handlers.go over            *)
(* transport/tcp.go).                                                      *)
(*                                                                         *)
(* chan[p][q] holds the frames p has written to q and q has not handled:   *)
(* first in, first out, because p keeps one connection to q and q handles  *)
(* its frames in one read loop.  A frame is handled atomically, under the  *)
(* mutex of the receiver's runtime; what the handler sends is written      *)
(* before the mutex is released.                                           *)
(*                                                                         *)
(* Message IDs are 16 random bytes and no message is sent twice, so the    *)
(* replay cache never drops a message here and OnMessage is dispatch.  The *)
(* cache itself is in Web4Node.                                            *)
(*                                                                         *)
(* Faults: a connection may break, which loses the frames in flight both   *)
(* ways, and a process may stop and be started again at the same address,  *)
(* with the memory of a new process.  Each end notices only when its read  *)
(* loop ends or a write fails.                                             *)
(***************************************************************************)
EXTENDS Web4Handlers

CONSTANTS
    Peers,        \* Peers[n]: the peer IDs given to node n with AddPeerID
    Genesis,      \* Genesis[n]: the values seeded at node n
    Submissions,  \* Submissions[n]: the transfers n's user may submit
    Questions,    \* the <<asker, peer, transfer>> of possible proof requests
    MaxCrashes,   \* bound on how often a process stops
    MaxDrops,     \* bound on the number of connections that break
    MaxTime       \* bound on the clock

ASSUME NetworkAssumption ==
    /\ Peers \in [PeerIDs -> SUBSET PeerIDs]
    /\ \A n \in PeerIDs : n \notin Peers[n]
    /\ Genesis \in [PeerIDs -> SUBSET ValueIDs]
    /\ Submissions \in [PeerIDs -> SUBSET TxIDs]
    /\ Questions \subseteq PeerIDs \X PeerIDs \X TxIDs
    /\ MaxCrashes \in Nat /\ MaxDrops \in Nat /\ MaxTime \in Nat

VARIABLES
    node,     \* node[n]: the state of node n
    chan,     \* chan[p][q]: frames in flight from p to q
    up,       \* the processes that are running
    stale,    \* <<p, q>>: p still holds a connection to q that is broken
    drops,    \* history: how many connections have broken
    crashes,  \* history: how often a process has stopped
    lost,     \* history: lost[n]: the transfers that n held in earlier lives
    now       \* the clock, read by all nodes

vars == <<node, chan, up, stale, drops, crashes, lost, now>>

\* AddPeerID and SeedValue, before the transport starts.
Startup(n) == [NewNode EXCEPT !.peers = Peers[n], !.valueStore = Genesis[n]]

Init ==
    /\ node = [n \in PeerIDs |-> Startup(n)]
    /\ chan = [p \in PeerIDs |-> [q \in PeerIDs |-> <<>>]]
    /\ up = PeerIDs
    /\ stale = {}
    /\ drops = 0
    /\ crashes = 0
    /\ lost = [n \in PeerIDs |-> {}]
    /\ now = 0

Faultless == crashes = 0 /\ drops = 0

\* What n holds, or held before it was started again.
Held(n) == Stored(node[n]) \cup lost[n]

----------------------------------------------------------------------------
(* Sending.  Node.send is called for one message after the other and the   *)
(* first error ends the handler.  A write to a process that has stopped,   *)
(* or to a broken connection, may fail or may still be taken by the kernel *)
(* and lost; a connection whose write failed is dropped, and the next send *)
(* dials again.                                                            *)

unreachable(n, q) == q \notin up \/ <<n, q>> \in stale

\* What of the first k messages of out reaches q.  No handler sends more than
\* one message to a peer.
written(n, out, k, q) ==
    LET mine == {i \in 1..k : out[i].to = q}
    IN  IF unreachable(n, q) \/ mine = {} THEN <<>>
        ELSE <<out[CHOOSE i \in mine : TRUE].msg>>

\* Mutant: later frames overtake earlier ones.
sendOvertaking(n, out, ch) ==
    \E k \in 0..Len(out) :
        /\ k < Len(out) => unreachable(n, out[k+1].to)
        /\ chan' = [ch EXCEPT ![n] = [q \in PeerIDs |-> written(n, out, k, q) \o @[q]]]
        /\ stale' = IF k < Len(out) THEN stale \ {<<n, out[k+1].to>>} ELSE stale

\* n sends out, with the channels in the state ch.
send(n, out, ch) ==
    \E k \in 0..Len(out) :
        /\ k < Len(out) => unreachable(n, out[k+1].to)
        /\ chan' = [ch EXCEPT ![n] = [q \in PeerIDs |-> @[q] \o written(n, out, k, q)]]
        /\ stale' = IF k < Len(out) THEN stale \ {<<n, out[k+1].to>>} ELSE stale

----------------------------------------------------------------------------
(* Steps of the nodes.                                                     *)

Submit(n, t, sig) ==
    LET reply == AcceptLocalTransfer(node[n], now, t, sig)
    IN  /\ n \in up
        /\ node' = [node EXCEPT ![n] = reply.st]
        /\ send(n, reply.out, chan)
        /\ UNCHANGED <<up, drops, crashes, lost, now>>

Deliver(p, q) ==
    /\ q \in up
    /\ chan[p][q] # <<>>
    /\ LET reply == dispatch(node[q], now, p, Head(chan[p][q]))
       IN  /\ node' = [node EXCEPT ![q] = reply.st]
           /\ send(q, reply.out, [chan EXCEPT ![p][q] = Tail(@)])
    /\ UNCHANGED <<up, drops, crashes, lost, now>>

\* A tool asks a peer what it knows of a transfer; no part of the node sends
\* proof requests by itself.  One question at a time, until it is answered.
RequestProof(n, p, t) ==
    /\ n \in up
    /\ chan[n][p] = <<>> /\ chan[p][n] = <<>>
    /\ p \notin DOMAIN node[n].proofStore[t]
    /\ send(n, <<[to |-> p, msg |-> PROOF_REQ(t)]>>, chan)
    /\ UNCHANGED <<node, up, drops, crashes, lost, now>>

----------------------------------------------------------------------------
(* Faults and time.                                                        *)

\* The connections to n break; what n has written may still be read.
Crash(n) ==
    /\ n \in up
    /\ crashes < MaxCrashes
    /\ crashes' = crashes + 1
    /\ up' = up \ {n}
    /\ chan' = [p \in PeerIDs |-> [chan[p] EXCEPT ![n] = <<>>]]
    /\ stale' = {e \in stale : e[1] # n} \cup ((up \ {n}) \X {n})
    /\ UNCHANGED <<node, drops, lost, now>>

\* A node keeps nothing on disk.  What its last process wrote and was not read
\* is read before the frames of the new one, or lost.
Restart(n) ==
    /\ n \notin up
    /\ up' = up \cup {n}
    /\ node' = [node EXCEPT ![n] = Startup(n)]
    /\ lost' = [lost EXCEPT ![n] = Held(n)]
    /\ \E unread \in SUBSET PeerIDs :
          chan' = [chan EXCEPT ![n] = [q \in PeerIDs |-> IF q \in unread THEN <<>> ELSE @[q]]]
    /\ UNCHANGED <<stale, drops, crashes, now>>

Drop(p, q) ==
    /\ drops < MaxDrops
    /\ chan[p][q] # <<>>
    /\ drops' = drops + 1
    /\ chan' = [chan EXCEPT ![p][q] = <<>>, ![q][p] = <<>>]
    /\ stale' = stale \cup {<<p, q>>, <<q, p>>}
    /\ UNCHANGED <<node, up, crashes, lost, now>>

\* p's read loop for q ends and drops the connection.
Notice(p, q) ==
    /\ <<p, q>> \in stale
    /\ stale' = stale \ {<<p, q>>}
    /\ UNCHANGED <<node, chan, up, drops, crashes, lost, now>>

Tick ==
    /\ now < MaxTime
    /\ now' = now + 1
    /\ UNCHANGED <<node, chan, up, stale, drops, crashes, lost>>

OtherStep ==
    \/ \E n \in PeerIDs : \E t \in Submissions[n], sig \in Keys : Submit(n, t, sig)
    \/ \E e \in Questions : RequestProof(e[1], e[2], e[3])
    \/ \E n \in PeerIDs : Crash(n) \/ Restart(n)
    \/ \E p, q \in PeerIDs : Drop(p, q)
    \/ \E p, q \in PeerIDs : Notice(p, q)
    \/ Tick

Next ==
    \/ \E p, q \in PeerIDs : Deliver(p, q)
    \/ OtherStep

\* No frame waits at a running process.
Silent == \A p \in PeerIDs, q \in up : chan[p][q] = <<>>

(* Fairness: a broken connection is noticed, and as long as frames wait at
   running processes some read loop gets to handle one.  The second part is
   the weak fairness of Deliver: some Deliver is enabled exactly in the states
   that are not Silent, and written out it spares TLC the evaluation of every
   handler under ENABLED. *)
Fairness ==
    /\ \A p, q \in PeerIDs : WF_vars(Notice(p, q))
    /\ []<>Silent \/ []<><<\E p, q \in PeerIDs : Deliver(p, q)>>_vars

Spec == Init /\ [][Next]_vars /\ Fairness

----------------------------------------------------------------------------
(* Properties.                                                             *)

(* Every variable has its type. *)
TypeOK ==
    /\ \A n \in PeerIDs : IsNodeState(node[n])
    /\ chan \in [PeerIDs -> [PeerIDs -> Seq(Messages)]]
    /\ up \subseteq PeerIDs
    /\ stale \subseteq PeerIDs \X PeerIDs
    /\ drops \in 0..MaxDrops
    /\ crashes \in 0..MaxCrashes
    /\ lost \in [PeerIDs -> SUBSET TxIDs]
    /\ now \in 0..MaxTime

(* Evidence is true: if a node counts p among the peers that vouch for a
   transfer, by having sent it or by a proof, then p does hold the transfer,
   or held it before its process was started again: nobody withdraws what a
   node said in an earlier life, and handlers never re-check it. *)
EvidenceTruthful ==
    \A n, p \in PeerIDs, t \in TxIDs :
        \/ p \in node[n].peerObservations[t]
        \/ p \in supporting(node[n], t, Distances)
        => t \in Held(p)

\* The number of messages of a type about transfer t that p has sent to q.
inFlight(type, t, p, q) ==
    Cardinality({i \in DOMAIN chan[p][q] :
                    chan[p][q][i].type = type /\ chan[p][q][i].tx = t})

(* Flooding stays thin: a node announces a transfer once in its life to each
   peer, so of the announcement, the request it provokes and the transfer it
   fetches at most one is ever under way between two nodes, in spite of
   duplicates, broken connections, partial broadcasts and processes that stop.
   This is for transfers submitted at one node only, AcceptLocalTransfer
   announces what the node has already learned from a peer, and announced, a
   second time; and for those that no node has forgotten by being started
   again, which it fetches and announces anew. *)
OneConversation ==
    \A p, q \in PeerIDs, t \in TxIDs \ UNION Range(lost) :
        inFlight("INV", t, p, q) + inFlight("GET", t, q, p)
            + inFlight("TX", t, p, q) <= 1

(* One broken connection heals when everybody knows everybody: if it breaks
   after the transfer was announced, the INV, GET or TX that is lost with it
   is never repeated, but the transfer still reaches the node that was cut
   off, over the third node, which announces it on its own account.  A
   connection that was broken before may end the first broadcast. *)
OneBreakHeals ==
    \A t \in TxIDs :
        (Faultless /\ \E n \in PeerIDs : t \in Stored(node[n]))
            ~> ((\A q \in PeerIDs : t \in Stored(node[q])) \/ crashes > 0 \/ drops > 1)

(* The flood ends: the network falls silent after the last submission, with
   failures or without. *)
Quiesces == <>[]Silent

----------------------------------------------------------------------------
(* What the documents claim and the code does not do.                      *)

(* Resilience to partial failure: when some third process stays down and no
   connection has broken, a node still passes what it holds on to each of
   its running peers.  In the code the first peer that cannot be reached
   ends the broadcast. *)
SurvivorsLearn ==
    \A n \in PeerIDs : \A q \in Peers[n], t \in TxIDs :
        (t \in Stored(node[n])) ~>
            (t \in Stored(node[q]) \/ {n, q} \cap up # {n, q} \/ up = PeerIDs \/ drops > 0)

=============================================================================
