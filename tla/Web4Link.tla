----------------------------- MODULE Web4Link ------------------------------
(***************************************************************************)
(* Running nodes whose sends can block: the runtime's mutex                *)
(* (internal/cli/runtime.go) around the handlers of Web4Handlers, which    *)
(* write to their peers while they hold it (transport/tcp.go), over        *)
(* connections that take a bounded amount of data before the other end     *)
(* reads.                                                                  *)
(*                                                                         *)
(* The first send to a peer dials and waits for its handshake (getOrDial,  *)
(* waitReady), which the peer's accept and read loops answer without their *)
(* mutex.  None of these waits has a deadline, so a process that stands    *)
(* still with its connections open (stopped, or cut off) stops those that  *)
(* send to it.                                                             *)
(*                                                                         *)
(* Each node has one read loop per peer and goroutines that serve its      *)
(* user.  A read loop reads a frame, waits for the mutex, and holds it     *)
(* until the last message of the handler's reply is written; while it does *)
(* it does not read.  Web4Gossip is the same network with unbounded        *)
(* connections, in which a handler is one step, and with faults.           *)
(***************************************************************************)
EXTENDS Web4Handlers

CONSTANTS
    Peers,        \* Peers[n]: the peer IDs given to node n
    Genesis,      \* Genesis[n]: the values seeded at node n
    Submissions,  \* Submissions[n]: the transfers n's user may submit
    Capacity,     \* what a connection holds, in units
    TxUnits,      \* the size of a TX frame in units; other frames take one
    MaxFrozen,    \* bound on the number of processes that stop
    Nobody        \* the holder of a free mutex

ASSUME LinkAssumption ==
    /\ Peers \in [PeerIDs -> SUBSET PeerIDs]
    /\ \A n \in PeerIDs : n \notin Peers[n]
    /\ Genesis \in [PeerIDs -> SUBSET ValueIDs]
    /\ Submissions \in [PeerIDs -> SUBSET TxIDs]
    /\ Capacity \in Nat \ {0} /\ TxUnits \in Nat \ {0} /\ MaxFrozen \in Nat
    /\ Nobody \notin PeerIDs

VARIABLES
    node,    \* node[n]: the state of node n
    buf,     \* buf[p][q]: frames on the connection from p to q
    inbox,   \* inbox[n][p]: the frame that n's read loop for p has read and
             \* not yet handled, at most one
    hold,    \* hold[n]: the holder of n's mutex (a peer for its read loop, n
             \* for a goroutine that serves the user) and what it has to send
    ready,   \* the pairs {p, q} whose connection has done its handshake
    frozen   \* the processes that stand still, with their connections open

vars == <<node, buf, inbox, hold, ready, frozen>>

Free == [by |-> Nobody, out |-> <<>>]

Init ==
    /\ node = [n \in PeerIDs |->
                 [NewNode EXCEPT !.peers = Peers[n], !.valueStore = Genesis[n]]]
    /\ buf = [p \in PeerIDs |-> [q \in PeerIDs |-> <<>>]]
    /\ inbox = [n \in PeerIDs |-> [p \in PeerIDs |-> <<>>]]
    /\ hold = [n \in PeerIDs |-> Free]
    /\ ready = {}
    /\ frozen = {}

----------------------------------------------------------------------------
(* The connections.                                                        *)

units(m) == IF m.type = "TX" THEN TxUnits ELSE 1

\* The sum of the units of the frames on the connection.
used(p, q) ==
    LET txs == {i \in DOMAIN buf[p][q] : buf[p][q][i].type = "TX"}
    IN  Len(buf[p][q]) + (TxUnits - 1) * Cardinality(txs)

\* n's read loop for p is in DecodeMessageFrame.
reading(n, p) == inbox[n][p] = <<>> /\ hold[n].by # p

\* A write returns when the whole frame has left: it is on the connection, or
\* a reader is draining it.
accepts(p, q, m) ==
    \/ used(p, q) + units(m) <= Capacity
    \/ buf[p][q] = <<>> /\ reading(q, p) /\ q \notin frozen

----------------------------------------------------------------------------
(* The goroutines of node n.                                               *)

ReadFrame(n, p) ==
    /\ n \notin frozen
    /\ reading(n, p)
    /\ buf[p][n] # <<>>
    /\ inbox' = [inbox EXCEPT ![n][p] = <<Head(buf[p][n])>>]
    /\ buf' = [buf EXCEPT ![p][n] = Tail(@)]
    /\ UNCHANGED <<node, hold, ready, frozen>>

\* The mutex is taken by "by", and released at once if there is nothing to send.
run(n, by, reply) ==
    /\ n \notin frozen
    /\ hold[n] = Free
    /\ node' = [node EXCEPT ![n] = reply.st]
    /\ hold' = [hold EXCEPT ![n] =
                  IF reply.out = <<>> THEN Free ELSE [by |-> by, out |-> reply.out]]

Handle(n, p) ==
    /\ inbox[n][p] # <<>>
    /\ run(n, p, dispatch(node[n], 0, p, inbox[n][p][1]))
    /\ inbox' = [inbox EXCEPT ![n][p] = <<>>]
    /\ UNCHANGED <<buf, ready, frozen>>

Submit(n, t, sig) ==
    /\ run(n, n, AcceptLocalTransfer(node[n], 0, t, sig))
    /\ UNCHANGED <<buf, inbox, ready, frozen>>

\* The holder of n's mutex is in Send to q.
sendingTo(n, q) == hold[n].out # <<>> /\ hold[n].out[1].to = q

\* The connection that n's Send dialled, or found half-way up, becomes ready.
Handshake(n, q) ==
    /\ sendingTo(n, q)
    /\ {n, q} \notin ready /\ {n, q} \cap frozen = {}
    /\ ready' = ready \cup {{n, q}}
    /\ UNCHANGED <<node, buf, inbox, hold, frozen>>

\* Mutant: the last message sent does not release the mutex.
SendKeeping(n) ==
    LET out == hold[n].out
    IN  /\ n \notin frozen
        /\ out # <<>>
        /\ {n, out[1].to} \in ready
        /\ accepts(n, out[1].to, out[1].msg)
        /\ buf' = [buf EXCEPT ![n][out[1].to] = Append(@, out[1].msg)]
        /\ hold' = [hold EXCEPT ![n].out = Tail(@)]
        /\ UNCHANGED <<node, inbox, ready, frozen>>

Send(n) ==
    LET out == hold[n].out
    IN  /\ n \notin frozen
        /\ out # <<>>
        /\ {n, out[1].to} \in ready
        /\ accepts(n, out[1].to, out[1].msg)
        /\ buf' = [buf EXCEPT ![n][out[1].to] = Append(@, out[1].msg)]
        /\ hold' = [hold EXCEPT ![n] = IF Len(out) = 1 THEN Free
                                       ELSE [hold[n] EXCEPT !.out = Tail(out)]]
        /\ UNCHANGED <<node, inbox, ready, frozen>>

\* A process stands still, for good.
Freeze(n) ==
    /\ n \notin frozen /\ Cardinality(frozen) < MaxFrozen
    /\ frozen' = frozen \cup {n}
    /\ UNCHANGED <<node, buf, inbox, hold, ready>>

Next ==
    \/ \E n, p \in PeerIDs : ReadFrame(n, p)
    \/ \E n, p \in PeerIDs : Handle(n, p)
    \/ \E n \in PeerIDs : \E t \in Submissions[n], sig \in Keys : Submit(n, t, sig)
    \/ \E n, q \in PeerIDs : Handshake(n, q)
    \/ \E n \in PeerIDs : Send(n)
    \/ \E n \in PeerIDs : Freeze(n)

\* The only step that empties the inbox is Handle.
handled(n, p) == inbox[n][p] # <<>> /\ inbox'[n][p] = <<>>

(* Fairness: between processes that run, a handshake is answered, a read loop
   reads what has come, a write returns once there is room, and a read loop
   that waits for the mutex gets it in the end: a Go mutex is handed over in
   turn, and the user submits finitely often.  For Handle weak fairness is
   written out, which spares TLC the evaluation of the handlers under
   ENABLED. *)
Fairness ==
    \A n \in PeerIDs :
        /\ WF_vars(Send(n))
        /\ \A p \in PeerIDs :
              /\ WF_vars(Handshake(n, p))
              /\ WF_vars(ReadFrame(n, p))
              /\ \/ []<>(inbox[n][p] = <<>> \/ hold[n] # Free \/ n \in frozen)
                 \/ []<><<handled(n, p)>>_vars

Spec == Init /\ [][Next]_vars /\ Fairness

----------------------------------------------------------------------------
(* Properties.                                                             *)

\* The holder of n's mutex waits for room on the connection to q, and q's read
\* loop for n is not reading.
stuck(n, q) ==
    /\ sendingTo(n, q)
    /\ {n, q} \in ready
    /\ ~accepts(n, q, hold[n].out[1].msg)
    /\ ~reading(q, n)

\* The holder of n's mutex waits for a process that stands still: for its
\* handshake, or for room that it will not make.
abandoned(n, q) ==
    /\ sendingTo(n, q)
    /\ q \in frozen
    /\ {n, q} \notin ready \/ ~accepts(n, q, hold[n].out[1].msg)

\* Nodes each of which waits, mutex in hand, for the next one to read.
circle(ring) == ring # {} /\ \A n \in ring : \E q \in ring : stuck(n, q)

\* n waits for ever: along a chain of waiting nodes that ends in a circle or at
\* a process that stands still.
deadlocked(n) ==
    \E chain \in SUBSET PeerIDs :
        /\ n \in chain
        /\ \A m \in chain : \E q \in PeerIDs : abandoned(m, q) \/ (q \in chain /\ stuck(m, q))

TwoNodes == Cardinality(PeerIDs) = 2

\* The transfers that the users have submitted so far.
Traffic == UNION {Stored(node[n]) : n \in PeerIDs}

(* How much it takes for nodes to wait for one another in a circle, which
   nothing in the code prevents (writes have no deadline, and every handler
   writes under the mutex).  Two nodes have one frame about a transfer between
   them, so that both connections and both hands must be full of different
   transfers; in a larger network a transfer has at most a request and an
   announcement or delivery on each connection.  A user who submits a transfer
   again, or peers that repeat themselves, do not bring the circle nearer. *)
CircleNeedsTraffic ==
    (\E ring \in SUBSET PeerIDs : circle(ring)) =>
        IF TwoNodes THEN TxUnits * Cardinality(Traffic) >= 2 * (Capacity + 1)
                    ELSE 2 * TxUnits * Cardinality(Traffic) >= Capacity + 1

(* There are only two ways for a node to keep its mutex for ever, and with it
   its user's commands waiting: it waits in or for a circle of writers, or for
   a peer that stands still.  A peer that is only slow, a mutex that many wait
   for and a reply to several peers are not among them. *)
MutexReleased ==
    \A n \in PeerIDs :
        hold[n].by # Nobody ~> hold[n].by = Nobody \/ n \in frozen \/ deadlocked(n)

(* A transfer that is submitted reaches every node, although every send can
   block: unless a process stands still, or some node waits for ever. *)
BlockingSpreads ==
    \A t \in TxIDs :
        t \in Traffic ~> \/ \A n \in PeerIDs : t \in Stored(node[n])
                         \/ frozen # {}
                         \/ \E n \in PeerIDs : deadlocked(n)

(* What the documentation of the convergence experiments expects: "Under
   normal network conditions, honest transactions should propagate widely".
   Two nodes whose users submit at the same time can fill the connections
   between them and stop in a circle, although no process and no connection
   has failed. *)
TransactionsPropagate ==
    \A t \in TxIDs : t \in Traffic ~> \A n \in PeerIDs : t \in Stored(node[n])

=============================================================================
