--------------------------- MODULE TCPTransport ----------------------------
(***************************************************************************)
(* One TCPTransport (transport/tcp.go) at the granularity of its locks.    *)
(* The goroutines are the callers of Send, the accept loop, one read loop  *)
(* per connection and a caller of Close.  A step runs from one blocking    *)
(* call or critical section to the next.                                   *)
(*                                                                         *)
(* The other ends are arbitrary: they connect or refuse, send a handshake  *)
(* with any address, send something else, fall silent or close.  The       *)
(* content of frames does not matter here (see Web4Wire).  The handler     *)
(* that a read loop calls with a frame may wait for the runtime's mutex,   *)
(* whose holder may be in Send (see Web4Control): it may never return, and *)
(* the loop reads nothing meanwhile, not even the end of the connection.   *)
(***************************************************************************)
EXTENDS Integers

CONSTANTS
    Addrs,      \* peer addresses, the keys of t.conns
    Senders,    \* goroutines that call Send
    MaxConns    \* bound on the number of connections ever made

ASSUME TransportAssumption ==
    /\ MaxConns \in Nat
    /\ 0 \notin Addrs /\ "none" \notin Addrs /\ "bad" \notin Addrs

Conns == 1..MaxConns    \* tcpConn objects, in the order of their creation
None == 0               \* no connection, no address

(***************************************************************************)
(* Of a connection c, tc[c] has                                            *)
(*   sock    the socket: "free" (not created), "open", "eof" (closed by    *)
(*           the other end) or "closed" (by us)                            *)
(*   hello   the address in the handshake the other end has sent, "none",  *)
(*           or "bad" for a handshake that does not decode                 *)
(*   keys    tcpConn.keys                                                  *)
(*   ready   tcpConn.ready is closed                                       *)
(*   failed  tcpConn.handshakeErr is set                                   *)
(*   reader  where the read loop is                                        *)
(***************************************************************************)
VARIABLES
    t,          \* t.started, t.closed, t.listener is open, the counter of t.wg
    conns,      \* t.conns
    tc,
    sender,     \* sender[s]: where s is in Send, its peer and connection
    acceptor,   \* where the accept loop is, and its new connection
    closer      \* where Close is, and its snapshot of connections

vars == <<t, conns, tc, sender, acceptor, closer>>

Idle == [pc |-> "idle", peer |-> None, conn |-> None]

Init ==
    /\ t = [started |-> FALSE, closed |-> FALSE, listening |-> FALSE, wg |-> 0]
    /\ conns = [a \in Addrs |-> None]
    /\ tc = [c \in Conns |-> [sock |-> "free", hello |-> "none", keys |-> {},
                              ready |-> FALSE, failed |-> FALSE, reader |-> "none"]]
    /\ sender = [s \in Senders |-> Idle]
    /\ acceptor = [pc |-> "none", conn |-> None]
    /\ closer = [pc |-> "idle", todo |-> {}]

\* Mutant: the accept loop is not counted.
StartUncounted ==
    /\ ~t.closed /\ ~t.started
    /\ t' = [t EXCEPT !.started = TRUE, !.listening = TRUE]
    /\ acceptor' = [pc |-> "accept", conn |-> None]
    /\ UNCHANGED <<conns, tc, sender, closer>>

Start ==
    /\ ~t.closed /\ ~t.started
    /\ t' = [t EXCEPT !.started = TRUE, !.listening = TRUE, !.wg = @ + 1]
    /\ acceptor' = [pc |-> "accept", conn |-> None]
    /\ UNCHANGED <<conns, tc, sender, closer>>

----------------------------------------------------------------------------
(* Pieces shared by several goroutines.                                    *)

\* c is the next tcpConn to be created.
fresh(c) == tc[c].sock = "free" /\ \A d \in Conns : d < c => tc[d].sock # "free"

\* A connection that is closed and not in t.conns: its handshake and its keys
\* do not matter any more.
Over == [sock |-> "closed", hello |-> "none", keys |-> {},
         ready |-> FALSE, failed |-> FALSE, reader |-> "none"]

canWrite(c) == tc[c].sock \in {"open", "eof"}
canFail(c)  == tc[c].sock # "open"

\* Mutant: only the entry under the address of the handshake is removed.
forgetPeer(c) == conns' = [a \in Addrs |-> IF a = tc[c].hello /\ conns[a] = c
                                           THEN None ELSE conns[a]]

\* The critical section of dropConn ...
forget(c) == conns' = [a \in Addrs |-> IF a \in tc[c].keys /\ conns[a] = c
                                       THEN None ELSE conns[a]]
\* ... and what it does after it: close the socket and failReady.
shut(c) == tc' = [tc EXCEPT ![c].sock = "closed", ![c].failed = TRUE, ![c].ready = TRUE]

\* failReady, in a read loop that goes on to dropConn.
fail(c) == tc' = [tc EXCEPT ![c].failed = TRUE, ![c].ready = TRUE, ![c].reader = "drop"]

\* Mutant: the goroutine is not counted before it starts.
spawnUncounted(c, pc) ==
    /\ tc' = [tc EXCEPT ![c].reader = pc]
    /\ UNCHANGED t

\* wg.Add(1) and go readLoop(c), which begins at pc.
spawn(c, pc) ==
    /\ t' = [t EXCEPT !.wg = @ + 1]
    /\ tc' = [tc EXCEPT ![c].reader = pc]

----------------------------------------------------------------------------
(* Send.                                                                   *)

goto(s, pc) == sender' = [sender EXCEPT ![s].pc = pc]
return(s) == sender' = [sender EXCEPT ![s] = Idle]

\* The critical section of getOrDial.
Send(s, a) ==
    /\ sender[s].pc = "idle"
    /\ t.started /\ ~t.closed
    /\ sender' = [sender EXCEPT ![s] =
                    [pc   |-> IF conns[a] = None THEN "dial" ELSE "wait",
                     peer |-> IF conns[a] = None THEN a ELSE None, conn |-> conns[a]]]
    /\ UNCHANGED <<t, conns, tc, acceptor, closer>>

Dial(s, c) ==
    /\ sender[s].pc = "dial"
    /\ fresh(c)
    /\ tc' = [tc EXCEPT ![c].sock = "open", ![c].keys = {sender[s].peer}]
    /\ sender' = [sender EXCEPT ![s].pc = "register", ![s].conn = c]
    /\ UNCHANGED <<t, conns, acceptor, closer>>

DialFails(s) ==
    /\ sender[s].pc = "dial"
    /\ return(s)
    /\ UNCHANGED <<t, conns, tc, acceptor, closer>>

\* Mutant: the connection that lost the race is not closed.
RegisterLeaking(s) ==
    LET a == sender[s].peer
        c == sender[s].conn
    IN  /\ sender[s].pc = "register"
        /\ conns' = IF conns[a] = None THEN [conns EXCEPT ![a] = c] ELSE conns
        /\ sender' = IF conns[a] = None THEN [sender EXCEPT ![s].pc = "hello"]
                     ELSE [sender EXCEPT ![s].pc = "wait", ![s].conn = conns[a]]
        /\ UNCHANGED <<t, tc, acceptor, closer>>

\* The critical section of startConn: the first of two dials wins.
RegisterDialled(s) ==
    LET a == sender[s].peer
        c == sender[s].conn
    IN  /\ sender[s].pc = "register"
        /\ IF conns[a] = None
           THEN /\ conns' = [conns EXCEPT ![a] = c]
                /\ sender' = [sender EXCEPT ![s].pc = "hello", ![s].peer = None]
                /\ UNCHANGED tc
           ELSE /\ tc' = [tc EXCEPT ![c] = Over]
                /\ sender' = [sender EXCEPT ![s].pc = "wait", ![s].conn = conns[a], ![s].peer = None]
                /\ UNCHANGED conns
        /\ UNCHANGED <<t, acceptor, closer>>

\* Mutant: after a handshake that cannot be written the caller waits like
\* after one that can.
SendHelloAnyway(s) ==
    /\ sender[s].pc = "hello"
    /\ goto(s, "wait")
    /\ \/ canWrite(sender[s].conn) /\ spawn(sender[s].conn, "shake")
       \/ canFail(sender[s].conn) /\ UNCHANGED <<t, tc>>
    /\ UNCHANGED <<conns, acceptor, closer>>

SendHello(s) ==
    LET c == sender[s].conn
    IN  /\ sender[s].pc = "hello"
        /\ \/ /\ canWrite(c)
              /\ spawn(c, "shake")
              /\ goto(s, "wait")
           \/ /\ canFail(c)
              /\ tc' = [tc EXCEPT ![c].failed = TRUE, ![c].ready = TRUE]
              /\ goto(s, "dropNew")
              /\ UNCHANGED t
        /\ UNCHANGED <<conns, acceptor, closer>>

\* waitReady: blocks until the handshake is over, one way or the other.
WaitReady(s) ==
    /\ sender[s].pc = "wait"
    /\ tc[sender[s].conn].ready
    /\ IF tc[sender[s].conn].failed THEN return(s) ELSE goto(s, "write")
    /\ UNCHANGED <<t, conns, tc, acceptor, closer>>

\* tcpConn.write has no deadline.
Write(s) ==
    /\ sender[s].pc = "write"
    /\ \/ canWrite(sender[s].conn) /\ return(s)
       \/ canFail(sender[s].conn) /\ goto(s, "drop")
    /\ UNCHANGED <<t, conns, tc, acceptor, closer>>

\* dropConn, after a failed write of a frame or of the first handshake.
SenderForgets(s) ==
    /\ sender[s].pc \in {"drop", "dropNew"}
    /\ forget(sender[s].conn)
    /\ goto(s, IF sender[s].pc = "drop" THEN "shut" ELSE "shutNew")
    /\ UNCHANGED <<t, tc, acceptor, closer>>

SenderShuts(s) ==
    /\ sender[s].pc \in {"shut", "shutNew"}
    /\ shut(sender[s].conn)
    /\ IF sender[s].pc = "shut" THEN return(s) ELSE goto(s, "wait")
    /\ UNCHANGED <<t, conns, acceptor, closer>>

SenderStep(s) ==
    \/ \E c \in Conns : Dial(s, c)
    \/ DialFails(s)
    \/ RegisterDialled(s)
    \/ SendHello(s)
    \/ WaitReady(s)
    \/ Write(s)
    \/ SenderForgets(s)
    \/ SenderShuts(s)

----------------------------------------------------------------------------
(* The accept loop.                                                        *)

Accept(c) ==
    /\ acceptor.pc = "accept" /\ t.listening
    /\ fresh(c)
    /\ tc' = [tc EXCEPT ![c].sock = "open"]
    /\ acceptor' = [pc |-> "start", conn |-> c]
    /\ UNCHANGED <<t, conns, sender, closer>>

StartAccepted ==
    /\ acceptor.pc = "start"
    /\ spawn(acceptor.conn, "hello")
    /\ acceptor' = [pc |-> "accept", conn |-> None]
    /\ UNCHANGED <<conns, sender, closer>>

AcceptorExits ==
    /\ acceptor.pc = "accept" /\ ~t.listening
    /\ acceptor' = [pc |-> "done", conn |-> None]
    /\ t' = [t EXCEPT !.wg = @ - 1]
    /\ UNCHANGED <<conns, tc, sender, closer>>

----------------------------------------------------------------------------
(* The read loop of a connection.                                          *)

ReaderHello(c) ==
    /\ tc[c].reader = "hello"
    /\ \/ canWrite(c) /\ tc' = [tc EXCEPT ![c].reader = "shake"]
       \/ canFail(c) /\ fail(c)
    /\ UNCHANGED <<t, conns, sender, acceptor, closer>>

\* decodeHandshake blocks until the other end has sent something or closed,
\* or until we close; then setPeer.
Handshake(c) ==
    /\ tc[c].reader = "shake"
    /\ \/ /\ canWrite(c) /\ tc[c].hello \in Addrs
          /\ tc' = [tc EXCEPT ![c].keys = @ \cup {tc[c].hello}, ![c].reader = "register"]
       \/ /\ \/ tc[c].sock = "closed"
             \/ tc[c].hello = "bad"
             \/ tc[c].sock = "eof" /\ tc[c].hello = "none"
          /\ fail(c)
    /\ UNCHANGED <<t, conns, sender, acceptor, closer>>

registerConnKey(c) ==
    /\ tc[c].reader = "register"
    /\ conns' = IF ~t.closed /\ conns[tc[c].hello] = None
                THEN [conns EXCEPT ![tc[c].hello] = c] ELSE conns
    /\ tc' = [tc EXCEPT ![c].reader = "ready"]
    /\ UNCHANGED <<t, sender, acceptor, closer>>

markReady(c) ==
    /\ tc[c].reader = "ready"
    /\ \E pc \in {"loop", "handler"} : tc' = [tc EXCEPT ![c].ready = TRUE, ![c].reader = pc]
    /\ UNCHANGED <<t, conns, sender, acceptor, closer>>

\* Frames go to the handler.  A stay there stands for all the frames that have
\* come by its end, so that only the end is left to be read after the other
\* end has closed.
HandleFrame(c) ==
    /\ tc[c].reader = "loop" /\ tc[c].sock = "open"
    /\ tc' = [tc EXCEPT ![c].reader = "handler"]
    /\ UNCHANGED <<t, conns, sender, acceptor, closer>>

HandlerReturns(c) ==
    /\ tc[c].reader = "handler"
    /\ tc' = [tc EXCEPT ![c].reader = "loop"]
    /\ UNCHANGED <<t, conns, sender, acceptor, closer>>

\* Mutant: only our own close ends the loop.
ReadFailsIfClosed(c) ==
    /\ tc[c].reader = "loop" /\ tc[c].sock = "closed"
    /\ tc' = [tc EXCEPT ![c].reader = "drop"]
    /\ UNCHANGED <<t, conns, sender, acceptor, closer>>

\* DecodeMessageFrame reports that the connection has ended.
ReadFails(c) ==
    /\ tc[c].reader = "loop" /\ tc[c].sock # "open"
    /\ tc' = [tc EXCEPT ![c].reader = "drop"]
    /\ UNCHANGED <<t, conns, sender, acceptor, closer>>

ReaderForgets(c) ==
    /\ tc[c].reader = "drop"
    /\ forget(c)
    /\ tc' = [tc EXCEPT ![c].reader = "shut"]
    /\ UNCHANGED <<t, sender, acceptor, closer>>

ReaderExits(c) ==
    /\ tc[c].reader = "shut"
    /\ tc' = [tc EXCEPT ![c] = [Over EXCEPT !.failed = TRUE, !.ready = TRUE, !.reader = "done"]]
    /\ t' = [t EXCEPT !.wg = @ - 1]
    /\ UNCHANGED <<conns, sender, acceptor, closer>>

ReaderStep(c) ==
    \/ ReaderHello(c)
    \/ Handshake(c)
    \/ registerConnKey(c)
    \/ markReady(c)
    \/ ReadFails(c)
    \/ ReaderForgets(c)
    \/ ReaderExits(c)

----------------------------------------------------------------------------
(* Close.                                                                  *)

\* The critical section: from now on no new Send, and a snapshot of t.conns.
Close ==
    /\ closer.pc = "idle" /\ ~t.closed
    /\ t' = [t EXCEPT !.closed = TRUE]
    /\ closer' = [pc |-> "listener", todo |-> {conns[a] : a \in Addrs} \ {None}]
    /\ UNCHANGED <<conns, tc, sender, acceptor>>

CloseListener ==
    /\ closer.pc = "listener"
    /\ t' = [t EXCEPT !.listening = FALSE]
    /\ closer' = [closer EXCEPT !.pc = "conns"]
    /\ UNCHANGED <<conns, tc, sender, acceptor>>

CloseConns ==
    /\ closer.pc = "conns"
    /\ tc' = [c \in Conns |-> IF c \in closer.todo THEN [tc[c] EXCEPT !.sock = "closed"]
                              ELSE tc[c]]
    /\ closer' = [pc |-> "wait", todo |-> {}]
    /\ UNCHANGED <<t, conns, sender, acceptor>>

CloseReturns ==
    /\ closer.pc = "wait" /\ t.wg = 0
    /\ closer' = [closer EXCEPT !.pc = "done"]
    /\ UNCHANGED <<t, conns, tc, sender, acceptor>>

----------------------------------------------------------------------------
(* The other ends.                                                         *)

PeerSays(c, h) ==
    /\ tc[c].sock = "open" /\ tc[c].hello = "none"
    /\ tc' = [tc EXCEPT ![c].hello = h]
    /\ UNCHANGED <<t, conns, sender, acceptor, closer>>

PeerCloses(c) ==
    /\ tc[c].sock = "open"
    /\ tc' = [tc EXCEPT ![c].sock = "eof"]
    /\ UNCHANGED <<t, conns, sender, acceptor, closer>>

\* A frame that does not decode ends the read loop.
PeerSendsGarbage(c) ==
    /\ tc[c].reader = "loop" /\ tc[c].sock = "open"
    /\ tc' = [tc EXCEPT ![c].reader = "drop"]
    /\ UNCHANGED <<t, conns, sender, acceptor, closer>>

----------------------------------------------------------------------------

Next ==
    \/ Start
    \/ \E s \in Senders, a \in Addrs : Send(s, a)
    \/ \E s \in Senders : SenderStep(s)
    \/ \E c \in Conns : Accept(c)
    \/ StartAccepted
    \/ AcceptorExits
    \/ \E c \in Conns : ReaderStep(c)
    \/ \E c \in Conns : HandleFrame(c)
    \/ \E c \in Conns : HandlerReturns(c)
    \/ Close
    \/ CloseListener
    \/ CloseConns
    \/ CloseReturns
    \/ \E c \in Conns, h \in Addrs \cup {"bad"} : PeerSays(c, h)
    \/ \E c \in Conns : PeerCloses(c)
    \/ \E c \in Conns : PeerSendsGarbage(c)

\* A write to a connection whose other end does not read waits.
mayBlock(s) == sender[s].pc = "write" /\ tc[sender[s].conn].sock = "open"

(* Fairness: the scheduler runs every goroutine that is not blocked.  The
   other ends, the handler, and the callers of Start, Send and Close, owe us
   nothing. *)
Fairness ==
    /\ \A s \in Senders : WF_vars(SenderStep(s) /\ ~mayBlock(s))
    /\ \A c \in Conns : WF_vars(ReaderStep(c))
    /\ WF_vars(StartAccepted)
    /\ WF_vars(AcceptorExits)
    /\ WF_vars(CloseListener \/ CloseConns \/ CloseReturns)

Spec == Init /\ [][Next]_vars /\ Fairness

----------------------------------------------------------------------------
(* Properties.                                                             *)

(* Every variable has its type. *)
TypeOK ==
    /\ t \in [started : BOOLEAN, closed : BOOLEAN, listening : BOOLEAN, wg : Nat]
    /\ conns \in [Addrs -> Conns \cup {None}]
    /\ tc \in [Conns -> [sock : {"free", "open", "eof", "closed"},
                         hello : Addrs \cup {"none", "bad"},
                         keys : SUBSET Addrs,
                         ready : BOOLEAN, failed : BOOLEAN,
                         reader : {"none", "hello", "shake", "register", "ready",
                                   "loop", "handler", "drop", "shut", "done"}]]
    /\ sender \in [Senders -> [pc : {"idle", "dial", "register", "hello", "wait",
                                     "write", "drop", "shut", "dropNew", "shutNew"},
                               peer : Addrs \cup {None},
                               conn : Conns \cup {None}]]
    /\ acceptor \in [pc : {"none", "accept", "start", "done"},
                     conn : Conns \cup {None}]
    /\ closer \in [pc : {"idle", "listener", "conns", "wait", "done"},
                   todo : SUBSET Conns]

running(c) == tc[c].reader \notin {"none", "done"}

\* s is the Send call that dialled c and has not yet handed it to a read loop.
bringsUp(s, c) ==
    /\ sender[s].conn = c
    /\ sender[s].pc \in {"register", "hello", "dropNew", "shutNew"}

owned(c) ==
    \/ running(c)
    \/ \E s \in Senders : bringsUp(s, c)
    \/ acceptor.conn = c

(* No dead entries: a connection in t.conns still has a goroutine that will
   take it out again.  Otherwise every later Send to that peer would find a
   connection that nobody reads and that is never dialled anew. *)
RegisteredIsOwned ==
    \A a \in Addrs : conns[a] # None => owned(conns[a])

(* No leaked sockets: a socket that this process has not closed belongs to a
   goroutine that will close it. *)
OpenIsOwned ==
    \A c \in Conns : tc[c].sock \in {"open", "eof"} => owned(c)

(* Nobody waits for nothing: for a Send blocked in waitReady there is a
   goroutine that ends the wait when it hears from the other end, or is done
   with the connection, unless the wait is over already.  That goroutine may
   itself wait for ever for the handshake of a silent peer. *)
WaiterIsServed ==
    \A s \in Senders :
        sender[s].pc = "wait" =>
            tc[sender[s].conn].ready \/ owned(sender[s].conn)

(* When Close returns, the accept loop and all read loops have ended. *)
CloseWaitsForAll ==
    [][closer.pc = "wait" /\ closer'.pc = "done" =>
          /\ acceptor.pc \in {"none", "done"}
          /\ \A c \in Conns : ~running(c)]_vars

(* A connection that has ended, whoever ended it, is forgotten, so that the
   next Send dials again, and the Sends that wait for it are released, unless
   its read loop never comes back from the handler. *)
EndedIsForgotten ==
    \A c \in Conns :
        \/ tc[c].sock \in {"eof", "closed"} ~>
              /\ \A a \in Addrs : conns[a] # c
              /\ \A s \in Senders : sender[s].conn = c => sender[s].pc # "wait"
        \/ <>[](tc[c].reader = "handler")

(* What TestTCPTransportCloseShutsDownCleanly expects of Close: that it
   returns, as its handlers do.  It does not while a connection that is not in
   t.conns (its handshake has not come, or its key was taken) stays open at
   the other end. *)
CloseTerminates ==
    \/ t.closed ~> closer.pc = "done"
    \/ \E c \in Conns : <>[](tc[c].reader = "handler")

=============================================================================
