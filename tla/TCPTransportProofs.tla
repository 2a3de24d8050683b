------------------------ MODULE TCPTransportProofs -------------------------
(***************************************************************************)
(* The ownership of connections in TCPTransport, for any number of peer    *)
(* addresses, senders and connections.                                     *)
(*                                                                         *)
(* A connection passes from the goroutine that creates it (a Send that     *)
(* dials, or the accept loop) to its read loop.  The invariant says who    *)
(* may hold it when, and that it is out of the registry before the last    *)
(* of them lets go.                                                        *)
(***************************************************************************)
EXTENDS TCPTransport, FiniteSetTheorems, TLAPS

ConnRecords == [sock : {"free", "open", "eof", "closed"},
                hello : Addrs \cup {"none", "bad"},
                keys : SUBSET Addrs,
                ready : BOOLEAN, failed : BOOLEAN,
                reader : {"none", "hello", "shake", "register", "ready",
                          "loop", "handler", "drop", "shut", "done"}]

SenderRecords == [pc : {"idle", "dial", "register", "hello", "wait",
                        "write", "drop", "shut", "dropNew", "shutNew"},
                  peer : Addrs \cup {None},
                  conn : Conns \cup {None}]

\* TypeOK, except that the wait group may have any value.
Typed ==
    /\ t \in [started : BOOLEAN, closed : BOOLEAN, listening : BOOLEAN, wg : Int]
    /\ conns \in [Addrs -> Conns \cup {None}]
    /\ tc \in [Conns -> ConnRecords]
    /\ sender \in [Senders -> SenderRecords]
    /\ acceptor \in [pc : {"none", "accept", "start", "done"},
                     conn : Conns \cup {None}]
    /\ closer \in [pc : {"idle", "listener", "conns", "wait", "done"},
                   todo : SUBSET Conns]

\* A goroutine has a connection exactly where its code has one.
Placed ==
    /\ \A s \in Senders :
          /\ sender[s].pc \in {"idle", "dial"} <=> sender[s].conn = None
          /\ sender[s].pc \in {"dial", "register"} => sender[s].peer \in Addrs
    /\ acceptor.pc = "start" <=> acceptor.conn # None
    /\ ~t.started => acceptor.pc = "none"

\* Nobody knows a connection before it is created.
Created ==
    \A c \in Conns :
        tc[c].sock = "free" =>
            /\ tc[c].reader = "none"
            /\ acceptor.conn # c
            /\ \A a \in Addrs : conns[a] # c
            /\ \A s \in Senders : sender[s].conn # c

\* A connection is only registered, or about to be, under keys that it
\* remembers, so that forget finds all its entries.
Keyed ==
    /\ \A a \in Addrs : conns[a] # None => a \in tc[conns[a]].keys
    /\ \A s \in Senders :
          sender[s].pc = "register" => sender[s].peer \in tc[sender[s].conn].keys
    /\ \A c \in Conns : tc[c].reader = "register" => tc[c].hello \in tc[c].keys

\* Not yet registered, or not any more.
Unregistered ==
    /\ \A s \in Senders :
          sender[s].pc \in {"register", "shutNew"} =>
              \A a \in Addrs : conns[a] # sender[s].conn
    /\ \A c \in Conns : tc[c].reader = "shut" => \A a \in Addrs : conns[a] # c

\* A connection that is being brought up has one owner, who is alone with it
\* until it is registered.
OneOwner ==
    /\ \A s \in Senders, c \in Conns :
          bringsUp(s, c) =>
              /\ tc[c].reader = "none"
              /\ acceptor.conn # c
              /\ \A r \in Senders : bringsUp(r, c) => r = s
              /\ sender[s].pc = "register" =>
                    \A r \in Senders : sender[r].conn = c => r = s
    /\ \A c \in Conns : acceptor.conn = c => tc[c].reader = "none"

Running == {c \in Conns : running(c)}

\* The wait group counts the read loops and the accept loop.
Counted ==
    t.wg = Cardinality(Running) + (IF acceptor.pc \in {"accept", "start"} THEN 1 ELSE 0)

Shape == Typed /\ Placed /\ Created /\ Keyed /\ Unregistered /\ OneOwner

Ownership == RegisteredIsOwned /\ OpenIsOwned /\ WaiterIsServed

IInv == Shape /\ Ownership /\ Counted

(* Connections are numbers, and None is not one of them. *)
LEMMA ConnFacts == None \notin Conns /\ None \notin Addrs
BY TransportAssumption DEF Conns, None

(* A Send that closes the connection it has given up: the socket is closed
   and the waiters are released in one step, so none of them is left behind. *)
LEMMA SenderShutsKeeps ==
    ASSUME Shape, Ownership, NEW s \in Senders, SenderShuts(s)
    PROVE  Shape' /\ Ownership'
<1> USE ConnFacts DEF Shape
<1> DEFINE c == sender[s].conn
<1>1. c \in Conns
  BY DEF SenderShuts, Placed, Typed, SenderRecords
<1>2. tc' = [tc EXCEPT ![c] = [tc[c] EXCEPT !.sock = "closed", !.failed = TRUE, !.ready = TRUE]]
  BY DEF SenderShuts, shut
<1>3. tc' \in [Conns -> ConnRecords]
  <2>1. tc[c] \in ConnRecords
    BY <1>1 DEF Typed
  <2>2. [tc[c] EXCEPT !.sock = "closed", !.failed = TRUE, !.ready = TRUE] \in ConnRecords
    BY <2>1 DEF ConnRecords
  <2> QED BY <1>1, <1>2, <2>2 DEF Typed
<1>4. ASSUME NEW d \in Conns
      PROVE  /\ d = c => tc'[d].sock = "closed" /\ tc'[d].ready
             /\ d # c => tc'[d] = tc[d]
             /\ tc'[d].reader = tc[d].reader
             /\ tc'[d].keys = tc[d].keys
             /\ tc'[d].hello = tc[d].hello
  BY <1>1, <1>2 DEF Typed, ConnRecords
<1>5. /\ sender' \in [Senders -> SenderRecords]
      /\ \A r \in Senders \ {s} : sender'[r] = sender[r]
      /\ \/ sender'[s] = Idle
         \/ sender[s].pc = "shutNew" /\ sender'[s] = [sender[s] EXCEPT !.pc = "wait"]
  BY <1>1 DEF SenderShuts, return, goto, Typed, SenderRecords, Idle
<1> HIDE DEF c
<1>6. Typed'
  BY <1>3, <1>5 DEF Typed, SenderShuts
<1>7. Placed'
  BY <1>1, <1>5 DEF Placed, SenderShuts, Typed, SenderRecords, Idle
<1>8. \A r \in Senders : sender'[r].conn \in {sender[r].conn, None}
  BY <1>5 DEF Idle, Typed, SenderRecords
<1>9. Created'
  <2> SUFFICES ASSUME NEW d \in Conns, tc'[d].sock = "free"
               PROVE  /\ tc'[d].reader = "none"
                      /\ acceptor'.conn # d
                      /\ \A a \in Addrs : conns'[a] # d
                      /\ \A r \in Senders : sender'[r].conn # d
    BY DEF Created
  <2>1. tc[d].sock = "free" /\ tc'[d] = tc[d]
    BY <1>4
  <2>2. UNCHANGED <<conns, acceptor>>
    BY DEF SenderShuts
  <2> QED BY <1>8, <2>1, <2>2 DEF Created
<1>10. Keyed'
  <2>1. \A a \in Addrs : conns'[a] # None => a \in tc'[conns'[a]].keys
    BY <1>4 DEF Keyed, SenderShuts, Typed
  <2>2. \A r \in Senders : sender'[r].pc = "register" =>
            sender'[r].peer \in tc'[sender'[r].conn].keys
    BY <1>4, <1>5 DEF Keyed, Placed, Typed, SenderRecords, Idle
  <2>3. \A d \in Conns : tc'[d].reader = "register" => tc'[d].hello \in tc'[d].keys
    BY <1>4 DEF Keyed
  <2> QED BY <2>1, <2>2, <2>3 DEF Keyed
<1>11. Unregistered'
  <2>1. ASSUME NEW r \in Senders, sender'[r].pc \in {"register", "shutNew"}
        PROVE  sender'[r] = sender[r]
    BY <1>5, <2>1 DEF Idle, Typed, SenderRecords
  <2>2. UNCHANGED conns
    BY DEF SenderShuts
  <2> QED BY <1>4, <2>1, <2>2 DEF Unregistered
<1>12. OneOwner'
  <2>1. ASSUME NEW r \in Senders, NEW d \in Conns, bringsUp(r, d)'
        PROVE  bringsUp(r, d) /\ sender'[r] = sender[r]
    BY <1>5, <2>1 DEF bringsUp, Idle, Typed, SenderRecords
  <2>2. UNCHANGED acceptor
    BY DEF SenderShuts
  <2> QED BY <1>4, <1>8, <2>1, <2>2 DEF OneOwner
<1>13. ASSUME NEW d \in Conns, owned(d), d # c \/ sender[s].pc = "shut"
       PROVE  owned(d)'
  <2>1. CASE running(d)
    BY <1>4, <2>1 DEF owned, running
  <2>2. ASSUME NEW r \in Senders, bringsUp(r, d) PROVE owned(d)'
    BY <1>5, <1>13, <2>2 DEF owned, bringsUp, SenderShuts, c
  <2>3. CASE acceptor.conn = d
    BY <2>3 DEF owned, SenderShuts
  <2> QED BY <1>13, <2>1, <2>2, <2>3 DEF owned
<1>14. RegisteredIsOwned'
  BY <1>13 DEF SenderShuts, Typed, Unregistered, Ownership, RegisteredIsOwned, c
<1>15. OpenIsOwned'
  BY <1>4, <1>13 DEF Ownership, OpenIsOwned
<1>16. WaiterIsServed'
  <2> SUFFICES ASSUME NEW r \in Senders, sender'[r].pc = "wait"
               PROVE  tc'[sender'[r].conn].ready \/ owned(sender[r].conn)'
    BY DEF WaiterIsServed
  <2>1. /\ sender'[r].conn = sender[r].conn /\ sender[r].conn \in Conns
        /\ r = s \/ sender[r].pc = "wait"
    BY <1>1, <1>5 DEF Idle, Typed, SenderRecords, Placed, c
  <2> QED BY <1>1, <1>4, <1>13, <2>1 DEF Ownership, WaiterIsServed, c
<1> QED BY <1>6, <1>7, <1>9, <1>10, <1>11, <1>12, <1>14, <1>15, <1>16 DEF Ownership

(* A dial that finds the entry of its peer free: it was alone with its
   connection, and stays its owner when others can find it. *)
LEMMA RegisterFirstKeeps ==
    ASSUME Shape, Ownership, NEW s \in Senders, RegisterDialled(s),
           conns[sender[s].peer] = None
    PROVE  Shape' /\ Ownership'
<1> USE ConnFacts DEF Shape
<1> DEFINE c == sender[s].conn
           a == sender[s].peer
<1>1. c \in Conns /\ a \in Addrs /\ sender[s].pc = "register" /\ a \in tc[c].keys
  BY DEF RegisterDialled, Placed, Typed, SenderRecords, Keyed
<1>2. UNCHANGED <<t, tc, acceptor, closer>>
  BY DEF RegisterDialled
<1>3. /\ conns' \in [Addrs -> Conns \cup {None}]
      /\ conns'[a] = c
      /\ \A b \in Addrs \ {a} : conns'[b] = conns[b]
  BY <1>1 DEF RegisterDialled, Typed
<1>4. /\ sender' \in [Senders -> SenderRecords]
      /\ \A r \in Senders \ {s} : sender'[r] = sender[r]
      /\ sender'[s].pc = "hello" /\ sender'[s].conn = c
  BY <1>1 DEF RegisterDialled, goto, Typed, SenderRecords
<1>5. \A r \in Senders, d \in Conns : bringsUp(r, d)' <=> bringsUp(r, d)
  BY <1>1, <1>4 DEF bringsUp
<1> HIDE DEF c, a
<1>6. Typed'
  BY <1>2, <1>3, <1>4 DEF Typed
<1>7. Placed'
  BY <1>1, <1>2, <1>4 DEF Placed
<1>8. Created'
  BY <1>1, <1>2, <1>3, <1>4 DEF Created, c
<1>9. Keyed'
  BY <1>1, <1>2, <1>3, <1>4 DEF Keyed
<1>10. Unregistered'
  <2>1. \A r \in Senders \ {s} : sender[r].conn # c
    BY <1>1 DEF OneOwner, bringsUp, c
  <2>2. tc[c].reader = "none"
    BY <1>1 DEF OneOwner, bringsUp, c
  <2> QED BY <1>1, <1>2, <1>3, <1>4, <2>1, <2>2 DEF Unregistered
<1>11. OneOwner'
  BY <1>1, <1>2, <1>5, <1>4 DEF OneOwner, bringsUp, c
<1>12. \A d \in Conns : owned(d)' <=> owned(d)
  BY <1>2, <1>5 DEF owned, running
<1>13. RegisteredIsOwned'
  <2>1. owned(c)
    BY <1>1 DEF owned, bringsUp, c
  <2> QED BY <1>1, <1>3, <1>12, <2>1 DEF Typed, Ownership, RegisteredIsOwned
<1>14. OpenIsOwned'
  BY <1>2, <1>12 DEF Ownership, OpenIsOwned
<1>15. WaiterIsServed'
  BY <1>1, <1>2, <1>4, <1>12 DEF Ownership, WaiterIsServed, Placed, Typed, SenderRecords
<1> QED BY <1>6, <1>7, <1>8, <1>9, <1>10, <1>11, <1>13, <1>14, <1>15 DEF Ownership

(* A dial that finds the entry of its peer taken: it closes its connection,
   which nobody else knows, and waits for the one in the registry. *)
LEMMA RegisterLosesKeeps ==
    ASSUME Shape, Ownership, NEW s \in Senders, RegisterDialled(s),
           conns[sender[s].peer] # None
    PROVE  Shape' /\ Ownership'
<1> USE ConnFacts DEF Shape
<1> DEFINE c == sender[s].conn
           w == conns[sender[s].peer]
<1>1. /\ c \in Conns /\ w \in Conns /\ w # c
      /\ sender[s].pc = "register" /\ sender[s].peer \in Addrs
      /\ \A b \in Addrs : conns[b] # c
  BY DEF RegisterDialled, Placed, Typed, SenderRecords, Unregistered
<1>2. UNCHANGED <<t, conns, acceptor, closer>>
  BY DEF RegisterDialled
<1>3. /\ tc' \in [Conns -> ConnRecords]
      /\ tc'[c].sock = "closed" /\ tc'[c].reader = "none"
      /\ \A d \in Conns \ {c} : tc'[d] = tc[d]
  <2>1. Over \in ConnRecords /\ Over.sock = "closed" /\ Over.reader = "none"
    BY DEF Over, ConnRecords
  <2> QED BY <1>1, <2>1 DEF RegisterDialled, Typed
<1>4. /\ sender' \in [Senders -> SenderRecords]
      /\ \A r \in Senders \ {s} : sender'[r] = sender[r]
      /\ sender'[s].pc = "wait" /\ sender'[s].conn = w
  BY <1>1 DEF RegisterDialled, Typed, SenderRecords
<1>5. /\ tc[c].reader = "none" /\ acceptor.conn # c
      /\ \A r \in Senders \ {s} : sender[r].conn # c
  BY <1>1 DEF OneOwner, bringsUp
<1>6. tc[w].sock # "free"
  BY <1>1 DEF Created
<1> HIDE DEF c, w
<1>7. Typed'
  BY <1>2, <1>3, <1>4 DEF Typed
<1>8. Placed'
  BY <1>1, <1>2, <1>4 DEF Placed
<1>9. Created'
  BY <1>1, <1>2, <1>3, <1>4, <1>6 DEF Created
<1>10. Keyed'
  <2>1. ASSUME NEW r \in Senders, sender'[r].pc = "register"
        PROVE  r # s /\ sender'[r] = sender[r] /\ sender[r].conn \in Conns \ {c}
    BY <1>4, <1>5, <2>1 DEF Placed, Typed, SenderRecords
  <2> QED BY <1>1, <1>2, <1>3, <2>1 DEF Keyed, Typed
<1>11. Unregistered'
  BY <1>2, <1>3, <1>4 DEF Unregistered
<1>12. ASSUME NEW r \in Senders, NEW d \in Conns
       PROVE  bringsUp(r, d)' <=> r # s /\ bringsUp(r, d)
  BY <1>4 DEF bringsUp
<1>13. OneOwner'
  <2>1. ASSUME NEW r \in Senders, NEW d \in Conns, bringsUp(r, d)'
        PROVE  r # s /\ d # c /\ bringsUp(r, d) /\ sender'[r] = sender[r]
    BY <1>4, <1>5, <1>12, <2>1 DEF bringsUp
  <2>2. ASSUME NEW r \in Senders, NEW d \in Conns, bringsUp(r, d)', sender[r].pc = "register"
        PROVE  d # w
    BY <1>1, <2>1, <2>2 DEF Unregistered, bringsUp, w
  <2>3. ASSUME NEW r \in Senders, NEW d \in Conns, bringsUp(r, d)'
        PROVE  /\ tc'[d].reader = "none"
               /\ acceptor'.conn # d
               /\ \A q \in Senders : bringsUp(q, d)' => q = r
               /\ sender'[r].pc = "register" =>
                     \A q \in Senders : sender'[q].conn = d => q = r
    BY <1>2, <1>3, <1>4, <1>12, <2>1, <2>2, <2>3 DEF OneOwner
  <2>4. \A d \in Conns : acceptor'.conn = d => tc'[d].reader = "none"
    BY <1>2, <1>3, <1>5 DEF OneOwner
  <2> QED BY <2>3, <2>4 DEF OneOwner
<1>14. ASSUME NEW d \in Conns \ {c} PROVE owned(d)' <=> owned(d)
  <2>1. running(d)' <=> running(d)
    BY <1>3 DEF running
  <2>2. ~bringsUp(s, d)
    BY DEF bringsUp, c
  <2> QED BY <1>2, <1>12, <2>1, <2>2 DEF owned
<1>15. RegisteredIsOwned'
  BY <1>1, <1>2, <1>14 DEF Ownership, RegisteredIsOwned, Typed
<1>16. OpenIsOwned'
  BY <1>3, <1>14 DEF Ownership, OpenIsOwned
<1>17. WaiterIsServed'
  <2>1. PICK d \in Conns \ {c} : d = w
    BY <1>1
  <2>2. owned(d)'
    BY <1>14, <1>1, <2>1 DEF Ownership, RegisteredIsOwned, w
  <2>3. ASSUME NEW r \in Senders, sender'[r].pc = "wait"
        PROVE  \E e \in Conns : e = sender'[r].conn /\ (tc'[e].ready \/ owned(e)')
    <3>1. CASE r = s
      BY <1>4, <2>1, <2>2, <3>1
    <3>2. CASE r # s
      <4>1. PICK e \in Conns \ {c} : e = sender[r].conn
        BY <1>4, <1>5, <2>3, <3>2 DEF Placed, Typed, SenderRecords
      <4>2. tc[e].ready \/ owned(e)
        BY <1>4, <2>3, <3>2, <4>1 DEF Ownership, WaiterIsServed
      <4> QED BY <1>3, <1>4, <1>14, <3>2, <4>1, <4>2
    <3> QED BY <3>1, <3>2
  <2> QED BY <2>3 DEF WaiterIsServed
<1> QED BY <1>7, <1>8, <1>9, <1>10, <1>11, <1>13, <1>15, <1>16, <1>17 DEF Ownership

(* The connection passes to its read loop, or its handshake has failed; the
   Sends that wait for it are served in both cases. *)
LEMMA SendHelloKeeps ==
    ASSUME Shape, Ownership, NEW s \in Senders, SendHello(s)
    PROVE  Typed' /\ WaiterIsServed'
<1> USE ConnFacts DEF Shape
<1>1. PICK c \in Conns : c = sender[s].conn
  BY DEF SendHello, Placed, Typed, SenderRecords
<1>2. tc' \in [Conns -> ConnRecords]
  <2>1. tc[c] \in ConnRecords
    BY <1>1 DEF Typed
  <2>2. /\ [tc[c] EXCEPT !.reader = "shake"] \in ConnRecords
        /\ [tc[c] EXCEPT !.failed = TRUE, !.ready = TRUE] \in ConnRecords
    BY <2>1 DEF ConnRecords
  <2>3. \/ tc' = [tc EXCEPT ![c] = [tc[c] EXCEPT !.reader = "shake"]]
        \/ tc' = [tc EXCEPT ![c] = [tc[c] EXCEPT !.failed = TRUE, !.ready = TRUE]]
    BY <1>1 DEF SendHello, spawn
  <2> QED BY <1>1, <2>2, <2>3 DEF Typed
<1>3. t' \in [started : BOOLEAN, closed : BOOLEAN, listening : BOOLEAN, wg : Int]
  BY DEF SendHello, spawn, Typed
<1>4. /\ sender' \in [Senders -> SenderRecords]
      /\ \A r \in Senders : sender'[r].conn = sender[r].conn
      /\ \A r \in Senders \ {s} : sender'[r] = sender[r]
  BY <1>1 DEF SendHello, goto, Typed, SenderRecords
<1>5. Typed'
  BY <1>2, <1>3, <1>4 DEF Typed, SendHello
<1>6. /\ \A d \in Conns : tc[d].ready => tc'[d].ready
      /\ tc'[c].ready \/ owned(c)'
  <2>1. CASE tc' = [tc EXCEPT ![c].reader = "shake"]
    <3>1. tc'[c].reader = "shake" /\ \A d \in Conns : tc[d].ready => tc'[d].ready
      BY <1>1, <2>1 DEF Typed, ConnRecords
    <3> QED BY <3>1 DEF owned, running
  <2>2. CASE tc' = [tc EXCEPT ![c].failed = TRUE, ![c].ready = TRUE]
    BY <1>1, <2>2 DEF Typed, ConnRecords
  <2> QED BY <1>1, <2>1, <2>2 DEF SendHello, spawn
<1>7. \A d \in Conns : owned(d) => owned(d)' \/ tc'[d].ready
  <2> SUFFICES ASSUME NEW d \in Conns \ {c}, owned(d) PROVE owned(d)'
    BY <1>1, <1>6
  <2>1. tc'[d] = tc[d] /\ acceptor' = acceptor
    BY <1>1 DEF SendHello, spawn, Typed
  <2> QED BY <1>1, <1>4, <2>1 DEF owned, bringsUp, running
<1>8. WaiterIsServed'
  <2> SUFFICES ASSUME NEW r \in Senders, sender'[r].pc = "wait"
               PROVE  tc'[sender[r].conn].ready \/ owned(sender[r].conn)'
    BY <1>4 DEF WaiterIsServed
  <2>1. CASE r = s
    BY <1>1, <1>4, <1>6, <2>1 DEF owned, running, bringsUp
  <2>2. CASE r # s
    BY <1>4, <1>6, <1>7, <2>2 DEF Ownership, WaiterIsServed, Placed, Typed, SenderRecords
  <2> QED BY <2>1, <2>2
<1> QED BY <1>5, <1>8

(* A read loop ends: its connection is in the registry no more, so nobody
   finds it, and those who wait for it are released. *)
LEMMA ReaderExitsKeeps ==
    ASSUME Shape, Ownership, NEW c \in Conns, ReaderExits(c)
    PROVE  Shape' /\ Ownership'
<1> USE ConnFacts DEF Shape
<1>1. /\ tc' \in [Conns -> ConnRecords]
      /\ tc'[c].sock = "closed" /\ tc'[c].reader = "done" /\ tc'[c].ready
      /\ \A d \in Conns \ {c} : tc'[d] = tc[d]
  <2> DEFINE r == [Over EXCEPT !.failed = TRUE, !.ready = TRUE, !.reader = "done"]
  <2>1. r \in ConnRecords /\ r.sock = "closed" /\ r.reader = "done" /\ r.ready
    BY DEF Over, ConnRecords
  <2>2. tc' = [tc EXCEPT ![c] = r]
    BY DEF ReaderExits
  <2> HIDE DEF r
  <2> QED BY <2>1, <2>2 DEF Typed
<1>2. UNCHANGED <<conns, sender, acceptor, closer>>
  BY DEF ReaderExits
<1>3. /\ t' \in [started : BOOLEAN, closed : BOOLEAN, listening : BOOLEAN, wg : Int]
      /\ t'.started = t.started
  BY DEF ReaderExits, Typed
<1>4. /\ \A a \in Addrs : conns[a] # c
      /\ acceptor.conn # c
      /\ \A s \in Senders : ~bringsUp(s, c)
  BY DEF ReaderExits, Unregistered, OneOwner
<1>5. Typed'
  BY <1>1, <1>2, <1>3 DEF Typed
<1>6. Placed'
  BY <1>2, <1>3 DEF Placed
<1>7. Created'
  BY <1>1, <1>2 DEF Created
<1>8. Keyed'
  <2>1. \A a \in Addrs : conns[a] # None => conns[a] \in Conns \ {c}
    BY <1>4 DEF Typed
  <2>2. \A s \in Senders : sender[s].pc = "register" => sender[s].conn \in Conns \ {c}
    BY <1>4 DEF bringsUp, Placed, Typed, SenderRecords
  <2> QED BY <1>1, <1>2, <2>1, <2>2 DEF Keyed
<1>9. Unregistered'
  BY <1>1, <1>2 DEF Unregistered
<1>10. \A s \in Senders, d \in Conns : bringsUp(s, d)' <=> bringsUp(s, d)
  BY <1>2 DEF bringsUp
<1>11. OneOwner'
  BY <1>1, <1>2, <1>4, <1>10 DEF OneOwner
<1>12. \A d \in Conns \ {c} : owned(d)' <=> owned(d)
  BY <1>1, <1>2, <1>10 DEF owned, running
<1>13. RegisteredIsOwned'
  BY <1>2, <1>4, <1>12 DEF Ownership, RegisteredIsOwned, Typed
<1>14. OpenIsOwned'
  BY <1>1, <1>12 DEF Ownership, OpenIsOwned
<1>15. WaiterIsServed'
  BY <1>1, <1>2, <1>12 DEF Ownership, WaiterIsServed, Placed, Typed, SenderRecords
<1> QED BY <1>5, <1>6, <1>7, <1>8, <1>9, <1>11, <1>13, <1>14, <1>15 DEF Ownership

(* A read loop that goes on, and a socket that is closed at either end. *)
LEMMA ReaderMoves ==
    ASSUME Shape, NEW c \in Conns
    PROVE  /\ [tc[c] EXCEPT !.reader = "shake"] \in ConnRecords
           /\ [tc[c] EXCEPT !.reader = "shut"] \in ConnRecords
           /\ [tc[c] EXCEPT !.sock = "eof"] \in ConnRecords
           /\ [tc[c] EXCEPT !.sock = "closed"] \in ConnRecords
<1>1. tc[c] \in ConnRecords
  BY DEF Shape, Typed
<1> QED BY <1>1 DEF ConnRecords

(* Every step keeps what is said of where a connection is and who holds it.
   One step per action; where an action has branches, one case per branch. *)
LEMMA NextShape ==
    Shape /\ Ownership /\ [Next]_vars => Shape'
<1> SUFFICES ASSUME Shape, Ownership, [Next]_vars PROVE Shape'
  OBVIOUS
<1> USE ConnFacts DEF Shape, Typed, ConnRecords, SenderRecords, Placed, Created, Keyed,
            Unregistered, OneOwner, bringsUp
<1>1. CASE Start
  <2>1. Typed'
    <3>1. t' = [started |-> TRUE, closed |-> t.closed, listening |-> TRUE, wg |-> t.wg + 1]
      BY <1>1 DEF Start
    <3>2. t.closed \in BOOLEAN /\ t.wg + 1 \in Int
      OBVIOUS
    <3>3. t' \in [started : BOOLEAN, closed : BOOLEAN, listening : BOOLEAN, wg : Int]
      BY <3>1, <3>2, Zenon
    <3> QED BY <1>1, <3>3 DEF Start
  <2>2. Placed'
    BY <1>1 DEF Start
  <2>3. Created'
    BY <1>1 DEF Start
  <2>4. Keyed'
    BY <1>1 DEF Start
  <2>5. Unregistered'
    BY <1>1 DEF Start
  <2>6. OneOwner'
    BY <1>1 DEF Start
  <2> QED BY <2>1, <2>2, <2>3, <2>4, <2>5, <2>6 DEF Shape
<1>2. ASSUME NEW s \in Senders, NEW a \in Addrs, Send(s, a) PROVE Shape'
  BY <1>2 DEF Send
<1>3. ASSUME NEW s \in Senders, NEW c \in Conns, Dial(s, c) PROVE Shape'
  BY <1>3 DEF Dial, fresh
<1>4. ASSUME NEW s \in Senders, DialFails(s) PROVE Shape'
  BY <1>4 DEF DialFails, return, Idle
<1>5. ASSUME NEW s \in Senders, RegisterDialled(s) PROVE Shape'
  <2>1. CASE conns[sender[s].peer] = None
    BY <1>5, <2>1, RegisterFirstKeeps
  <2>2. CASE conns[sender[s].peer] # None
    BY <1>5, <2>2, RegisterLosesKeeps
  <2> QED BY <1>5, <2>1, <2>2 DEF RegisterDialled
<1>6. ASSUME NEW s \in Senders, SendHello(s) PROVE Shape'
  <2>1. CASE spawn(sender[s].conn, "shake") /\ goto(s, "wait")
    <3>1. Typed'
      BY <1>6, SendHelloKeeps
    <3>2. Placed'
      BY <1>6, <2>1 DEF SendHello, goto, spawn, canWrite, canFail
    <3>3. Created'
      BY <1>6, <2>1 DEF SendHello, goto, spawn, canWrite, canFail
    <3>4. Keyed'
      BY <1>6, <2>1 DEF SendHello, goto, spawn, canWrite, canFail
    <3>5. Unregistered'
      BY <1>6, <2>1 DEF SendHello, goto, spawn, canWrite, canFail
    <3>6. OneOwner'
      BY <1>6, <2>1 DEF SendHello, goto, spawn, canWrite, canFail
    <3> QED BY <3>1, <3>2, <3>3, <3>4, <3>5, <3>6 DEF Shape
  <2>2. CASE UNCHANGED t /\ goto(s, "dropNew")
                /\ tc' = [tc EXCEPT ![sender[s].conn].failed = TRUE,
                                     ![sender[s].conn].ready = TRUE]
    <3>1. Typed'
      BY <1>6, SendHelloKeeps
    <3>2. Placed'
      BY <1>6, <2>2 DEF SendHello, goto, spawn, canWrite, canFail
    <3>3. Created'
      BY <1>6, <2>2 DEF SendHello, goto, spawn, canWrite, canFail
    <3>4. Keyed'
      <4>1. ASSUME NEW d \in Conns
            PROVE  /\ tc'[d].keys = tc[d].keys
                   /\ tc'[d].reader = tc[d].reader
                   /\ tc'[d].hello = tc[d].hello
        BY <2>2
      <4>2. ASSUME NEW r \in Senders, sender'[r].pc = "register"
            PROVE  sender'[r] = sender[r]
        BY <2>2, <4>2 DEF goto
      <4>3. UNCHANGED conns
        BY <1>6 DEF SendHello
      <4> QED BY <4>1, <4>2, <4>3
    <3>5. Unregistered'
      BY <1>6, <2>2 DEF SendHello, goto, spawn, canWrite, canFail
    <3>6. OneOwner'
      BY <1>6, <2>2 DEF SendHello, goto, spawn, canWrite, canFail
    <3> QED BY <3>1, <3>2, <3>3, <3>4, <3>5, <3>6 DEF Shape
  <2> QED BY <1>6, <2>1, <2>2 DEF SendHello
<1>7. ASSUME NEW s \in Senders, WaitReady(s) PROVE Shape'
  <2>1. CASE return(s)
    <3>1. Typed'
      BY <1>7, <2>1 DEF WaitReady, goto, return, Idle
    <3>2. Placed'
      BY <1>7, <2>1 DEF WaitReady, goto, return, Idle
    <3>3. Created'
      BY <1>7, <2>1 DEF WaitReady, goto, return, Idle
    <3>4. Keyed'
      BY <1>7, <2>1 DEF WaitReady, goto, return, Idle
    <3>5. Unregistered'
      BY <1>7, <2>1 DEF WaitReady, goto, return, Idle
    <3>6. OneOwner'
      BY <1>7, <2>1 DEF WaitReady, goto, return, Idle
    <3> QED BY <3>1, <3>2, <3>3, <3>4, <3>5, <3>6 DEF Shape
  <2>2. CASE goto(s, "write")
    <3>1. Typed'
      BY <1>7, <2>2 DEF WaitReady, goto, return, Idle
    <3>2. Placed'
      BY <1>7, <2>2 DEF WaitReady, goto, return, Idle
    <3>3. Created'
      BY <1>7, <2>2 DEF WaitReady, goto, return, Idle
    <3>4. Keyed'
      BY <1>7, <2>2 DEF WaitReady, goto, return, Idle
    <3>5. Unregistered'
      BY <1>7, <2>2 DEF WaitReady, goto, return, Idle
    <3>6. OneOwner'
      BY <1>7, <2>2 DEF WaitReady, goto, return, Idle
    <3> QED BY <3>1, <3>2, <3>3, <3>4, <3>5, <3>6 DEF Shape
  <2> QED BY <1>7, <2>1, <2>2 DEF WaitReady
<1>8. ASSUME NEW s \in Senders, Write(s) PROVE Shape'
  <2>1. CASE return(s)
    <3>1. Typed'
      BY <1>8, <2>1 DEF Write, goto, return, canWrite, canFail, Idle
    <3>2. Placed'
      BY <1>8, <2>1 DEF Write, goto, return, canWrite, canFail, Idle
    <3>3. Created'
      BY <1>8, <2>1 DEF Write, goto, return, canWrite, canFail, Idle
    <3>4. Keyed'
      BY <1>8, <2>1 DEF Write, goto, return, canWrite, canFail, Idle
    <3>5. Unregistered'
      BY <1>8, <2>1 DEF Write, goto, return, canWrite, canFail, Idle
    <3>6. OneOwner'
      BY <1>8, <2>1 DEF Write, goto, return, canWrite, canFail, Idle
    <3> QED BY <3>1, <3>2, <3>3, <3>4, <3>5, <3>6 DEF Shape
  <2>2. CASE goto(s, "drop")
    <3>1. Typed'
      BY <1>8, <2>2, SMTT(30) DEF Write, goto, return, canWrite, canFail, Idle
    <3>2. Placed'
      BY <1>8, <2>2 DEF Write, goto, return, canWrite, canFail, Idle
    <3>3. Created'
      BY <1>8, <2>2 DEF Write, goto, return, canWrite, canFail, Idle
    <3>4. Keyed'
      BY <1>8, <2>2 DEF Write, goto, return, canWrite, canFail, Idle
    <3>5. Unregistered'
      BY <1>8, <2>2 DEF Write, goto, return, canWrite, canFail, Idle
    <3>6. OneOwner'
      BY <1>8, <2>2 DEF Write, goto, return, canWrite, canFail, Idle
    <3> QED BY <3>1, <3>2, <3>3, <3>4, <3>5, <3>6 DEF Shape
  <2> QED BY <1>8, <2>1, <2>2 DEF Write
<1>9. ASSUME NEW s \in Senders, SenderForgets(s) PROVE Shape'
  BY <1>9, SMTT(30) DEF SenderForgets, goto, forget
<1>10. ASSUME NEW s \in Senders, SenderShuts(s) PROVE Shape'
  BY <1>10, SenderShutsKeeps
<1>11. ASSUME NEW c \in Conns, Accept(c) PROVE Shape'
  <2>1. Typed'
    BY <1>11, SMTT(30) DEF Accept, fresh
  <2>2. Placed'
    BY <1>11 DEF Accept, fresh
  <2>3. Created'
    BY <1>11 DEF Accept, fresh
  <2>4. Keyed'
    BY <1>11 DEF Accept, fresh
  <2>5. Unregistered'
    BY <1>11 DEF Accept, fresh
  <2>6. OneOwner'
    BY <1>11 DEF Accept, fresh
  <2> QED BY <2>1, <2>2, <2>3, <2>4, <2>5, <2>6 DEF Shape
<1>12. CASE StartAccepted
  <2>1. Typed'
    BY <1>12, SMTT(30) DEF StartAccepted, spawn
  <2>2. Placed'
    BY <1>12 DEF StartAccepted, spawn
  <2>3. Created'
    BY <1>12 DEF StartAccepted, spawn
  <2>4. Keyed'
    BY <1>12 DEF StartAccepted, spawn
  <2>5. Unregistered'
    BY <1>12 DEF StartAccepted, spawn
  <2>6. OneOwner'
    BY <1>12 DEF StartAccepted, spawn
  <2> QED BY <2>1, <2>2, <2>3, <2>4, <2>5, <2>6 DEF Shape
<1>13. CASE AcceptorExits
  BY <1>13 DEF AcceptorExits
<1>14. ASSUME NEW c \in Conns, ReaderHello(c) PROVE Shape'
  <2>1. CASE tc' = [tc EXCEPT ![c].reader = "shake"]
    <3>1. Typed'
      <4>1. [tc[c] EXCEPT !.reader = "shake"] \in ConnRecords
        BY ReaderMoves
      <4> QED BY <1>14, <2>1, <4>1 DEF ReaderHello
    <3>2. Placed'
      BY <1>14, <2>1 DEF ReaderHello, canWrite, canFail, fail
    <3>3. Created'
      BY <1>14, <2>1 DEF ReaderHello, canWrite, canFail, fail
    <3>4. Keyed'
      BY <1>14, <2>1 DEF ReaderHello, canWrite, canFail, fail
    <3>5. Unregistered'
      BY <1>14, <2>1 DEF ReaderHello, canWrite, canFail, fail
    <3>6. OneOwner'
      BY <1>14, <2>1 DEF ReaderHello, canWrite, canFail, fail
    <3> QED BY <3>1, <3>2, <3>3, <3>4, <3>5, <3>6 DEF Shape
  <2>2. CASE fail(c)
    <3>1. Typed'
      BY <1>14, <2>2 DEF ReaderHello, canWrite, canFail, fail
    <3>2. Placed'
      BY <1>14, <2>2 DEF ReaderHello, canWrite, canFail, fail
    <3>3. Created'
      BY <1>14, <2>2 DEF ReaderHello, canWrite, canFail, fail
    <3>4. Keyed'
      BY <1>14, <2>2 DEF ReaderHello, canWrite, canFail, fail
    <3>5. Unregistered'
      BY <1>14, <2>2 DEF ReaderHello, canWrite, canFail, fail
    <3>6. OneOwner'
      BY <1>14, <2>2 DEF ReaderHello, canWrite, canFail, fail
    <3> QED BY <3>1, <3>2, <3>3, <3>4, <3>5, <3>6 DEF Shape
  <2> QED BY <1>14, <2>1, <2>2 DEF ReaderHello
<1>15. ASSUME NEW c \in Conns, Handshake(c) PROVE Shape'
  BY <1>15 DEF Handshake, canWrite, fail
<1>16. ASSUME NEW c \in Conns, registerConnKey(c) PROVE Shape'
  BY <1>16, SMTT(30) DEF registerConnKey
<1>17. ASSUME NEW c \in Conns, markReady(c) PROVE Shape'
  BY <1>17 DEF markReady
<1>18. ASSUME NEW c \in Conns, ReadFails(c) PROVE Shape'
  BY <1>18 DEF ReadFails
<1>19. ASSUME NEW c \in Conns, ReaderForgets(c) PROVE Shape'
  <2>1. Typed'
    <3>1. conns' \in [Addrs -> Conns \cup {None}]
      BY <1>19 DEF ReaderForgets, forget
    <3>2. [tc[c] EXCEPT !.reader = "shut"] \in ConnRecords
      BY ReaderMoves
    <3>3. tc' \in [Conns -> ConnRecords]
      BY <1>19, <3>2 DEF ReaderForgets
    <3> QED BY <1>19, <3>1, <3>3 DEF ReaderForgets
  <2>2. Placed'
    BY <1>19 DEF ReaderForgets, forget
  <2>3. Created'
    BY <1>19 DEF ReaderForgets, forget
  <2>4. Keyed'
    BY <1>19 DEF ReaderForgets, forget
  <2>5. Unregistered'
    BY <1>19, SMTT(30) DEF ReaderForgets, forget
  <2>6. OneOwner'
    BY <1>19 DEF ReaderForgets, forget
  <2> QED BY <2>1, <2>2, <2>3, <2>4, <2>5, <2>6 DEF Shape
<1>20. ASSUME NEW c \in Conns, ReaderExits(c) PROVE Shape'
  BY <1>20, ReaderExitsKeeps
<1>21. CASE Close
  <2>1. Typed'
    <3>1. t' \in [started : BOOLEAN, closed : BOOLEAN, listening : BOOLEAN, wg : Int]
      BY <1>21 DEF Close
    <3>2. {conns[a] : a \in Addrs} \ {None} \in SUBSET Conns
      OBVIOUS
    <3>3. closer' \in [pc : {"idle", "listener", "conns", "wait", "done"}, todo : SUBSET Conns]
      BY <1>21, <3>2 DEF Close
    <3> QED BY <1>21, <3>1, <3>3 DEF Close
  <2>2. Placed'
    BY <1>21 DEF Close
  <2>3. Created'
    BY <1>21 DEF Close
  <2>4. Keyed'
    BY <1>21 DEF Close
  <2>5. Unregistered'
    BY <1>21 DEF Close
  <2>6. OneOwner'
    BY <1>21 DEF Close
  <2> QED BY <2>1, <2>2, <2>3, <2>4, <2>5, <2>6 DEF Shape
<1>22. CASE CloseListener
  <2>1. Typed'
    BY <1>22 DEF CloseListener
  <2>2. Placed'
    BY <1>22 DEF CloseListener
  <2>3. Created'
    BY <1>22 DEF CloseListener
  <2>4. Keyed'
    BY <1>22 DEF CloseListener
  <2>5. Unregistered'
    BY <1>22 DEF CloseListener
  <2>6. OneOwner'
    BY <1>22 DEF CloseListener
  <2> QED BY <2>1, <2>2, <2>3, <2>4, <2>5, <2>6 DEF Shape
<1>23. CASE CloseConns
  <2>1. Typed'
    <3>1. \A c \in Conns : [tc[c] EXCEPT !.sock = "closed"] \in ConnRecords
      BY ReaderMoves
    <3>2. tc' \in [Conns -> ConnRecords]
      BY <1>23, <3>1, SMTT(30) DEF CloseConns
    <3>3. closer' \in [pc : {"idle", "listener", "conns", "wait", "done"}, todo : SUBSET Conns]
      BY <1>23 DEF CloseConns
    <3> QED BY <1>23, <3>2, <3>3 DEF CloseConns
  <2>2. Placed'
    BY <1>23 DEF CloseConns
  <2>3. Created'
    BY <1>23 DEF CloseConns
  <2>4. Keyed'
    BY <1>23 DEF CloseConns
  <2>5. Unregistered'
    BY <1>23 DEF CloseConns
  <2>6. OneOwner'
    BY <1>23 DEF CloseConns
  <2> QED BY <2>1, <2>2, <2>3, <2>4, <2>5, <2>6 DEF Shape
<1>24. CASE CloseReturns
  BY <1>24 DEF CloseReturns
<1>25. ASSUME NEW c \in Conns, NEW h \in Addrs \cup {"bad"}, PeerSays(c, h) PROVE Shape'
  <2>1. Typed'
    BY <1>25 DEF PeerSays
  <2>2. Placed'
    BY <1>25 DEF PeerSays
  <2>3. Created'
    BY <1>25 DEF PeerSays
  <2>4. Keyed'
    <3>1. tc[c].reader # "register"
      BY <1>25, TransportAssumption DEF PeerSays
    <3>2. ASSUME NEW d \in Conns
          PROVE  /\ tc'[d].keys = tc[d].keys /\ tc'[d].reader = tc[d].reader
                 /\ d # c => tc'[d] = tc[d]
      BY <1>25 DEF PeerSays
    <3>3. UNCHANGED <<conns, sender>>
      BY <1>25 DEF PeerSays
    <3> QED BY <3>1, <3>2, <3>3
  <2>5. Unregistered'
    BY <1>25 DEF PeerSays
  <2>6. OneOwner'
    BY <1>25 DEF PeerSays
  <2> QED BY <2>1, <2>2, <2>3, <2>4, <2>5, <2>6 DEF Shape
<1>26. ASSUME NEW c \in Conns, PeerCloses(c) PROVE Shape'
  <2>1. Typed'
    <3>1. [tc[c] EXCEPT !.sock = "eof"] \in ConnRecords
      BY ReaderMoves
    <3>2. tc' \in [Conns -> ConnRecords]
      BY <1>26, <3>1 DEF PeerCloses
    <3> QED BY <1>26, <3>2 DEF PeerCloses
  <2>2. Placed'
    BY <1>26 DEF PeerCloses
  <2>3. Created'
    BY <1>26 DEF PeerCloses
  <2>4. Keyed'
    BY <1>26 DEF PeerCloses
  <2>5. Unregistered'
    BY <1>26 DEF PeerCloses
  <2>6. OneOwner'
    BY <1>26 DEF PeerCloses
  <2> QED BY <2>1, <2>2, <2>3, <2>4, <2>5, <2>6 DEF Shape
<1>27. ASSUME NEW c \in Conns, PeerSendsGarbage(c) PROVE Shape'
  BY <1>27 DEF PeerSendsGarbage
<1>28. ASSUME NEW c \in Conns, HandleFrame(c) PROVE Shape'
  BY <1>28 DEF HandleFrame
<1>29. ASSUME NEW c \in Conns, HandlerReturns(c) PROVE Shape'
  BY <1>29 DEF HandlerReturns
<1>30. CASE UNCHANGED vars
  BY <1>30 DEF vars
<1> QED
  BY <1>1, <1>2, <1>3, <1>4, <1>5, <1>6, <1>7, <1>8, <1>9, <1>10, <1>11, <1>12,
     <1>13, <1>14, <1>15, <1>16, <1>17, <1>18, <1>19, <1>20, <1>21, <1>22, <1>23, <1>24,
     <1>25, <1>26, <1>27,
     <1>28, <1>29, <1>30 DEF Next, SenderStep, ReaderStep

(* Every step keeps the three properties: a connection is given up by its
   owner only after it is out of the registry, closed, and its waiters are
   released. *)
LEMMA NextOwnership ==
    Shape /\ Ownership /\ [Next]_vars => Ownership'
<1> SUFFICES ASSUME Shape, Ownership, [Next]_vars PROVE Ownership'
  OBVIOUS
<1> USE ConnFacts DEF Shape, Typed, ConnRecords, SenderRecords, Placed, Created, Keyed,
            Unregistered, OneOwner, bringsUp, Ownership, RegisteredIsOwned, OpenIsOwned,
            WaiterIsServed, owned, running
<1>1. CASE Start
  BY <1>1 DEF Start
<1>2. ASSUME NEW s \in Senders, NEW a \in Addrs, Send(s, a) PROVE Ownership'
  BY <1>2 DEF Send
<1>3. ASSUME NEW s \in Senders, NEW c \in Conns, Dial(s, c) PROVE Ownership'
  BY <1>3 DEF Dial, fresh
<1>4. ASSUME NEW s \in Senders, DialFails(s) PROVE Ownership'
  BY <1>4, SMTT(30) DEF DialFails, return, Idle
<1>5. ASSUME NEW s \in Senders, RegisterDialled(s) PROVE Ownership'
  <2>1. CASE conns[sender[s].peer] = None
    BY <1>5, <2>1, RegisterFirstKeeps
  <2>2. CASE conns[sender[s].peer] # None
    BY <1>5, <2>2, RegisterLosesKeeps
  <2> QED BY <1>5, <2>1, <2>2 DEF RegisterDialled
<1>6. ASSUME NEW s \in Senders, SendHello(s) PROVE Ownership'
  <2>1. CASE spawn(sender[s].conn, "shake") /\ goto(s, "wait")
    <3>1. RegisteredIsOwned'
      BY <1>6, <2>1 DEF SendHello, goto, spawn, canWrite, canFail
    <3>2. OpenIsOwned'
      BY <1>6, <2>1 DEF SendHello, goto, spawn, canWrite, canFail
    <3>3. WaiterIsServed'
      BY <1>6, SendHelloKeeps
    <3> QED BY <3>1, <3>2, <3>3 DEF Ownership
  <2>2. CASE UNCHANGED t /\ goto(s, "dropNew")
                /\ tc' = [tc EXCEPT ![sender[s].conn].failed = TRUE,
                                     ![sender[s].conn].ready = TRUE]
    <3>1. RegisteredIsOwned'
      BY <1>6, <2>2 DEF SendHello, goto, spawn, canWrite, canFail
    <3>2. OpenIsOwned'
      BY <1>6, <2>2 DEF SendHello, goto, spawn, canWrite, canFail
    <3>3. WaiterIsServed'
      BY <1>6, SendHelloKeeps
    <3> QED BY <3>1, <3>2, <3>3 DEF Ownership
  <2> QED BY <1>6, <2>1, <2>2 DEF SendHello
<1>7. ASSUME NEW s \in Senders, WaitReady(s) PROVE Ownership'
  <2>1. CASE return(s)
    <3>1. RegisteredIsOwned'
      BY <1>7, <2>1 DEF WaitReady, goto, return, Idle
    <3>2. OpenIsOwned'
      BY <1>7, <2>1 DEF WaitReady, goto, return, Idle
    <3>3. WaiterIsServed'
      BY <1>7, <2>1 DEF WaitReady, goto, return, Idle
    <3> QED BY <3>1, <3>2, <3>3 DEF Ownership
  <2>2. CASE goto(s, "write")
    <3>1. RegisteredIsOwned'
      BY <1>7, <2>2 DEF WaitReady, goto, return, Idle
    <3>2. OpenIsOwned'
      BY <1>7, <2>2 DEF WaitReady, goto, return, Idle
    <3>3. WaiterIsServed'
      BY <1>7, <2>2 DEF WaitReady, goto, return, Idle
    <3> QED BY <3>1, <3>2, <3>3 DEF Ownership
  <2> QED BY <1>7, <2>1, <2>2 DEF WaitReady
<1>8. ASSUME NEW s \in Senders, Write(s) PROVE Ownership'
  <2>1. CASE return(s)
    <3>1. RegisteredIsOwned'
      BY <1>8, <2>1 DEF Write, goto, return, canWrite, canFail, Idle
    <3>2. OpenIsOwned'
      BY <1>8, <2>1 DEF Write, goto, return, canWrite, canFail, Idle
    <3>3. WaiterIsServed'
      BY <1>8, <2>1 DEF Write, goto, return, canWrite, canFail, Idle
    <3> QED BY <3>1, <3>2, <3>3 DEF Ownership
  <2>2. CASE goto(s, "drop")
    <3>1. RegisteredIsOwned'
      BY <1>8, <2>2 DEF Write, goto, return, canWrite, canFail, Idle
    <3>2. OpenIsOwned'
      BY <1>8, <2>2 DEF Write, goto, return, canWrite, canFail, Idle
    <3>3. WaiterIsServed'
      BY <1>8, <2>2 DEF Write, goto, return, canWrite, canFail, Idle
    <3> QED BY <3>1, <3>2, <3>3 DEF Ownership
  <2> QED BY <1>8, <2>1, <2>2 DEF Write
<1>9. ASSUME NEW s \in Senders, SenderForgets(s) PROVE Ownership'
  <2>1. RegisteredIsOwned'
    BY <1>9 DEF SenderForgets, goto, forget
  <2>2. OpenIsOwned'
    BY <1>9 DEF SenderForgets, goto, forget
  <2>3. WaiterIsServed'
    BY <1>9 DEF SenderForgets, goto, forget
  <2> QED BY <2>1, <2>2, <2>3 DEF Ownership
<1>10. ASSUME NEW s \in Senders, SenderShuts(s) PROVE Ownership'
  BY <1>10, SenderShutsKeeps
<1>11. ASSUME NEW c \in Conns, Accept(c) PROVE Ownership'
  <2>1. RegisteredIsOwned'
    BY <1>11 DEF Accept, fresh
  <2>2. OpenIsOwned'
    BY <1>11 DEF Accept, fresh
  <2>3. WaiterIsServed'
    BY <1>11 DEF Accept, fresh
  <2> QED BY <2>1, <2>2, <2>3 DEF Ownership
<1>12. CASE StartAccepted
  BY <1>12 DEF StartAccepted, spawn
<1>13. CASE AcceptorExits
  BY <1>13 DEF AcceptorExits
<1>14. ASSUME NEW c \in Conns, ReaderHello(c) PROVE Ownership'
  <2>1. CASE tc' = [tc EXCEPT ![c].reader = "shake"]
    <3>1. RegisteredIsOwned'
      BY <1>14, <2>1 DEF ReaderHello, canWrite, canFail, fail
    <3>2. OpenIsOwned'
      BY <1>14, <2>1 DEF ReaderHello, canWrite, canFail, fail
    <3>3. WaiterIsServed'
      <4>1. ASSUME NEW d \in Conns
            PROVE  (running(d) => running(d)') /\ (tc[d].ready => tc'[d].ready)
        BY <2>1
      <4> QED BY <1>14, <4>1 DEF ReaderHello
    <3> QED BY <3>1, <3>2, <3>3 DEF Ownership
  <2>2. CASE fail(c)
    <3>1. RegisteredIsOwned'
      BY <1>14, <2>2 DEF ReaderHello, canWrite, canFail, fail
    <3>2. OpenIsOwned'
      BY <1>14, <2>2 DEF ReaderHello, canWrite, canFail, fail
    <3>3. WaiterIsServed'
      BY <1>14, <2>2 DEF ReaderHello, canWrite, canFail, fail
    <3> QED BY <3>1, <3>2, <3>3 DEF Ownership
  <2> QED BY <1>14, <2>1, <2>2 DEF ReaderHello
<1>15. ASSUME NEW c \in Conns, Handshake(c) PROVE Ownership'
  BY <1>15 DEF Handshake, canWrite, fail
<1>16. ASSUME NEW c \in Conns, registerConnKey(c) PROVE Ownership'
  BY <1>16 DEF registerConnKey
<1>17. ASSUME NEW c \in Conns, markReady(c) PROVE Ownership'
  BY <1>17 DEF markReady
<1>18. ASSUME NEW c \in Conns, ReadFails(c) PROVE Ownership'
  BY <1>18 DEF ReadFails
<1>19. ASSUME NEW c \in Conns, ReaderForgets(c) PROVE Ownership'
  BY <1>19 DEF ReaderForgets, forget
<1>20. ASSUME NEW c \in Conns, ReaderExits(c) PROVE Ownership'
  BY <1>20, ReaderExitsKeeps
<1>21. CASE Close
  BY <1>21 DEF Close
<1>22. CASE CloseListener
  BY <1>22 DEF CloseListener
<1>23. CASE CloseConns
  BY <1>23 DEF CloseConns
<1>24. CASE CloseReturns
  BY <1>24 DEF CloseReturns
<1>25. ASSUME NEW c \in Conns, NEW h \in Addrs \cup {"bad"}, PeerSays(c, h) PROVE Ownership'
  BY <1>25 DEF PeerSays
<1>26. ASSUME NEW c \in Conns, PeerCloses(c) PROVE Ownership'
  BY <1>26 DEF PeerCloses
<1>27. ASSUME NEW c \in Conns, PeerSendsGarbage(c) PROVE Ownership'
  BY <1>27 DEF PeerSendsGarbage
<1>28. ASSUME NEW c \in Conns, HandleFrame(c) PROVE Ownership'
  BY <1>28 DEF HandleFrame
<1>29. ASSUME NEW c \in Conns, HandlerReturns(c) PROVE Ownership'
  BY <1>29 DEF HandlerReturns
<1>30. CASE UNCHANGED vars
  BY <1>30 DEF vars
<1> QED
  BY <1>1, <1>2, <1>3, <1>4, <1>5, <1>6, <1>7, <1>8, <1>9, <1>10, <1>11, <1>12,
     <1>13, <1>14, <1>15, <1>16, <1>17, <1>18, <1>19, <1>20, <1>21, <1>22, <1>23, <1>24,
     <1>25, <1>26, <1>27,
     <1>28, <1>29, <1>30 DEF Next, SenderStep, ReaderStep

(* Finitely many read loops run. *)
LEMMA RunningFinite == IsFiniteSet(Running) /\ Cardinality(Running) \in Nat
<1>1. IsFiniteSet(Conns)
  BY TransportAssumption, FS_Interval DEF Conns
<1>2. IsFiniteSet(Running)
  BY <1>1, FS_Subset DEF Running
<1> QED BY <1>2, FS_CardinalityType

(* One read loop starts. *)
LEMMA OneMore == ASSUME NEW c \in Conns, ~running(c), running(c)',
                        \A d \in Conns \ {c} : running(d)' <=> running(d)
                 PROVE  Cardinality(Running)' = Cardinality(Running) + 1
<1>1. Running' = Running \cup {c} /\ c \notin Running
  BY DEF Running
<1> QED BY <1>1, RunningFinite, FS_AddElement

(* One read loop ends. *)
LEMMA OneLess == ASSUME NEW c \in Conns, running(c), ~running(c)',
                      \A d \in Conns \ {c} : running(d)' <=> running(d)
               PROVE  Cardinality(Running)' = Cardinality(Running) - 1
<1>1. Running' = Running \ {c} /\ c \in Running
  BY DEF Running
<1> QED BY <1>1, RunningFinite, FS_RemoveElement

(* None starts or ends. *)
LEMMA Steady == ASSUME \A d \in Conns : running(d)' <=> running(d)
               PROVE  Cardinality(Running)' = Cardinality(Running)
BY DEF Running

(* The wait group is changed exactly when a goroutine starts or ends, and by
   one. *)
LEMMA NextCounted == Shape /\ Counted /\ [Next]_vars => Counted'
<1> SUFFICES ASSUME Shape, Counted, [Next]_vars PROVE Counted'
  OBVIOUS
<1> USE RunningFinite, ConnFacts
<1> DEFINE looping == acceptor.pc \in {"accept", "start"}
           calm == \A d \in Conns : running(d)' <=> running(d)
<1>a. ASSUME calm, t'.wg = t.wg, looping' <=> looping PROVE Counted'
  BY <1>a, Steady DEF Counted
<1>1. CASE Start
  <2>1. calm /\ ~looping /\ looping' /\ t'.wg = t.wg + 1
    BY <1>1 DEF Start, running, Shape, Typed, Placed
  <2> QED BY <2>1, Steady DEF Counted
<1>2. ASSUME NEW s \in Senders, SendHello(s) PROVE Counted'
  <2>1. PICK c \in Conns : c = sender[s].conn
    BY <1>2 DEF SendHello, Shape, Typed, SenderRecords, Placed
  <2>2. CASE spawn(c, "shake")
    <3>1. tc[c].reader = "none"
      BY <1>2, <2>1 DEF SendHello, Shape, OneOwner, bringsUp
    <3>2. ~running(c) /\ running(c)' /\ \A d \in Conns \ {c} : running(d)' <=> running(d)
      BY <2>2, <3>1 DEF spawn, running, Shape, Typed, ConnRecords
    <3>3. t'.wg = t.wg + 1 /\ looping' = looping
      BY <1>2, <2>2 DEF SendHello, spawn, Shape, Typed
    <3> QED BY <3>2, <3>3, OneMore DEF Counted
  <2>3. CASE tc' = [tc EXCEPT ![c].failed = TRUE, ![c].ready = TRUE] /\ UNCHANGED t
    <3>1. calm
      BY <2>3 DEF running, Shape, Typed, ConnRecords
    <3> QED BY <1>2, <1>a, <2>3, <3>1 DEF SendHello
  <2> QED BY <1>2, <2>1, <2>2, <2>3 DEF SendHello
<1>3. CASE StartAccepted
  <2>1. PICK c \in Conns : c = acceptor.conn
    BY <1>3 DEF StartAccepted, Shape, Typed, Placed
  <2>2. ~running(c) /\ running(c)' /\ \A d \in Conns \ {c} : running(d)' <=> running(d)
    BY <1>3, <2>1 DEF StartAccepted, spawn, running, Shape, OneOwner, Typed, ConnRecords
  <2>3. t'.wg = t.wg + 1 /\ looping /\ looping'
    BY <1>3 DEF StartAccepted, spawn, Shape, Typed
  <2> QED BY <2>2, <2>3, OneMore DEF Counted
<1>4. CASE AcceptorExits
  <2>1. calm /\ looping /\ ~looping' /\ t'.wg = t.wg - 1
    BY <1>4 DEF AcceptorExits, running, Shape, Typed
  <2> QED BY <2>1, Steady DEF Counted
<1>5. ASSUME NEW c \in Conns, ReaderExits(c) PROVE Counted'
  <2>1. running(c) /\ ~running(c)' /\ \A d \in Conns \ {c} : running(d)' <=> running(d)
    BY <1>5 DEF ReaderExits, Over, running, Shape, Typed, ConnRecords
  <2>2. t'.wg = t.wg - 1 /\ looping' = looping
    BY <1>5 DEF ReaderExits, Shape, Typed
  <2> QED BY <2>1, <2>2, OneLess DEF Counted
<1> USE DEF running, Shape, Typed, ConnRecords
<1>6. ASSUME NEW s \in Senders, NEW a \in Addrs, Send(s, a) PROVE Counted'
  BY <1>6, <1>a DEF Send
<1>7. ASSUME NEW s \in Senders, NEW c \in Conns, Dial(s, c) PROVE Counted'
  BY <1>7, <1>a DEF Dial
<1>8. ASSUME NEW s \in Senders, DialFails(s) PROVE Counted'
  BY <1>8, <1>a DEF DialFails
<1>9. ASSUME NEW s \in Senders, RegisterDialled(s) PROVE Counted'
  <2>1. CASE UNCHANGED tc
    BY <1>9, <1>a, <2>1 DEF RegisterDialled
  <2>2. CASE tc' = [tc EXCEPT ![sender[s].conn] = Over]
    <3>1. sender[s].conn \in Conns /\ tc[sender[s].conn].reader = "none"
      BY <1>9 DEF RegisterDialled, Placed, SenderRecords, OneOwner, bringsUp
    <3>2. calm
      BY <2>2, <3>1 DEF Over
    <3> QED BY <1>9, <1>a, <3>2 DEF RegisterDialled
  <2> QED BY <1>9, <2>1, <2>2 DEF RegisterDialled
<1>10. ASSUME NEW s \in Senders, WaitReady(s) PROVE Counted'
  BY <1>10, <1>a DEF WaitReady
<1>11. ASSUME NEW s \in Senders, Write(s) PROVE Counted'
  BY <1>11, <1>a DEF Write
<1>12. ASSUME NEW s \in Senders, SenderForgets(s) PROVE Counted'
  BY <1>12, <1>a DEF SenderForgets
<1>13. ASSUME NEW s \in Senders, SenderShuts(s) PROVE Counted'
  BY <1>13, <1>a DEF SenderShuts, shut
<1>14. ASSUME NEW c \in Conns, Accept(c) PROVE Counted'
  BY <1>14, <1>a DEF Accept
<1>15. ASSUME NEW c \in Conns, ReaderHello(c) PROVE Counted'
  <2>1. calm
    BY <1>15 DEF ReaderHello, fail
  <2>2. UNCHANGED <<t, acceptor>>
    BY <1>15 DEF ReaderHello
  <2> QED BY <1>a, <2>1, <2>2
<1>16. ASSUME NEW c \in Conns, Handshake(c) PROVE Counted'
  BY <1>16, <1>a DEF Handshake, fail
<1>17. ASSUME NEW c \in Conns, registerConnKey(c) PROVE Counted'
  BY <1>17, <1>a DEF registerConnKey
<1>18. ASSUME NEW c \in Conns, markReady(c) PROVE Counted'
  BY <1>18, <1>a DEF markReady
<1>19. ASSUME NEW c \in Conns, ReadFails(c) PROVE Counted'
  BY <1>19, <1>a DEF ReadFails
<1>20. ASSUME NEW c \in Conns, ReaderForgets(c) PROVE Counted'
  BY <1>20, <1>a DEF ReaderForgets
<1>21. CASE Close
  BY <1>21, <1>a DEF Close
<1>22. CASE CloseListener
  BY <1>22, <1>a DEF CloseListener
<1>23. CASE CloseConns
  BY <1>23, <1>a DEF CloseConns
<1>24. CASE CloseReturns
  BY <1>24, <1>a DEF CloseReturns
<1>25. ASSUME NEW c \in Conns, NEW h \in Addrs \cup {"bad"}, PeerSays(c, h) PROVE Counted'
  BY <1>25, <1>a DEF PeerSays
<1>26. ASSUME NEW c \in Conns, PeerCloses(c) PROVE Counted'
  BY <1>26, <1>a DEF PeerCloses
<1>27. ASSUME NEW c \in Conns, PeerSendsGarbage(c) PROVE Counted'
  BY <1>27, <1>a DEF PeerSendsGarbage
<1>28. ASSUME NEW c \in Conns, HandleFrame(c) PROVE Counted'
  BY <1>28, <1>a DEF HandleFrame
<1>29. ASSUME NEW c \in Conns, HandlerReturns(c) PROVE Counted'
  BY <1>29, <1>a DEF HandlerReturns
<1>30. CASE UNCHANGED vars
  BY <1>30, <1>a DEF vars
<1> QED
  BY <1>1, <1>2, <1>3, <1>4, <1>5, <1>6, <1>7, <1>8, <1>9, <1>10, <1>11, <1>12, <1>13, <1>14,
     <1>15, <1>16, <1>17, <1>18, <1>19, <1>20, <1>21, <1>22, <1>23, <1>24, <1>25, <1>26, <1>27,
     <1>28, <1>29, <1>30 DEF Next, SenderStep, ReaderStep

(* The invariant holds before Start. *)
LEMMA InitIInv == Init => IInv
<1> SUFFICES ASSUME Init PROVE IInv
  OBVIOUS
<1> USE ConnFacts DEF Init, Idle
<1>1. Typed
  BY DEF Typed, ConnRecords, SenderRecords
<1>2. Shape
  BY <1>1 DEF Shape, Placed, Created, Keyed, Unregistered, OneOwner, bringsUp
<1>3. Ownership
  BY DEF Ownership, RegisteredIsOwned, OpenIsOwned, WaiterIsServed
<1>4. Counted
  <2>1. Running = {}
    BY DEF Running, running
  <2> QED BY <2>1, FS_EmptySet DEF Counted
<1> QED BY <1>2, <1>3, <1>4 DEF IInv

(* Close returns only with the wait group at zero, and then nothing runs. *)
LEMMA CloseStep == IInv /\ [Next]_vars =>
   (closer.pc = "wait" /\ closer'.pc = "done" =>
          /\ acceptor.pc \in {"none", "done"}
          /\ \A c \in Conns : ~running(c))
<1> SUFFICES ASSUME IInv, [Next]_vars, closer.pc = "wait", closer'.pc = "done"
             PROVE  acceptor.pc \in {"none", "done"} /\ \A c \in Conns : ~running(c)
  OBVIOUS
<1>1. t.wg = 0
  BY DEF Next, vars, Start, Send, SenderStep, Dial, DialFails, RegisterDialled, SendHello,
         WaitReady, Write, SenderForgets, SenderShuts, Accept, StartAccepted, AcceptorExits,
         ReaderStep, ReaderHello, Handshake, registerConnKey, markReady, ReadFails,
         HandleFrame, HandlerReturns, ReaderForgets, ReaderExits, Close, CloseListener, CloseConns, CloseReturns,
         PeerSays, PeerCloses, PeerSendsGarbage, IInv, Shape, Typed
<1>2. Cardinality(Running) = 0 /\ acceptor.pc \notin {"accept", "start"}
  BY <1>1, RunningFinite DEF IInv, Counted
<1>3. Running = {}
  BY <1>2, RunningFinite, FS_EmptySet
<1> QED BY <1>2, <1>3 DEF Running, IInv, Shape, Typed

(* The invariant holds in every reachable state. *)
LEMMA Invariance == Spec => []IInv
<1>1. IInv /\ [Next]_vars => IInv'
  BY NextShape, NextOwnership, NextCounted DEF IInv
<1> QED BY InitIInv, <1>1, PTL DEF Spec

(* Every field keeps its type.  In particular the wait group never falls
   below zero, which would make sync.WaitGroup panic: each Done is preceded
   by its own Add. *)
THEOREM TypeCorrect == Spec => []TypeOK
<1>1. IInv => TypeOK
  <2> SUFFICES ASSUME IInv PROVE TypeOK
    OBVIOUS
  <2>1. t.wg \in Nat
    BY RunningFinite DEF IInv, Counted
  <2>2. t \in [started : BOOLEAN, closed : BOOLEAN, listening : BOOLEAN, wg : Nat]
    BY <2>1 DEF IInv, Shape, Typed
  <2> QED BY <2>2 DEF IInv, Shape, Typed, ConnRecords, SenderRecords, TypeOK
<1> QED BY Invariance, <1>1, PTL

(* No dead entry in t.conns: whichever of a dial, an accepted connection, a
   failed handshake, a failed write or Close comes first, every registered
   connection has a goroutine that takes it out again. *)
THEOREM RegisteredIsOwnedHolds == Spec => []RegisteredIsOwned
<1>1. IInv => RegisteredIsOwned
  BY DEF IInv, Ownership
<1> QED BY Invariance, <1>1, PTL

(* No leaked socket: every socket that this process has not closed has a
   goroutine that will, the losers of a double dial included. *)
THEOREM OpenIsOwnedHolds == Spec => []OpenIsOwned
<1>1. IInv => OpenIsOwned
  BY DEF IInv, Ownership
<1> QED BY Invariance, <1>1, PTL

(* No Send waits for a handshake that nobody will finish. *)
THEOREM WaiterIsServedHolds == Spec => []WaiterIsServed
<1>1. IInv => WaiterIsServed
  BY DEF IInv, Ownership
<1> QED BY Invariance, <1>1, PTL

(* When Close returns, the accept loop and all read loops have ended. *)
THEOREM CloseWaits == Spec => CloseWaitsForAll
BY Invariance, CloseStep, PTL DEF Spec, CloseWaitsForAll

=============================================================================
