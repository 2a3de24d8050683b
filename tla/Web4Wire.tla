----------------------------- MODULE Web4Wire ------------------------------
(***************************************************************************)
(* One direction of a TCP connection, byte by byte (transport/tcp.go,      *)
(* transport/transport.go): the handshake and the frames that the          *)
(* goroutines of one end write, and the read loop of the other end, which  *)
(* passes messages to its handler.                                         *)
(*                                                                         *)
(* A connection is in the registry, and so within reach of Send, before    *)
(* its handshake is written.  A write may take any part of a frame at a    *)
(* time.  The writing end may also be another implementation that writes   *)
(* what it likes, and the connection may break between any two bytes.      *)
(***************************************************************************)
EXTENDS Web4Codec, FiniteSets

CONSTANTS
    Senders,    \* goroutines in Send
    Opener,     \* the goroutine that brings the connection up
    Nobody,     \* writeMu is free
    Addr,       \* the writing end's listen address
    Samples,    \* messages a sender may send
    Noise,      \* byte strings another implementation may write as a frame
    MaxSends    \* bound on the number of calls of Send

ASSUME WireAssumption ==
    /\ Opener \notin Senders /\ Nobody \notin Senders \cup {Opener}
    /\ Addr \in Seq(Byte) /\ Len(Addr) \in 1..MaxAddr /\ Len(Addr) \in Uints(W16)
    /\ Samples \subseteq {m \in Messages : Len(EncodeMessage(m)) \in Uints(W32)}
    /\ Noise \subseteq Seq(Byte)
    /\ MaxSends \in Nat

Goroutines == Senders \cup {Opener}

VARIABLES
    pc,        \* pc[g]: "hello", "idle", "wait" (for ready), "lock", "write"
    msg,       \* msg[s]: the message s was called with
    rest,      \* rest[g]: what g still has to write
    ready,     \* tcpConn.ready is closed at the writing end
    writeMu,   \* the holder of tcpConn.writeMu
    wire,      \* bytes written and not yet read
    state,     \* "open", "broken", or "refused" by the read loop
    from,      \* the peer address the read loop has read, <<>> before
    bodies,    \* history: the frame bodies that the read loop has accepted
    got,       \* history: the messages it has passed to the handler
    sent,      \* history: the messages whose write has begun, in that order
    foreign    \* history: something that is not ours was written

ends == <<state, from, bodies, got>>
vars == <<pc, msg, rest, ready, writeMu, wire, ends, sent, foreign>>

Init ==
    /\ pc = [g \in Goroutines |-> IF g = Opener THEN "hello" ELSE "idle"]
    /\ msg = [s \in Senders |-> <<>>]
    /\ rest = [g \in Goroutines |-> <<>>]
    /\ ready = FALSE
    /\ writeMu = Nobody
    /\ wire = <<>>
    /\ state = "open" /\ from = <<>>
    /\ bodies = <<>> /\ got = <<>>
    /\ sent = <<>>
    /\ foreign = FALSE

----------------------------------------------------------------------------
(* The writing end.                                                        *)

goto(g, label) == pc' = [pc EXCEPT ![g] = label]

WriteHello ==
    /\ pc[Opener] = "hello"
    /\ goto(Opener, "lock")
    /\ rest' = [rest EXCEPT ![Opener] = encodeHandshake(Addr)]
    /\ UNCHANGED <<msg, ready, writeMu, wire, ends, sent, foreign>>

\* The handshake of the other end has come: it is awaited only after our own
\* is written.
MarkReady ==
    /\ pc[Opener] = "idle" /\ ~ready
    /\ ready' = TRUE
    /\ UNCHANGED <<pc, msg, rest, writeMu, wire, ends, sent, foreign>>

busy == Cardinality({g \in Senders : pc[g] # "idle"})

\* Send has found the connection in the registry and encoded its frame.
Send(s, m) ==
    /\ pc[s] = "idle" /\ ~foreign
    /\ Len(sent) + busy < MaxSends
    /\ goto(s, "wait")
    /\ msg' = [msg EXCEPT ![s] = m]
    /\ rest' = [rest EXCEPT ![s] = EncodeMessageFrame(m)]
    /\ UNCHANGED <<ready, writeMu, wire, ends, sent, foreign>>

\* Mutant: Send does not wait for the handshake.
DontWait(s) ==
    /\ pc[s] = "wait"
    /\ goto(s, "lock")
    /\ UNCHANGED <<msg, rest, ready, writeMu, wire, ends, sent, foreign>>

WaitReady(s) ==
    /\ pc[s] = "wait" /\ ready
    /\ goto(s, "lock")
    /\ UNCHANGED <<msg, rest, ready, writeMu, wire, ends, sent, foreign>>

\* Mutant: writeMu is ignored.
LockFreely(g) ==
    /\ pc[g] = "lock"
    /\ goto(g, "write")
    /\ sent' = IF g = Opener THEN sent ELSE Append(sent, msg[g])
    /\ UNCHANGED <<msg, rest, writeMu, ready, wire, ends, foreign>>

Lock(g) ==
    /\ pc[g] = "lock" /\ writeMu = Nobody
    /\ writeMu' = g
    /\ goto(g, "write")
    /\ sent' = IF g = Opener THEN sent ELSE Append(sent, msg[g])
    /\ UNCHANGED <<msg, rest, ready, wire, ends, foreign>>

\* Mutant: the lock is not released.
WriteKeepingLock(g, n) ==
    /\ pc[g] = "write" /\ state = "open"
    /\ wire' = wire \o SubSeq(rest[g], 1, n)
    /\ rest' = [rest EXCEPT ![g] = SubSeq(@, n + 1, Len(@))]
    /\ IF n = Len(rest[g]) THEN goto(g, "idle") ELSE UNCHANGED pc
    /\ UNCHANGED <<msg, ready, writeMu, ends, sent, foreign>>

\* One conn.Write takes n bytes; the lock is released after the last.
Write(g, n) ==
    /\ pc[g] = "write" /\ state = "open"
    /\ wire' = wire \o SubSeq(rest[g], 1, n)
    /\ rest' = [rest EXCEPT ![g] = SubSeq(@, n + 1, Len(@))]
    /\ IF n = Len(rest[g]) THEN goto(g, "idle") /\ writeMu' = Nobody
                           ELSE UNCHANGED <<pc, writeMu>>
    /\ UNCHANGED <<msg, ready, ends, sent, foreign>>

\* The connection has ended: Send returns the error, whether it was waiting,
\* queueing or writing.
SendFails(g) ==
    /\ state # "open" /\ pc[g] \in {"wait", "lock", "write"}
    /\ writeMu \in {g, Nobody}
    /\ goto(g, "idle")
    /\ rest' = [rest EXCEPT ![g] = <<>>]
    /\ writeMu' = Nobody
    /\ UNCHANGED <<msg, ready, wire, ends, sent, foreign>>

\* The writing end is another implementation, which has sent a proper
\* handshake.
WriteNoise(b) ==
    /\ state = "open" /\ ready /\ ~foreign
    /\ sent = <<>> /\ busy = 0
    /\ wire' = wire \o b
    /\ foreign' = TRUE
    /\ UNCHANGED <<pc, msg, rest, ready, writeMu, ends, sent>>

----------------------------------------------------------------------------
(* The read loop.                                                          *)

stop == state' = "refused" /\ UNCHANGED <<from, bodies, got, wire>>

ReadHandshake ==
    LET shake == decodeHandshake(wire)
    IN  /\ from = <<>> /\ state # "refused"
        /\ \/ /\ shake.arrived /\ ~shake.refused
              /\ from' = shake.addr
              /\ wire' = SubSeq(wire, shake.rest + 1, Len(wire))
              /\ UNCHANGED <<state, bodies, got>>
           \/ shake.refused /\ stop
        /\ UNCHANGED <<pc, msg, rest, ready, writeMu, sent, foreign>>

ReadFrame ==
    LET frame == DecodeMessageFrame(wire)
        m     == DecodeMessage(frame.body)
    IN  /\ from # <<>> /\ state # "refused"
        /\ \/ /\ frame.arrived /\ ~frame.refused /\ m.ok
              /\ bodies' = Append(bodies, frame.body)
              /\ got' = Append(got, m.val)
              /\ wire' = SubSeq(wire, frame.rest + 1, Len(wire))
              /\ UNCHANGED <<state, from>>
           \/ (frame.refused \/ (frame.arrived /\ ~m.ok)) /\ stop
        /\ UNCHANGED <<pc, msg, rest, ready, writeMu, sent, foreign>>

----------------------------------------------------------------------------

\* The last k bytes under way are lost.
Break(k) ==
    /\ state = "open"
    /\ state' = "broken"
    /\ wire' = SubSeq(wire, 1, Len(wire) - k)
    /\ UNCHANGED <<pc, msg, rest, ready, writeMu, from, bodies, got, sent, foreign>>

Pieces(g) == {1, Len(rest[g])} \ {0}

SenderStep(g) ==
    \/ WaitReady(g)
    \/ Lock(g)
    \/ \E n \in Pieces(g) : Write(g, n)
    \/ SendFails(g)

Next ==
    \/ WriteHello
    \/ MarkReady
    \/ \E s \in Senders, m \in Samples : Send(s, m)
    \/ \E g \in Goroutines : SenderStep(g)
    \/ \E b \in Noise : WriteNoise(b)
    \/ ReadHandshake
    \/ ReadFrame
    \/ \E k \in {0, 1} : k <= Len(wire) /\ Break(k)

\* The read loop has ended or waits for more bytes.
ReaderWaits ==
    LET item == IF from = <<>> THEN decodeHandshake(wire) ELSE DecodeMessageFrame(wire)
    IN  state = "refused" \/ (~item.arrived /\ ~item.refused)

(* Fairness: goroutines that can go on do.  MarkReady waits for the other end
   and is taken to come, which the code cannot guarantee: a silent other end is
   the matter of TCPTransport and Web4Link.
   For the read loop weak fairness is written out, which spares TLC the
   evaluation of the decoders under ENABLED. *)
Fairness ==
    /\ WF_vars(WriteHello) /\ WF_vars(MarkReady)
    /\ []<>ReaderWaits \/ []<><<ReadHandshake \/ ReadFrame>>_vars
    /\ \A g \in Goroutines : WF_vars(SenderStep(g))

Spec == Init /\ [][Next]_vars /\ Fairness

----------------------------------------------------------------------------
(* Properties.                                                             *)

(* The handler gets what was sent: unless something foreign was written, the
   messages it gets are the messages that were sent, complete and in the order
   in which their writers got writeMu, under the address of the sender,
   whatever pieces the writes are cut into and wherever the connection breaks. *)
DeliveredAsSent ==
    ~foreign => /\ from \in {<<>>, Addr}
                /\ IsPrefix(got, sent)

(* One encoding per content: a frame body, and a payload that its handler
   accepts, are exactly what the encoder makes of the decoded value.  Two byte
   strings never stand for one transfer, as the content-addressed IDs and the
   signatures over the encoding assume. *)
OneEncoding ==
    \A i \in DOMAIN got :
        LET m == got[i]
            p == DecodePayload(m.type, m.payload)
        IN  /\ EncodeMessage(m) = bodies[i]
            /\ p.ok => EncodePayload(m.type, p.val) = m.payload

(* The read loop gives up on a connection only for a reason: a peer that runs
   this code and keeps its messages below maxFrameSize is never refused. *)
RefusesOnlyStrangers ==
    state = "refused" =>
        foreign \/ \E i \in DOMAIN sent : Len(EncodeMessage(sent[i])) > MaxFrame

(* Where the other end says who it is, as Fairness takes it to do, every Send
   returns, and a message whose write has begun is passed to the handler unless
   the connection ends first: no sender waits for ever behind another sender or
   for a handshake that has come.  For one that never comes a Send does wait,
   see TCPTransport and Web4Link. *)
EverythingArrives ==
    /\ \A s \in Senders : pc[s] = "wait" ~> pc[s] = "idle"
    /\ \A n \in 1..MaxSends : Len(sent) = n ~> Len(got) >= n \/ state # "open"

=============================================================================
