---------------------------- MODULE Web4Control ----------------------------
(***************************************************************************)
(* The commands that talk to a running node over its control socket        *)
(* (internal/cli/runtime.go and cli.go), on top of the processes of        *)
(* Web4Runtime and the node of Web4Handlers.  Each command is a process of *)
(* its own: it dials the path, makes one remote procedure call and ends.   *)
(* Nodes crash, stop and start again with an empty memory, and a user      *)
(* whose command failed issues it again.                                   *)
(*                                                                         *)
(* A process does everything with its node under one mutex, rt.mu: calls   *)
(* of commands, messages of peers and the beginning of Close.  Sending is  *)
(* done under it too, and nothing bounds how long: Transport.Send dials,   *)
(* waits for the other end's handshake and writes without a deadline.      *)
(***************************************************************************)
EXTENDS Web4Handlers, Web4Runtime

CONSTANTS
    Commands,     \* invocations of the command line, repeated until they succeed
    Request,      \* Request[c]: for a "tx send", the input and the output of
                  \* the transfer that it asks for; the others ask for reports
    SeededValue,  \* SeededValue[d]: the developer value of node d, made from
                  \* its id, so that each start seeds the same one
    ValueUnit,    \* Value.Unit
    MaxTime       \* bound on the clock

ASSUME ControlAssumption ==
    /\ Commands \cap Daemons = {} /\ Commands \subseteq DOMAIN Flag
    /\ {"free", "handler"} \cap Commands = {}
    /\ DOMAIN Request \subseteq Commands
    /\ \A c \in DOMAIN Request :
          [input |-> Request[c].input, output |-> Request[c].output, timestamp |-> 0] \in TxIDs
    /\ SeededValue \in [Daemons -> ValueIDs]
    /\ \A d \in Daemons : ValueOwner[SeededValue[d]] \in Keys
    /\ DOMAIN ValueUnit = ValueIDs
    /\ MaxTime \in Nat

VARIABLES
    node,       \* node[d]: the memory of process d
    mu,         \* mu[d]: who has rt.mu of process d: nobody ("free"), a
                \* message handler that is sending, or the command whose
                \* call is sending
    command,    \* command[c]: where c is, the process it talks to, how it
                \* ended, and the transfer made for it
    announced,  \* history: the transfers whose announcement went out to every
                \* peer without an error
    made,       \* history: <<c, t>>: t was made and accepted for command c
    now         \* the clock

cvars == <<vars, node, mu, command, announced, made, now>>

Fresh == [pc |-> "start", conn |-> "none", result |-> "none", tx |-> {}]

Ended(result, tx) == [pc |-> "done", conn |-> "none", result |-> result, tx |-> tx]

Free(d) == mu[d] = "free"
take(d, holder) == mu' = [mu EXCEPT ![d] = holder]
release(d) == take(d, "free")

\* seedDeveloperValue, and AddPeerID for every peer.
Startup(d) == SeedValue([NewNode EXCEPT !.peers = PeerIDs], SeededValue[d])

ControlInit ==
    /\ Init
    /\ node = [d \in Daemons |-> Startup(d)]
    /\ mu = [d \in Daemons |-> "free"]
    /\ command = [c \in Commands |-> Fresh]
    /\ announced = {}
    /\ made = {}
    /\ now = 0

----------------------------------------------------------------------------
(* The life of a process, and what it means for the commands that talk to  *)
(* it: the end of a connection is an error of the call.                    *)

\* Mutant: connections that were never accepted are forgotten.
hangUpServed(d, pcs) ==
    command' = [c \in Commands |->
                  IF command[c].conn = d /\ command[c].pc \in pcs \ {"dialled"}
                  THEN Ended("failed", {})
                  ELSE command[c]]

\* The commands in state pcs that talk to d fail.
hangUp(d, pcs) ==
    command' = [c \in Commands |->
                  IF command[c].conn = d /\ command[c].pc \in pcs
                  THEN Ended("failed", {})
                  ELSE command[c]]

Connected == {"dialled", "served", "sending"}

\* A process starts with an empty memory.
Boot(d) ==
    /\ Launch(d)
    /\ node' = [node EXCEPT ![d] = Startup(d)]
    /\ UNCHANGED <<mu, command, announced, made, now>>

\* The steps of a start, which leave everything else alone.
Continue(d) ==
    /\ \/ Probe(d) \/ Stat(d) \/ Remove(d) \/ Listen(d) \/ StartTransport(d)
    /\ UNCHANGED <<node, mu, command, announced, made, now>>

\* The control listener is closed, for which Close takes the mutex first:
\* calls that were not accepted fail.
Unlisten(d) ==
    /\ Undo(d) \/ (CloseControl(d) /\ Free(d))
    /\ hangUp(d, {"dialled"})
    /\ UNCHANGED <<node, mu, announced, made, now>>

\* Transport.Close waits for the read loops, and so for the handler.
Drain(d) ==
    /\ CloseTransport(d)
    /\ mu[d] # "handler"
    /\ UNCHANGED <<node, mu, command, announced, made, now>>

\* The process ends, at the end of Close or by a crash, and so do the calls
\* that are being served: Close does not wait for them.
Exit(d) ==
    /\ RemovePath(d) \/ Crash(d)
    /\ hangUp(d, Connected)
    /\ release(d)
    /\ UNCHANGED <<node, announced, made, now>>

----------------------------------------------------------------------------
(* The messages of peers.  They are about transfers made at some node; a   *)
(* peer may have kept one from before a restart of its sender.             *)

framesAbout(c, t) == {INV(t), GET(t), TX(t, ValueOwner[Request[c].input])}

\* The handler given to the transport: OnMessage (of a message that is no
\* replay) under the mutex, which is kept while its own messages are sent.
Receive(d) ==
    /\ pc[d] \in {"running", "drain"}
    /\ Free(d)
    /\ \E from \in PeerIDs, x \in made : \E m \in framesAbout(x[1], x[2]) :
          LET reply == dispatch(node[d], now, from, m)
          IN  /\ node' = [node EXCEPT ![d] = reply.st]
              /\ IF reply.out = <<>> THEN UNCHANGED mu ELSE take(d, "handler")
    /\ UNCHANGED <<vars, command, announced, made, now>>

HandlerReturns(d) ==
    /\ mu[d] = "handler"
    /\ release(d)
    /\ UNCHANGED <<vars, node, command, announced, made, now>>

----------------------------------------------------------------------------
(* The commands.                                                           *)

dialControlClient(c) ==
    LET d == file[clientControlSocketPath(c)]
    IN  /\ command[c].pc = "start"
        /\ command' = [command EXCEPT ![c] =
                         IF d \in Daemons
                         THEN [Fresh EXCEPT !.pc = "dialled", !.conn = d]
                         ELSE Ended("failed", {})]
        /\ UNCHANGED <<vars, node, mu, announced, made, now>>

\* acceptLoop: the connection gets a goroutine that serves it.
Accept(c) ==
    /\ command[c].pc = "dialled"
    /\ pc[command[c].conn] = "running"
    /\ command' = [command EXCEPT ![c].pc = "served"]
    /\ UNCHANGED <<vars, node, mu, announced, made, now>>

answer(c, result, tx) == command' = [command EXCEPT ![c] = Ended(result, tx)]

\* Mutant: the ID covers the time at which the transfer was made.
ComputeTransferIDStamped(tr) == tr

\* The ID is a hash of the canonical encoding, which has no timestamp.
ComputeTransferID(tr) == [tr EXCEPT !.timestamp = 0]

\* What sendTx checks before it makes a transfer.
mayPay(d, req) ==
    /\ req.input \in node[d].valueStore
    /\ ValueAmount[req.output] <= ValueAmount[req.input]
    /\ ValueUnit[req.output] = ValueUnit[req.input]
    /\ req.input = SeededValue[d]

\* The transfer is made and accepted; its announcements are still to be sent.
sendTx(c) ==
    LET d     == command[c].conn
        req   == Request[c]
        t     == ComputeTransferID([input |-> req.input, output |-> req.output,
                                    timestamp |-> now])
        reply == AcceptLocalTransfer(node[d], now, t, ValueOwner[req.input])
    IN  IF mayPay(d, req) /\ canAcceptLocal(node[d], now, t, ValueOwner[req.input])
        THEN /\ node' = [node EXCEPT ![d] = reply.st]
             /\ made' = made \cup {<<c, t>>}
             /\ command' = [command EXCEPT ![c].pc = "sending", ![c].tx = {t}]
             /\ take(d, c)
        ELSE answer(c, "failed", {}) /\ UNCHANGED <<node, mu, made>>

\* A report; that of a transfer is refused if the node does not know it.
query(c) ==
    /\ \E result \in {"ok", "failed"} : answer(c, result, {})
    /\ UNCHANGED <<node, mu, made>>

\* The goroutine that serves c takes the mutex and makes the call.
Serve(c) ==
    /\ command[c].pc = "served"
    /\ Free(command[c].conn)
    /\ IF c \in DOMAIN Request THEN sendTx(c) ELSE query(c)
    /\ UNCHANGED <<vars, announced, now>>

\* Mutant: an announcement that cannot be sent is not reported.
SendReturnsAnyway(c) ==
    /\ command[c].pc = "sending"
    /\ \/ announced' = announced \cup command[c].tx
       \/ UNCHANGED announced
    /\ answer(c, "ok", command[c].tx)
    /\ release(command[c].conn)
    /\ UNCHANGED <<vars, node, made, now>>

\* Every announcement has been written, or one could not be: for whatever
\* reason, and certainly once the transport is closed.
SendReturns(c) ==
    /\ command[c].pc = "sending"
    /\ \/ /\ pc[command[c].conn] # "path"
          /\ announced' = announced \cup command[c].tx
          /\ answer(c, "ok", command[c].tx)
       \/ answer(c, "failed", {}) /\ UNCHANGED announced
    /\ release(command[c].conn)
    /\ UNCHANGED <<vars, node, made, now>>

\* The user issues the command again if it did not succeed.
Repeat(c) ==
    /\ command[c].pc = "done"
    /\ command[c].result # "ok"
    /\ command' = [command EXCEPT ![c] = Fresh]
    /\ UNCHANGED <<vars, node, mu, announced, made, now>>

Tick ==
    /\ now < MaxTime
    /\ now' = now + 1
    /\ UNCHANGED <<vars, node, mu, command, announced, made>>

ControlNext ==
    \/ \E d \in Daemons :
          \/ Boot(d) \/ Continue(d) \/ Unlisten(d) \/ Drain(d) \/ Exit(d)
          \/ Receive(d) \/ HandlerReturns(d)
    \/ \E c \in Commands :
          dialControlClient(c) \/ Accept(c) \/ Serve(c) \/ SendReturns(c) \/ Repeat(c)
    \/ Tick

(* Fairness: a start goes on, connections are accepted, and a command dials.
   Go's mutex is fair to those who wait for it: a call gets it if it is free
   again and again.  This strong fairness of Serve, which is enabled when the
   mutex is free, is written out; that spares TLC the evaluation of the node
   under ENABLED.  Sending may take for ever, and nobody has to start or stop
   a node. *)
Fairness ==
    /\ \A d \in Daemons : WF_cvars(Continue(d)) /\ WF_cvars(Undo(d) /\ Unlisten(d))
    /\ \A c \in Commands :
          /\ WF_cvars(dialControlClient(c)) /\ WF_cvars(Accept(c))
          /\ \/ <>[](command[c].pc = "served" => ~Free(command[c].conn))
             \/ []<><<Serve(c)>>_cvars

ControlSpec == ControlInit /\ [][ControlNext]_cvars /\ Fairness

----------------------------------------------------------------------------
(* Properties.                                                             *)

(* A command that is repeated makes no rival of its own transfer: whatever
   became of the earlier attempts (an answer that was lost, a node that
   crashed and forgot, an announcement that failed after the transfer was
   stored, a peer that gave the transfer back), all the transfers ever made
   for it are one. *)
RetryMakesNoRival ==
    \A x, y \in made : x[1] = y[1] => x[2] = y[2]

(* Success means that the transfer is out: a payment that succeeded was told
   the ID of its own transfer, of which every peer of the node has been sent
   the announcement. *)
OkMeansAnnounced ==
    \A c \in DOMAIN Request : command[c].result = "ok" =>
        /\ command[c].tx # {}
        /\ \A t \in command[c].tx : t \in announced /\ <<c, t>> \in made

\* The call is waiting for the mutex, or has it and is sending.
stuck(c) == command[c].pc \in {"served", "sending"} /\ ~Free(command[c].conn)

(* A command comes back, answered or told that it was not, unless its process
   never gives up the mutex again: which happens if a peer neither reads nor
   breaks its connection, because sending has no deadline. *)
CommandReturns ==
    \A c \in Commands :
        (command[c].pc \in Connected ~> command[c].pc = "done") \/ <>[]stuck(c)

=============================================================================
