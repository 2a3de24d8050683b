---------------------------- MODULE Web4Runtime ----------------------------
(***************************************************************************)
(* The life of node processes and the control sockets by which commands    *)
(* reach them (internal/cli/runtime.go): start, shutdown, crash and        *)
(* restart, with the file system as the shared state.  A step is one       *)
(* system call.                                                            *)
(*                                                                         *)
(* The net package unlinks the path of a Unix listener when the listener   *)
(* is closed, by name: whatever socket is there by then.                   *)
(***************************************************************************)
EXTENDS Integers, FiniteSets, Functions

CONSTANTS
    Daemons,      \* node processes, one per node id
    Paths,        \* paths of control sockets
    NoPath,       \* no --control argument, or an empty environment variable
    Flag,         \* Flag[x]: the --control argument of a daemon or command x
    Env,          \* WEB4_CONTROL_SOCK
    DerivedPath,  \* DerivedPath[d]: the path made from the id of d, in which
                  \* sanitizeControlSocketID replaces special characters: ids
                  \* that differ may have the same
    DefaultPath,  \* web4-cli.sock
    MaxCrashes    \* bound on the number of crashes

ASSUME RuntimeAssumption ==
    /\ MaxCrashes \in Nat
    /\ {"none", "stale", "other"} \cap Daemons = {}
    /\ NoPath \notin Paths
    /\ Daemons \subseteq DOMAIN Flag /\ Range(Flag) \subseteq Paths \cup {NoPath}
    /\ Env \in Paths \cup {NoPath}
    /\ DerivedPath \in [Daemons -> Paths] /\ DefaultPath \in Paths

VARIABLES
    pc,        \* pc[d]: where d is in startManagedRuntime or Close
    file,      \* file[p]: the socket at path p: of a listening process,
               \* "stale" if its process has died, "other" if it is a
               \* file of some other kind, "none" if there is nothing
    rival,     \* history: rival[d]: the processes with d's path that were
               \* alive at some time during the last start of d
    crashes    \* history: the number of crashes

vars == <<pc, file, rival, crashes>>

Starting == {"probe", "stat", "remove", "listen", "transport", "undo", "undoPath"}
Dead == {"off", "failed"}

Init ==
    /\ pc = [d \in Daemons |-> "off"]
    /\ file \in [Paths -> {"none", "other"}]
    /\ rival = [d \in Daemons |-> {}]
    /\ crashes = 0

startControlSocketPath(d) ==
    CASE Flag[d] # NoPath                  -> Flag[d]
      [] Flag[d] = NoPath /\ Env # NoPath -> Env
      [] OTHER                             -> DerivedPath[d]

clientControlSocketPath(c) ==
    CASE Flag[c] # NoPath                  -> Flag[c]
      [] Flag[c] = NoPath /\ Env # NoPath -> Env
      [] OTHER                             -> DefaultPath

\* What is at the path of d, and its replacement by x.
at(d) == file[startControlSocketPath(d)]
put(d, x) == file' = [file EXCEPT ![startControlSocketPath(d)] = x]

goto(d, label) == pc' = [pc EXCEPT ![d] = label]

\* The history variable, for every step.
Alive(d) == pc[d] \notin Dead

Meet ==
    rival' = [d \in Daemons |->
                LET others == {e \in Daemons \ {d} :
                                 /\ startControlSocketPath(e) = startControlSocketPath(d)
                                 /\ Alive(e)'}
                IN  CASE pc[d] \in Dead /\ Alive(d)' -> others
                      [] pc[d] \in Starting          -> rival[d] \cup others
                      [] OTHER                       -> rival[d]]

----------------------------------------------------------------------------
(* startManagedRuntime.                                                    *)

Launch(d) ==
    /\ pc[d] \in Dead
    /\ goto(d, "probe")
    /\ Meet /\ UNCHANGED <<file, crashes>>

\* Mutant: nobody is asked.
ProbeNobody(d) ==
    /\ pc[d] = "probe"
    /\ goto(d, "stat")
    /\ Meet /\ UNCHANGED <<file, crashes>>

\* A node that answers at the path wins; the start is refused.
Probe(d) ==
    /\ pc[d] = "probe"
    /\ goto(d, IF at(d) \in Daemons THEN "off" ELSE "stat")
    /\ Meet /\ UNCHANGED <<file, crashes>>

\* Mutant: a socket that is there is left there.
StatOnly(d) ==
    /\ pc[d] = "stat"
    /\ goto(d, "listen")
    /\ Meet /\ UNCHANGED <<file, crashes>>

\* Mutant: what is there is removed, whatever it is.
StatAnything(d) ==
    /\ pc[d] = "stat"
    /\ goto(d, IF at(d) = "none" THEN "listen" ELSE "remove")
    /\ Meet /\ UNCHANGED <<file, crashes>>

\* The start is refused if what is there is not a socket.
Stat(d) ==
    /\ pc[d] = "stat"
    /\ goto(d, CASE at(d) = "none"  -> "listen"
                 [] at(d) = "other" -> "off"
                 [] OTHER           -> "remove")
    /\ Meet /\ UNCHANGED <<file, crashes>>

Remove(d) ==
    /\ pc[d] = "remove"
    /\ put(d, "none")
    /\ goto(d, IF at(d) = "none" THEN "failed" ELSE "listen")
    /\ Meet /\ UNCHANGED crashes

Listen(d) ==
    /\ pc[d] = "listen"
    /\ IF at(d) = "none" THEN put(d, d) /\ goto(d, "transport")
                        ELSE goto(d, "failed") /\ UNCHANGED file
    /\ Meet /\ UNCHANGED crashes

\* The TCP port may be taken; then the control socket is given up again.
StartTransport(d) ==
    /\ pc[d] = "transport"
    /\ goto(d, "running") \/ goto(d, "undo")
    /\ Meet /\ UNCHANGED <<file, crashes>>

Undo(d) ==
    /\ \/ pc[d] = "undo" /\ goto(d, "undoPath")
       \/ pc[d] = "undoPath" /\ goto(d, "off")
    /\ put(d, "none")
    /\ Meet /\ UNCHANGED crashes

----------------------------------------------------------------------------
(* managedRuntime.Close: the control listener, the transport, the path.    *)

CloseControl(d) ==
    /\ pc[d] = "running"
    /\ put(d, "none")
    /\ goto(d, "drain")
    /\ Meet /\ UNCHANGED crashes

CloseTransport(d) ==
    /\ pc[d] = "drain"
    /\ goto(d, "path")
    /\ Meet /\ UNCHANGED <<file, crashes>>

RemovePath(d) ==
    /\ pc[d] = "path"
    /\ put(d, "none")
    /\ goto(d, "off")
    /\ Meet /\ UNCHANGED crashes

----------------------------------------------------------------------------

Crash(d) ==
    /\ pc[d] \notin Dead
    /\ crashes < MaxCrashes
    /\ crashes' = crashes + 1
    /\ put(d, IF at(d) = d THEN "stale" ELSE at(d))
    /\ goto(d, "off")
    /\ Meet

Step(d) ==
    \/ Launch(d)
    \/ Probe(d)
    \/ Stat(d)
    \/ Remove(d)
    \/ Listen(d)
    \/ StartTransport(d)
    \/ Undo(d)
    \/ CloseControl(d)
    \/ CloseTransport(d)
    \/ RemovePath(d)
    \/ Crash(d)

Next == \E d \in Daemons : Step(d)

Spec == Init /\ [][Next]_vars

----------------------------------------------------------------------------
(* Properties.                                                             *)

(* Recovery: a node that starts while no other with its path is alive does not stumble over
   what an earlier process has left at the path, however that one ended. *)
LoneStartSucceeds ==
    \A d \in Daemons : pc[d] = "failed" => rival[d] # {}

(* A node that was alone when it started stays reachable as long as it runs,
   whoever tries to start at the same path meanwhile. *)
LoneNodeReachable ==
    \A d \in Daemons : pc[d] = "running" /\ rival[d] = {} => at(d) = d

(* A file that is not a socket is never removed, whatever path a node was
   given: neither when a start finds it nor when one is undone. *)
ForeignFileKept ==
    [][\A p \in Paths : file[p] = "other" => file'[p] = "other"]_vars

(* What the refusal "another local node is already running" promises: never
   two nodes at one path.  Between the probe and the removal of the path
   another node may have started, and the path removed is then its own. *)
OneNodePerPath ==
    \A d, e \in Daemons :
        /\ pc[d] = "running" /\ pc[e] = "running"
        /\ startControlSocketPath(d) = startControlSocketPath(e)
        => d = e

=============================================================================
