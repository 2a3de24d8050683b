-------------------------- MODULE Web4ControlProofs --------------------------
(***************************************************************************)
(* Proofs about node processes and commands (Web4Runtime, Web4Control):    *)
(* what a start finds at its path, who a running node shares its path      *)
(* with, and what a command that was answered may believe.                 *)
(***************************************************************************)
EXTENDS Web4Control, TLAPS

----------------------------------------------------------------------------
(* The processes and their paths.  The inductive invariant says what the   *)
(* file system holds at each point of a start, as long as nobody else with *)
(* the path has been alive.                                                *)

Labels == Starting \cup Dead \cup {"running", "drain", "path"}

\* The states in which the control listener of a process is open, and those
\* a process reaches only after it looked at its path.
Listening == {"transport", "running", "undo"}
PastStat == {"remove", "listen", "transport", "undo", "undoPath", "running", "drain", "path"}

SharePath(d, e) == d # e /\ startControlSocketPath(d) = startControlSocketPath(e)

RuntimeType ==
    /\ pc \in [Daemons -> Labels]
    /\ file \in [Paths -> Daemons \cup {"none", "stale", "other"}]
    /\ rival \in [Daemons -> SUBSET Daemons]

\* The socket of a process is at its own path, and the process listens.
SocketOwned ==
    \A p \in Paths : file[p] \in Daemons =>
        startControlSocketPath(file[p]) = p /\ pc[file[p]] \in Listening

\* A start has met everyone who is alive at its path.
RivalsMet ==
    \A d, e \in Daemons :
        pc[d] \in Starting /\ Alive(e) /\ SharePath(d, e) => e \in rival[d]

\* What a process finds at its path if it met nobody.
AlonePath ==
    \A d \in Daemons : rival[d] = {} =>
        /\ pc[d] = "remove" => at(d) = "stale"
        /\ pc[d] = "listen" => at(d) = "none"
        /\ pc[d] \in Listening => at(d) = d
        /\ pc[d] # "failed"

\* Whoever comes to the path of such a process gets no further than the probe.
LateComers ==
    \A d, e \in Daemons :
        pc[d] = "running" /\ rival[d] = {} /\ SharePath(d, e) => pc[e] \in Dead \cup {"probe"}

\* Past Stat, the path holds no file of another kind.
NoForeign == \A d \in Daemons : pc[d] \in PastStat => at(d) # "other"

RuntimeInv ==
    RuntimeType /\ SocketOwned /\ RivalsMet /\ AlonePath /\ LateComers /\ NoForeign

(* The path a process listens at is one of the paths. *)
LEMMA PathType ==
    ASSUME NEW d \in Daemons
    PROVE  startControlSocketPath(d) \in Paths
<1>1. Flag[d] \in Paths \cup {NoPath}
  BY RuntimeAssumption DEF Range
<1>2. QED
  BY <1>1, RuntimeAssumption DEF startControlSocketPath

\* One step of a process: the label it goes to and what it leaves at its path.
Move(d, l, x) ==
    \/ pc[d] \in Dead /\ l = "probe" /\ x = at(d)
    \/ pc[d] = "probe" /\ at(d) \in Daemons /\ l = "off" /\ x = at(d)
    \/ pc[d] = "probe" /\ at(d) \notin Daemons /\ l = "stat" /\ x = at(d)
    \/ pc[d] = "stat" /\ at(d) = "none" /\ l = "listen" /\ x = at(d)
    \/ pc[d] = "stat" /\ at(d) = "other" /\ l = "off" /\ x = at(d)
    \/ pc[d] = "stat" /\ at(d) \notin {"none", "other"} /\ l = "remove" /\ x = at(d)
    \/ pc[d] = "remove" /\ at(d) = "none" /\ l = "failed" /\ x = "none"
    \/ pc[d] = "remove" /\ at(d) # "none" /\ l = "listen" /\ x = "none"
    \/ pc[d] = "listen" /\ at(d) = "none" /\ l = "transport" /\ x = d
    \/ pc[d] = "listen" /\ at(d) # "none" /\ l = "failed" /\ x = at(d)
    \/ pc[d] = "transport" /\ l \in {"running", "undo"} /\ x = at(d)
    \/ pc[d] = "undo" /\ l = "undoPath" /\ x = "none"
    \/ pc[d] = "undoPath" /\ l = "off" /\ x = "none"
    \/ pc[d] = "running" /\ l = "drain" /\ x = "none"
    \/ pc[d] = "drain" /\ l = "path" /\ x = at(d)
    \/ pc[d] = "path" /\ l = "off" /\ x = "none"
    \/ pc[d] \notin Dead /\ l = "off" /\ x = (IF at(d) = d THEN "stale" ELSE at(d))

(* A step of a process in terms of its label and of the file at its path. *)
LEMMA StepMoves ==
    ASSUME RuntimeType, NEW d \in Daemons, Step(d)
    PROVE  /\ Meet
           /\ \E l \in Labels, x \in Daemons \cup {"none", "stale", "other"} :
                /\ Move(d, l, x)
                /\ pc' = [pc EXCEPT ![d] = l]
                /\ file' = [file EXCEPT ![startControlSocketPath(d)] = x]
<1> DEFINE p == startControlSocketPath(d)
           here == file[p]
<1>p. p \in Paths
  BY PathType
<1> HIDE DEF p
<1>h. here \in Daemons \cup {"none", "stale", "other"} /\ at(d) = here
  BY <1>p DEF RuntimeType, at, p
<1>s. file = [file EXCEPT ![p] = here]
  BY <1>p DEF RuntimeType
<1> HIDE DEF here
<1>l. "probe" \in Labels /\ "off" \in Labels /\ "stat" \in Labels /\ "listen" \in Labels
      /\ "remove" \in Labels /\ "failed" \in Labels /\ "transport" \in Labels
      /\ "running" \in Labels /\ "undo" \in Labels /\ "undoPath" \in Labels
      /\ "drain" \in Labels /\ "path" \in Labels
  BY DEF Labels, Starting, Dead
<1>1. CASE Launch(d)
  <2>1. Move(d, "probe", here) /\ Meet /\ pc' = [pc EXCEPT ![d] = "probe"]
        /\ file' = [file EXCEPT ![p] = here]
    BY <1>1, <1>h, <1>s DEF Launch, goto, Move
  <2> QED BY <2>1, <1>h, <1>l DEF p
<1>2. CASE Probe(d)
  <2> DEFINE l == IF here \in Daemons THEN "off" ELSE "stat"
  <2>1. l \in Labels /\ Move(d, l, here) /\ Meet /\ pc' = [pc EXCEPT ![d] = l]
        /\ file' = [file EXCEPT ![p] = here]
    BY <1>2, <1>h, <1>s, <1>l DEF Probe, goto, Move
  <2> QED BY <2>1, <1>h DEF p
<1>3. CASE Stat(d)
  <2> DEFINE l == CASE here = "none" -> "listen" [] here = "other" -> "off" [] OTHER -> "remove"
  <2>1. l \in Labels /\ Move(d, l, here) /\ Meet /\ pc' = [pc EXCEPT ![d] = l]
        /\ file' = [file EXCEPT ![p] = here]
    BY <1>3, <1>h, <1>s, <1>l DEF Stat, goto, Move
  <2> QED BY <2>1, <1>h DEF p
<1>4. CASE Remove(d)
  <2> DEFINE l == IF here = "none" THEN "failed" ELSE "listen"
  <2>1. l \in Labels /\ Move(d, l, "none") /\ Meet /\ pc' = [pc EXCEPT ![d] = l]
        /\ file' = [file EXCEPT ![p] = "none"]
    BY <1>4, <1>h, <1>l DEF Remove, goto, put, Move, p
  <2> QED BY <2>1 DEF p
<1>5. CASE Listen(d)
  <2>1. CASE here = "none"
    <3>1. Move(d, "transport", d) /\ Meet /\ pc' = [pc EXCEPT ![d] = "transport"]
          /\ file' = [file EXCEPT ![p] = d]
      BY <1>5, <2>1, <1>h DEF Listen, goto, put, Move, p
    <3> QED BY <3>1, <1>l DEF p
  <2>2. CASE here # "none"
    <3>1. Move(d, "failed", here) /\ Meet /\ pc' = [pc EXCEPT ![d] = "failed"]
          /\ file' = [file EXCEPT ![p] = here]
      BY <1>5, <2>2, <1>h, <1>s DEF Listen, goto, Move
    <3> QED BY <3>1, <1>l, <1>h DEF p
  <2> QED BY <2>1, <2>2
<1>6. CASE StartTransport(d)
  <2>1. PICK l \in {"running", "undo"} : pc' = [pc EXCEPT ![d] = l]
    BY <1>6 DEF StartTransport, goto
  <2>2. Move(d, l, here) /\ Meet /\ file' = [file EXCEPT ![p] = here]
    BY <1>6, <1>h, <1>s DEF StartTransport, Move
  <2> QED BY <2>1, <2>2, <1>h, <1>l DEF p
<1>7. CASE Undo(d)
  <2>1. PICK l \in {"undoPath", "off"} :
          pc' = [pc EXCEPT ![d] = l] /\ Move(d, l, "none")
    BY <1>7 DEF Undo, goto, Move
  <2>2. Meet /\ file' = [file EXCEPT ![p] = "none"]
    BY <1>7 DEF Undo, put, p
  <2> QED BY <2>1, <2>2, <1>l DEF p
<1>8. CASE CloseControl(d)
  <2>1. Move(d, "drain", "none") /\ Meet /\ pc' = [pc EXCEPT ![d] = "drain"]
        /\ file' = [file EXCEPT ![p] = "none"]
    BY <1>8 DEF CloseControl, goto, put, Move, p
  <2> QED BY <2>1, <1>l DEF p
<1>9. CASE CloseTransport(d)
  <2>1. Move(d, "path", here) /\ Meet /\ pc' = [pc EXCEPT ![d] = "path"]
        /\ file' = [file EXCEPT ![p] = here]
    BY <1>9, <1>h, <1>s DEF CloseTransport, goto, Move
  <2> QED BY <2>1, <1>l, <1>h DEF p
<1>10. CASE RemovePath(d)
  <2>1. Move(d, "off", "none") /\ Meet /\ pc' = [pc EXCEPT ![d] = "off"]
        /\ file' = [file EXCEPT ![p] = "none"]
    BY <1>10 DEF RemovePath, goto, put, Move, p
  <2> QED BY <2>1, <1>l DEF p
<1>11. CASE Crash(d)
  <2> DEFINE x == IF here = d THEN "stale" ELSE here
  <2>1. x \in Daemons \cup {"none", "stale", "other"} /\ Move(d, "off", x)
        /\ Meet /\ pc' = [pc EXCEPT ![d] = "off"]
        /\ file' = [file EXCEPT ![p] = x]
    BY <1>11, <1>h DEF Crash, goto, put, Move, p
  <2> QED BY <2>1, <1>l DEF p
<1>12. QED
  BY <1>1, <1>2, <1>3, <1>4, <1>5, <1>6, <1>7, <1>8, <1>9, <1>10, <1>11 DEF Step

\* The history of a start never loses anybody, and has everyone who is alive.
LEMMA MeetFacts ==
    ASSUME RuntimeType, Meet, NEW d \in Daemons
    PROVE  /\ rival' \in [Daemons -> SUBSET Daemons]
           /\ pc[d] \in Starting => rival[d] \subseteq rival'[d]
           /\ pc[d] \notin Starting /\ ~(pc[d] \in Dead /\ Alive(d)') => rival'[d] = rival[d]
           /\ pc[d] \in Starting \/ (pc[d] \in Dead /\ Alive(d)') =>
                \A e \in Daemons : SharePath(d, e) /\ Alive(e)' => e \in rival'[d]
<1> DEFINE others(a) == {e \in Daemons \ {a} :
                           /\ startControlSocketPath(e) = startControlSocketPath(a)
                           /\ Alive(e)'}
           new(a) == CASE pc[a] \in Dead /\ Alive(a)' -> others(a)
                       [] pc[a] \in Starting          -> rival[a] \cup others(a)
                       [] OTHER                       -> rival[a]
<1>1. rival' = [a \in Daemons |-> new(a)]
  BY DEF Meet
<1>2. \A a \in Daemons : others(a) \subseteq Daemons
  OBVIOUS
<1>3. \A e \in Daemons : SharePath(d, e) /\ Alive(e)' => e \in others(d)
  BY DEF SharePath
<1> HIDE DEF others
<1>4. Starting \cap Dead = {}
  BY DEF Starting, Dead
<1>5. \A a \in Daemons : new(a) \in SUBSET Daemons
  BY <1>2 DEF RuntimeType
<1>6. rival'[d] = new(d)
  BY <1>1
<1>7. QED
  BY <1>1, <1>3, <1>4, <1>5, <1>6

(* RuntimeInv is inductive, and no step removes a foreign file. *)
LEMMA RuntimeInvStep ==
    ASSUME RuntimeInv, NEW a \in Daemons, Step(a)
    PROVE  /\ RuntimeInv'
           /\ \A p \in Paths : file[p] = "other" => file'[p] = "other"
<1>1. PICK l \in Labels, x \in Daemons \cup {"none", "stale", "other"} :
        /\ Move(a, l, x)
        /\ pc' = [pc EXCEPT ![a] = l]
        /\ file' = [file EXCEPT ![startControlSocketPath(a)] = x]
  BY StepMoves DEF RuntimeInv
<1>2. Meet /\ RuntimeType
  BY StepMoves DEF RuntimeInv
<1> DEFINE path(d) == startControlSocketPath(d)
<1>3. \A d \in Daemons : path(d) \in Paths
  BY PathType
<1>4. /\ pc'[a] = l /\ \A d \in Daemons : d # a => pc'[d] = pc[d]
      /\ file'[path(a)] = x /\ \A p \in Paths : p # path(a) => file'[p] = file[p]
  BY <1>1, <1>2, <1>3 DEF RuntimeType
<1>5. /\ at(a)' = x
      /\ \A d \in Daemons : at(d)' = IF path(d) = path(a) THEN x ELSE at(d)
      /\ \A d \in Daemons : path(d) = path(a) => at(d) = at(a)
  BY <1>3, <1>4 DEF at
<1>6. {"none", "stale", "other"} \cap Daemons = {}
  BY RuntimeAssumption
<1>7. \A d \in Daemons :
        /\ rival' \in [Daemons -> SUBSET Daemons]
        /\ pc[d] \in Starting => rival[d] \subseteq rival'[d]
        /\ pc[d] \notin Starting /\ ~(pc[d] \in Dead /\ Alive(d)') => rival'[d] = rival[d]
        /\ pc[d] \in Starting \/ (pc[d] \in Dead /\ Alive(d)') =>
             \A e \in Daemons : SharePath(d, e) /\ Alive(e)' => e \in rival'[d]
  BY <1>2, MeetFacts
<1>8. /\ \A d \in Daemons : SharePath(d, a) => pc'[d] = pc[d] /\ at(d) = at(a) /\ at(d)' = x
      /\ \A d \in Daemons : d # a /\ ~SharePath(d, a) => pc'[d] = pc[d] /\ at(d)' = at(d)
  BY <1>4, <1>5 DEF SharePath
<1>9. SharePath(a, a)' = FALSE /\ \A d, e \in Daemons : SharePath(d, e)' = SharePath(d, e)
  BY DEF SharePath, startControlSocketPath
<1>10. at(a) \in Daemons => path(at(a)) = path(a) /\ pc[at(a)] \in Listening
  BY <1>3 DEF RuntimeInv, SocketOwned, at
<1>t. pc[a] \in Labels
  BY <1>2 DEF RuntimeType
<1> HIDE DEF path
<1>type. RuntimeType'
  BY <1>1, <1>2, <1>3, <1>7 DEF RuntimeType, path
<1>owned. SocketOwned'
  <2> SUFFICES ASSUME NEW p \in Paths, file'[p] \in Daemons
               PROVE  path(file'[p]) = p /\ pc'[file'[p]] \in Listening
    BY DEF SocketOwned, path, startControlSocketPath
  <2>1. file[p] \in Daemons => path(file[p]) = p /\ pc[file[p]] \in Listening
    BY DEF RuntimeInv, SocketOwned, path
  <2>2. CASE p # path(a)
    <3>1. file'[p] = file[p] /\ file[p] # a
      BY <2>1, <2>2, <1>4
    <3> QED BY <3>1, <2>1, <1>4
  <2>3. CASE p = path(a)
    <3>1. file'[p] = x
      BY <2>3, <1>4
    <3>2. CASE x = at(a)
      <4>1. at(a) = a => l \in Listening
        BY <1>1, <1>6, <1>10, <3>1, <3>2 DEF Move, Listening, Dead
      <4>2. QED BY <4>1, <3>1, <3>2, <1>4, <1>10, <2>3
    <3>3. CASE x # at(a)
      <4>1. x = a /\ l = "transport"
        BY <1>1, <1>6, <3>1, <3>3 DEF Move
      <4>2. QED BY <4>1, <3>1, <1>4, <2>3 DEF Listening
    <3> QED BY <3>2, <3>3
  <2> QED BY <2>2, <2>3
<1>met. RivalsMet'
  <2> SUFFICES ASSUME NEW d \in Daemons, NEW e \in Daemons,
                      pc'[d] \in Starting, Alive(e)', SharePath(d, e)
               PROVE  e \in rival'[d]
    BY <1>9 DEF RivalsMet
  <2>1. pc[d] \in Starting \/ (pc[d] \in Dead /\ Alive(d)')
    <3>1. CASE d = a
      <4>1. Alive(d)'
        BY DEF Alive, Starting, Dead
      <4>2. l \in Starting => pc[a] \in Starting \cup Dead
        BY <1>1 DEF Move, Starting, Dead
      <4> QED BY <4>1, <4>2, <3>1, <1>4
    <3>2. CASE d # a
      BY <3>2, <1>4
    <3> QED BY <3>1, <3>2
  <2> QED BY <2>1, <1>7
\* A process that meets somebody in this step, or met one before, is not alone.
<1>alone. ASSUME NEW d \in Daemons, rival'[d] = {}
          PROVE  /\ pc[d] \in Starting \/ pc[d] \notin Dead => rival[d] = {}
                 /\ pc'[d] = pc[d] => rival[d] = {}
                 /\ pc[d] \in Starting =>
                      \A e \in Daemons : SharePath(d, e) => pc[e] \in Dead
                 /\ pc[d] \in Starting =>
                      \A e \in Daemons : SharePath(d, e) => pc'[e] \in Dead
  <2>1. pc[d] \in Starting => rival[d] = {}
    BY <1>alone, <1>7
  <2>2. pc[d] \notin Starting /\ pc[d] \notin Dead => rival[d] = {}
    BY <1>alone, <1>7
  <2>3. pc'[d] = pc[d] /\ pc[d] \in Dead => rival[d] = {}
    BY <1>alone, <1>7 DEF Alive, Starting, Dead
  <2>4. pc[d] \in Starting => \A e \in Daemons : SharePath(d, e) => pc[e] \in Dead
    BY <2>1 DEF RuntimeInv, RivalsMet, Alive
  <2>5. pc[d] \in Starting => \A e \in Daemons : SharePath(d, e) => pc'[e] \in Dead
    BY <1>alone, <1>7 DEF Alive
  <2> QED BY <2>1, <2>2, <2>3, <2>4, <2>5
<1>path. AlonePath'
  <2> SUFFICES ASSUME NEW d \in Daemons, rival'[d] = {}
               PROVE  /\ pc'[d] = "remove" => at(d)' = "stale"
                      /\ pc'[d] = "listen" => at(d)' = "none"
                      /\ pc'[d] \in Listening => at(d)' = d
                      /\ pc'[d] # "failed"
    BY DEF AlonePath
  <2>1. CASE d # a
    <3>1. pc'[d] = pc[d] /\ rival[d] = {}
      BY <2>1, <1>4, <1>alone
    <3>2. /\ pc[d] = "remove" => at(d) = "stale"
          /\ pc[d] = "listen" => at(d) = "none"
          /\ pc[d] \in Listening => at(d) = d
          /\ pc[d] # "failed"
      BY <3>1 DEF RuntimeInv, AlonePath
    <3>3. CASE ~SharePath(d, a)
      BY <2>1, <3>1, <3>2, <3>3, <1>8
    <3>4. CASE SharePath(d, a) /\ pc[d] \in Starting
      <4>1. pc[a] \in Dead
        BY <3>4, <1>alone
      <4>2. x = at(a)
        BY <4>1, <1>1 DEF Move, Dead
      <4> QED BY <3>1, <3>2, <3>4, <4>2, <1>8
    <3>5. CASE SharePath(d, a) /\ pc[d] = "running"
      <4>1. pc[a] \in Dead \cup {"probe"}
        BY <3>1, <3>5 DEF RuntimeInv, LateComers
      <4>2. at(a) = d
        BY <3>2, <3>5, <1>8 DEF Listening
      <4>3. x = at(a)
        BY <4>1, <4>2, <2>1, <1>1 DEF Move, Dead
      <4> QED BY <3>1, <3>2, <3>5, <4>3, <1>8
    <3>6. CASE pc[d] \notin Starting \cup {"running"}
      BY <3>1, <3>2, <3>6 DEF Starting, Listening
    <3> QED BY <3>3, <3>4, <3>5, <3>6
  <2>2. CASE d = a
    <3>1. pc[a] \notin Dead => rival[a] = {}
      BY <2>2, <1>alone
    <3>2. pc[a] \notin Dead =>
          /\ pc[a] = "remove" => at(a) = "stale"
          /\ pc[a] = "listen" => at(a) = "none"
          /\ pc[a] \in Listening => at(a) = a
      BY <3>1 DEF RuntimeInv, AlonePath
    <3>3. pc[a] \in Starting /\ at(a) \in Daemons => at(a) = a /\ pc[a] \in Listening
      <4> SUFFICES ASSUME pc[a] \in Starting, at(a) \in Daemons
                   PROVE  at(a) = a /\ pc[a] \in Listening
        OBVIOUS
      <4>1. at(a) # a => SharePath(a, at(a))
        BY <1>10 DEF SharePath, path
      <4>2. at(a) # a => pc[at(a)] \in Dead
        BY <4>1, <2>2, <1>alone
      <4> QED BY <4>2, <1>10 DEF Listening, Dead
    <3>4. pc[a] = "stat" => at(a) \in {"none", "stale", "other"}
      <4>1. at(a) \in Daemons \cup {"none", "stale", "other"}
        BY <1>2, PathType DEF RuntimeType, at
      <4> QED BY <4>1, <3>3 DEF Starting, Listening
    <3>5. /\ l = "remove" => x = "stale"
          /\ l = "listen" => x = "none"
          /\ l \in Listening => x = a
          /\ l # "failed"
      BY <3>2, <3>4, <1>1 DEF Move, Dead, Listening
    <3> QED BY <3>5, <2>2, <1>4, <1>5
  <2> QED BY <2>1, <2>2
<1>late. LateComers'
  <2> SUFFICES ASSUME NEW d \in Daemons, NEW e \in Daemons,
                      pc'[d] = "running", rival'[d] = {}, SharePath(d, e)
               PROVE  pc'[e] \in Dead \cup {"probe"}
    BY <1>9 DEF LateComers
  <2>1. CASE pc[d] \in Starting
    BY <2>1, <1>alone
  <2>2. CASE pc[d] \notin Starting
    <3>1. d # a /\ pc[d] = "running"
      BY <2>2, <1>1, <1>4 DEF Move, Starting, Dead
    <3>2. rival[d] = {}
      BY <3>1, <1>4, <1>alone
    <3>3. pc[e] \in Dead \cup {"probe"} /\ at(d) = d
      BY <3>1, <3>2 DEF RuntimeInv, LateComers, AlonePath, Listening
    <3>4. CASE e # a
      BY <3>3, <3>4, <1>4
    <3>5. CASE e = a
      <4>1. at(a) = d
        BY <3>3, <3>5, <1>8
      <4>2. l \in Dead \cup {"probe"}
        BY <4>1, <3>3, <3>5, <1>1 DEF Move, Dead
      <4> QED BY <4>2, <3>5, <1>4
    <3> QED BY <3>4, <3>5
  <2> QED BY <2>1, <2>2
<1>foreign. NoForeign' /\ \A p \in Paths : file[p] = "other" => file'[p] = "other"
  <2>1. pc[a] \in PastStat => at(a) # "other"
    BY DEF RuntimeInv, NoForeign
  <2>2. x = "other" <=> at(a) = "other"
    BY <2>1, <1>1, <1>6 DEF Move, Dead, PastStat
  <2>3. l \in PastStat => x # "other"
    BY <2>1, <1>1, <1>6 DEF Move, Dead, PastStat
  <2>4. ASSUME NEW d \in Daemons, pc'[d] \in PastStat
        PROVE  at(d)' # "other"
    <3>1. CASE d = a
      BY <2>3, <2>4, <3>1, <1>4, <1>5
    <3>2. CASE d # a
      <4>1. at(d) # "other"
        BY <2>4, <3>2, <1>4 DEF RuntimeInv, NoForeign
      <4> QED BY <4>1, <3>2, <2>2, <1>8
    <3> QED BY <3>1, <3>2
  <2>5. at(a) = file[path(a)]
    BY DEF at, path
  <2>6. QED
    BY <2>2, <2>4, <2>5, <1>4 DEF NoForeign
<1>q. QED
  BY <1>type, <1>owned, <1>met, <1>path, <1>late, <1>foreign DEF RuntimeInv

(* Nobody runs at the start. *)
LEMMA RuntimeInvInit == Init => RuntimeInv
<1> SUFFICES ASSUME Init PROVE RuntimeInv
  OBVIOUS
<1>1. /\ \A d \in Daemons : pc[d] = "off" /\ rival[d] = {}
      /\ \A p \in Paths : file[p] \in {"none", "other"}
  BY DEF Init
<1>2. {"none", "stale", "other"} \cap Daemons = {}
  BY RuntimeAssumption
<1>3. RuntimeType
  BY DEF Init, RuntimeType, Labels, Dead
<1>4. SocketOwned
  BY <1>1, <1>2 DEF SocketOwned
<1>5. RivalsMet /\ LateComers
  BY <1>1 DEF RivalsMet, LateComers, Starting
<1>6. AlonePath /\ NoForeign
  BY <1>1 DEF AlonePath, NoForeign, Listening, PastStat
<1> QED BY <1>3, <1>4, <1>5, <1>6 DEF RuntimeInv

(* The steps of commands and nodes leave the processes alone. *)
LEMMA RuntimeInvStutter == RuntimeInv /\ UNCHANGED vars => RuntimeInv'
BY DEF RuntimeInv, RuntimeType, SocketOwned, RivalsMet, AlonePath, LateComers,
       NoForeign, Alive, at, SharePath, startControlSocketPath, vars

(* The inductive invariant of the processes holds. *)
LEMMA RuntimeInvariant == Spec => []RuntimeInv
<1>1. RuntimeInv /\ [Next]_vars => RuntimeInv'
  BY RuntimeInvStep, RuntimeInvStutter DEF Next
<1>2. QED
  BY RuntimeInvInit, <1>1, PTL DEF Spec

(* For any number of processes, paths and crashes: a start that met nobody at its
   path never fails on what it finds there, so startManagedRuntime recovers from
   every way in which an earlier process can have ended. *)
THEOREM LoneStartSucceedsHolds == Spec => []LoneStartSucceeds
<1>1. RuntimeInv => LoneStartSucceeds
  BY DEF RuntimeInv, AlonePath, LoneStartSucceeds
<1>2. QED
  BY <1>1, RuntimeInvariant, PTL

(* For any number of processes: the socket of a running node that was alone when it
   started is its own, whatever others try at its path. *)
THEOREM LoneNodeReachableHolds == Spec => []LoneNodeReachable
<1>1. RuntimeInv => LoneNodeReachable
  BY DEF RuntimeInv, AlonePath, LoneNodeReachable, Listening
<1>2. QED
  BY <1>1, RuntimeInvariant, PTL

(* No step of a start, an undone start, a shutdown or a crash removes or replaces
   a file that is not a socket. *)
THEOREM ForeignFileKeptHolds == Spec => ForeignFileKept
<1>1. RuntimeInv /\ [Next]_vars =>
        [\A p \in Paths : file[p] = "other" => file'[p] = "other"]_vars
  BY RuntimeInvStep DEF Next
<1>2. QED
  BY <1>1, RuntimeInvariant, PTL DEF Spec, ForeignFileKept

(* Every behaviour of the processes with their commands is one of the processes:
   what is proved of Web4Runtime holds of Web4Control. *)
THEOREM ControlImplementsRuntime == ControlSpec => Spec
<1>1. ControlInit => Init
  BY DEF ControlInit
<1>2. [ControlNext]_cvars => [Next]_vars
  <2> SUFFICES ASSUME [ControlNext]_cvars PROVE [Next]_vars
    OBVIOUS
  <2>1. CASE \E d \in Daemons :
               \/ Boot(d) \/ Continue(d) \/ Unlisten(d) \/ Drain(d) \/ Exit(d)
               \/ Receive(d) \/ HandlerReturns(d)
    BY <2>1 DEF Boot, Continue, Unlisten, Drain, Exit, Receive, HandlerReturns, Next, Step
  <2>2. CASE \E c \in Commands :
               dialControlClient(c) \/ Accept(c) \/ Serve(c) \/ SendReturns(c) \/ Repeat(c)
    BY <2>2 DEF dialControlClient, Accept, Serve, SendReturns, Repeat
  <2>3. CASE Tick
    BY <2>3 DEF Tick
  <2>4. CASE UNCHANGED cvars
    BY <2>4 DEF cvars
  <2> QED BY <2>1, <2>2, <2>3, <2>4 DEF ControlNext
<1>3. QED
  BY <1>1, <1>2, PTL DEF ControlSpec, Spec

----------------------------------------------------------------------------
(* The commands.  What is ever made for a command is one transfer, and     *)
(* its record holds that transfer from the call to the answer, whatever    *)
(* peers and other commands do to the node meanwhile.                      *)

Transfer(c) ==
    [input |-> Request[c].input, output |-> Request[c].output, timestamp |-> 0]

CommandSet == [pc     : {"start", "dialled", "served", "sending", "done"},
               conn   : Daemons \cup {"none"},
               result : {"none", "failed", "ok"},
               tx     : SUBSET TxIDs]

MadeOnce == made \subseteq {<<c, Transfer(c)>> : c \in DOMAIN Request}

\* What the record r of payment c says, given what was announced and made.
Honest(c, r, out, all) ==
    /\ r.pc = "sending" => r.tx # {}
    /\ r.result = "ok" => r.pc = "done" /\ r.tx # {} /\ r.tx \subseteq out
    /\ \A t \in r.tx : <<c, t>> \in all

ControlInv ==
    /\ command \in [Commands -> CommandSet]
    /\ MadeOnce
    /\ \A c \in DOMAIN Request : Honest(c, command[c], announced, made)

(* What the invariant says of payments. *)
LEMMA ControlInvImplies == ControlInv => RetryMakesNoRival /\ OkMeansAnnounced
<1> SUFFICES ASSUME ControlInv PROVE RetryMakesNoRival /\ OkMeansAnnounced
  OBVIOUS
<1>1. RetryMakesNoRival
  BY DEF ControlInv, MadeOnce, RetryMakesNoRival
<1>2. OkMeansAnnounced
  BY DEF ControlInv, Honest, OkMeansAnnounced
<1> QED BY <1>1, <1>2

\* Whatever is made and announced meanwhile: each command keeps its record, or
\* gets an honest one.
LEMMA HonestStep ==
    ASSUME ControlInv, MadeOnce', made \subseteq made', announced \subseteq announced',
           command' \in [Commands -> CommandSet],
           \A c \in DOMAIN Request : \/ command'[c] = command[c]
                                    \/ Honest(c, command'[c], announced', made')
    PROVE  ControlInv'
<1>1. ASSUME NEW c \in DOMAIN Request
      PROVE  Honest(c, command'[c], announced', made')
  BY <1>1 DEF ControlInv, Honest
<1> QED BY <1>1 DEF ControlInv, CommandSet

\* The same for a step of one command.
LEMMA OneHonestStep ==
    ASSUME ControlInv, MadeOnce', made \subseteq made', announced \subseteq announced',
           NEW c \in Commands, NEW r \in CommandSet, command' = [command EXCEPT ![c] = r],
           c \in DOMAIN Request => Honest(c, r, announced', made')
    PROVE  ControlInv'
<1>1. /\ command' \in [Commands -> CommandSet]
      /\ command'[c] = r
      /\ \A a \in Commands : a # c => command'[a] = command[a]
  BY DEF ControlInv
<1>2. DOMAIN Request \subseteq Commands
  BY ControlAssumption
<1> QED BY <1>1, <1>2, HonestStep

(* A record of a call that failed is honest. *)
LEMMA FailedHonest ==
    ASSUME NEW c, NEW out, NEW all
    PROVE  /\ Ended("failed", {}) \in CommandSet /\ Honest(c, Ended("failed", {}), out, all)
           /\ Fresh \in CommandSet /\ Honest(c, Fresh, out, all)
BY DEF Ended, Fresh, CommandSet, Honest

\* Steps of processes that hang up on some commands.
LEMMA HangUpStep ==
    ASSUME ControlInv, UNCHANGED <<announced, made>>, NEW d, NEW pcs, hangUp(d, pcs)
    PROVE  ControlInv'
<1> DEFINE e == Ended("failed", {})
<1>1. command' = [c \in Commands |->
                    IF command[c].conn = d /\ command[c].pc \in pcs THEN e ELSE command[c]]
  BY DEF hangUp
<1>2. e \in CommandSet /\ \A c : Honest(c, e, announced', made')
  BY FailedHonest
<1> HIDE DEF e
<1>3. command' \in [Commands -> CommandSet]
  BY <1>1, <1>2 DEF ControlInv
<1>4. \A c \in DOMAIN Request : \/ command'[c] = command[c]
                               \/ Honest(c, command'[c], announced', made')
  BY <1>1, <1>2, ControlAssumption
<1>5. MadeOnce'
  BY DEF ControlInv, MadeOnce, Transfer
<1> QED BY <1>3, <1>4, <1>5, HonestStep

(* sendTx, up to the sending. *)
LEMMA SendStep ==
    ASSUME ControlInv, NEW c \in DOMAIN Request, sendTx(c), UNCHANGED announced,
           command[c].pc = "served"
    PROVE  ControlInv'
<1> DEFINE t == ComputeTransferID([input |-> Request[c].input, output |-> Request[c].output,
                                   timestamp |-> now])
           r == [command[c] EXCEPT !.pc = "sending", !.tx = {t}]
<1>1. c \in Commands /\ Transfer(c) \in TxIDs
  BY ControlAssumption DEF Transfer
<1>2. t = Transfer(c)
  BY DEF ComputeTransferID, Transfer
<1>3. CASE answer(c, "failed", {}) /\ UNCHANGED <<node, mu, made>>
  <2>1. MadeOnce' /\ command' = [command EXCEPT ![c] = Ended("failed", {})]
    BY <1>3 DEF ControlInv, MadeOnce, Transfer, answer
  <2> QED BY <1>1, <1>3, <2>1, FailedHonest, OneHonestStep
<1>4. CASE /\ made' = made \cup {<<c, t>>}
           /\ command' = [command EXCEPT ![c].pc = "sending", ![c].tx = {t}]
  <2>1. r \in CommandSet /\ r.pc = "sending" /\ r.tx = {t} /\ r.result = command[c].result
    BY <1>1, <1>2 DEF ControlInv, CommandSet
  <2>2. command' = [command EXCEPT ![c] = r]
    BY <1>1, <1>4 DEF ControlInv
  <2>3. command[c].result # "ok"
    BY DEF ControlInv, Honest
  <2> HIDE DEF r, t
  <2>4. <<c, t>> \in made' /\ made \subseteq made' /\ announced \subseteq announced'
    BY <1>4
  <2>5. MadeOnce'
    BY <1>2, <1>4 DEF ControlInv, MadeOnce, Transfer
  <2>6. Honest(c, r, announced', made')
    BY <2>1, <2>3, <2>4 DEF Honest
  <2> QED BY <1>1, <2>1, <2>2, <2>4, <2>5, <2>6, OneHonestStep
<1> QED BY <1>3, <1>4 DEF sendTx

(* The end of the sending. *)
LEMMA SendReturnsStep ==
    ASSUME ControlInv, NEW c \in Commands, SendReturns(c)
    PROVE  ControlInv'
<1>1. made' = made /\ MadeOnce'
  BY DEF SendReturns, ControlInv, MadeOnce, Transfer
<1>2. CASE answer(c, "failed", {}) /\ UNCHANGED announced
  <2>1. command' = [command EXCEPT ![c] = Ended("failed", {})]
    BY <1>2 DEF answer
  <2> QED BY <1>1, <1>2, <2>1, FailedHonest, OneHonestStep
<1>3. CASE announced' = announced \cup command[c].tx /\ answer(c, "ok", command[c].tx)
  <2> DEFINE r == Ended("ok", command[c].tx)
  <2>1. /\ r \in CommandSet /\ r.pc = "done" /\ r.tx = command[c].tx
        /\ command' = [command EXCEPT ![c] = r]
    BY <1>3 DEF ControlInv, CommandSet, Ended, answer
  <2>2. c \in DOMAIN Request =>
          command[c].tx # {} /\ \A t \in command[c].tx : <<c, t>> \in made
    BY DEF ControlInv, Honest, SendReturns
  <2> HIDE DEF r
  <2>3. c \in DOMAIN Request => Honest(c, r, announced', made')
    BY <1>1, <1>3, <2>1, <2>2 DEF Honest
  <2> QED BY <1>1, <1>3, <2>1, <2>3, OneHonestStep
<1> QED BY <1>2, <1>3 DEF SendReturns

(* ControlInv is inductive. *)
LEMMA ControlInvStep == ControlInv /\ [ControlNext]_cvars => ControlInv'
<1> SUFFICES ASSUME ControlInv, [ControlNext]_cvars PROVE ControlInv'
  OBVIOUS
<1>0. ASSUME UNCHANGED <<command, announced, made>> PROVE ControlInv'
  BY <1>0 DEF ControlInv, MadeOnce, Transfer, CommandSet
\* One command goes on, without a transfer.
<1>s. ASSUME NEW c \in Commands, NEW r \in CommandSet, command' = [command EXCEPT ![c] = r],
             c \in DOMAIN Request => Honest(c, r, announced', made'),
             UNCHANGED <<announced, made>>
      PROVE  ControlInv'
  <2>1. MadeOnce'
    BY <1>s DEF ControlInv, MadeOnce, Transfer
  <2> QED BY <1>s, <2>1, OneHonestStep
<1>1. ASSUME NEW d \in Daemons,
             Boot(d) \/ Continue(d) \/ Drain(d) \/ Receive(d) \/ HandlerReturns(d)
      PROVE  ControlInv'
  BY <1>0, <1>1 DEF Boot, Continue, Drain, Receive, HandlerReturns
<1>2. ASSUME NEW d \in Daemons, Unlisten(d) \/ Exit(d) PROVE ControlInv'
  BY <1>2, HangUpStep DEF Unlisten, Exit
<1>3. ASSUME NEW c \in Commands, dialControlClient(c) PROVE ControlInv'
  <2> DEFINE d == file[clientControlSocketPath(c)]
             dialled == [Fresh EXCEPT !.pc = "dialled", !.conn = d]
             r == IF d \in Daemons THEN dialled ELSE Ended("failed", {})
  <2>1. command' = [command EXCEPT ![c] = r] /\ UNCHANGED <<announced, made>>
    BY <1>3 DEF dialControlClient
  <2>2. d \in Daemons => dialled \in CommandSet /\ Honest(c, dialled, announced', made')
    BY DEF Fresh, CommandSet, Honest
  <2>3. r \in CommandSet /\ Honest(c, r, announced', made')
    BY <2>2, FailedHonest
  <2> HIDE DEF r
  <2> QED BY <1>s, <2>1, <2>3
<1>4. ASSUME NEW c \in Commands, Accept(c) PROVE ControlInv'
  <2> DEFINE r == [command[c] EXCEPT !.pc = "served"]
  <2>1. command' = [command EXCEPT ![c].pc = "served"] /\ UNCHANGED <<announced, made>>
        /\ command[c].pc = "dialled" /\ command[c] \in CommandSet
    BY <1>4 DEF Accept, ControlInv
  <2>2. command' = [command EXCEPT ![c] = r]
    BY <2>1 DEF ControlInv
  <2>3. /\ r \in CommandSet /\ r.pc = "served"
        /\ r.result = command[c].result /\ r.tx = command[c].tx
    BY <2>1 DEF CommandSet
  <2> HIDE DEF r
  <2>4. c \in DOMAIN Request => Honest(c, r, announced', made')
    BY <2>1, <2>3 DEF ControlInv, Honest
  <2> QED BY <1>s, <2>1, <2>2, <2>3, <2>4
<1>5. ASSUME NEW c \in Commands, Serve(c) PROVE ControlInv'
  <2>1. CASE c \in DOMAIN Request
    BY <1>5, <2>1, SendStep DEF Serve
  <2>2. CASE c \notin DOMAIN Request
    <3>1. PICK result \in {"ok", "failed"} : answer(c, result, {})
      BY <1>5, <2>2 DEF Serve, query
    <3>2. UNCHANGED <<announced, made>>
      BY <1>5, <2>2 DEF Serve, query
    <3> DEFINE r == Ended(result, {})
    <3>3. r \in CommandSet /\ command' = [command EXCEPT ![c] = r]
      BY <3>1 DEF Ended, CommandSet, answer
    <3> HIDE DEF r
    <3> QED BY <1>s, <2>2, <3>2, <3>3
  <2> QED BY <2>1, <2>2
<1>6. ASSUME NEW c \in Commands, SendReturns(c) PROVE ControlInv'
  BY <1>6, SendReturnsStep
<1>7. ASSUME NEW c \in Commands, Repeat(c) PROVE ControlInv'
  <2>1. command' = [command EXCEPT ![c] = Fresh] /\ UNCHANGED <<announced, made>>
    BY <1>7 DEF Repeat
  <2> QED BY <1>s, <2>1, FailedHonest
<1>8. CASE Tick \/ UNCHANGED cvars
  BY <1>0, <1>8 DEF Tick, cvars
<1> QED BY <1>1, <1>2, <1>3, <1>4, <1>5, <1>6, <1>7, <1>8 DEF ControlNext

(* Nothing has been asked at the start. *)
LEMMA ControlInvInit == ControlInit => ControlInv
<1> SUFFICES ASSUME ControlInit PROVE ControlInv
  OBVIOUS
<1>1. made = {} /\ command = [c \in Commands |-> Fresh]
  BY DEF ControlInit
<1>2. Fresh \in CommandSet /\ \A c : Honest(c, Fresh, announced, made)
  BY FailedHonest
<1> QED BY <1>1, <1>2, ControlAssumption DEF ControlInv, MadeOnce

(* The inductive invariant of the commands holds. *)
LEMMA ControlInvariant == ControlSpec => []ControlInv
BY ControlInvInit, ControlInvStep, PTL DEF ControlSpec

(* For any number of nodes, commands, peers, crashes and repetitions: all the
   transfers that sendTx makes for one command are the same, so a user who
   repeats a payment whose answer was lost does not pay twice. *)
THEOREM RetryMakesNoRivalHolds == ControlSpec => []RetryMakesNoRival
BY ControlInvImplies, ControlInvariant, PTL

(* For any number of nodes and commands: the transfer ID in the answer to
   "tx send" is that of the command's own transfer, announced to every peer. *)
THEOREM OkMeansAnnouncedHolds == ControlSpec => []OkMeansAnnounced
BY ControlInvImplies, ControlInvariant, PTL

=============================================================================
