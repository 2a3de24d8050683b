-------------------------- MODULE Web4GossipProofs ---------------------------
(***************************************************************************)
(* Proofs about the network of Web4Gossip, for any number of nodes, any    *)
(* topology and any number of faults: evidence is truthful, and between    *)
(* two nodes a transfer is the subject of at most one conversation.        *)
(***************************************************************************)
EXTENDS Web4Gossip, Web4HandlersProofs

----------------------------------------------------------------------------
(* The inductive invariant.  It speaks of the frames in flight too: what   *)
(* they say is true of their sender, and who is asked for a transfer has   *)
(* it.                                                                     *)

Channels == [PeerIDs -> [PeerIDs -> Seq(Messages)]]

NetworkType ==
    /\ node = [n \in PeerIDs |-> node[n]]
    /\ \A n \in PeerIDs : NodeInv(node[n], now)
    /\ chan \in Channels
    /\ up \subseteq PeerIDs
    /\ stale \subseteq PeerIDs \X PeerIDs
    /\ drops \in 0..MaxDrops
    /\ crashes \in 0..MaxCrashes
    /\ lost \in [PeerIDs -> SUBSET TxIDs]
    /\ now \in 0..MaxTime

\* What the nodes hold or have held.
AllHeld == [n \in PeerIDs |-> Held(n)]

\* Message m from p to q is true, if this is what the nodes hold or have held.
Sound(held, m, p, q) ==
    /\ m.type \in {"INV", "TX"} => m.tx \in held[p]
    /\ m.type = "GET" => m.tx \in held[q]
    /\ m.type = "PROOF_RESP" /\ m.seen => m.tx \in held[p]

FramesSound == \A p, q \in PeerIDs : \A m \in Range(chan[p][q]) : Sound(AllHeld, m, p, q)

Vouches(s, p, t) ==
    \/ p \in s.peerObservations[t]
    \/ p \in DOMAIN s.proofStore[t] /\ s.proofStore[t][p].seen

EvidenceSound ==
    \A n, p \in PeerIDs, t \in TxIDs : Vouches(node[n], p, t) => t \in AllHeld[p]

NetworkInv == NetworkType /\ FramesSound /\ EvidenceSound

\* The frames of a conversation about t: those of the one who has it, and the
\* request.
Offers(t) == {m \in Messages : m.type \in {"INV", "TX"} /\ m.tx = t}
Requests(t) == {m \in Messages : m.type = "GET" /\ m.tx = t}

Once(seq, M) == \A i, j \in DOMAIN seq : seq[i] \in M /\ seq[j] \in M => i = j

Lacks(seq, M) == Range(seq) \cap M = {}

Thin(ch, p, q, t) ==
    /\ Once(ch[p][q], Offers(t))
    /\ Once(ch[q][p], Requests(t))
    /\ Lacks(ch[p][q], Offers(t)) \/ Lacks(ch[q][p], Requests(t))

\* The transfers that no node has forgotten.
Remembered == TxIDs \ UNION {lost[n] : n \in PeerIDs}

Conversations(ch) == \A p, q \in PeerIDs, t \in Remembered : Thin(ch, p, q, t)

\* Whatever is remembered and stored anywhere was submitted at some node, which
\* has consumed it.
Submitted(m, t) ==
    t \in Submissions[m] /\ t \in Stored(node[m]) /\ Inputs(t) \subseteq node[m].consumed

Origins ==
    \A n \in PeerIDs : \A t \in Stored(node[n]) \cap Remembered :
        \E m \in PeerIDs : Submitted(m, t)

\* No transfer is submitted at two nodes.
OneSubmitter ==
    \A m, n \in PeerIDs : m # n => Submissions[m] \cap Submissions[n] = {}

FloodInv == NetworkInv /\ Conversations(chan) /\ Origins

----------------------------------------------------------------------------
(* Queues of frames.                                                       *)

(* A queue without its first frame. *)
LEMMA TakeHead ==
    ASSUME NEW S, NEW seq \in Seq(S), seq # <<>>, NEW M
    PROVE  /\ Tail(seq) \in Seq(S)
           /\ Head(seq) \in Range(seq) /\ Head(seq) \in S
           /\ Range(Tail(seq)) \subseteq Range(seq)
           /\ Once(seq, M) => Once(Tail(seq), M)
           /\ Once(seq, M) /\ Head(seq) \in M => Lacks(Tail(seq), M)
<1> DEFINE n == Len(seq)
           t == Tail(seq)
<1>1. /\ n \in Nat /\ n > 0 /\ DOMAIN seq = 1..n
      /\ t \in Seq(S) /\ DOMAIN t = 1..(n - 1)
      /\ \A i \in 1..(n - 1) : t[i] = seq[i + 1]
      /\ Head(seq) = seq[1] /\ seq[1] \in S
  OBVIOUS
<1> HIDE DEF n, t
<1>2. \A i \in DOMAIN t : i + 1 \in DOMAIN seq /\ t[i] = seq[i + 1] /\ i + 1 # 1 /\ i \in Nat
  BY <1>1
<1>3. Head(seq) \in Range(seq) /\ Range(t) \subseteq Range(seq)
  BY <1>1, <1>2 DEF Range
<1>4. ASSUME Once(seq, M) PROVE Once(t, M)
  <2> SUFFICES ASSUME NEW i \in DOMAIN t, NEW j \in DOMAIN t, t[i] \in M, t[j] \in M
               PROVE  i = j
    BY DEF Once
  <2>1. i + 1 = j + 1
    BY <1>2, <1>4 DEF Once
  <2> QED BY <1>2, <2>1
<1>5. ASSUME Once(seq, M), seq[1] \in M PROVE Lacks(t, M)
  <2> SUFFICES ASSUME NEW i \in DOMAIN t, t[i] \in M PROVE FALSE
    BY DEF Lacks, Range
  <2>1. i + 1 = 1
    BY <1>1, <1>2, <1>5 DEF Once
  <2> QED BY <1>2, <2>1
<1> QED BY <1>1, <1>3, <1>4, <1>5 DEF t

(* A queue with one frame more. *)
LEMMA AddFrame ==
    ASSUME NEW S, NEW seq \in Seq(S), NEW m \in S, NEW M
    PROVE  /\ seq \o <<m>> \in Seq(S)
           /\ Range(seq \o <<m>>) = Range(seq) \cup {m}
           /\ Once(seq, M) /\ (m \notin M \/ Lacks(seq, M)) => Once(seq \o <<m>>, M)
           /\ Lacks(seq, M) /\ m \notin M => Lacks(seq \o <<m>>, M)
<1> DEFINE n == Len(seq)
           t == seq \o <<m>>
<1>1. /\ n \in Nat /\ DOMAIN seq = 1..n
      /\ t \in Seq(S) /\ DOMAIN t = 1..(n + 1)
      /\ \A i \in 1..n : t[i] = seq[i]
      /\ t[n + 1] = m
  OBVIOUS
<1> HIDE DEF n, t
<1>2. /\ \A i \in DOMAIN t : i = n + 1 \/ (i \in DOMAIN seq /\ t[i] = seq[i])
      /\ n + 1 \in DOMAIN t /\ DOMAIN seq \subseteq DOMAIN t
  BY <1>1
<1>3. Range(t) = Range(seq) \cup {m}
  BY <1>1, <1>2 DEF Range
<1>4. ASSUME Once(seq, M), m \notin M \/ Lacks(seq, M) PROVE Once(t, M)
  <2>1. m \in M => \A i \in DOMAIN seq : seq[i] \notin M
    BY <1>4 DEF Lacks, Range
  <2> QED BY <1>1, <1>2, <1>4, <2>1 DEF Once
<1>5. Lacks(seq, M) /\ m \notin M => Lacks(t, M)
  BY <1>3 DEF Lacks
<1> QED BY <1>1, <1>3, <1>4, <1>5 DEF t

(* An empty queue. *)
LEMMA EmptyQueue ==
    ASSUME NEW M
    PROVE  Range(<<>>) = {} /\ Once(<<>>, M) /\ Lacks(<<>>, M)
BY DEF Range, Once, Lacks

(* send adds at most one frame to each channel of its node, and changes no other
   channel. *)
LEMMA SendFacts ==
    ASSUME NEW n \in PeerIDs, NEW ch \in Channels, NEW out \in Seq(Outgoing),
           send(n, out, ch)
    PROVE  /\ chan' \in Channels
           /\ stale' \subseteq stale
           /\ \A p, q \in PeerIDs : p # n => chan'[p][q] = ch[p][q]
           /\ \A q \in PeerIDs :
                 \/ chan'[n][q] = ch[n][q]
                 \/ \E i \in DOMAIN out :
                       out[i].to = q /\ chan'[n][q] = ch[n][q] \o <<out[i].msg>>
<1>1. PICK k \in 0..Len(out) :
        /\ chan' = [ch EXCEPT ![n] = [q \in PeerIDs |-> @[q] \o written(n, out, k, q)]]
        /\ stale' = IF k < Len(out) THEN stale \ {<<n, out[k+1].to>>} ELSE stale
  BY DEF send
<1> DEFINE w(q) == written(n, out, k, q)
<1>2. \A i \in DOMAIN out : out[i].msg \in Messages
  <2>1. \A i \in DOMAIN out : out[i] \in Outgoing
    OBVIOUS
  <2> QED BY <2>1 DEF Outgoing
<1>3. \A i \in 1..k : i \in DOMAIN out
  BY <1>1
<1>4. ASSUME NEW q \in PeerIDs
      PROVE  w(q) = <<>> \/ \E i \in DOMAIN out : out[i].to = q /\ w(q) = <<out[i].msg>>
  <2> DEFINE mine == {i \in 1..k : out[i].to = q}
             j == CHOOSE i \in mine : TRUE
  <2>1. CASE unreachable(n, q) \/ mine = {}
    BY <2>1 DEF written
  <2>2. CASE ~unreachable(n, q) /\ mine # {}
    <3>1. w(q) = <<out[j].msg>>
      BY <2>2 DEF written
    <3>2. j \in mine
      BY <2>2
    <3> HIDE DEF j
    <3> QED BY <1>3, <3>1, <3>2
  <2> QED BY <2>1, <2>2
<1>5. \A q \in PeerIDs : ch[n][q] \in Seq(Messages) /\ w(q) \in Seq(Messages)
  <2> SUFFICES ASSUME NEW q \in PeerIDs
               PROVE  ch[n][q] \in Seq(Messages) /\ w(q) \in Seq(Messages)
    OBVIOUS
  <2>1. ch[n][q] \in Seq(Messages)
    BY DEF Channels
  <2> HIDE DEF w
  <2>2. w(q) = <<>> \/ \E m \in Messages : w(q) = <<m>>
    BY <1>2, <1>4
  <2>3. CASE w(q) = <<>>
    BY <2>1, <2>3
  <2>4. CASE w(q) # <<>>
    <3>1. PICK m \in Messages : w(q) = <<m>>
      BY <2>2, <2>4
    <3>2. <<m>> \in Seq(Messages)
      OBVIOUS
    <3> QED BY <2>1, <3>1, <3>2
  <2> QED BY <2>3, <2>4
<1> HIDE DEF w
<1>6. chan' = [ch EXCEPT ![n] = [q \in PeerIDs |-> ch[n][q] \o w(q)]]
  BY <1>1 DEF w, Channels
<1>7. \A q \in PeerIDs : ch[n][q] \o w(q) \in Seq(Messages)
  BY <1>5
<1>8. /\ \A p, q \in PeerIDs : p # n => chan'[p][q] = ch[p][q]
      /\ \A q \in PeerIDs : chan'[n][q] = ch[n][q] \o w(q)
  BY <1>6 DEF Channels
<1>9. chan' \in Channels
  BY <1>6, <1>7 DEF Channels
<1>10. ASSUME NEW q \in PeerIDs
       PROVE  \/ chan'[n][q] = ch[n][q]
              \/ \E i \in DOMAIN out :
                    out[i].to = q /\ chan'[n][q] = ch[n][q] \o <<out[i].msg>>
  <2>1. CASE w(q) = <<>>
    <3>1. ch[n][q] \o <<>> = ch[n][q]
      BY <1>5
    <3> QED BY <1>8, <2>1, <3>1
  <2>2. CASE w(q) # <<>>
    BY <1>4, <1>8, <2>2, ZenonT(60)
  <2> QED BY <2>1, <2>2
<1>11. stale' \subseteq stale
  BY <1>1
<1> QED BY <1>8, <1>9, <1>10, <1>11

\* ch is chan without the first frame from p to q.
Taken(ch, p, q) ==
    /\ ch \in Channels
    /\ ch[p][q] = Tail(chan[p][q])
    /\ \A a, b \in PeerIDs : a # p \/ b # q => ch[a][b] = chan[a][b]

(* Taking the first frame from p to q is what Deliver does to the queues. *)
LEMMA TakeFrame ==
    ASSUME chan \in Channels, NEW p \in PeerIDs, NEW q \in PeerIDs, chan[p][q] # <<>>
    PROVE  Taken([chan EXCEPT ![p][q] = Tail(@)], p, q)
<1> DEFINE tail == Tail(chan[p][q])
           ch == [chan EXCEPT ![p][q] = Tail(@)]
<1>1. chan[p][q] \in Seq(Messages)
  BY DEF Channels
<1>2. tail \in Seq(Messages)
  BY <1>1, TakeHead
<1>3. ch = [chan EXCEPT ![p][q] = tail]
  BY DEF Channels
<1> HIDE DEF tail, ch
<1>4. /\ ch \in Channels
      /\ ch[p][q] = tail
      /\ \A a, b \in PeerIDs : a # p \/ b # q => ch[a][b] = chan[a][b]
  BY <1>2, <1>3 DEF Channels
<1>5. Taken(ch, p, q)
  BY <1>4 DEF Taken, tail
<1> QED BY <1>5 DEF ch

(* Taking a frame puts none into any queue. *)
LEMMA TakenRange ==
    ASSUME chan \in Channels, NEW p \in PeerIDs, NEW q \in PeerIDs, chan[p][q] # <<>>,
           NEW ch, Taken(ch, p, q)
    PROVE  \A a, b \in PeerIDs : Range(ch[a][b]) \subseteq Range(chan[a][b])
<1>1. chan[p][q] \in Seq(Messages)
  BY DEF Channels
<1>2. Range(Tail(chan[p][q])) \subseteq Range(chan[p][q])
  BY <1>1, TakeHead
<1> QED BY <1>2 DEF Taken

----------------------------------------------------------------------------
(* The network keeps the invariant.                                        *)

\* One node takes a step, by which its store only grows, and sends out.
LEMMA ActStep ==
    ASSUME NetworkInv, NEW n \in PeerIDs,
           NEW st, NodeInv(st, now), Stored(node[n]) \subseteq Stored(st),
           node' = [node EXCEPT ![n] = st],
           NEW ch \in Channels,
           \A p, q \in PeerIDs : Range(ch[p][q]) \subseteq Range(chan[p][q]),
           NEW out \in Seq(Outgoing), send(n, out, ch),
           UNCHANGED <<up, drops, crashes, lost, now>>,
           \A i \in DOMAIN out : Sound(AllHeld', out[i].msg, n, out[i].to),
           \A p \in PeerIDs, t \in TxIDs : Vouches(st, p, t) => t \in AllHeld[p]
    PROVE  NetworkInv'
<1>1. /\ chan' \in Channels
      /\ stale' \subseteq stale
      /\ \A p, q \in PeerIDs : p # n => chan'[p][q] = ch[p][q]
      /\ \A q \in PeerIDs :
            \/ chan'[n][q] = ch[n][q]
            \/ \E i \in DOMAIN out :
                  out[i].to = q /\ chan'[n][q] = ch[n][q] \o <<out[i].msg>>
  BY SendFacts
<1>2. /\ DOMAIN node = PeerIDs /\ \A p \in PeerIDs : NodeInv(node[p], now)
      /\ up \subseteq PeerIDs /\ stale \subseteq PeerIDs \X PeerIDs
      /\ drops \in 0..MaxDrops /\ now \in 0..MaxTime
      /\ crashes \in 0..MaxCrashes /\ lost \in [PeerIDs -> SUBSET TxIDs]
  BY DEF NetworkInv, NetworkType
<1>3. node'[n] = st /\ \A p \in PeerIDs : p # n => node'[p] = node[p]
  BY <1>2
<1>4. \A p \in PeerIDs : AllHeld[p] \subseteq AllHeld'[p]
  BY <1>3 DEF AllHeld, Held
<1>5. NetworkType'
  BY <1>1, <1>2, <1>3 DEF NetworkType
<1>6. FramesSound'
  <2> SUFFICES ASSUME NEW p \in PeerIDs, NEW q \in PeerIDs, NEW m \in Range(chan'[p][q])
               PROVE  Sound(AllHeld', m, p, q)
    BY DEF FramesSound
  <2>1. ASSUME m \in Range(ch[p][q]) PROVE Sound(AllHeld', m, p, q)
    <3>1. Sound(AllHeld, m, p, q)
      BY <2>1 DEF NetworkInv, FramesSound
    <3> QED BY <3>1, <1>4 DEF Sound
  <2>2. CASE p # n
    BY <1>1, <2>1, <2>2
  <2>3. CASE p = n /\ chan'[n][q] = ch[n][q]
    BY <2>1, <2>3
  <2>4. CASE p = n /\ chan'[n][q] # ch[n][q]
    <3>1. PICK i \in DOMAIN out :
            out[i].to = q /\ chan'[n][q] = ch[n][q] \o <<out[i].msg>>
      BY <1>1, <2>4
    <3>2. ch[n][q] \in Seq(Messages) /\ out[i].msg \in Messages
      <4>1. out[i] \in Outgoing
        OBVIOUS
      <4> QED BY <4>1 DEF Channels, Outgoing
    <3>3. Range(chan'[n][q]) = Range(ch[n][q]) \cup {out[i].msg}
      BY <3>1, <3>2, AddFrame
    <3>4. CASE m = out[i].msg
      BY <2>4, <3>1, <3>4
    <3> QED BY <2>1, <2>4, <3>3, <3>4
  <2> QED BY <2>2, <2>3, <2>4
<1>7. EvidenceSound'
  <2> SUFFICES ASSUME NEW m \in PeerIDs, NEW p \in PeerIDs, NEW t \in TxIDs,
                      Vouches(node'[m], p, t)
               PROVE  t \in AllHeld'[p]
    BY DEF EvidenceSound, Vouches
  <2>1. t \in AllHeld[p]
    <3>1. CASE m = n
      BY <1>3, <3>1
    <3>2. CASE m # n
      BY <1>3, <3>2 DEF NetworkInv, EvidenceSound
    <3> QED BY <3>1, <3>2
  <2> QED BY <1>4, <2>1
<1> QED BY <1>5, <1>6, <1>7 DEF NetworkInv

\* What a node hears from a truthful peer adds no false evidence.
LEMMA HeardEvidence ==
    ASSUME NetworkInv, NEW p \in PeerIDs, NEW n \in PeerIDs, NEW m \in Messages,
           Sound(AllHeld, m, p, n), NEW st, Changes(st, node[n], p, m), IsNodeState(st)
    PROVE  /\ Stored(node[n]) \subseteq Stored(st)
           /\ \A q \in PeerIDs, t \in TxIDs : Vouches(st, q, t) => t \in AllHeld[q]
           /\ st.consumed = node[n].consumed
<1> DEFINE s == node[n]
<1>1. \A q \in PeerIDs, t \in TxIDs : Vouches(s, q, t) => t \in AllHeld[q]
  BY DEF NetworkInv, EvidenceSound
<1>2. CASE st = s
  BY <1>1, <1>2
<1>3. CASE m.type = "TX" /\ m.tx \in TxIDs /\ StoredFrom(st, s, m.tx, p)
           /\ st.consumed = s.consumed
  <2>1. m.tx \in AllHeld[p]
    BY <1>3 DEF Sound
  <2>2. ASSUME NEW q \in PeerIDs, NEW t \in TxIDs, Vouches(st, q, t)
        PROVE  t \in AllHeld[q]
    <3>1. st.proofStore = s.proofStore
      BY <1>3 DEF StoredFrom
    <3>2. Vouches(s, q, t) \/ (q = p /\ t = m.tx)
      BY <1>3, <2>2, <3>1 DEF StoredFrom, Vouches
    <3> QED BY <1>1, <2>1, <3>2
  <2>3. Stored(s) \subseteq Stored(st)
    BY <1>3 DEF StoredFrom
  <2> QED BY <1>3, <2>2, <2>3
<1>4. CASE m.type = "PROOF_RESP" /\ m.tx \in TxIDs /\ ProofFiled(st, s, p, m)
  <2>1. m.seen => m.tx \in AllHeld[p]
    BY <1>4 DEF Sound
  <2>2. ASSUME NEW q \in PeerIDs, NEW t \in TxIDs, Vouches(st, q, t)
        PROVE  t \in AllHeld[q]
    <3>1. /\ st.peerObservations = s.peerObservations
          /\ \A u \in TxIDs \ {m.tx} : st.proofStore[u] = s.proofStore[u]
      BY <1>4 DEF ProofFiled
    <3>2. CASE t # m.tx \/ q \in s.peerObservations[t]
      BY <1>1, <2>2, <3>1, <3>2 DEF Vouches
    <3>3. CASE t = m.tx /\ q \notin s.peerObservations[t]
      <4> DEFINE proof == [seen |-> m.seen, conflict |-> m.conflict, distance |-> m.distance]
                 old == s.proofStore[t]
                 new == st.proofStore[t]
      <4>1. new = Put(old, p, proof)
        BY <1>4, <3>3 DEF ProofFiled
      <4>2. q \in DOMAIN new /\ new[q].seen
        BY <2>2, <3>1, <3>3 DEF Vouches
      <4>3. CASE q = p
        <5>1. new[q] = proof
          BY <4>1, <4>2, <4>3 DEF Put
        <5>2. proof.seen = m.seen
          BY Zenon
        <5>3. m.seen
          BY <4>2, <5>1, <5>2, Zenon
        <5> QED BY <2>1, <3>3, <4>3, <5>3
      <4>4. CASE q # p
        <5>1. q \in DOMAIN old /\ new[q] = old[q]
          BY <4>1, <4>2, <4>4 DEF Put
        <5> QED BY <1>1, <4>2, <5>1 DEF Vouches
      <4> QED BY <4>3, <4>4
    <3> QED BY <3>2, <3>3
  <2>3. Stored(s) \subseteq Stored(st) /\ st.consumed = s.consumed
    BY <1>4 DEF ProofFiled
  <2> QED BY <2>2, <2>3
<1> QED BY <1>2, <1>3, <1>4 DEF Changes

\* What is known of a delivery.
LEMMA DeliverFacts ==
    ASSUME NetworkInv, NEW p \in PeerIDs, NEW q \in PeerIDs, Deliver(p, q)
    PROVE  LET m == Head(chan[p][q])
               r == dispatch(node[q], now, p, m)
               ch == [chan EXCEPT ![p][q] = Tail(@)]
           IN  /\ m \in Messages /\ m \in Range(chan[p][q]) /\ Sound(AllHeld, m, p, q)
               /\ NodeInv(r.st, now) /\ Changes(r.st, node[q], p, m)
               /\ Stored(node[q]) \subseteq Stored(r.st)
               /\ \A n \in PeerIDs, t \in TxIDs : Vouches(r.st, n, t) => t \in AllHeld[n]
               /\ r.st.consumed = node[q].consumed
               /\ r.out \in Seq(Outgoing) /\ OnePerPeer(r.out)
               /\ \A i \in DOMAIN r.out : Answer(r.out[i], r.st, node[q], p, m)
               /\ node' = [node EXCEPT ![q] = r.st]
               /\ Taken(ch, p, q) /\ send(q, r.out, ch) /\ UNCHANGED <<up, drops, crashes, lost, now>>
<1> DEFINE m == Head(chan[p][q])
           s == node[q]
           r == dispatch(s, now, p, m)
           ch == [chan EXCEPT ![p][q] = Tail(@)]
<1>1. chan \in Channels /\ chan[p][q] # <<>> /\ now \in Nat /\ NodeInv(s, now)
  BY NetworkAssumption DEF NetworkInv, NetworkType, Deliver
<1>2. m \in Messages /\ m \in Range(chan[p][q])
  <2>1. chan[p][q] \in Seq(Messages)
    BY <1>1 DEF Channels
  <2> QED BY <1>1, <2>1, TakeHead
<1>3. Sound(AllHeld, m, p, q)
  BY <1>2 DEF NetworkInv, FramesSound
<1>4. /\ node' = [node EXCEPT ![q] = r.st]
      /\ send(q, r.out, ch) /\ UNCHANGED <<up, drops, crashes, lost, now>>
  BY DEF Deliver
<1>t. Taken(ch, p, q)
  BY <1>1, TakeFrame
<1> HIDE DEF m, ch
<1>5. /\ NodeInv(r.st, now) /\ Changes(r.st, s, p, m)
      /\ r.out \in Seq(Outgoing) /\ OnePerPeer(r.out)
      /\ \A i \in DOMAIN r.out : Answer(r.out[i], r.st, s, p, m)
  BY <1>1, <1>2, DispatchFacts
<1> HIDE DEF r
<1>6. IsNodeState(r.st)
  BY <1>5 DEF NodeInv, StoresOK
<1>7. /\ Stored(s) \subseteq Stored(r.st)
      /\ \A n \in PeerIDs, t \in TxIDs : Vouches(r.st, n, t) => t \in AllHeld[n]
      /\ r.st.consumed = s.consumed
  BY <1>2, <1>3, <1>5, <1>6, HeardEvidence
<1> QED BY <1>2, <1>3, <1>4, <1>5, <1>7, <1>t DEF m, r, ch

(* OnMessage at q, with a frame of p. *)
LEMMA DeliverStep ==
    ASSUME NetworkInv, NEW p \in PeerIDs, NEW q \in PeerIDs, Deliver(p, q)
    PROVE  NetworkInv'
<1> DEFINE m == Head(chan[p][q])
           s == node[q]
           r == dispatch(s, now, p, m)
           ch == [chan EXCEPT ![p][q] = Tail(@)]
<1>1. /\ m \in Messages /\ Sound(AllHeld, m, p, q)
      /\ NodeInv(r.st, now) /\ Stored(s) \subseteq Stored(r.st)
      /\ \A n \in PeerIDs, t \in TxIDs : Vouches(r.st, n, t) => t \in AllHeld[n]
      /\ r.out \in Seq(Outgoing)
      /\ \A i \in DOMAIN r.out : Answer(r.out[i], r.st, s, p, m)
      /\ node' = [node EXCEPT ![q] = r.st]
      /\ Taken(ch, p, q) /\ send(q, r.out, ch) /\ UNCHANGED <<up, drops, crashes, lost, now>>
  BY DeliverFacts
<1>2. chan \in Channels /\ chan[p][q] # <<>> /\ DOMAIN node = PeerIDs
  BY DEF NetworkInv, NetworkType, Deliver
<1> HIDE DEF m, r, ch
<1>3. ch \in Channels /\ \A a, b \in PeerIDs : Range(ch[a][b]) \subseteq Range(chan[a][b])
  <2>1. ch \in Channels
    BY <1>1 DEF Taken
  <2>2. Taken(ch, p, q)
    BY <1>1
  <2>3. \A a, b \in PeerIDs : Range(ch[a][b]) \subseteq Range(chan[a][b])
    BY ONLY <1>2, <2>2, TakenRange, p \in PeerIDs, q \in PeerIDs, ZenonT(60)
  <2> QED BY <2>1, <2>3
<1>4. /\ Stored(s) \subseteq AllHeld'[q] /\ Stored(r.st) \subseteq AllHeld'[q]
      /\ \A n \in PeerIDs : AllHeld[n] \subseteq AllHeld'[n]
  <2>1. node'[q] = r.st /\ \A n \in PeerIDs : Stored(node[n]) \subseteq Stored(node'[n])
    BY <1>1, <1>2
  <2> QED BY <1>1, <2>1 DEF AllHeld, Held
<1>5. ASSUME NEW i \in DOMAIN r.out
      PROVE  Sound(AllHeld', r.out[i].msg, q, r.out[i].to)
  <2> DEFINE e == r.out[i]
  <2>1. Answer(e, r.st, s, p, m)
    BY <1>1
  <2>2. CASE m.type = "INV" /\ m.tx \notin Stored(s) /\ e = [to |-> p, msg |-> GET(m.tx)]
    <3>1. e.to = p /\ e.msg.type = "GET" /\ e.msg.tx = m.tx
      BY <2>2 DEF GET
    <3>2. m.tx \in AllHeld'[p]
      BY <1>1, <1>4, <2>2 DEF Sound
    <3> HIDE DEF e
    <3> QED BY <3>1, <3>2 DEF Sound, e
  <2>3. CASE m.type = "GET" /\ m.tx \in Stored(s)
             /\ e.to = p /\ e.msg.type = "TX" /\ e.msg.tx = m.tx
    BY <1>4, <2>3 DEF Sound
  <2>4. CASE m.type = "TX" /\ m.tx \notin Stored(s) /\ m.tx \in Stored(r.st)
             /\ e.msg = INV(m.tx)
    <3>1. e.msg.type = "INV" /\ e.msg.tx = m.tx
      BY <2>4 DEF INV
    <3> QED BY <1>4, <2>4, <3>1 DEF Sound
  <2>5. CASE m.type = "PROOF_REQ" /\ e.msg.type = "PROOF_RESP" /\ e.msg.tx = m.tx
             /\ (e.msg.seen => m.tx \in Stored(s))
    BY <1>4, <2>5 DEF Sound
  <2> HIDE DEF e
  <2> QED BY <2>1, <2>2, <2>3, <2>4, <2>5 DEF Answer, e
<1> DEFINE st == r.st
           out == r.out
<1>6. /\ NodeInv(st, now) /\ Stored(node[q]) \subseteq Stored(st)
      /\ \A n \in PeerIDs, t \in TxIDs : Vouches(st, n, t) => t \in AllHeld[n]
      /\ out \in Seq(Outgoing) /\ node' = [node EXCEPT ![q] = st]
      /\ send(q, out, ch)
      /\ \A i \in DOMAIN out : Sound(AllHeld', out[i].msg, q, out[i].to)
  BY <1>1, <1>5
<1> HIDE DEF st, out
<1> QED BY <1>1, <1>3, <1>6, ActStep

(* AcceptLocalTransfer at n. *)
LEMMA SubmitStep ==
    ASSUME NetworkInv, NEW n \in PeerIDs, NEW t \in TxIDs, NEW sig \in Keys,
           Submit(n, t, sig)
    PROVE  NetworkInv'
<1> DEFINE s == node[n]
           r == AcceptLocalTransfer(s, now, t, sig)
<1>1. /\ chan \in Channels /\ now \in Nat /\ NodeInv(s, now) /\ DOMAIN node = PeerIDs
      /\ \A p \in PeerIDs, u \in TxIDs : Vouches(s, p, u) => u \in AllHeld[p]
  BY NetworkAssumption DEF NetworkInv, NetworkType, EvidenceSound
<1>2. /\ NodeInv(r.st, now)
      /\ r.out \in Seq(Outgoing)
      /\ \A i \in DOMAIN r.out : r.out[i].msg = INV(t)
      /\ \/ r.st = s /\ r.out = <<>>
         \/ StoredFrom(r.st, s, t, Local)
  BY <1>1, SubmitFacts
<1>3. /\ node' = [node EXCEPT ![n] = r.st]
      /\ send(n, r.out, chan) /\ UNCHANGED <<up, drops, crashes, lost, now>>
  BY DEF Submit
<1> DEFINE st == r.st
           out == r.out
<1> HIDE DEF st, out, r
<1>4. Stored(st) \subseteq AllHeld'[n]
  BY <1>1, <1>3 DEF st, AllHeld, Held
<1>5. /\ NodeInv(st, now) /\ out \in Seq(Outgoing) /\ send(n, out, chan)
      /\ node' = [node EXCEPT ![n] = st]
      /\ \A i \in DOMAIN out : out[i].msg = INV(t)
      /\ (st = s /\ out = <<>>) \/ StoredFrom(st, s, t, Local)
  BY <1>2, <1>3 DEF st, out
<1>6. CASE st = s /\ out = <<>>
  <2>1. \A i \in DOMAIN out : Sound(AllHeld', out[i].msg, n, out[i].to)
    BY <1>6
  <2> QED BY <1>1, <1>3, <1>5, <1>6, <2>1, ActStep
<1>7. CASE StoredFrom(st, s, t, Local)
  <2>1. Stored(s) \subseteq Stored(st) /\ t \in Stored(st)
    BY <1>7 DEF StoredFrom
  <2>2. \A i \in DOMAIN out : Sound(AllHeld', out[i].msg, n, out[i].to)
    BY <1>4, <1>5, <2>1 DEF Sound, INV
  <2>3. \A p \in PeerIDs, u \in TxIDs : Vouches(st, p, u) => Vouches(s, p, u)
    BY <1>7, PeerOrderAssumption DEF StoredFrom, Vouches
  <2> QED BY <1>1, <1>3, <1>5, <2>1, <2>2, <2>3, ActStep, ZenonT(60)
<1> QED BY <1>5, <1>6, <1>7

(* A proof request from n to p. *)
LEMMA RequestProofStep ==
    ASSUME NetworkInv, NEW n \in PeerIDs, NEW p \in PeerIDs, NEW t \in TxIDs,
           RequestProof(n, p, t)
    PROVE  NetworkInv'
<1> DEFINE e == [to |-> p, msg |-> PROOF_REQ(t)]
           out == <<e>>
           st == node[n]
<1>1. /\ chan \in Channels /\ NodeInv(st, now) /\ node = [q \in PeerIDs |-> node[q]]
      /\ \A q \in PeerIDs, u \in TxIDs : Vouches(st, q, u) => u \in AllHeld[q]
  BY DEF NetworkInv, NetworkType, EvidenceSound
<1>2. out \in Seq(Outgoing) /\ \A i \in DOMAIN out : out[i] = e
  BY MessageTypes, SingleFacts
<1>3. send(n, out, chan) /\ UNCHANGED <<node, up, drops, crashes, lost, now>>
  BY DEF RequestProof
<1> HIDE DEF out
<1>4. \A i \in DOMAIN out : Sound(AllHeld', out[i].msg, n, out[i].to)
  BY <1>2 DEF Sound, PROOF_REQ
<1>5. node' = [node EXCEPT ![n] = st]
  BY <1>1, <1>3
<1> HIDE DEF st
<1> QED BY <1>1, <1>2, <1>3, <1>4, <1>5, ActStep DEF st

(* A process that starts has learned nothing. *)
LEMMA StartupFacts ==
    ASSUME NEW n \in PeerIDs
    PROVE  /\ NodeInv(Startup(n), 0)
           /\ Stored(Startup(n)) = {}
           /\ \A t \in TxIDs : /\ Startup(n).peerObservations[t] = {}
                               /\ DOMAIN Startup(n).proofStore[t] = {}
<1> DEFINE s == Startup(n)
<1>1. NodeInv(NewNode, 0) /\ IsNodeState(NewNode)
  BY NewNodeInv DEF NodeInv, StoresOK
<1>2. Peers[n] \subseteq PeerIDs /\ Genesis[n] \subseteq ValueIDs
  BY NetworkAssumption
<1>3. /\ DOMAIN s = DOMAIN NewNode
      /\ s.peers = Peers[n] /\ s.valueStore = Genesis[n]
      /\ s.txStore = NewNode.txStore /\ s.conflictSets = NewNode.conflictSets
      /\ s.selectedLineage = NewNode.selectedLineage
      /\ s.finalityState = NewNode.finalityState
      /\ s.peerObservations = NewNode.peerObservations
      /\ s.proofStore = NewNode.proofStore /\ s.replayCache = NewNode.replayCache
      /\ s.consumed = NewNode.consumed /\ s.arrivalSeq = NewNode.arrivalSeq
  BY DEF Startup, NewNode
<1>4. /\ NewNode.txStore = EmptyMap
      /\ NewNode.peerObservations = [t \in TxIDs |-> {}]
      /\ NewNode.proofStore = [t \in TxIDs |-> EmptyMap]
  BY DEF NewNode
<1> HIDE DEF s
<1>5. IsNodeState(s) /\ SameEvidence(s, NewNode)
  BY <1>1, <1>2, <1>3 DEF IsNodeState, SameEvidence
<1>6. NodeInv(s, 0)
  BY <1>1, <1>3, <1>5, QuietStep
<1>7. DOMAIN EmptyMap = {}
  BY DEF EmptyMap
<1> QED BY <1>3, <1>4, <1>6, <1>7 DEF Stored, s

(* Stored transfers are transfers. *)
LEMMA StoredKnown ==
    ASSUME NEW s, NEW time, NodeInv(s, time) PROVE Stored(s) \subseteq TxIDs
BY DEF NodeInv, StoresOK, IsNodeState, IsMap, Stored

\* Channels lose frames, and time passes; some nodes may forget everything.
LEMMA LossStep ==
    ASSUME NetworkInv, chan' \in Channels,
           \A p, q \in PeerIDs : Range(chan'[p][q]) \subseteq Range(chan[p][q]),
           node' = [n \in PeerIDs |-> node'[n]],
           \A n \in PeerIDs : node'[n] = node[n] \/ node'[n] = Startup(n),
           AllHeld' = AllHeld, lost' \in [PeerIDs -> SUBSET TxIDs],
           up' \subseteq PeerIDs, stale' \subseteq PeerIDs \X PeerIDs,
           drops' \in 0..MaxDrops, crashes' \in 0..MaxCrashes,
           now' \in 0..MaxTime, now <= now'
    PROVE  NetworkInv'
<1>0. now \in Nat /\ now' \in Nat
  BY NetworkAssumption DEF NetworkInv, NetworkType
<1>1. \A n \in PeerIDs : NodeInv(node'[n], now')
  <2>1. \A n \in PeerIDs : NodeInv(node[n], now')
    BY <1>0, TimePasses DEF NetworkInv, NetworkType
  <2>2. \A n \in PeerIDs : NodeInv(Startup(n), now')
    <3>1. 0 \in Nat /\ 0 <= now'
      BY <1>0
    <3> QED BY <1>0, <3>1, StartupFacts, TimePasses
  <2> QED BY <2>1, <2>2
<1>2. NetworkType'
  BY <1>1 DEF NetworkInv, NetworkType
<1>3. FramesSound'
  <2> SUFFICES ASSUME NEW p \in PeerIDs, NEW q \in PeerIDs, NEW m \in Range(chan'[p][q])
               PROVE  Sound(AllHeld', m, p, q)
    BY DEF FramesSound
  <2>1. Sound(AllHeld, m, p, q)
    BY DEF NetworkInv, FramesSound
  <2> QED BY <2>1
<1>4. EvidenceSound'
  <2> SUFFICES ASSUME NEW n \in PeerIDs, NEW p \in PeerIDs, NEW t \in TxIDs,
                      Vouches(node'[n], p, t)
               PROVE  t \in AllHeld'[p]
    BY DEF EvidenceSound, Vouches
  <2>1. ~Vouches(Startup(n), p, t)
    BY StartupFacts DEF Vouches
  <2>2. Vouches(node[n], p, t)
    BY <2>1
  <2> QED BY <2>2 DEF NetworkInv, EvidenceSound
<1> QED BY <1>2, <1>3, <1>4 DEF NetworkInv

\* A channel is as it was or empty.
Emptied == \A p, q \in PeerIDs : chan'[p][q] = chan[p][q] \/ chan'[p][q] = <<>>

\* Every node is as it was, or has forgotten what it held: that is remembered.
Forgotten ==
    /\ \A n \in PeerIDs : node'[n] = node[n] \/ node'[n] = Startup(n)
    /\ AllHeld' = AllHeld
    /\ \A n \in PeerIDs : /\ lost[n] \subseteq lost'[n]
                          /\ node'[n] # node[n] => Stored(node[n]) \subseteq lost'[n]

(* Crashes, restarts, broken connections and the clock empty queues at most, and
   what a node holds is only forgotten. *)
LEMMA FaultFacts ==
    ASSUME NetworkInv,
           \/ \E n \in PeerIDs : Crash(n) \/ Restart(n)
           \/ \E p, q \in PeerIDs : Drop(p, q) \/ Notice(p, q)
           \/ Tick
           \/ UNCHANGED vars
    PROVE  /\ NetworkInv' /\ Emptied /\ Forgotten
           /\ crashes = 0 => UNCHANGED node \/ up # PeerIDs
<1>0. /\ chan \in Channels /\ up \subseteq PeerIDs /\ stale \subseteq PeerIDs \X PeerIDs
      /\ drops \in 0..MaxDrops /\ crashes \in 0..MaxCrashes /\ now \in 0..MaxTime
      /\ node = [n \in PeerIDs |-> node[n]] /\ lost \in [PeerIDs -> SUBSET TxIDs]
      /\ MaxDrops \in Nat /\ MaxCrashes \in Nat /\ MaxTime \in Nat
  BY NetworkAssumption DEF NetworkInv, NetworkType
<1> DEFINE Bounds == /\ up' \subseteq PeerIDs /\ stale' \subseteq PeerIDs \X PeerIDs
                     /\ drops' \in 0..MaxDrops /\ crashes' \in 0..MaxCrashes
                     /\ now' \in 0..MaxTime /\ now <= now'
           Memory == /\ node' = [n \in PeerIDs |-> node'[n]]
                     /\ lost' \in [PeerIDs -> SUBSET TxIDs] /\ Forgotten
           Same == UNCHANGED node /\ UNCHANGED lost
<1>e. <<>> \in Seq(Messages)
  OBVIOUS
<1>s. Same => Memory
  BY <1>0 DEF Forgotten, AllHeld, Held
<1>1. ASSUME NEW n \in PeerIDs, Crash(n)
      PROVE  chan' \in Channels /\ Emptied /\ Same /\ Bounds
  <2>1. crashes < MaxCrashes /\ crashes' = crashes + 1
    BY <1>1 DEF Crash
  <2>2. crashes' \in 0..MaxCrashes
    BY <1>0, <2>1
  <2>3. chan' \in Channels /\ Emptied
    BY <1>0, <1>1, <1>e DEF Crash, Channels, Emptied
  <2>4. stale' \subseteq PeerIDs \X PeerIDs
    BY <1>0, <1>1 DEF Crash
  <2> QED BY <1>0, <1>1, <2>2, <2>3, <2>4 DEF Crash
<1>2. ASSUME NEW n \in PeerIDs, Restart(n)
      PROVE  chan' \in Channels /\ Emptied /\ Memory /\ Bounds
  <2>1. PICK unread \in SUBSET PeerIDs :
          chan' = [chan EXCEPT ![n] = [q \in PeerIDs |-> IF q \in unread THEN <<>> ELSE @[q]]]
    BY <1>2 DEF Restart
  <2>2. chan' \in Channels /\ Emptied
    BY <1>0, <1>e, <2>1 DEF Channels, Emptied
  <2>3. /\ node' = [node EXCEPT ![n] = Startup(n)]
        /\ lost' = [lost EXCEPT ![n] = Held(n)]
    BY <1>2 DEF Restart
  <2>4. Stored(Startup(n)) = {} /\ Stored(node[n]) \subseteq TxIDs
    BY StartupFacts, StoredKnown DEF NetworkInv, NetworkType
  <2>5. node' = [m \in PeerIDs |-> node'[m]] /\ lost' \in [PeerIDs -> SUBSET TxIDs]
    BY <1>0, <2>3, <2>4 DEF Held
  <2>6. /\ node'[n] = Startup(n) /\ lost'[n] = Stored(node[n]) \cup lost[n]
        /\ \A m \in PeerIDs : m # n => node'[m] = node[m] /\ lost'[m] = lost[m]
    BY <1>0, <2>3 DEF Held
  <2>7. AllHeld' = AllHeld
    BY <2>4, <2>6 DEF AllHeld, Held
  <2>8. Forgotten
    BY <2>6, <2>7 DEF Forgotten
  <2> QED BY <1>0, <1>2, <2>2, <2>5, <2>8 DEF Restart
<1>3. ASSUME NEW p \in PeerIDs, NEW q \in PeerIDs, Drop(p, q)
      PROVE  chan' \in Channels /\ Emptied /\ Same /\ Bounds
  <2>1. chan' = [[chan EXCEPT ![p][q] = <<>>] EXCEPT ![q][p] = <<>>]
    BY <1>3 DEF Drop
  <2>2. chan' \in Channels /\ Emptied
    BY <1>0, <1>e, <2>1 DEF Channels, Emptied
  <2>3. stale' \subseteq PeerIDs \X PeerIDs
    BY <1>0, <1>3 DEF Drop
  <2> QED BY <1>0, <1>3, <2>2, <2>3 DEF Drop
<1>4. ASSUME NEW p \in PeerIDs, NEW q \in PeerIDs, Notice(p, q)
      PROVE  chan' \in Channels /\ Emptied /\ Same /\ Bounds
  BY <1>0, <1>4 DEF Notice, Emptied
<1>5. Tick => chan' \in Channels /\ Emptied /\ Same /\ Bounds
  BY <1>0 DEF Tick, Emptied
<1>6. UNCHANGED vars => chan' \in Channels /\ Emptied /\ Same /\ Bounds
  BY <1>0 DEF vars, Emptied
<1>7. chan' \in Channels /\ Emptied /\ Memory /\ Bounds
  <2> HIDE DEF Same, Memory, Bounds
  <2> QED BY <1>1, <1>2, <1>3, <1>4, <1>5, <1>6, <1>s
<1>8. \A p, q \in PeerIDs : Range(chan'[p][q]) \subseteq Range(chan[p][q])
  BY <1>7, EmptyQueue DEF Emptied
<1>9. NetworkInv'
  BY <1>7, <1>8, LossStep DEF Forgotten
<1>10. crashes = 0 => UNCHANGED node \/ up # PeerIDs
  <2>1. ASSUME NEW n \in PeerIDs, Restart(n) PROVE up # PeerIDs
    BY <2>1 DEF Restart
  <2> QED BY <1>1, <1>3, <1>4, <1>5, <1>6, <2>1
<1> QED BY <1>7, <1>9, <1>10

(* NetworkInv is inductive. *)
LEMMA NetworkInvStep == NetworkInv /\ [Next]_vars => NetworkInv'
<1> SUFFICES ASSUME NetworkInv, [Next]_vars PROVE NetworkInv'
  OBVIOUS
<1>1. ASSUME NEW n \in PeerIDs, NEW t \in Submissions[n], NEW sig \in Keys, Submit(n, t, sig)
      PROVE  NetworkInv'
  <2>1. t \in TxIDs
    BY NetworkAssumption
  <2> QED BY <1>1, <2>1, SubmitStep
<1>2. ASSUME NEW p \in PeerIDs, NEW q \in PeerIDs, Deliver(p, q) PROVE NetworkInv'
  BY <1>2, DeliverStep
<1>3. ASSUME NEW e \in Questions, RequestProof(e[1], e[2], e[3]) PROVE NetworkInv'
  <2>1. e[1] \in PeerIDs /\ e[2] \in PeerIDs /\ e[3] \in TxIDs
    BY NetworkAssumption
  <2> QED BY <1>3, <2>1, RequestProofStep
<1>4. CASE \/ \E n \in PeerIDs : Crash(n) \/ Restart(n)
           \/ \E p, q \in PeerIDs : Drop(p, q) \/ Notice(p, q)
           \/ Tick
           \/ UNCHANGED vars
  BY <1>4, FaultFacts
<1> QED BY <1>1, <1>2, <1>3, <1>4 DEF Next, OtherStep

(* The network starts in the invariant. *)
LEMMA NetworkInvInit == Init => NetworkInv
<1> SUFFICES ASSUME Init PROVE NetworkInv
  OBVIOUS
<1>2. NetworkType
  BY StartupFacts, NetworkAssumption DEF Init, NetworkType, Channels
<1>3. FramesSound
  BY EmptyQueue DEF Init, FramesSound
<1>4. EvidenceSound
  BY StartupFacts DEF Init, EvidenceSound, Vouches
<1> QED BY <1>2, <1>3, <1>4 DEF NetworkInv

(* The inductive invariant of the network holds. *)
LEMMA NetworkInvariant == Spec => []NetworkInv
BY NetworkInvInit, NetworkInvStep, PTL DEF Spec

(* Every variable has its type: in particular each of any number of nodes is in a
   well-formed state, and every frame in flight decodes. *)
THEOREM TypeCorrect == Spec => []TypeOK
<1>1. NetworkInv => TypeOK
  BY DEF NetworkInv, NetworkType, Channels, TypeOK, NodeInv, StoresOK
<1>2. QED
  BY <1>1, NetworkInvariant, PTL

(* Evidence is true in every network, whatever is lost, broken or stopped: a peer
   that observePeer or updateProof counts in favour of a transfer holds it, or
   held it before its process was started again. *)
THEOREM EvidenceTruthfulHolds == Spec => []EvidenceTruthful
<1>1. NetworkInv => EvidenceTruthful
  BY DEF NetworkInv, EvidenceSound, Vouches, EvidenceTruthful, supporting, AllHeld
<1>2. QED
  BY <1>1, NetworkInvariant, PTL

----------------------------------------------------------------------------
(* One conversation at a time.                                             *)

\* Message m does not start a second conversation between n and q.
Fits(ch, m, n, q) ==
    \A t \in Remembered :
        /\ m \in Offers(t) =>
              Lacks(ch[n][q], Offers(t)) /\ Lacks(ch[q][n], Requests(t))
        /\ m \in Requests(t) =>
              Lacks(ch[n][q], Requests(t)) /\ Lacks(ch[q][n], Offers(t))

(* Writing a reply of which no message starts a second conversation. *)
LEMMA SendConversations ==
    ASSUME NEW ch \in Channels, Conversations(ch), NEW n \in PeerIDs,
           NEW out \in Seq(Outgoing), send(n, out, ch),
           \A i \in DOMAIN out : Fits(ch, out[i].msg, n, out[i].to)
    PROVE  Conversations(chan')
<1>1. /\ \A p, q \in PeerIDs : p # n => chan'[p][q] = ch[p][q]
      /\ \A q \in PeerIDs :
            \/ chan'[n][q] = ch[n][q]
            \/ \E i \in DOMAIN out :
                  out[i].to = q /\ chan'[n][q] = ch[n][q] \o <<out[i].msg>>
  BY SendFacts
<1> SUFFICES ASSUME NEW p \in PeerIDs, NEW q \in PeerIDs, NEW t \in Remembered
             PROVE  Thin(chan', p, q, t)
  BY DEF Conversations
<1>2. Thin(ch, p, q, t)
  BY DEF Conversations
<1>3. CASE chan'[p][q] = ch[p][q] /\ chan'[q][p] = ch[q][p]
  BY <1>2, <1>3 DEF Thin
\* The frame that was added to ch[n][b].
<1>4. ASSUME NEW b \in PeerIDs, chan'[n][b] # ch[n][b]
      PROVE  \E m \in Messages : chan'[n][b] = ch[n][b] \o <<m>> /\ Fits(ch, m, n, b)
  <2>1. PICK i \in DOMAIN out : out[i].to = b /\ chan'[n][b] = ch[n][b] \o <<out[i].msg>>
    BY <1>1, <1>4
  <2>2. out[i] \in Outgoing
    OBVIOUS
  <2>3. out[i].msg \in Messages
    BY <2>2 DEF Outgoing
  <2> QED BY <2>1, <2>3
<1>5. Offers(t) \cap Requests(t) = {}
  BY DEF Offers, Requests
<1>6. ch[p][q] \in Seq(Messages) /\ ch[q][p] \in Seq(Messages)
  BY DEF Channels
<1>7. CASE p = n /\ chan'[n][q] # ch[n][q]
  <2>1. PICK m \in Messages : chan'[n][q] = ch[n][q] \o <<m>> /\ Fits(ch, m, n, q)
    BY <1>4, <1>7
  <2>2. /\ m \in Offers(t) => Lacks(ch[p][q], Offers(t)) /\ Lacks(ch[q][p], Requests(t))
        /\ m \in Requests(t) => Lacks(ch[p][q], Requests(t)) /\ Lacks(ch[q][p], Offers(t))
    BY <1>7, <2>1 DEF Fits
  <2>3. chan'[p][q] = ch[p][q] \o <<m>>
    BY <1>7, <2>1
  <2>4. /\ m \notin Offers(t) \/ Lacks(ch[p][q], Offers(t)) => Once(chan'[p][q], Offers(t))
        /\ Lacks(ch[p][q], Offers(t)) /\ m \notin Offers(t) => Lacks(chan'[p][q], Offers(t))
    BY <1>2, <1>6, <2>3, AddFrame DEF Thin
  <2>5. CASE q # n
    <3>1. chan'[q][p] = ch[q][p]
      BY <1>1, <1>7, <2>5
    <3> QED BY <1>2, <1>5, <2>2, <2>4, <3>1 DEF Thin
  <2>6. CASE q = n
    <3>1. p = q
      BY <1>7, <2>6
    <3>2. /\ m \notin Requests(t) \/ Lacks(ch[p][q], Requests(t))
               => Once(chan'[p][q], Requests(t))
          /\ Lacks(ch[p][q], Requests(t)) /\ m \notin Requests(t)
               => Lacks(chan'[p][q], Requests(t))
      BY <1>2, <1>6, <2>3, <3>1, AddFrame DEF Thin
    <3> QED BY <1>2, <1>5, <2>2, <2>4, <3>1, <3>2 DEF Thin
  <2> QED BY <2>5, <2>6
<1>8. CASE p # n /\ q = n /\ chan'[n][p] # ch[n][p]
  <2>1. PICK m \in Messages : chan'[n][p] = ch[n][p] \o <<m>> /\ Fits(ch, m, n, p)
    BY <1>4, <1>8
  <2>2. /\ m \in Offers(t) => Lacks(ch[q][p], Offers(t)) /\ Lacks(ch[p][q], Requests(t))
        /\ m \in Requests(t) => Lacks(ch[q][p], Requests(t)) /\ Lacks(ch[p][q], Offers(t))
    BY <1>8, <2>1 DEF Fits
  <2>3. chan'[q][p] = ch[q][p] \o <<m>> /\ chan'[p][q] = ch[p][q]
    BY <1>1, <1>8, <2>1
  <2>4. /\ m \notin Requests(t) \/ Lacks(ch[q][p], Requests(t))
             => Once(chan'[q][p], Requests(t))
        /\ Lacks(ch[q][p], Requests(t)) /\ m \notin Requests(t)
             => Lacks(chan'[q][p], Requests(t))
    BY <1>2, <1>6, <2>3, AddFrame DEF Thin
  <2> QED BY <1>2, <1>5, <2>2, <2>3, <2>4 DEF Thin
<1> QED BY <1>1, <1>3, <1>7, <1>8

(* To handle a frame ends its part of the conversation: the answer fits. *)
LEMMA TakenConversations ==
    ASSUME chan \in Channels, Conversations(chan), NEW p \in PeerIDs, NEW q \in PeerIDs,
           chan[p][q] # <<>>, NEW ch, Taken(ch, p, q)
    PROVE  Conversations(ch) /\ Fits(ch, Head(chan[p][q]), p, q)
<1> DEFINE m == Head(chan[p][q])
<1>1. \A a, b \in PeerIDs : Range(ch[a][b]) \subseteq Range(chan[a][b])
  BY TakenRange
<1>2. \A a, b \in PeerIDs : \A M : Lacks(chan[a][b], M) => Lacks(ch[a][b], M)
  BY <1>1 DEF Lacks
<1>3. chan[p][q] \in Seq(Messages)
  BY DEF Channels
<1>4. \A M : /\ Once(chan[p][q], M) => Once(ch[p][q], M)
             /\ Once(chan[p][q], M) /\ m \in M => Lacks(ch[p][q], M)
  BY <1>3, TakeHead DEF Taken
<1>5. \A a, b \in PeerIDs : \A M : Once(chan[a][b], M) => Once(ch[a][b], M)
  BY <1>4 DEF Taken
<1>6. m \in Range(chan[p][q])
  BY <1>3, TakeHead
<1>7. ASSUME NEW a \in PeerIDs, NEW b \in PeerIDs, NEW t \in Remembered PROVE Thin(ch, a, b, t)
  BY <1>2, <1>5 DEF Conversations, Thin
<1> HIDE DEF m
<1>8. ASSUME NEW t \in Remembered, m \in Offers(t)
      PROVE  Lacks(ch[p][q], Offers(t)) /\ Lacks(ch[q][p], Requests(t))
  <2>1. Thin(chan, p, q, t) /\ ~Lacks(chan[p][q], Offers(t))
    BY <1>6, <1>8 DEF Conversations, Lacks
  <2> QED BY <1>2, <1>4, <1>8, <2>1 DEF Thin
<1>9. ASSUME NEW t \in Remembered, m \in Requests(t)
      PROVE  Lacks(ch[p][q], Requests(t)) /\ Lacks(ch[q][p], Offers(t))
  <2>1. Thin(chan, q, p, t) /\ ~Lacks(chan[p][q], Requests(t))
    BY <1>6, <1>9 DEF Conversations, Lacks
  <2> QED BY <1>2, <1>4, <1>9, <2>1 DEF Thin
<1>10. Conversations(ch) /\ Fits(ch, m, p, q)
  BY <1>7, <1>8, <1>9 DEF Conversations, Fits
<1> QED BY <1>10 DEF m

(* Nobody has been offered a transfer by a node that does not have it, or asks
   that node for it: announcing it there starts the first conversation. *)
LEMMA AnnounceFits ==
    ASSUME NetworkInv, NEW n \in PeerIDs, NEW q \in PeerIDs, NEW t \in TxIDs,
           t \in Remembered => t \notin Stored(node[n]), NEW ch,
           \A a, b \in PeerIDs : Range(ch[a][b]) \subseteq Range(chan[a][b])
    PROVE  Fits(ch, INV(t), n, q)
<1>1. \A m \in Range(ch[n][q]) : Sound(AllHeld, m, n, q)
  BY DEF NetworkInv, FramesSound
<1>2. \A m \in Range(ch[q][n]) : Sound(AllHeld, m, q, n)
  BY DEF NetworkInv, FramesSound
<1>0. t \in Remembered => t \notin AllHeld[n]
  BY DEF AllHeld, Held, Remembered
<1>3. t \in Remembered => Lacks(ch[n][q], Offers(t))
  BY <1>0, <1>1 DEF Lacks, Offers, Sound
<1>4. t \in Remembered => Lacks(ch[q][n], Requests(t))
  BY <1>0, <1>2 DEF Lacks, Requests, Sound
<1>5. INV(t).type = "INV" /\ INV(t).tx = t
  BY DEF INV
<1>6. \A u : (INV(t) \in Offers(u) => u = t) /\ INV(t) \notin Requests(u)
  BY <1>5 DEF Offers, Requests
<1> QED BY <1>3, <1>4, <1>6 DEF Fits

\* The transfers nodes hold, once more, with the step to come.
Grown(n, T) ==
    /\ Stored(node'[n]) \subseteq Stored(node[n]) \cup T
    /\ Stored(node[n]) \subseteq Stored(node'[n])
    /\ node[n].consumed \subseteq node'[n].consumed
    /\ \A m \in PeerIDs : m # n => node'[m] = node[m]

\* A node learns only what some node holds.
LEMMA OriginsKept ==
    ASSUME Origins, NEW n \in PeerIDs, NEW T, Grown(n, T), UNCHANGED lost,
           \A t \in T \cap Remembered :
               \/ \E m \in PeerIDs : t \in Stored(node[m])
               \/ Submitted(n, t)'
    PROVE  Origins'
<1>1. /\ Remembered' = Remembered
      /\ \A m \in PeerIDs : /\ node[m].consumed \subseteq node'[m].consumed
                            /\ Stored(node[m]) \subseteq Stored(node'[m])
  BY DEF Grown, Remembered
<1>2. ASSUME NEW m \in PeerIDs, NEW t \in Stored(node[m]) \cap Remembered
      PROVE  \E k \in PeerIDs : Submitted(k, t)'
  BY <1>1 DEF Origins, Submitted
<1> SUFFICES ASSUME NEW m \in PeerIDs, NEW t \in Stored(node'[m]) \cap Remembered
             PROVE  \E k \in PeerIDs : Submitted(k, t)'
  BY <1>1 DEF Origins
<1>3. t \in Stored(node[m]) \/ (m = n /\ t \in T)
  BY DEF Grown
<1> QED BY <1>2, <1>3

(* OnMessage at q, with a frame of p. *)
LEMMA DeliverFlood ==
    ASSUME FloodInv, NEW p \in PeerIDs, NEW q \in PeerIDs, Deliver(p, q)
    PROVE  FloodInv'
<1> DEFINE m == Head(chan[p][q])
           s == node[q]
           r == dispatch(s, now, p, m)
           ch == [chan EXCEPT ![p][q] = Tail(@)]
<1>0. NetworkInv /\ Conversations(chan) /\ Origins
  BY DEF FloodInv
<1>1. /\ m \in Messages /\ Sound(AllHeld, m, p, q)
      /\ Changes(r.st, s, p, m) /\ Stored(s) \subseteq Stored(r.st)
      /\ r.st.consumed = s.consumed /\ UNCHANGED lost
      /\ r.out \in Seq(Outgoing)
      /\ \A i \in DOMAIN r.out : Answer(r.out[i], r.st, s, p, m)
      /\ node' = [node EXCEPT ![q] = r.st]
      /\ Taken(ch, p, q) /\ send(q, r.out, ch)
  BY <1>0, DeliverFacts
<1>2. chan \in Channels /\ chan[p][q] # <<>> /\ DOMAIN node = PeerIDs
  BY <1>0 DEF NetworkInv, NetworkType, Deliver
<1> HIDE DEF r, ch
<1>3. Conversations(ch) /\ Fits(ch, m, p, q)
  BY <1>0, <1>1, <1>2, TakenConversations
<1> HIDE DEF m
<1>4. ch \in Channels /\ \A a, b \in PeerIDs : Range(ch[a][b]) \subseteq Range(chan[a][b])
  <2>1. ch \in Channels /\ Taken(ch, p, q)
    BY <1>1 DEF Taken
  <2> QED BY <1>2, <2>1, TakenRange, ZenonT(60)
<1>5. ASSUME NEW i \in DOMAIN r.out
      PROVE  Fits(ch, r.out[i].msg, q, r.out[i].to)
  <2> DEFINE e == r.out[i]
  <2>0. e \in Outgoing
    BY <1>1
  <2>1. Answer(e, r.st, s, p, m) /\ e.to \in PeerIDs /\ e.msg \in Messages
    BY <1>1, <2>0 DEF Outgoing
  <2> HIDE DEF e
  <2>2. CASE m.type = "INV" /\ e = [to |-> p, msg |-> GET(m.tx)]
    <3>1. e.to = p /\ e.msg.type = "GET" /\ e.msg.tx = m.tx
      BY <2>2 DEF GET
    <3>2. \A t : /\ e.msg \notin Offers(t)
                 /\ e.msg \in Requests(t) => m \in Offers(t)
      BY <1>1, <2>2, <3>1 DEF Offers, Requests
    <3> QED BY <1>3, <3>1, <3>2 DEF Fits, e
  <2>3. CASE m.type = "GET" /\ e.to = p /\ e.msg.type = "TX" /\ e.msg.tx = m.tx
    <3>1. \A t : /\ e.msg \notin Requests(t)
                 /\ e.msg \in Offers(t) => m \in Requests(t)
      BY <1>1, <2>3 DEF Offers, Requests
    <3> QED BY <1>3, <2>3, <3>1 DEF Fits, e
  <2>4. CASE m.type = "TX" /\ m.tx \notin Stored(s) /\ e.msg = INV(m.tx)
    <3>1. m.tx \in TxIDs
      BY <1>1, <2>4 DEF Messages, ACK
    <3> QED BY <1>0, <1>4, <2>1, <2>4, <3>1, AnnounceFits DEF e
  <2>5. CASE e.msg.type = "PROOF_RESP"
    <3>1. \A t : e.msg \notin Requests(t) /\ e.msg \notin Offers(t)
      BY <2>5 DEF Offers, Requests
    <3> QED BY <3>1 DEF Fits, e
  <2> QED BY <2>1, <2>2, <2>3, <2>4, <2>5 DEF Answer
<1>6. Conversations(chan')
  <2> DEFINE out == r.out
  <2>1. out \in Seq(Outgoing) /\ send(q, out, ch)
        /\ \A i \in DOMAIN out : Fits(ch, out[i].msg, q, out[i].to)
    BY <1>1, <1>5
  <2> HIDE DEF out
  <2> QED BY <1>3, <1>4, <2>1, SendConversations
<1>7. node'[q] = r.st /\ \A n \in PeerIDs : n # q => node'[n] = node[n]
  BY <1>1, <1>2
<1>8. Origins'
  <2>1. CASE m.type = "TX" /\ m.tx \in TxIDs /\ StoredFrom(r.st, s, m.tx, p)
    <3>1. Grown(q, {m.tx})
      BY <1>1, <1>7, <2>1 DEF Grown, StoredFrom
    <3>2. m.tx \in AllHeld[p]
      BY <1>1, <2>1 DEF Sound
    <3>3. m.tx \in Remembered => m.tx \in Stored(node[p])
      BY <3>2 DEF AllHeld, Held, Remembered
    <3> QED BY <1>0, <1>1, <3>1, <3>3, OriginsKept
  <2>2. CASE r.st = s \/ ProofFiled(r.st, s, p, m)
    <3>1. Grown(q, {})
      BY <1>1, <1>7, <2>2 DEF Grown, ProofFiled
    <3> QED BY <1>0, <1>1, <3>1, OriginsKept
  <2> QED BY <1>1, <2>1, <2>2 DEF Changes
<1>9. (Conversations(chan))'
  BY <1>1, <1>6 DEF Conversations, Remembered
<1> QED BY <1>0, <1>8, <1>9, DeliverStep DEF FloodInv

(* AcceptLocalTransfer at n. *)
LEMMA SubmitFlood ==
    ASSUME FloodInv, OneSubmitter, NEW n \in PeerIDs, NEW t \in Submissions[n],
           NEW sig \in Keys, Submit(n, t, sig)
    PROVE  FloodInv'
<1> DEFINE s == node[n]
           r == AcceptLocalTransfer(s, now, t, sig)
<1>0. NetworkInv /\ Conversations(chan) /\ Origins /\ t \in TxIDs
  BY NetworkAssumption DEF FloodInv
<1>1. /\ chan \in Channels /\ now \in Nat /\ NodeInv(s, now) /\ DOMAIN node = PeerIDs
  BY <1>0, NetworkAssumption DEF NetworkInv, NetworkType
<1>2. /\ r.out \in Seq(Outgoing)
      /\ \A i \in DOMAIN r.out : r.out[i].msg = INV(t)
      /\ \/ r.st = s /\ r.out = <<>>
         \/ /\ StoredFrom(r.st, s, t, Local)
            /\ r.st.consumed = s.consumed \cup Inputs(t)
            /\ Inputs(t) \cap s.consumed = {} /\ Inputs(t) # {}
  BY <1>0, <1>1, SubmitFacts
<1>3. node' = [node EXCEPT ![n] = r.st] /\ send(n, r.out, chan) /\ UNCHANGED lost
  BY DEF Submit
<1> DEFINE st == r.st
           out == r.out
<1> HIDE DEF st, out, r
<1>4. node'[n] = st /\ \A m \in PeerIDs : m # n => node'[m] = node[m]
  BY <1>1, <1>3 DEF st
<1>5. /\ out \in Seq(Outgoing) /\ send(n, out, chan)
      /\ \A i \in DOMAIN out : out[i].msg = INV(t)
      /\ \/ st = s /\ out = <<>>
         \/ /\ StoredFrom(st, s, t, Local)
            /\ st.consumed = s.consumed \cup Inputs(t)
            /\ Inputs(t) \cap s.consumed = {} /\ Inputs(t) # {}
  BY <1>2, <1>3 DEF st, out
<1>6. CASE st = s /\ out = <<>>
  <2>1. Conversations(chan')
    <3>1. \A i \in DOMAIN out : Fits(chan, out[i].msg, n, out[i].to)
      BY <1>6
    <3> QED BY <1>0, <1>1, <1>5, <3>1, SendConversations
  <2>2. Grown(n, {})
    BY <1>4, <1>6 DEF Grown
  <2>3. Origins'
    BY <1>0, <1>3, <2>2, OriginsKept
  <2>4. (Conversations(chan))'
    BY <1>3, <2>1 DEF Conversations, Remembered
  <2> QED BY <1>0, <2>3, <2>4, SubmitStep DEF FloodInv
<1>7. CASE /\ StoredFrom(st, s, t, Local)
           /\ st.consumed = s.consumed \cup Inputs(t)
           /\ Inputs(t) \cap s.consumed = {} /\ Inputs(t) # {}
  \* Had another node brought t into the network, it would have been submitted
  \* there; had this one, its inputs would be consumed.
  <2>1. t \in Remembered => t \notin Stored(s)
    <3> SUFFICES ASSUME t \in Remembered, t \in Stored(s) PROVE FALSE
      OBVIOUS
    <3>1. PICK m \in PeerIDs : t \in Submissions[m] /\ Inputs(t) \subseteq node[m].consumed
      BY <1>0 DEF Origins, Submitted
    <3>2. m = n
      BY <3>1 DEF OneSubmitter
    <3> QED BY <1>7, <3>1, <3>2
  <2>2. Conversations(chan')
    <3>1. ASSUME NEW i \in DOMAIN out PROVE Fits(chan, out[i].msg, n, out[i].to)
      <4>0. out[i] \in Outgoing
        BY <1>5
      <4>1. out[i].to \in PeerIDs /\ out[i].msg = INV(t)
        BY <1>5, <4>0 DEF Outgoing
      <4> QED BY <1>0, <2>1, <4>1, AnnounceFits
    <3> QED BY <1>0, <1>1, <1>5, <3>1, SendConversations
  <2>3. Grown(n, {t}) /\ Submitted(n, t)'
    BY <1>4, <1>7 DEF Grown, StoredFrom, Submitted
  <2>4. Origins'
    BY <1>0, <1>3, <2>3, OriginsKept
  <2>5. (Conversations(chan))'
    BY <1>3, <2>2 DEF Conversations, Remembered
  <2> QED BY <1>0, <2>4, <2>5, SubmitStep DEF FloodInv
<1> QED BY <1>5, <1>6, <1>7

(* A proof request from n to p. *)
LEMMA RequestProofFlood ==
    ASSUME FloodInv, NEW n \in PeerIDs, NEW p \in PeerIDs, NEW t \in TxIDs,
           RequestProof(n, p, t)
    PROVE  FloodInv'
<1> DEFINE e == [to |-> p, msg |-> PROOF_REQ(t)]
           out == <<e>>
<1>0. NetworkInv /\ Conversations(chan) /\ Origins /\ chan \in Channels
  BY DEF FloodInv, NetworkInv, NetworkType
<1>1. out \in Seq(Outgoing) /\ \A i \in DOMAIN out : out[i] = e
  BY MessageTypes, SingleFacts
<1>2. send(n, out, chan) /\ UNCHANGED node /\ UNCHANGED lost
  BY DEF RequestProof
<1> HIDE DEF out
<1>3. Fits(chan, PROOF_REQ(t), n, p)
  BY DEF Fits, Offers, Requests, PROOF_REQ
<1>4. \A i \in DOMAIN out : Fits(chan, out[i].msg, n, out[i].to)
  BY <1>1, <1>3
<1>5. Conversations(chan')
  BY <1>0, <1>1, <1>2, <1>4, SendConversations
<1>6. Origins' /\ (Conversations(chan))'
  BY <1>0, <1>2, <1>5 DEF Origins, Submitted, Conversations, Remembered
<1> QED BY <1>0, <1>6, RequestProofStep DEF FloodInv

(* Crashes, broken connections and the clock start no conversation. *)
LEMMA FaultFlood ==
    ASSUME FloodInv,
           \/ \E n \in PeerIDs : Crash(n) \/ Restart(n)
           \/ \E p, q \in PeerIDs : Drop(p, q) \/ Notice(p, q)
           \/ Tick
           \/ UNCHANGED vars
    PROVE  FloodInv'
<1>0. NetworkInv /\ Conversations(chan) /\ Origins
  BY DEF FloodInv
<1>1. NetworkInv' /\ Emptied /\ Forgotten
  BY <1>0, FaultFacts
<1>2. \A M : Once(<<>>, M) /\ Lacks(<<>>, M)
  BY EmptyQueue
<1>3. Remembered' \subseteq Remembered
  BY <1>1 DEF Forgotten, Remembered
<1>4. (Conversations(chan))'
  BY <1>0, <1>1, <1>2, <1>3 DEF Emptied, Conversations, Thin
<1>5. Origins'
  <2> SUFFICES ASSUME NEW n \in PeerIDs, NEW t \in Stored(node'[n]) \cap Remembered'
               PROVE  \E m \in PeerIDs : Submitted(m, t)'
    BY DEF Origins
  \* Who has forgotten something has forgotten everything.
  <2>1. \A m \in PeerIDs : t \in Stored(node[m]) => node'[m] = node[m]
    BY <1>1 DEF Forgotten, Remembered
  <2>2. t \in Stored(node[n])
    BY <1>1, StartupFacts DEF Forgotten
  <2>3. PICK m \in PeerIDs : Submitted(m, t)
    BY <1>0, <1>3, <2>2 DEF Origins
  <2>4. node'[m] = node[m]
    BY <2>1, <2>3 DEF Submitted
  <2> QED BY <2>3, <2>4 DEF Submitted
<1> QED BY <1>1, <1>4, <1>5 DEF FloodInv

(* FloodInv is inductive. *)
LEMMA FloodInvStep == ASSUME OneSubmitter PROVE FloodInv /\ [Next]_vars => FloodInv'
<1> SUFFICES ASSUME FloodInv, [Next]_vars PROVE FloodInv'
  OBVIOUS
<1>1. ASSUME NEW n \in PeerIDs, NEW t \in Submissions[n], NEW sig \in Keys, Submit(n, t, sig)
      PROVE  FloodInv'
  BY <1>1, SubmitFlood
<1>2. ASSUME NEW p \in PeerIDs, NEW q \in PeerIDs, Deliver(p, q) PROVE FloodInv'
  BY <1>2, DeliverFlood
<1>3. ASSUME NEW e \in Questions, RequestProof(e[1], e[2], e[3]) PROVE FloodInv'
  <2>1. e[1] \in PeerIDs /\ e[2] \in PeerIDs /\ e[3] \in TxIDs
    BY NetworkAssumption
  <2> QED BY <1>3, <2>1, RequestProofFlood
<1>4. CASE \/ \E n \in PeerIDs : Crash(n) \/ Restart(n)
           \/ \E p, q \in PeerIDs : Drop(p, q) \/ Notice(p, q)
           \/ Tick
           \/ UNCHANGED vars
  BY <1>4, FaultFlood
<1> QED BY <1>1, <1>2, <1>3, <1>4 DEF Next, OtherStep

(* The network starts in the invariant. *)
LEMMA FloodInvInit == Init => FloodInv
<1> SUFFICES ASSUME Init PROVE FloodInv
  OBVIOUS
<1>1. \A M : Once(<<>>, M) /\ Lacks(<<>>, M)
  BY EmptyQueue
<1>2. \A p, q \in PeerIDs : chan[p][q] = <<>>
  BY DEF Init
<1>3. Conversations(chan)
  BY <1>1, <1>2 DEF Conversations, Thin
<1>4. \A n \in PeerIDs : Stored(node[n]) = {}
  BY DEF Init, Startup, NewNode, Stored, EmptyMap
<1>5. Origins
  BY <1>4 DEF Origins
<1> QED BY <1>3, <1>5, NetworkInvInit DEF FloodInv

\* At most one index carries a frame of the kind, none if the kind is lacking.
LEMMA OnceCounts ==
    ASSUME NEW seq, NEW M, Once(seq, M), NEW I \in SUBSET DOMAIN seq,
           \A i \in I : seq[i] \in M
    PROVE  /\ Cardinality(I) \in {0, 1}
           /\ Lacks(seq, M) \/ I = {} => Cardinality(I) = 0
<1>1. \A i, j \in I : i = j
  BY DEF Once
<1>2. Lacks(seq, M) => I = {}
  BY DEF Lacks, Range
<1>3. CASE I = {}
  BY <1>3, FS_EmptySet
<1>4. CASE I # {}
  <2>1. PICK i \in I : TRUE
    BY <1>4
  <2>2. I = {i}
    BY <1>1, <2>1
  <2>3. Cardinality(I) = 1
    BY <2>2, FS_Singleton
  <2> QED BY <1>2, <1>4, <2>3
<1> QED BY <1>3, <1>4

(* At most one conversation is what the property counts. *)
LEMMA FloodInvThin == FloodInv => OneConversation
<1> SUFFICES ASSUME FloodInv, NEW p \in PeerIDs, NEW q \in PeerIDs,
                    NEW t \in TxIDs \ UNION Range(lost)
             PROVE  inFlight("INV", t, p, q) + inFlight("GET", t, q, p)
                       + inFlight("TX", t, p, q) <= 1
  BY DEF OneConversation
<1>1. /\ chan[p][q] \in Seq(Messages) /\ chan[q][p] \in Seq(Messages)
      /\ Thin(chan, p, q, t)
  <2>1. t \in Remembered
    BY DEF Remembered, Range, FloodInv, NetworkInv, NetworkType
  <2> QED BY <2>1 DEF FloodInv, NetworkInv, NetworkType, Channels, Conversations
<1> DEFINE I == {i \in DOMAIN chan[p][q] :
                    chan[p][q][i].type = "INV" /\ chan[p][q][i].tx = t}
           G == {i \in DOMAIN chan[q][p] :
                    chan[q][p][i].type = "GET" /\ chan[q][p][i].tx = t}
           X == {i \in DOMAIN chan[p][q] :
                    chan[p][q][i].type = "TX" /\ chan[p][q][i].tx = t}
<1>2. \A i \in DOMAIN chan[p][q] : chan[p][q][i] \in Messages
  BY <1>1
<1>3. \A i \in DOMAIN chan[q][p] : chan[q][p][i] \in Messages
  BY <1>1
<1>4. /\ Cardinality(I) \in {0, 1}
      /\ Lacks(chan[p][q], Offers(t)) \/ I = {} => Cardinality(I) = 0
  <2>1. I \in SUBSET DOMAIN chan[p][q] /\ \A i \in I : chan[p][q][i] \in Offers(t)
    BY <1>2 DEF Offers
  <2>2. Once(chan[p][q], Offers(t))
    BY <1>1 DEF Thin
  <2> HIDE DEF I
  <2> QED BY <2>1, <2>2, OnceCounts
<1>5. /\ Cardinality(X) \in {0, 1}
      /\ Lacks(chan[p][q], Offers(t)) \/ X = {} => Cardinality(X) = 0
  <2>1. X \in SUBSET DOMAIN chan[p][q] /\ \A i \in X : chan[p][q][i] \in Offers(t)
    BY <1>2 DEF Offers
  <2>2. Once(chan[p][q], Offers(t))
    BY <1>1 DEF Thin
  <2> HIDE DEF X
  <2> QED BY <2>1, <2>2, OnceCounts
<1>6. /\ Cardinality(G) \in {0, 1}
      /\ Lacks(chan[q][p], Requests(t)) \/ G = {} => Cardinality(G) = 0
  <2>1. G \in SUBSET DOMAIN chan[q][p] /\ \A i \in G : chan[q][p][i] \in Requests(t)
    BY <1>3 DEF Requests
  <2>2. Once(chan[q][p], Requests(t))
    BY <1>1 DEF Thin
  <2> HIDE DEF G
  <2> QED BY <2>1, <2>2, OnceCounts
<1>7. I = {} \/ X = {}
  <2> SUFFICES ASSUME NEW i \in I, NEW j \in X PROVE FALSE
    OBVIOUS
  <2>1. chan[p][q][i] \in Offers(t) /\ chan[p][q][j] \in Offers(t)
    BY <1>2 DEF Offers
  <2>2. i = j
    BY <1>1, <2>1 DEF Thin, Once
  <2> QED BY <2>2
<1>8. /\ inFlight("INV", t, p, q) = Cardinality(I)
      /\ inFlight("GET", t, q, p) = Cardinality(G)
      /\ inFlight("TX", t, p, q) = Cardinality(X)
  BY DEF inFlight
<1> HIDE DEF I, G, X
<1>9. Lacks(chan[p][q], Offers(t)) \/ Lacks(chan[q][p], Requests(t))
  BY <1>1 DEF Thin
<1> QED BY <1>4, <1>5, <1>6, <1>7, <1>8, <1>9

(* Flooding stays thin in every network whose transfers are submitted at one node
   each: of INV, GET and TX about a transfer at most one is under way between two
   nodes, whatever processes stop and connections break. *)
THEOREM OneConversationHolds == ASSUME OneSubmitter PROVE Spec => []OneConversation
<1>1. FloodInv /\ [Next]_vars => FloodInv'
  BY FloodInvStep
<1>2. QED
  BY <1>1, FloodInvInit, FloodInvThin, PTL DEF Spec

=============================================================================
