-------------------------- MODULE Web4CausalProofs ---------------------------
(***************************************************************************)
(* Proof about Web4Causal: as long as nothing fails, transfers arrive in   *)
(* causal order, in every topology and whatever each node was seeded with, *)
(* so that a node only refuses what has expired, what spends a seed it was *)
(* not given, or what spends an output of a transfer it has refused.       *)
(*                                                                         *)
(* The argument follows a value v that a transfer t spends while a, from   *)
(* which b learns of t, has v.  If v is no seed, it is the output of a     *)
(* transfer u that a has stored, so a has announced u to b, before t, and  *)
(* the conversation about u stays ahead of the one about t until b has     *)
(* stored or refused u.                                                    *)
(***************************************************************************)
EXTENDS Web4Causal, Web4GossipProofs

----------------------------------------------------------------------------
(* The inductive invariant.                                                *)

Outs(t) == Range(TxOutputs[t])

\* The part of validateTransfer that does not depend on the node.
Honest(t, sig) ==
    /\ Len(TxInputs[t]) > 0
    /\ Len(TxOutputs[t]) > 0
    /\ IsInjective(TxInputs[t])
    /\ \E i \in DOMAIN TxInputs[t] :
          /\ ValueOwner[TxInputs[t][i]] = sig
          /\ \A j \in DOMAIN TxInputs[t] :
                /\ j < i => ValueOwner[TxInputs[t][j]] = NoOwner
                /\ j > i => ValueOwner[TxInputs[t][j]] = sig

\* What a node has comes from its seed and its transfers, all of them signed.
Backed(s, n) ==
    /\ s.peers = Peers[n]
    /\ s.valueStore = Genesis[n] \cup UNION {Outs(t) : t \in Stored(s)}
    /\ \A t \in Stored(s) : Honest(t, s.txStore[t].sig)

NodesBacked == \A n \in PeerIDs : Backed(node[n], n)

FramesHonest ==
    \A p, q \in PeerIDs : \A m \in Range(chan[p][q]) : m.type = "TX" => Honest(m.tx, m.sig)

\* The frames that deliver t.
Delivers(t) == {m \in Messages : m.type = "TX" /\ m.tx = t}

Holds(seq, M) == \E i \in DOMAIN seq : seq[i] \in M

\* A frame of M comes before the i-th.
Ahead(seq, i, M) == \E j \in DOMAIN seq : j < i /\ seq[j] \in M

\* The transfers that have arrived: they were stored or refused.
Done == [n \in PeerIDs |-> Stored(node[n]) \cup refused[n]]

\* A value that is a seed, or the output of one of the transfers T.
Settled(v, T) == seed(v) \/ \E u \in T : v \in Outs(u)

\* What a node has arrived at its peers, or is about to; D is what has arrived.
SpreadTo(D, ch, a, b, u) ==
    \/ u \in D[b]
    \/ Holds(ch[a][b], Offers(u))
    \/ Holds(ch[b][a], Requests(u))

Spreading(nodes, D, ch) ==
    \A a \in PeerIDs : \A b \in Peers[a], u \in Stored(nodes[a]) : SpreadTo(D, ch, a, b, u)

\* The i-th frame from a to b announces t, which spends v: what creates v has
\* arrived at b, or the conversation with a about it is ahead.
OfferOK(D, ch, a, b, i, v) ==
    \/ Settled(v, D[b])
    \/ \E u \in TxIDs :
          /\ v \in Outs(u)
          /\ \/ Ahead(ch[a][b], i, Offers(u))
             \/ Holds(ch[b][a], Requests(u))
             \/ Holds(ch[a][b], Delivers(u))

\* The i-th frame from b to a requests t.
RequestOK(D, ch, a, b, i, v) ==
    \/ Settled(v, D[b])
    \/ \E u \in TxIDs :
          /\ v \in Outs(u)
          /\ Ahead(ch[b][a], i, Requests(u)) \/ Holds(ch[a][b], Delivers(u))

\* The i-th frame from a to b delivers t.
DeliveryOK(D, ch, a, b, i, v) ==
    \/ Settled(v, D[b])
    \/ \E u \in TxIDs : v \in Outs(u) /\ Ahead(ch[a][b], i, Delivers(u))

\* The i-th frame from a to b keeps its place in the order.
FrameOK(D, ch, a, b, i) ==
    LET m == ch[a][b][i]
    IN  /\ m.type = "INV" => \A v \in Inputs(m.tx) : OfferOK(D, ch, a, b, i, v)
        /\ m.type = "GET" => \A v \in Inputs(m.tx) : RequestOK(D, ch, b, a, i, v)
        /\ m.type = "TX"  => \A v \in Inputs(m.tx) : DeliveryOK(D, ch, a, b, i, v)

Ordered(D, ch) ==
    \A a, b \in PeerIDs : \A i \in DOMAIN ch[a][b] : FrameOK(D, ch, a, b, i)

\* Why q may refuse a transfer that spends v.
Blocked(q, v) ==
    \/ seed(v) /\ v \notin Genesis[q]
    \/ \E u \in refused[q] : v \in Outs(u)

Refusals ==
    \A q \in PeerIDs : \A t \in refused[q] : expired(t) \/ \E v \in Inputs(t) : Blocked(q, v)

CausalInv ==
    /\ NetworkInv
    /\ NodesBacked
    /\ FramesHonest
    /\ refused \in [PeerIDs -> SUBSET TxIDs]
    /\ Faultless =>
          /\ up = PeerIDs /\ stale = {} /\ \A n \in PeerIDs : lost[n] = {}
          /\ Spreading(node, Done, chan) /\ Ordered(Done, chan)
          /\ Refusals

----------------------------------------------------------------------------
(* What the handlers do, once more: what they certainly send.              *)

(* An announcement goes to every peer but the one it came from. *)
LEMMA AnnounceCovers ==
    ASSUME NEW s, s.peers \subseteq PeerIDs, NEW t \in TxIDs, NEW skip
    PROVE  LET out == announce(s, t, skip)
           IN  /\ \A i \in DOMAIN out : out[i].to \in s.peers \ {skip}
               /\ \A b \in s.peers \ {skip} : \E i \in DOMAIN out : out[i].to = b
<1> DEFINE to == peerIDsExcept(s, skip)
           out == [i \in DOMAIN to |-> [to |-> to[i], msg |-> INV(t)]]
<1>1. /\ \A i \in DOMAIN to : to[i] \in s.peers \ {skip}
      /\ \A b \in s.peers \ {skip} : \E i \in DOMAIN to : to[i] = b
  BY PeerListFacts
<1>2. announce(s, t, skip) = out
  BY DEF announce
<1> HIDE DEF to
<1> QED BY <1>1, <1>2

(* A valid transfer is honest, and its inputs are known. *)
LEMMA ValidHonest ==
    ASSUME NEW s, NEW time, NEW t \in TxIDs, NEW sig
    PROVE  validateTransfer(s, time, t, sig) => Honest(t, sig) /\ Inputs(t) \subseteq s.valueStore
BY DEF validateTransfer, signedByOwner, Honest

(* Where its inputs are known, an honest transfer is valid until it expires. *)
LEMMA HonestValid ==
    ASSUME now \in Nat, NEW s, NEW t \in TxIDs, NEW sig,
           Honest(t, sig), Inputs(t) \subseteq s.valueStore, ~expired(t)
    PROVE  validateTransfer(s, now, t, sig)
<1>1. \A v \in Range(TxOutputs[t]) : ValueExpiry[v] = 0 \/ ValueExpiry[v] > now
  <2>1. Range(TxOutputs[t]) \subseteq ValueIDs
    BY TransferAssumption DEF Range
  <2>2. \A v \in ValueIDs : ValueExpiry[v] \in Int
    BY ValueAssumption
  <2> QED BY <2>1, <2>2 DEF expired
<1> QED BY <1>1 DEF validateTransfer, signedByOwner, Honest

\* The peers are not touched.
LEMMA RecomputePeers ==
    ASSUME NEW s, "peers" \in DOMAIN s, NEW time, NEW t
    PROVE  recomputeSelectionForTransfer(s, time, t).peers = s.peers
<1> DEFINE q == recomputeSelectionForInputs(s, time, Inputs(t))
<1>1. "peers" \in DOMAIN q /\ q.peers = s.peers
  BY DEF recomputeSelectionForInputs
<1> HIDE DEF q
<1>2. updateFinality(q, time, contenders(s, t)).peers = q.peers
  BY <1>1 DEF updateFinality
<1> QED BY <1>1, <1>2 DEF recomputeSelectionForTransfer, q

(* Storing a transfer leaves the peers alone. *)
LEMMA StorePeers ==
    ASSUME NEW s, IsNodeState(s), NEW time, NEW t, NEW sig, NEW from
    PROVE  recomputeSelectionForTransfer(
               upsertTransfer(s, time, t, sig, from), time, t).peers = s.peers
<1> DEFINE b == IF t \in Stored(s) THEN s ELSE insertTransfer(s, time, t, sig)
           q == observePeer(b, t, from)
<1>1. "peers" \in DOMAIN s
  BY DEF IsNodeState
<1>2. "peers" \in DOMAIN b /\ b.peers = s.peers
  BY <1>1 DEF insertTransfer
<1> HIDE DEF b
<1>3. "peers" \in DOMAIN q /\ q.peers = b.peers
  BY <1>2 DEF observePeer
<1>4. upsertTransfer(s, time, t, sig, from) = q
  BY DEF upsertTransfer, b
<1> HIDE DEF q
<1>5. recomputeSelectionForTransfer(q, time, t).peers = q.peers
  BY <1>3, RecomputePeers
<1> QED BY <1>2, <1>3, <1>4, <1>5

\* What the handler of m certainly sends, and why it sends a TX or an INV.
Served(st, out, s, time, from, m) ==
    /\ m.type = "INV" /\ m.tx \notin Stored(s) =>
          \E i \in DOMAIN out : out[i].to = from /\ out[i].msg = GET(m.tx)
    /\ m.type = "GET" /\ m.tx \in Stored(s) =>
          \E i \in DOMAIN out : /\ out[i].to = from
                                  /\ out[i].msg = TX(m.tx, s.txStore[m.tx].sig)
    /\ m.type = "TX" =>
          /\ validateTransfer(s, time, m.tx, m.sig) => m.tx \in Stored(st)
          /\ m.tx \in Stored(st) \ Stored(s) =>
                \A b \in s.peers \ {from} :
                    \E i \in DOMAIN out : out[i].to = b /\ out[i].msg = INV(m.tx)

Meant(e, s, time, from, m) ==
    /\ e.msg.type = "TX" =>
          /\ m.type = "GET" /\ m.tx \in Stored(s)
          /\ e.to = from /\ e.msg = TX(m.tx, s.txStore[m.tx].sig)
    /\ e.msg.type = "INV" =>
          /\ m.type = "TX" /\ validateTransfer(s, time, m.tx, m.sig)
          /\ e.to \in s.peers \ {from} /\ e.msg = INV(m.tx)
    /\ e.msg.type = "GET" => m.type = "INV" /\ e.to = from /\ e.msg = GET(m.tx)

(* handleINV serves the frame it got. *)
LEMMA ServedINV ==
    ASSUME NEW s, NEW time, NEW from, NEW m, m.type = "INV"
    PROVE  LET r == dispatch(s, time, from, m)
           IN  /\ r.st = s /\ Served(r.st, r.out, s, time, from, m)
               /\ \A i \in DOMAIN r.out : Meant(r.out[i], s, time, from, m)
<1> DEFINE r == dispatch(s, time, from, m)
           e == [to |-> from, msg |-> GET(m.tx)]
<1>1. r = handleINV(s, from, m.tx)
  BY DEF dispatch
<1>2. r.st = s /\ r.out = IF m.tx \in Stored(s) THEN <<>> ELSE <<e>>
  BY <1>1 DEF handleINV, Reply
<1>3. e.to = from /\ e.msg = GET(m.tx) /\ GET(m.tx).type = "GET"
  BY DEF GET
<1> HIDE DEF e, r
<1>4. DOMAIN <<e>> = {1} /\ <<e>>[1] = e
  OBVIOUS
<1> QED BY <1>2, <1>3, <1>4 DEF Served, Meant, r

(* handleGET serves the frame it got. *)
LEMMA ServedGET ==
    ASSUME NEW s, NEW time, NEW from, NEW m, m.type = "GET"
    PROVE  LET r == dispatch(s, time, from, m)
           IN  /\ r.st = s /\ Served(r.st, r.out, s, time, from, m)
               /\ \A i \in DOMAIN r.out : Meant(r.out[i], s, time, from, m)
<1> DEFINE r == dispatch(s, time, from, m)
           x == TX(m.tx, s.txStore[m.tx].sig)
           e == [to |-> from, msg |-> x]
<1>1. r = handleGET(s, from, m.tx)
  BY DEF dispatch
<1>2. r.st = s /\ r.out = IF m.tx \in Stored(s) THEN <<e>> ELSE <<>>
  BY <1>1 DEF handleGET, Reply
<1>3. e.to = from /\ e.msg = x /\ x.type = "TX"
  BY DEF TX
<1> HIDE DEF e, r
<1>4. DOMAIN <<e>> = {1} /\ <<e>>[1] = e
  OBVIOUS
<1> QED BY <1>2, <1>3, <1>4 DEF Served, Meant, r

(* The proof messages and the rest take no part in the spreading of transfers. *)
LEMMA ServedOther ==
    ASSUME NEW s, NEW time, NEW from, NEW m, m.type \notin {"INV", "GET", "TX"}
    PROVE  LET r == dispatch(s, time, from, m)
           IN  /\ Served(r.st, r.out, s, time, from, m)
               /\ \A i \in DOMAIN r.out : Meant(r.out[i], s, time, from, m)
<1> DEFINE r == dispatch(s, time, from, m)
           x == PROOF_RESP(m.tx, m.tx \in Stored(s), hasConflict(s, m.tx), 1)
           e == [to |-> from, msg |-> x]
<1>1. r.out = <<>> \/ r.out = <<e>>
  BY DEF dispatch, handleProofRequest, handleProofResponse, Reply
<1>2. e.msg = x /\ x.type = "PROOF_RESP"
  BY DEF PROOF_RESP
<1> HIDE DEF e, r, x
<1>3. DOMAIN <<e>> = {1} /\ <<e>>[1] = e
  OBVIOUS
<1> QED BY <1>1, <1>2, <1>3 DEF Served, Meant, r

(* handleTX serves the frame it got: a new valid transfer is announced to the
   others. *)
LEMMA ServedTX ==
    ASSUME NEW s, NEW time \in Nat, NodeInv(s, time), NEW from \in PeerIDs,
           NEW m, m.type = "TX", m.tx \in TxIDs, m.sig \in Keys
    PROVE  LET r == dispatch(s, time, from, m)
           IN  /\ LedgerStep(r.st, s, time) /\ r.st.peers = s.peers
               /\ Served(r.st, r.out, s, time, from, m)
               /\ \A i \in DOMAIN r.out : Meant(r.out[i], s, time, from, m)
<1> DEFINE t == m.tx
           r == dispatch(s, time, from, m)
           q == recomputeSelectionForTransfer(
                    upsertTransfer(s, time, t, m.sig, from), time, t)
<1>0. IsNodeState(s) /\ s.peers \subseteq PeerIDs
  BY DEF NodeInv, StoresOK, IsNodeState
<1>1. r = handleTX(s, time, from, t, m.sig)
  BY DEF dispatch
<1>2. CASE ~validateTransfer(s, time, t, m.sig)
  <2>1. r.st = s /\ r.out = <<>>
    BY <1>1, <1>2 DEF handleTX, Reply
  <2>2. LedgerStep(s, s, time)
    BY DEF LedgerStep, Unrelated
  <2> HIDE DEF r
  <2> QED BY <1>2, <2>1, <2>2 DEF Served, r
<1>3. CASE validateTransfer(s, time, t, m.sig)
  <2>1. LedgerStep(q, s, time) /\ t \in Stored(q)
    BY <1>3, StoreTransferStep
  <2>2. q.peers = s.peers
    BY <1>0, StorePeers
  <2>3. r.st = q /\ r.out = IF t \in Stored(s) THEN <<>> ELSE announce(q, t, from)
    BY <1>1, <1>3 DEF handleTX, Reply
  <2> HIDE DEF q, r
  <2>4. CASE t \in Stored(s)
    BY <2>1, <2>2, <2>3, <2>4 DEF Served, r
  <2>5. CASE t \notin Stored(s)
    <3> DEFINE out == announce(q, t, from)
    <3>1. /\ \A i \in DOMAIN out : out[i].to \in q.peers \ {from}
          /\ \A b \in q.peers \ {from} : \E i \in DOMAIN out : out[i].to = b
      BY <1>0, <2>2, AnnounceCovers
    <3>2. \A i \in DOMAIN out : out[i].msg = INV(t)
      BY <1>0, <2>2, AnnounceFacts
    <3>3. INV(t).type = "INV" /\ r.out = out
      BY <2>3, <2>5 DEF INV
    <3> HIDE DEF out
    <3>4. Served(r.st, r.out, s, time, from, m)
      BY <2>1, <2>2, <2>3, <3>1, <3>2, <3>3 DEF Served
    <3>5. \A i \in DOMAIN r.out : Meant(r.out[i], s, time, from, m)
      BY <1>3, <2>2, <3>1, <3>2, <3>3 DEF Meant
    <3> QED BY <2>1, <2>2, <2>3, <3>4, <3>5 DEF r
  <2> QED BY <2>4, <2>5
<1> QED BY <1>2, <1>3

(* OnMessage, for every type of message. *)
LEMMA DispatchCausal ==
    ASSUME NEW s, NEW time \in Nat, NodeInv(s, time), NEW from \in PeerIDs,
           NEW m \in Messages
    PROVE  LET r == dispatch(s, time, from, m)
           IN  /\ LedgerStep(r.st, s, time) /\ r.st.peers = s.peers
               /\ Served(r.st, r.out, s, time, from, m)
               /\ \A i \in DOMAIN r.out : Meant(r.out[i], s, time, from, m)
<1> DEFINE r == dispatch(s, time, from, m)
<1>0. IsNodeState(s) /\ "peers" \in DOMAIN s
  BY DEF NodeInv, StoresOK, IsNodeState
<1>q. LedgerStep(s, s, time)
  BY DEF LedgerStep, Unrelated
<1>1. CASE m.type = "INV"
  <2>1. /\ r.st = s /\ Served(r.st, r.out, s, time, from, m)
        /\ \A i \in DOMAIN r.out : Meant(r.out[i], s, time, from, m)
    BY <1>1, ServedINV
  <2> HIDE DEF r
  <2> QED BY <1>q, <2>1 DEF r
<1>2. CASE m.type = "GET"
  <2>1. /\ r.st = s /\ Served(r.st, r.out, s, time, from, m)
        /\ \A i \in DOMAIN r.out : Meant(r.out[i], s, time, from, m)
    BY <1>2, ServedGET
  <2> HIDE DEF r
  <2> QED BY <1>q, <2>1 DEF r
<1>3. CASE m.type = "TX"
  <2>1. m \in [type : {"TX"}, tx : TxIDs, sig : Keys]
    BY <1>3 DEF Messages, ACK
  <2>2. m.tx \in TxIDs /\ m.sig \in Keys
    BY <2>1
  <2> QED BY <1>3, <2>2, ServedTX
<1>4. CASE m.type \notin {"INV", "GET", "TX"}
  <2>1. /\ Served(r.st, r.out, s, time, from, m)
        /\ \A i \in DOMAIN r.out : Meant(r.out[i], s, time, from, m)
    BY <1>4, ServedOther
  <2>2. CASE m.type # "PROOF_RESP"
    <3>1. r.st = s
      BY <1>4, <2>2 DEF dispatch, handleProofRequest, Reply
    <3> HIDE DEF r
    <3> QED BY <1>q, <2>1, <3>1 DEF r
  <2>3. CASE m.type = "PROOF_RESP"
    <3>1. m \in [type : {"PROOF_RESP"}, tx : TxIDs, seen : BOOLEAN,
                 conflict : BOOLEAN, distance : Distances]
      BY <2>3 DEF Messages, ACK
    <3>2. /\ m.tx \in TxIDs /\ m.seen \in BOOLEAN
          /\ m.conflict \in BOOLEAN /\ m.distance \in Distances
      BY <3>1
    <3>3. r = handleProofResponse(s, time, from, m)
      BY <2>3 DEF dispatch
    <3>4. LedgerStep(handleProofResponse(s, time, from, m).st, s, time)
      BY <3>2, ProofResponseStep
    <3> DEFINE q == updateProof(s, m.tx, from,
                      [seen |-> m.seen, conflict |-> m.conflict, distance |-> m.distance])
    <3>5. "peers" \in DOMAIN q /\ q.peers = s.peers
      BY <1>0 DEF updateProof
    <3>6. r.st = IF m.tx \in Stored(s) THEN recomputeSelectionForTransfer(q, time, m.tx) ELSE q
      BY <3>3 DEF handleProofResponse, Reply
    <3> HIDE DEF q, r
    <3>7. recomputeSelectionForTransfer(q, time, m.tx).peers = q.peers
      BY <3>5, RecomputePeers
    <3> QED BY <2>1, <3>3, <3>4, <3>5, <3>6, <3>7 DEF r
  <2> QED BY <2>2, <2>3
<1> QED BY <1>1, <1>2, <1>3, <1>4

(* AcceptLocalTransfer refuses, or stores and announces to all peers. *)
LEMMA SubmitCausalFacts ==
    ASSUME NEW s, NEW time \in Nat, NodeInv(s, time), NEW t \in TxIDs, NEW sig \in Keys
    PROVE  LET r == AcceptLocalTransfer(s, time, t, sig)
           IN  /\ LedgerStep(r.st, s, time) /\ r.st.peers = s.peers
               /\ \/ r.st = s /\ r.out = <<>>
                  \/ /\ validateTransfer(s, time, t, sig)
                     /\ \A i \in DOMAIN r.out : r.out[i].to \in s.peers
                     /\ \A b \in s.peers : \E i \in DOMAIN r.out : r.out[i].to = b
<1> DEFINE r == AcceptLocalTransfer(s, time, t, sig)
           c == ConsumeInputs(s, t)
           q == recomputeSelectionForTransfer(
                    upsertTransfer(c, time, t, sig, Local), time, t)
<1>1. LedgerStep(r.st, s, time)
  BY AcceptLocalStep
<1>2. CASE ~canAcceptLocal(s, time, t, sig)
  <2>1. r.st = s /\ r.out = <<>>
    BY <1>2 DEF AcceptLocalTransfer, Reply
  <2> HIDE DEF r
  <2> QED BY <1>1, <2>1 DEF r
<1>3. CASE canAcceptLocal(s, time, t, sig)
  <2>1. r.st = q /\ r.out = announce(q, t, Local)
    BY <1>3 DEF AcceptLocalTransfer, Reply
  <2>2. IsNodeState(c) /\ c.peers = s.peers /\ s.peers \subseteq PeerIDs
    <3>1. IsNodeState(c)
      BY ConsumeInv DEF NodeInv, StoresOK
    <3>2. "peers" \in DOMAIN s /\ s.peers \subseteq PeerIDs
      BY DEF NodeInv, StoresOK, IsNodeState
    <3>3. c.peers = s.peers
      BY <3>2 DEF ConsumeInputs
    <3> QED BY <3>1, <3>2, <3>3
  <2> HIDE DEF c
  <2>3. q.peers = s.peers
    BY <2>2, StorePeers
  <2> HIDE DEF q, r
  <2>4. /\ \A i \in DOMAIN r.out : r.out[i].to \in q.peers \ {Local}
        /\ \A b \in q.peers \ {Local} : \E i \in DOMAIN r.out : r.out[i].to = b
    BY <2>1, <2>2, <2>3, AnnounceCovers
  <2>5. Local \notin s.peers
    BY <2>2, PeerOrderAssumption
  <2>6. validateTransfer(s, time, t, sig)
    BY <1>3 DEF canAcceptLocal
  <2> QED BY <1>1, <2>1, <2>3, <2>4, <2>5, <2>6 DEF r
<1> QED BY <1>2, <1>3

(* Whatever a node learns, it stays backed. *)
LEMMA BackedStep ==
    ASSUME NEW s, IsNodeState(s), NEW n, Backed(s, n), NEW r, NEW time,
           LedgerStep(r, s, time), r.peers = s.peers
    PROVE  /\ Backed(r, n)
           /\ Stored(s) \subseteq Stored(r) /\ s.valueStore \subseteq r.valueStore
<1>1. CASE Unrelated(r, s)
  BY <1>1 DEF Unrelated, Backed, Stored
<1>2. ASSUME NEW t \in TxIDs, NEW sig \in Keys, Learned(r, s, time, t, sig)
      PROVE  /\ Backed(r, n)
             /\ Stored(s) \subseteq Stored(r) /\ s.valueStore \subseteq r.valueStore
  <2>1. Honest(t, sig)
    BY <1>2, ValidHonest DEF Learned
  <2>2. /\ Stored(r) = Stored(s) \cup {t}
        /\ \A u \in Stored(s) : r.txStore[u] = s.txStore[u]
        /\ r.txStore[t].sig = sig
        /\ r.valueStore = s.valueStore \cup Outs(t)
    BY <1>2 DEF Learned, Reconsidered, Outs
  <2>3. \A u \in Stored(r) : Honest(u, r.txStore[u].sig)
    BY <2>1, <2>2 DEF Backed
  <2>4. r.valueStore = Genesis[n] \cup UNION {Outs(u) : u \in Stored(r)}
    BY <2>2 DEF Backed
  <2> QED BY <2>2, <2>3, <2>4 DEF Backed
<1>3. ASSUME NEW t \in TxIDs, Rechecked(r, s, time, t)
      PROVE  /\ Backed(r, n)
             /\ Stored(s) \subseteq Stored(r) /\ s.valueStore \subseteq r.valueStore
  <2>1. Stored(r) = Stored(s) /\ \A u \in Stored(s) : r.txStore[u] = s.txStore[u]
    BY <1>3 DEF Rechecked, Reconsidered
  <2>2. r.valueStore = s.valueStore
    BY <1>3 DEF Rechecked
  <2> QED BY <2>1, <2>2 DEF Backed
<1> QED BY <1>1, <1>2, <1>3 DEF LedgerStep

(* A process that has just started is backed by its seed. *)
LEMMA StartupBacked == ASSUME NEW n \in PeerIDs PROVE Backed(Startup(n), n)
<1>1. Startup(n).peers = Peers[n] /\ Startup(n).valueStore = Genesis[n]
  BY DEF Startup, NewNode
<1> QED BY <1>1, StartupFacts DEF Backed

----------------------------------------------------------------------------
(* Places in a queue.                                                      *)

(* Places in a queue whose first frame was taken. *)
LEMMA TailPlaces ==
    ASSUME NEW seq \in Seq(Messages), seq # <<>>
    PROVE  /\ 1 \in DOMAIN seq /\ seq[1] = Head(seq)
           /\ \A M : ~Ahead(seq, 1, M)
           /\ \A M : Holds(seq, M) => Holds(Tail(seq), M) \/ Head(seq) \in M
           /\ \A i \in DOMAIN Tail(seq) :
                 /\ i + 1 \in DOMAIN seq /\ Tail(seq)[i] = seq[i + 1]
                 /\ \A M : Ahead(seq, i + 1, M) => Ahead(Tail(seq), i, M) \/ Head(seq) \in M
<1> DEFINE n == Len(seq)
           t == Tail(seq)
<1>1. /\ n \in Nat /\ n > 0 /\ DOMAIN seq = 1..n
      /\ DOMAIN t = 1..(n - 1)
      /\ \A i \in 1..(n - 1) : t[i] = seq[i + 1]
      /\ Head(seq) = seq[1]
  OBVIOUS
<1> HIDE DEF n, t
<1>2. ASSUME NEW j \in DOMAIN seq, j # 1
      PROVE  j - 1 \in DOMAIN t /\ t[j - 1] = seq[j]
  BY <1>1, <1>2
<1>3. ASSUME NEW M, Holds(seq, M) PROVE Holds(t, M) \/ Head(seq) \in M
  <2>1. PICK j \in DOMAIN seq : seq[j] \in M
    BY <1>3 DEF Holds
  <2>2. CASE j = 1
    BY <1>1, <2>1, <2>2
  <2>3. CASE j # 1
    BY <1>2, <2>1, <2>3 DEF Holds
  <2> QED BY <2>2, <2>3
<1>4. ASSUME NEW i \in DOMAIN t, NEW M, Ahead(seq, i + 1, M)
      PROVE  Ahead(t, i, M) \/ Head(seq) \in M
  <2>1. PICK j \in DOMAIN seq : j < i + 1 /\ seq[j] \in M
    BY <1>4 DEF Ahead
  <2>2. CASE j = 1
    BY <1>1, <2>1, <2>2
  <2>3. CASE j # 1
    <3>1. j - 1 < i
      BY <1>1, <2>1
    <3> QED BY <1>2, <2>1, <2>3, <3>1 DEF Ahead
  <2> QED BY <2>2, <2>3
<1>5. \A M : ~Ahead(seq, 1, M)
  BY <1>1 DEF Ahead
<1>6. \A i \in DOMAIN t : i + 1 \in DOMAIN seq /\ t[i] = seq[i + 1]
  BY <1>1
<1> QED BY <1>1, <1>3, <1>4, <1>5, <1>6 DEF t

(* Places in a queue with one frame more. *)
LEMMA AppendPlaces ==
    ASSUME NEW seq \in Seq(Messages), NEW m \in Messages, NEW new, new = seq \o <<m>>
    PROVE  /\ \A M : Holds(seq, M) => Holds(new, M)
           /\ \A M : m \in M => Holds(new, M)
           /\ \A i \in DOMAIN new :
                 \/ /\ i \in DOMAIN seq /\ new[i] = seq[i]
                    /\ \A M : Ahead(seq, i, M) => Ahead(new, i, M)
                 \/ new[i] = m /\ \A M : Holds(seq, M) => Ahead(new, i, M)
<1> DEFINE n == Len(seq)
<1>1. /\ n \in Nat /\ DOMAIN seq = 1..n
      /\ DOMAIN new = 1..(n + 1)
      /\ \A i \in 1..n : new[i] = seq[i]
      /\ new[n + 1] = m
  OBVIOUS
<1> HIDE DEF n
<1>2. \A i \in DOMAIN seq : i \in DOMAIN new /\ new[i] = seq[i] /\ i < n + 1
  BY <1>1
<1>3. n + 1 \in DOMAIN new
  BY <1>1
<1>4. \A M : Holds(seq, M) => Holds(new, M)
  BY <1>2 DEF Holds
<1>5. \A M : m \in M => Holds(new, M)
  BY <1>1, <1>3 DEF Holds
<1>6. ASSUME NEW i \in DOMAIN new
      PROVE  \/ /\ i \in DOMAIN seq /\ new[i] = seq[i]
                /\ \A M : Ahead(seq, i, M) => Ahead(new, i, M)
             \/ new[i] = m /\ \A M : Holds(seq, M) => Ahead(new, i, M)
  <2>1. CASE i = n + 1
    <3>1. new[i] = m
      BY <1>1, <2>1
    <3>2. \A M : Holds(seq, M) => Ahead(new, i, M)
      BY <1>2, <2>1 DEF Holds, Ahead
    <3> QED BY <3>1, <3>2
  <2>2. CASE i # n + 1
    <3>1. i \in DOMAIN seq
      BY <1>1, <2>2
    <3>2. \A M : Ahead(seq, i, M) => Ahead(new, i, M)
      BY <1>2 DEF Ahead
    <3> QED BY <1>2, <3>1, <3>2
  <2> QED BY <2>1, <2>2
<1> QED BY <1>4, <1>5, <1>6

----------------------------------------------------------------------------
(* One step of the network: the channels c become d, the nodes x become y, *)
(* and the transfers D that had arrived become E; m was the first frame    *)
(* from p to q and has been handled.                                       *)

Flows(c, d, p, q, m) ==
    \A a, b \in PeerIDs : \A M \in SUBSET Messages :
        Holds(c[a][b], M) => Holds(d[a][b], M) \/ (a = p /\ b = q /\ m \in M)

\* The i-th frame from a to b was there before, behind the same frames but m.
Stayed(c, d, p, q, m, a, b, i) ==
    \E j \in DOMAIN c[a][b] :
        /\ d[a][b][i] = c[a][b][j]
        /\ \A M \in SUBSET Messages :
              Ahead(c[a][b], j, M) => Ahead(d[a][b], i, M) \/ (a = p /\ b = q /\ m \in M)

\* Who handles a frame of a conversation carries it on.
Handover(E, d, p, q, m) ==
    \A u \in TxIDs :
        /\ m \in Offers(u) => u \in E[q] \/ Holds(d[q][p], Requests(u))
        /\ m \in Delivers(u) => u \in E[q]
        /\ m \in Requests(u) => Holds(d[q][p], Delivers(u))

(* Offers, requests and deliveries are messages. *)
LEMMA Kinds ==
    \A u : /\ Offers(u) \in SUBSET Messages /\ Requests(u) \in SUBSET Messages
           /\ Delivers(u) \in SUBSET Offers(u) /\ Delivers(u) \in SUBSET Messages
BY DEF Offers, Requests, Delivers

(* Spreading survives a handover, for what was stored before and what is new. *)
LEMMA SpreadKept ==
    ASSUME NEW x, NEW y, NEW D, NEW E, NEW c, NEW d,
           NEW p \in PeerIDs, NEW q \in PeerIDs, NEW m,
           Spreading(x, D, c), Flows(c, d, p, q, m), Handover(E, d, p, q, m),
           \A n \in PeerIDs : D[n] \subseteq E[n] /\ Stored(y[n]) \subseteq TxIDs,
           \A a \in PeerIDs : \A b \in Peers[a], u \in Stored(y[a]) \ Stored(x[a]) :
               SpreadTo(E, d, a, b, u)
    PROVE  Spreading(y, E, d)
<1> SUFFICES ASSUME NEW a \in PeerIDs, NEW b \in Peers[a], NEW u \in Stored(y[a])
             PROVE  SpreadTo(E, d, a, b, u)
  BY DEF Spreading
<1>1. b \in PeerIDs /\ u \in TxIDs
  BY NetworkAssumption
<1>2. CASE u \in Stored(x[a])
  <2>1. SpreadTo(D, c, a, b, u)
    BY <1>2 DEF Spreading
  <2>2. CASE u \in D[b]
    BY <1>1, <2>2 DEF SpreadTo
  <2>3. CASE Holds(c[a][b], Offers(u))
    <3>1. Holds(d[a][b], Offers(u)) \/ (a = p /\ b = q /\ m \in Offers(u))
      BY <1>1, <2>3, Kinds DEF Flows
    <3> QED BY <1>1, <3>1 DEF SpreadTo, Handover
  <2>4. CASE Holds(c[b][a], Requests(u))
    <3>1. Holds(d[b][a], Requests(u)) \/ (b = p /\ a = q /\ m \in Requests(u))
      BY <1>1, <2>4, Kinds DEF Flows
    <3>2. Holds(d[a][b], Delivers(u)) => Holds(d[a][b], Offers(u))
      BY Kinds DEF Holds
    <3> QED BY <1>1, <3>1, <3>2 DEF SpreadTo, Handover
  <2> QED BY <2>1, <2>2, <2>3, <2>4 DEF SpreadTo
<1>3. CASE u \notin Stored(x[a])
  BY <1>3
<1> QED BY <1>2, <1>3

(* So does the order of the frames. *)
LEMMA OrderKept ==
    ASSUME NEW D, NEW E, NEW c, NEW d, NEW p \in PeerIDs, NEW q \in PeerIDs, NEW m,
           Ordered(D, c), Flows(c, d, p, q, m), Handover(E, d, p, q, m),
           \A n \in PeerIDs : D[n] \subseteq E[n],
           \A a, b \in PeerIDs : \A i \in DOMAIN d[a][b] :
               Stayed(c, d, p, q, m, a, b, i) \/ FrameOK(E, d, a, b, i)
    PROVE  Ordered(E, d)
<1> SUFFICES ASSUME NEW a \in PeerIDs, NEW b \in PeerIDs, NEW i \in DOMAIN d[a][b],
                    Stayed(c, d, p, q, m, a, b, i)
             PROVE  FrameOK(E, d, a, b, i)
  BY DEF Ordered
<1>1. PICK j \in DOMAIN c[a][b] :
        /\ d[a][b][i] = c[a][b][j]
        /\ \A M \in SUBSET Messages :
              Ahead(c[a][b], j, M) => Ahead(d[a][b], i, M) \/ (a = p /\ b = q /\ m \in M)
  BY DEF Stayed
<1> DEFINE f == d[a][b][i]
<1>2. FrameOK(D, c, a, b, j)
  BY DEF Ordered
<1>3. ASSUME f.type = "INV", NEW v \in Inputs(f.tx) PROVE OfferOK(E, d, a, b, i, v)
  <2>1. OfferOK(D, c, a, b, j, v)
    BY <1>1, <1>2, <1>3 DEF FrameOK
  <2>2. CASE Settled(v, D[b])
    BY <2>2 DEF OfferOK, Settled
  <2>3. ASSUME NEW u \in TxIDs, v \in Outs(u), Ahead(c[a][b], j, Offers(u))
        PROVE  OfferOK(E, d, a, b, i, v)
    <3>1. Ahead(d[a][b], i, Offers(u)) \/ (a = p /\ b = q /\ m \in Offers(u))
      BY <1>1, <2>3, Kinds
    <3> QED BY <2>3, <3>1 DEF OfferOK, Handover, Settled
  <2>4. ASSUME NEW u \in TxIDs, v \in Outs(u), Holds(c[b][a], Requests(u))
        PROVE  OfferOK(E, d, a, b, i, v)
    <3>1. Holds(d[b][a], Requests(u)) \/ (b = p /\ a = q /\ m \in Requests(u))
      BY <2>4, Kinds DEF Flows
    <3> QED BY <2>4, <3>1 DEF OfferOK, Handover, Settled
  <2>5. ASSUME NEW u \in TxIDs, v \in Outs(u), Holds(c[a][b], Delivers(u))
        PROVE  OfferOK(E, d, a, b, i, v)
    <3>1. Holds(d[a][b], Delivers(u)) \/ (a = p /\ b = q /\ m \in Delivers(u))
      BY <2>5, Kinds DEF Flows
    <3> QED BY <2>5, <3>1 DEF OfferOK, Handover, Settled
  <2> QED BY <2>1, <2>2, <2>3, <2>4, <2>5 DEF OfferOK
<1>4. ASSUME f.type = "GET", NEW v \in Inputs(f.tx) PROVE RequestOK(E, d, b, a, i, v)
  <2>1. RequestOK(D, c, b, a, j, v)
    BY <1>1, <1>2, <1>4 DEF FrameOK
  <2>2. CASE Settled(v, D[a])
    BY <2>2 DEF RequestOK, Settled
  <2>3. ASSUME NEW u \in TxIDs, v \in Outs(u), Ahead(c[a][b], j, Requests(u))
        PROVE  RequestOK(E, d, b, a, i, v)
    <3>1. Ahead(d[a][b], i, Requests(u)) \/ (a = p /\ b = q /\ m \in Requests(u))
      BY <1>1, <2>3, Kinds
    <3> QED BY <2>3, <3>1 DEF RequestOK, Handover, Settled
  <2>4. ASSUME NEW u \in TxIDs, v \in Outs(u), Holds(c[b][a], Delivers(u))
        PROVE  RequestOK(E, d, b, a, i, v)
    <3>1. Holds(d[b][a], Delivers(u)) \/ (b = p /\ a = q /\ m \in Delivers(u))
      BY <2>4, Kinds DEF Flows
    <3> QED BY <2>4, <3>1 DEF RequestOK, Handover, Settled
  <2> QED BY <2>1, <2>2, <2>3, <2>4 DEF RequestOK
<1>5. ASSUME f.type = "TX", NEW v \in Inputs(f.tx) PROVE DeliveryOK(E, d, a, b, i, v)
  <2>1. DeliveryOK(D, c, a, b, j, v)
    BY <1>1, <1>2, <1>5 DEF FrameOK
  <2>2. CASE Settled(v, D[b])
    BY <2>2 DEF DeliveryOK, Settled
  <2>3. ASSUME NEW u \in TxIDs, v \in Outs(u), Ahead(c[a][b], j, Delivers(u))
        PROVE  DeliveryOK(E, d, a, b, i, v)
    <3>1. Ahead(d[a][b], i, Delivers(u)) \/ (a = p /\ b = q /\ m \in Delivers(u))
      BY <1>1, <2>3, Kinds
    <3> QED BY <2>3, <3>1 DEF DeliveryOK, Handover, Settled
  <2> QED BY <2>1, <2>2, <2>3 DEF DeliveryOK
<1> QED BY <1>3, <1>4, <1>5 DEF FrameOK

----------------------------------------------------------------------------
(* What a send does to the order.                                          *)

\* The i-th frame from a to b was just sent by n, behind all that waited there.
Added(ch, d, n, out, a, b, i) ==
    /\ a = n
    /\ \E k \in DOMAIN out :
          /\ out[k].to = b /\ d[a][b][i] = out[k].msg
          /\ \A M \in SUBSET Messages : Holds(ch[a][b], M) => Ahead(d[a][b], i, M)

(* Writing a reply leaves every frame in its place and appends the new ones. *)
LEMMA SendPlaces ==
    ASSUME NEW n \in PeerIDs, NEW ch \in Channels, NEW out \in Seq(Outgoing),
           send(n, out, ch), NEW a \in PeerIDs, NEW b \in PeerIDs
    PROVE  /\ \A M \in SUBSET Messages : Holds(ch[a][b], M) => Holds(chan'[a][b], M)
           /\ \A i \in DOMAIN chan'[a][b] :
                 \/ /\ i \in DOMAIN ch[a][b] /\ chan'[a][b][i] = ch[a][b][i]
                    /\ \A M \in SUBSET Messages :
                          Ahead(ch[a][b], i, M) => Ahead(chan'[a][b], i, M)
                 \/ Added(ch, chan', n, out, a, b, i)
<1>1. /\ \A x, y \in PeerIDs : x # n => chan'[x][y] = ch[x][y]
      /\ \A y \in PeerIDs :
            \/ chan'[n][y] = ch[n][y]
            \/ \E i \in DOMAIN out :
                  out[i].to = y /\ chan'[n][y] = ch[n][y] \o <<out[i].msg>>
  BY SendFacts
<1>2. CASE chan'[a][b] = ch[a][b]
  BY <1>2
<1>3. CASE chan'[a][b] # ch[a][b]
  <2>1. a = n
    BY <1>1, <1>3
  <2>2. PICK k \in DOMAIN out : out[k].to = b /\ chan'[a][b] = ch[a][b] \o <<out[k].msg>>
    BY <1>1, <1>3, <2>1
  <2>3. out[k] \in Outgoing
    OBVIOUS
  <2>4. out[k].msg \in Messages /\ ch[a][b] \in Seq(Messages)
    BY <2>3 DEF Outgoing, Channels
  <2> DEFINE seq == ch[a][b]
             new == chan'[a][b]
             m == out[k].msg
  <2>5. seq \in Seq(Messages) /\ m \in Messages /\ new = seq \o <<m>>
    BY <2>2, <2>4
  <2> HIDE DEF seq, new, m
  <2>6. /\ \A M : Holds(seq, M) => Holds(new, M)
        /\ \A i \in DOMAIN new :
              \/ /\ i \in DOMAIN seq /\ new[i] = seq[i]
                 /\ \A M : Ahead(seq, i, M) => Ahead(new, i, M)
              \/ new[i] = m /\ \A M : Holds(seq, M) => Ahead(new, i, M)
    BY <2>5, AppendPlaces
  <2> QED BY <2>1, <2>2, <2>6 DEF Added, seq, new, m
<1> QED BY <1>2, <1>3

(* Unless something has failed, everything is written. *)
LEMMA SendAll ==
    ASSUME NEW n \in PeerIDs, NEW ch \in Channels, NEW out \in Seq(Outgoing),
           OnePerPeer(out), send(n, out, ch), up = PeerIDs, stale = {},
           NEW k \in DOMAIN out, NEW M, out[k].msg \in M
    PROVE  Holds(chan'[n][out[k].to], M)
<1>0. \A i \in DOMAIN out : out[i].to \in PeerIDs /\ out[i].msg \in Messages
  <2>1. \A i \in DOMAIN out : out[i] \in Outgoing
    OBVIOUS
  <2> QED BY <2>1 DEF Outgoing
<1>1. \A q \in PeerIDs : ~unreachable(n, q)
  BY DEF unreachable
<1>2. PICK h \in 0..Len(out) :
        /\ h < Len(out) => unreachable(n, out[h+1].to)
        /\ chan' = [ch EXCEPT ![n] = [q \in PeerIDs |-> @[q] \o written(n, out, h, q)]]
  BY DEF send
<1>3. DOMAIN out = 1..Len(out) /\ Len(out) \in Nat
  OBVIOUS
<1>4. h = Len(out)
  <2> DEFINE l == Len(out)
  <2>1. h \in 0..l /\ l \in Nat
    BY <1>3
  <2>2. CASE h < l
    <3>1. h + 1 \in DOMAIN out
      BY <1>3, <2>1, <2>2
    <3> QED BY <1>0, <1>1, <1>2, <2>2, <3>1
  <2> HIDE DEF l
  <2>3. h < l \/ h = l
    BY <2>1
  <2> QED BY <2>2, <2>3 DEF l
<1> DEFINE q == out[k].to
           m == out[k].msg
           mine == {i \in 1..h : out[i].to = q}
<1>5. mine = {k}
  BY <1>3, <1>4 DEF OnePerPeer
<1>6. q \in PeerIDs /\ m \in Messages
  BY <1>0
<1>7. (CHOOSE i \in mine : TRUE) = k
  BY <1>5
<1>8. written(n, out, h, q) = <<m>>
  <2>1. ~unreachable(n, q) /\ mine # {}
    BY <1>1, <1>5, <1>6
  <2> QED BY <1>7, <2>1 DEF written
<1> HIDE DEF q, mine
<1>9. chan'[n][q] = ch[n][q] \o <<m>>
  BY <1>2, <1>6, <1>8 DEF Channels
<1>10. ch[n][q] \in Seq(Messages)
  BY <1>6 DEF Channels
<1> HIDE DEF m
<1>11. \A N : m \in N => Holds(chan'[n][q], N)
  BY <1>6, <1>9, <1>10, AppendPlaces
<1> QED BY <1>11 DEF q, m

(* Taking a frame leaves every other frame in its place. *)
LEMMA TakenPlaces ==
    ASSUME chan \in Channels, NEW p \in PeerIDs, NEW q \in PeerIDs, chan[p][q] # <<>>,
           NEW ch, Taken(ch, p, q), NEW m, m = Head(chan[p][q])
    PROVE  /\ Flows(chan, ch, p, q, m)
           /\ \A a, b \in PeerIDs : \A i \in DOMAIN ch[a][b] : Stayed(chan, ch, p, q, m, a, b, i)
<1> DEFINE seq == chan[p][q]
           tail == Tail(seq)
<1>1. seq \in Seq(Messages) /\ seq # <<>>
  BY DEF Channels
<1>2. ch[p][q] = tail
  BY DEF Taken
<1>3. \A a, b \in PeerIDs : a # p \/ b # q => ch[a][b] = chan[a][b]
  BY DEF Taken
<1> HIDE DEF seq
<1>4. /\ \A M : Holds(seq, M) => Holds(tail, M) \/ Head(seq) \in M
      /\ \A i \in DOMAIN tail :
            /\ i + 1 \in DOMAIN seq /\ tail[i] = seq[i + 1]
            /\ \A M : Ahead(seq, i + 1, M) => Ahead(tail, i, M) \/ Head(seq) \in M
  BY <1>1, TailPlaces
<1>5. m = Head(seq)
  BY DEF seq
<1> HIDE DEF tail
<1>6. Flows(chan, ch, p, q, m)
  BY <1>2, <1>3, <1>4, <1>5 DEF Flows, seq
<1>7. ASSUME NEW a \in PeerIDs, NEW b \in PeerIDs, NEW i \in DOMAIN ch[a][b]
      PROVE  Stayed(chan, ch, p, q, m, a, b, i)
  <2>1. CASE a = p /\ b = q
    BY <1>2, <1>4, <1>5, <2>1 DEF Stayed, seq
  <2>2. CASE a # p \/ b # q
    BY <1>3, <2>2 DEF Stayed
  <2> QED BY <2>1, <2>2
<1> QED BY <1>6, <1>7

\* A frame is taken, and others are sent.
LEMMA DeliverPlaces ==
    ASSUME chan \in Channels, NEW p \in PeerIDs, NEW q \in PeerIDs, chan[p][q] # <<>>,
           NEW ch, Taken(ch, p, q), NEW m, m = Head(chan[p][q]),
           NEW out \in Seq(Outgoing), send(q, out, ch)
    PROVE  /\ Flows(chan, chan', p, q, m)
           /\ \A a, b \in PeerIDs : \A i \in DOMAIN chan'[a][b] :
                 Stayed(chan, chan', p, q, m, a, b, i) \/ Added(ch, chan', q, out, a, b, i)
<1>1. /\ Flows(chan, ch, p, q, m)
      /\ \A a, b \in PeerIDs : \A i \in DOMAIN ch[a][b] : Stayed(chan, ch, p, q, m, a, b, i)
  BY TakenPlaces
<1>2. ch \in Channels
  BY DEF Taken
<1>3. ASSUME NEW a \in PeerIDs, NEW b \in PeerIDs
      PROVE  /\ \A M \in SUBSET Messages : Holds(ch[a][b], M) => Holds(chan'[a][b], M)
             /\ \A i \in DOMAIN chan'[a][b] :
                   \/ /\ i \in DOMAIN ch[a][b] /\ chan'[a][b][i] = ch[a][b][i]
                      /\ \A M \in SUBSET Messages :
                            Ahead(ch[a][b], i, M) => Ahead(chan'[a][b], i, M)
                   \/ Added(ch, chan', q, out, a, b, i)
  BY <1>2, SendPlaces
<1>4. Flows(chan, chan', p, q, m)
  BY <1>1, <1>3 DEF Flows
<1>5. ASSUME NEW a \in PeerIDs, NEW b \in PeerIDs, NEW i \in DOMAIN chan'[a][b],
             ~Added(ch, chan', q, out, a, b, i)
      PROVE  Stayed(chan, chan', p, q, m, a, b, i)
  <2>1. /\ i \in DOMAIN ch[a][b] /\ chan'[a][b][i] = ch[a][b][i]
        /\ \A M \in SUBSET Messages : Ahead(ch[a][b], i, M) => Ahead(chan'[a][b], i, M)
    BY <1>3, <1>5
  <2>2. Stayed(chan, ch, p, q, m, a, b, i)
    BY <1>1, <2>1
  <2> QED BY <2>1, <2>2 DEF Stayed
<1> QED BY <1>4, <1>5

----------------------------------------------------------------------------
(* A node handles a frame.                                                 *)

\* What q does with the frame m from p: out is what it sends, st its new state.
Delivery(p, q, m, st, out, ch) ==
    /\ m \in Messages /\ chan[p][q] # <<>> /\ m = Head(chan[p][q])
    /\ Sound(AllHeld, m, p, q) /\ Changes(st, node[q], p, m)
    /\ LedgerStep(st, node[q], now) /\ st.peers = node[q].peers
    /\ Served(st, out, node[q], now, p, m)
    /\ \A i \in DOMAIN out : /\ Meant(out[i], node[q], now, p, m)
                            /\ Answer(out[i], st, node[q], p, m)
    /\ out \in Seq(Outgoing) /\ OnePerPeer(out)
    /\ node'[q] = st /\ \A n \in PeerIDs : n # q => node'[n] = node[n]
    /\ Taken(ch, p, q) /\ send(q, out, ch)
    /\ UNCHANGED <<up, drops, crashes, lost, now>>

(* Deliver, with its parts named. *)
LEMMA DeliveryExists ==
    ASSUME NetworkInv, NEW p \in PeerIDs, NEW q \in PeerIDs, Deliver(p, q)
    PROVE  \E m, st, out, ch : Delivery(p, q, m, st, out, ch)
<1> DEFINE m == Head(chan[p][q])
           s == node[q]
           r == dispatch(s, now, p, m)
           ch == [chan EXCEPT ![p][q] = Tail(@)]
<1>1. /\ m \in Messages /\ Sound(AllHeld, m, p, q) /\ Changes(r.st, s, p, m)
      /\ r.out \in Seq(Outgoing) /\ OnePerPeer(r.out)
      /\ \A i \in DOMAIN r.out : Answer(r.out[i], r.st, s, p, m)
      /\ node' = [node EXCEPT ![q] = r.st]
      /\ Taken(ch, p, q) /\ send(q, r.out, ch) /\ UNCHANGED <<up, drops, crashes, lost, now>>
  BY DeliverFacts
<1>2. chan[p][q] # <<>> /\ DOMAIN node = PeerIDs
  BY DEF NetworkInv, NetworkType, Deliver
<1>3. now \in Nat /\ NodeInv(s, now)
  BY NetworkAssumption DEF NetworkInv, NetworkType
<1> HIDE DEF ch
<1>4. /\ LedgerStep(r.st, s, now) /\ r.st.peers = s.peers
      /\ Served(r.st, r.out, s, now, p, m)
      /\ \A i \in DOMAIN r.out : Meant(r.out[i], s, now, p, m)
  <2> HIDE DEF m, s
  <2> QED BY <1>1, <1>3, DispatchCausal
<1> HIDE DEF r
<1>5. node'[q] = r.st /\ \A n \in PeerIDs : n # q => node'[n] = node[n]
  BY <1>1, <1>2
<1>6. Delivery(p, q, m, r.st, r.out, ch)
  BY <1>1, <1>2, <1>4, <1>5 DEF Delivery
<1> QED BY <1>6

(* Nodes stay backed and only learn. *)
LEMMA LearnStep ==
    ASSUME NetworkInv, NodesBacked, NEW q \in PeerIDs, NEW st,
           LedgerStep(st, node[q], now), st.peers = node[q].peers,
           node'[q] = st, \A n \in PeerIDs : n # q => node'[n] = node[n]
    PROVE  /\ NodesBacked'
           /\ \A n \in PeerIDs : /\ Stored(node[n]) \subseteq Stored(node'[n])
                                 /\ node[n].valueStore \subseteq node'[n].valueStore
<1>1. IsNodeState(node[q]) /\ Backed(node[q], q)
  BY DEF NetworkInv, NetworkType, NodeInv, StoresOK, NodesBacked
<1>2. /\ Backed(st, q) /\ Stored(node[q]) \subseteq Stored(st)
      /\ node[q].valueStore \subseteq st.valueStore
  BY <1>1, BackedStep
<1>3. ASSUME NEW n \in PeerIDs
      PROVE  /\ Backed(node'[n], n) /\ Stored(node[n]) \subseteq Stored(node'[n])
             /\ node[n].valueStore \subseteq node'[n].valueStore
  BY <1>2 DEF NodesBacked
<1> QED BY <1>3 DEF NodesBacked

(* Frames stay honest: only valid transfers are stored and served. *)
LEMMA DeliveryHonest ==
    ASSUME NetworkInv, NodesBacked, FramesHonest, NEW p \in PeerIDs, NEW q \in PeerIDs,
           NEW m, NEW st, NEW out, NEW ch, Delivery(p, q, m, st, out, ch)
    PROVE  FramesHonest'
<1>1. chan \in Channels
  BY DEF NetworkInv, NetworkType
<1>2. \A a, b \in PeerIDs : \A i \in DOMAIN chan'[a][b] :
          Stayed(chan, chan', p, q, m, a, b, i) \/ Added(ch, chan', q, out, a, b, i)
  BY <1>1, DeliverPlaces DEF Delivery
<1> SUFFICES ASSUME NEW a \in PeerIDs, NEW b \in PeerIDs, NEW i \in DOMAIN chan'[a][b],
                    chan'[a][b][i].type = "TX"
             PROVE  Honest(chan'[a][b][i].tx, chan'[a][b][i].sig)
  BY DEF FramesHonest, Range
<1>3. CASE Stayed(chan, chan', p, q, m, a, b, i)
  BY <1>3 DEF Stayed, FramesHonest, Range
<1>4. CASE Added(ch, chan', q, out, a, b, i)
  <2>1. PICK k \in DOMAIN out : chan'[a][b][i] = out[k].msg
    BY <1>4 DEF Added
  <2>2. m.tx \in Stored(node[q]) /\ out[k].msg = TX(m.tx, node[q].txStore[m.tx].sig)
    BY <2>1 DEF Delivery, Meant
  <2>3. Honest(m.tx, node[q].txStore[m.tx].sig)
    BY <2>2 DEF NodesBacked, Backed
  <2>4. chan'[a][b][i].tx = m.tx /\ chan'[a][b][i].sig = node[q].txStore[m.tx].sig
    BY <2>1, <2>2 DEF TX
  <2> QED BY <2>3, <2>4
<1> QED BY <1>2, <1>3, <1>4

(* An announcement comes after those of the transfers whose outputs are spent. *)
LEMMA AnnounceOrdered ==
    ASSUME NodesBacked, Spreading(node, Done, chan),
           NEW q \in PeerIDs, NEW b \in Peers[q], NEW t \in TxIDs,
           Inputs(t) \subseteq node[q].valueStore, NEW E, NEW d, NEW i,
           Done[b] \subseteq E[b], Stored(node[q]) \subseteq TxIDs,
           \A u \in TxIDs :
               /\ Holds(chan[q][b], Offers(u)) => Ahead(d[q][b], i, Offers(u))
               /\ Holds(chan[b][q], Requests(u)) => Holds(d[b][q], Requests(u)),
           NEW v \in Inputs(t)
    PROVE  OfferOK(E, d, q, b, i, v)
<1>1. node[q].valueStore = Genesis[q] \cup UNION {Outs(u) : u \in Stored(node[q])}
  BY DEF NodesBacked, Backed
<1>2. CASE v \in Genesis[q]
  BY <1>2 DEF OfferOK, Settled, seed
<1>3. CASE v \notin Genesis[q]
  <2>1. PICK u \in Stored(node[q]) : v \in Outs(u)
    BY <1>1, <1>3
  <2>2. u \in TxIDs /\ SpreadTo(Done, chan, q, b, u)
    BY DEF Spreading
  <2>3. CASE u \in Done[b]
    BY <2>1, <2>3 DEF OfferOK, Settled
  <2>4. CASE Holds(chan[q][b], Offers(u))
    BY <2>1, <2>2, <2>4 DEF OfferOK
  <2>5. CASE Holds(chan[b][q], Requests(u))
    BY <2>1, <2>2, <2>5 DEF OfferOK
  <2> QED BY <2>2, <2>3, <2>4, <2>5 DEF SpreadTo
<1> QED BY <1>2, <1>3

(* Whatever creates the inputs of a transfer has arrived before it. *)
LEMMA HeadSettled ==
    ASSUME CausalInv, Faultless, NEW p \in PeerIDs, NEW q \in PeerIDs,
           NEW m, chan[p][q] # <<>>, m = Head(chan[p][q]), m.type = "TX"
    PROVE  /\ m.tx \in TxIDs /\ Honest(m.tx, m.sig)
           /\ \A v \in Inputs(m.tx) : Settled(v, Done[q])
<1>1. chan[p][q] \in Seq(Messages)
  BY DEF CausalInv, NetworkInv, NetworkType, Channels
<1>2. 1 \in DOMAIN chan[p][q] /\ chan[p][q][1] = m /\ \A M : ~Ahead(chan[p][q], 1, M)
  BY <1>1, TailPlaces
<1>3. m \in [type : {"TX"}, tx : TxIDs, sig : Keys]
  <2>1. m \in Messages
    BY <1>1, <1>2
  <2> QED BY <2>1 DEF Messages, ACK
<1>4. FrameOK(Done, chan, p, q, 1)
  BY <1>2 DEF CausalInv, Ordered
<1>5. \A v \in Inputs(m.tx) : DeliveryOK(Done, chan, p, q, 1, v)
  BY <1>2, <1>4 DEF FrameOK
<1>6. \A v \in Inputs(m.tx) : Settled(v, Done[q])
  BY <1>2, <1>5 DEF DeliveryOK
<1>7. Honest(m.tx, m.sig)
  BY <1>2 DEF CausalInv, FramesHonest, Range
<1>8. m.tx \in TxIDs
  BY <1>3
<1> QED BY <1>6, <1>7, <1>8

\* What q does not store it has refused.
Refusing(q, m) ==
    refused' = IF m.type = "TX" /\ m.tx \notin Stored(node'[q])
               THEN [refused EXCEPT ![q] = @ \cup {m.tx}]
               ELSE refused

(* A transfer that was delivered has arrived. *)
LEMMA ArrivalKept ==
    ASSUME CausalInv, NEW p \in PeerIDs, NEW q \in PeerIDs,
           NEW m, NEW st, NEW out, NEW ch, Delivery(p, q, m, st, out, ch), Refusing(q, m)
    PROVE  /\ refused' \in [PeerIDs -> SUBSET TxIDs]
           /\ \A n \in PeerIDs : refused[n] \subseteq refused'[n] /\ Done[n] \subseteq Done'[n]
           /\ m.type = "TX" => m.tx \in Done'[q]
           /\ \A n \in PeerIDs : \A t \in refused'[n] :
                 \/ t \in refused[n]
                 \/ n = q /\ m.type = "TX" /\ t = m.tx /\ t \notin Stored(node'[q])
<1>1. refused \in [PeerIDs -> SUBSET TxIDs] /\ NetworkInv /\ NodesBacked
  BY DEF CausalInv
<1>2. \A n \in PeerIDs : Stored(node[n]) \subseteq Stored(node'[n])
  BY <1>1, LearnStep DEF Delivery
<1>3. ASSUME m.type = "TX" PROVE m.tx \in TxIDs
  <2>1. m \in [type : {"TX"}, tx : TxIDs, sig : Keys]
    BY <1>3 DEF Delivery, Messages, ACK
  <2> QED BY <2>1
<1>4. /\ refused' \in [PeerIDs -> SUBSET TxIDs]
      /\ \A n \in PeerIDs : refused[n] \subseteq refused'[n]
      /\ m.type = "TX" => m.tx \in Stored(node'[q]) \/ m.tx \in refused'[q]
      /\ \A n \in PeerIDs : \A t \in refused'[n] :
            \/ t \in refused[n]
            \/ n = q /\ m.type = "TX" /\ t = m.tx /\ t \notin Stored(node'[q])
  BY <1>1, <1>3 DEF Refusing
<1> QED BY <1>2, <1>4 DEF Done

(* As long as nothing has failed, a node holds what it was asked for. *)
LEMMA AskedStored ==
    ASSUME CausalInv, Faultless, NEW p \in PeerIDs, NEW q \in PeerIDs,
           NEW m, Sound(AllHeld, m, p, q)
    PROVE  /\ m.type = "GET" => m.tx \in Stored(node[q])
           /\ m.type = "TX" => m.tx \in Stored(node[p])
BY DEF CausalInv, Sound, AllHeld, Held

(* As long as nothing has failed, the frame that is handled is replaced by what it
   promised. *)
LEMMA DeliveryHandover ==
    ASSUME CausalInv, Faultless, NEW p \in PeerIDs, NEW q \in PeerIDs,
           NEW m, NEW st, NEW out, NEW ch, Delivery(p, q, m, st, out, ch), Refusing(q, m)
    PROVE  Handover(Done', chan', p, q, m)
<1>0. up = PeerIDs /\ stale = {} /\ NetworkInv /\ NodesBacked /\ ch \in Channels
  BY DEF CausalInv, Delivery, Taken
<1>1. ASSUME NEW k \in DOMAIN out, NEW M, out[k].msg \in M
      PROVE  Holds(chan'[q][out[k].to], M)
  BY <1>0, <1>1, SendAll DEF Delivery
<1>2. \A n \in PeerIDs : Done[n] \subseteq Done'[n]
  BY ArrivalKept
<1>m. chan[p][q] # <<>> /\ m = Head(chan[p][q]) /\ m \in Messages
  BY DEF Delivery
<1>3. ASSUME NEW u \in TxIDs, m \in Offers(u), m.type = "INV", u \notin Done'[q]
      PROVE  Holds(chan'[q][p], Requests(u))
  <2>1. m.tx = u
    BY <1>3 DEF Offers
  <2>2. u \notin Stored(node[q])
    BY <1>2, <1>3 DEF Done
  <2>3. PICK k \in DOMAIN out : out[k].to = p /\ out[k].msg = GET(u)
    BY <1>3, <2>1, <2>2 DEF Delivery, Served
  <2>4. GET(u) \in Requests(u)
    BY MessageTypes DEF Requests, GET
  <2> QED BY <1>1, <2>3, <2>4
<1>4. m.type = "TX" => m.tx \in Done'[q]
  BY ArrivalKept
<1>5. ASSUME NEW u \in TxIDs, m \in Requests(u)
      PROVE  Holds(chan'[q][p], Delivers(u))
  <2>1. m.type = "GET" /\ m.tx = u
    BY <1>5 DEF Requests
  <2>3. u \in Stored(node[q])
    BY <2>1, AskedStored DEF Delivery
  <2> DEFINE x == TX(u, node[q].txStore[u].sig)
  <2>4. PICK k \in DOMAIN out : out[k].to = p /\ out[k].msg = x
    BY <2>1, <2>3 DEF Delivery, Served
  <2>5. x.type = "TX" /\ x.tx = u
    BY DEF TX
  <2>6. out[k].msg \in Messages
    <3>1. out[k] \in Outgoing
      BY DEF Delivery
    <3> QED BY <3>1 DEF Outgoing
  <2> HIDE DEF x
  <2>7. out[k].msg \in Delivers(u)
    BY <2>4, <2>5, <2>6 DEF Delivers
  <2> QED BY <1>1, <2>4, <2>7
<1>6. \A u \in TxIDs : /\ m \in Offers(u) => m.type = "INV" \/ (m.type = "TX" /\ m.tx = u)
                       /\ m \in Delivers(u) => m.type = "TX" /\ m.tx = u
  BY DEF Offers, Delivers
<1> QED BY <1>3, <1>4, <1>5, <1>6 DEF Handover

(* Every frame that is sent finds its place in the order. *)
LEMMA AddedOrdered ==
    ASSUME CausalInv, Faultless, NEW p \in PeerIDs, NEW q \in PeerIDs,
           NEW m, NEW st, NEW out, NEW ch, Delivery(p, q, m, st, out, ch), Refusing(q, m),
           NEW a \in PeerIDs, NEW b \in PeerIDs, NEW i \in DOMAIN chan'[a][b],
           Added(ch, chan', q, out, a, b, i)
    PROVE  FrameOK(Done', chan', a, b, i)
<1> DEFINE f == chan'[a][b][i]
<1>0. /\ NetworkInv /\ NodesBacked /\ chan \in Channels
      /\ Spreading(node, Done, chan) /\ Ordered(Done, chan)
  BY DEF CausalInv, NetworkInv, NetworkType
<1>1. a = q
  BY DEF Added
<1>2. PICK k \in DOMAIN out :
        /\ out[k].to = b /\ f = out[k].msg
        /\ \A M \in SUBSET Messages : Holds(ch[q][b], M) => Ahead(chan'[q][b], i, M)
  BY <1>1 DEF Added
<1>3. Flows(chan, ch, p, q, m) /\ Flows(chan, chan', p, q, m)
  BY <1>0, TakenPlaces, DeliverPlaces DEF Delivery
<1>4. \A n \in PeerIDs : Done[n] \subseteq Done'[n]
  BY ArrivalKept
<1>5. Meant(out[k], node[q], now, p, m)
  BY DEF Delivery
<1>6. FrameOK(Done, chan, p, q, 1) /\ chan[p][q][1] = m /\ \A M : ~Ahead(chan[p][q], 1, M)
  <2>1. chan[p][q] \in Seq(Messages) /\ chan[p][q] # <<>> /\ m = Head(chan[p][q])
    BY <1>0 DEF Delivery, Channels
  <2>2. 1 \in DOMAIN chan[p][q] /\ chan[p][q][1] = m /\ \A M : ~Ahead(chan[p][q], 1, M)
    BY <2>1, TailPlaces
  <2> QED BY <1>0, <2>2 DEF Ordered
<1>7. ASSUME f.type = "INV", NEW v \in Inputs(f.tx) PROVE OfferOK(Done', chan', a, b, i, v)
  <2>1. /\ m.type = "TX" /\ validateTransfer(node[q], now, m.tx, m.sig)
        /\ b \in node[q].peers \ {p} /\ f = INV(m.tx)
    BY <1>2, <1>5, <1>7 DEF Meant
  <2>2. f.tx = m.tx /\ b \in Peers[q] /\ b # p
    BY <1>0, <2>1 DEF INV, NodesBacked, Backed
  <2>3. m.tx \in TxIDs
    <3>1. m \in [type : {"TX"}, tx : TxIDs, sig : Keys]
      BY <2>1 DEF Delivery, Messages, ACK
    <3> QED BY <3>1
  <2>4. Inputs(m.tx) \subseteq node[q].valueStore
    BY <2>1, <2>3, ValidHonest
  <2>5. Stored(node[q]) \subseteq TxIDs
    BY <1>0, StoredKnown DEF NetworkInv, NetworkType
  <2>6. ASSUME NEW u \in TxIDs
        PROVE  /\ Holds(chan[q][b], Offers(u)) => Ahead(chan'[q][b], i, Offers(u))
               /\ Holds(chan[b][q], Requests(u)) => Holds(chan'[b][q], Requests(u))
    <3>1. Holds(chan[q][b], Offers(u)) => Holds(ch[q][b], Offers(u))
      BY <1>3, <2>2, Kinds DEF Flows
    <3>2. Holds(chan[b][q], Requests(u)) => Holds(chan'[b][q], Requests(u))
      BY <1>3, <2>2, Kinds DEF Flows
    <3> QED BY <1>2, <3>1, <3>2, Kinds
  <2>7. Done[b] \subseteq Done'[b] /\ v \in Inputs(m.tx)
    BY <1>4, <1>7, <2>2
  <2> HIDE DEF f
  <2>8. OfferOK(Done', chan', q, b, i, v)
    BY <1>0, <2>2, <2>3, <2>4, <2>5, <2>6, <2>7, AnnounceOrdered
  <2> QED BY <1>1, <2>8
<1>8. ASSUME f.type = "GET", NEW v \in Inputs(f.tx) PROVE RequestOK(Done', chan', b, a, i, v)
  <2>1. m.type = "INV" /\ b = p /\ f = GET(m.tx)
    BY <1>2, <1>5, <1>8 DEF Meant
  <2>2. f.tx = m.tx
    BY <2>1 DEF GET
  <2>3. OfferOK(Done, chan, p, q, 1, v)
    BY <1>6, <1>8, <2>1, <2>2 DEF FrameOK
  <2>4. CASE Settled(v, Done[q])
    BY <1>1, <1>4, <2>4 DEF RequestOK, Settled
  <2>5. ASSUME NEW u \in TxIDs, v \in Outs(u), Holds(chan[q][p], Requests(u))
        PROVE  RequestOK(Done', chan', b, a, i, v)
    <3>1. m \notin Requests(u)
      BY <2>1 DEF Requests
    <3>2. Holds(ch[q][p], Requests(u))
      BY <1>3, <2>5, <3>1, Kinds DEF Flows
    <3>3. Ahead(chan'[q][p], i, Requests(u))
      BY <1>2, <2>1, <3>2, Kinds
    <3> QED BY <1>1, <2>1, <2>5, <3>3 DEF RequestOK
  <2>6. ASSUME NEW u \in TxIDs, v \in Outs(u), Holds(chan[p][q], Delivers(u))
        PROVE  RequestOK(Done', chan', b, a, i, v)
    <3>1. m \notin Delivers(u)
      BY <2>1 DEF Delivers
    <3>2. Holds(chan'[p][q], Delivers(u))
      BY <1>3, <2>6, <3>1, Kinds DEF Flows
    <3> QED BY <1>1, <2>1, <2>6, <3>2 DEF RequestOK
  <2> QED BY <1>6, <2>3, <2>4, <2>5, <2>6 DEF OfferOK
<1>9. ASSUME f.type = "TX", NEW v \in Inputs(f.tx) PROVE DeliveryOK(Done', chan', a, b, i, v)
  <2>1. m.type = "GET" /\ b = p /\ f = TX(m.tx, node[q].txStore[m.tx].sig)
    BY <1>2, <1>5, <1>9 DEF Meant
  <2>2. f.tx = m.tx
    BY <2>1 DEF TX
  <2>3. RequestOK(Done, chan, q, p, 1, v)
    BY <1>6, <1>9, <2>1, <2>2 DEF FrameOK
  <2>4. CASE Settled(v, Done[p])
    BY <1>4, <2>1, <2>4 DEF DeliveryOK, Settled
  <2>5. ASSUME NEW u \in TxIDs, v \in Outs(u), Holds(chan[q][p], Delivers(u))
        PROVE  DeliveryOK(Done', chan', a, b, i, v)
    <3>1. m \notin Delivers(u)
      BY <2>1 DEF Delivers
    <3>2. Holds(ch[q][p], Delivers(u))
      BY <1>3, <2>5, <3>1, Kinds DEF Flows
    <3>3. Ahead(chan'[q][p], i, Delivers(u))
      BY <1>2, <2>1, <3>2, Kinds
    <3> QED BY <1>1, <2>1, <2>5, <3>3 DEF DeliveryOK
  <2> QED BY <1>6, <2>3, <2>4, <2>5 DEF RequestOK
<1> QED BY <1>7, <1>8, <1>9 DEF FrameOK

(* What a node has just learned it announces to its peers. *)
LEMMA LearnedSpread ==
    ASSUME CausalInv, Faultless, NEW p \in PeerIDs, NEW q \in PeerIDs,
           NEW m, NEW st, NEW out, NEW ch, Delivery(p, q, m, st, out, ch), Refusing(q, m),
           NEW b \in Peers[q], NEW u \in Stored(st) \ Stored(node[q])
    PROVE  SpreadTo(Done', chan', q, b, u)
<1>0. /\ up = PeerIDs /\ stale = {} /\ ch \in Channels
      /\ node[q].peers = Peers[q] /\ b \in PeerIDs
  BY NetworkAssumption DEF CausalInv, NodesBacked, Backed, Delivery, Taken
<1>1. m.type = "TX" /\ m.tx = u /\ u \in TxIDs
  BY DEF Delivery, Changes, StoredFrom, ProofFiled
<1>2. CASE b = p
  <2>1. u \in Stored(node[p])
    BY <1>1, AskedStored DEF Delivery
  <2>2. Done[p] \subseteq Done'[p]
    BY ArrivalKept
  <2> QED BY <1>2, <2>1, <2>2 DEF SpreadTo, Done
<1>3. CASE b # p
  <2>1. PICK k \in DOMAIN out : out[k].to = b /\ out[k].msg = INV(u)
    BY <1>0, <1>1, <1>3 DEF Delivery, Served
  <2>2. INV(u) \in Offers(u)
    BY <1>1, MessageTypes DEF Offers, INV
  <2>3. Holds(chan'[q][b], Offers(u))
    BY <1>0, <2>1, <2>2, SendAll DEF Delivery
  <2> QED BY <2>3 DEF SpreadTo
<1> QED BY <1>2, <1>3

(* What a node refuses has expired, or spends what the node was not given or has
   refused: everything else would be valid. *)
LEMMA RefusalStep ==
    ASSUME CausalInv, Faultless, NEW p \in PeerIDs, NEW q \in PeerIDs,
           NEW m, NEW st, NEW out, NEW ch, Delivery(p, q, m, st, out, ch), Refusing(q, m)
    PROVE  Refusals'
<1>0. NodesBacked /\ Refusals /\ now \in Nat /\ now' = now
  BY NetworkAssumption DEF CausalInv, NetworkInv, NetworkType, Delivery
<1>1. \A t : expired(t) => expired(t)'
  BY <1>0 DEF expired
<1>2. \A n \in PeerIDs : refused[n] \subseteq refused'[n]
  BY ArrivalKept
<1>3. \A n \in PeerIDs : \A v : Blocked(n, v) => Blocked(n, v)'
  BY <1>2 DEF Blocked, seed
<1>4. ASSUME m.type = "TX", m.tx \notin Stored(node'[q])
      PROVE  expired(m.tx) \/ \E v \in Inputs(m.tx) : Blocked(q, v)
  <2>1. /\ m.tx \in TxIDs /\ Honest(m.tx, m.sig)
        /\ \A v \in Inputs(m.tx) : Settled(v, Done[q])
    BY <1>4, HeadSettled DEF Delivery
  <2>2. ~validateTransfer(node[q], now, m.tx, m.sig)
    BY <1>4 DEF Delivery, Served
  <2>3. expired(m.tx) \/ ~(Inputs(m.tx) \subseteq node[q].valueStore)
    BY <1>0, <2>1, <2>2, HonestValid
  <2>4. ASSUME NEW v \in Inputs(m.tx), v \notin node[q].valueStore PROVE Blocked(q, v)
    <3>1. /\ v \notin Genesis[q]
          /\ \A u \in Stored(node[q]) : v \notin Outs(u)
      BY <1>0, <2>4 DEF NodesBacked, Backed
    <3>2. seed(v) \/ \E u \in Done[q] : v \in Outs(u)
      BY <2>1 DEF Settled
    <3> QED BY <3>1, <3>2 DEF Blocked, Done
  <2> QED BY <2>3, <2>4
<1> SUFFICES ASSUME NEW n \in PeerIDs, NEW t \in refused'[n]
             PROVE  expired(t)' \/ \E v \in Inputs(t) : Blocked(n, v)'
  BY DEF Refusals
<1>5. CASE t \in refused[n]
  <2>1. expired(t) \/ \E v \in Inputs(t) : Blocked(n, v)
    BY <1>0, <1>5 DEF Refusals
  <2> QED BY <1>1, <1>3, <2>1
<1>6. CASE t \notin refused[n]
  <2>1. n = q /\ m.type = "TX" /\ t = m.tx /\ t \notin Stored(node'[q])
    BY <1>6, ArrivalKept
  <2> QED BY <1>1, <1>3, <1>4, <2>1
<1> QED BY <1>5, <1>6

(* OnMessage at q, with a frame of p. *)
LEMMA DeliverCausal ==
    ASSUME CausalInv, NEW p \in PeerIDs, NEW q \in PeerIDs, CausalDeliver(p, q)
    PROVE  CausalInv'
<1>0. NetworkInv /\ NodesBacked /\ FramesHonest /\ chan \in Channels /\ Deliver(p, q)
  BY DEF CausalInv, NetworkInv, NetworkType, CausalDeliver
<1>1. PICK m, st, out, ch : Delivery(p, q, m, st, out, ch)
  BY <1>0, DeliveryExists
<1>r. Refusing(q, m)
  BY <1>1 DEF Delivery, CausalDeliver, Refusing
<1>2. NetworkInv'
  BY <1>0, DeliverStep
<1>3. NodesBacked'
  BY <1>0, <1>1, LearnStep DEF Delivery
<1>4. FramesHonest'
  BY <1>0, <1>1, DeliveryHonest
<1>5. stale' \subseteq stale /\ UNCHANGED <<up, drops, crashes, lost>>
  <2>1. ch \in Channels
    BY <1>1 DEF Delivery, Taken
  <2> QED BY <1>1, <2>1, SendFacts DEF Delivery
<1>6. refused' \in [PeerIDs -> SUBSET TxIDs] /\ \A n \in PeerIDs : Done[n] \subseteq Done'[n]
  BY <1>1, <1>r, ArrivalKept
<1>7. ASSUME Faultless
      PROVE  Spreading(node', Done', chan') /\ Ordered(Done', chan') /\ Refusals'
  <2>0. Spreading(node, Done, chan) /\ Ordered(Done, chan)
    BY <1>7 DEF CausalInv
  <2>1. Flows(chan, chan', p, q, m)
    BY <1>0, <1>1, DeliverPlaces DEF Delivery
  <2>2. \A a, b \in PeerIDs : \A i \in DOMAIN chan'[a][b] :
            Stayed(chan, chan', p, q, m, a, b, i) \/ Added(ch, chan', q, out, a, b, i)
    BY <1>0, <1>1, DeliverPlaces DEF Delivery
  <2>3. Handover(Done', chan', p, q, m)
    BY <1>1, <1>r, <1>7, DeliveryHandover
  <2>4. ASSUME NEW a \in PeerIDs, NEW b \in PeerIDs, NEW i \in DOMAIN chan'[a][b],
               ~Stayed(chan, chan', p, q, m, a, b, i)
        PROVE  FrameOK(Done', chan', a, b, i)
    BY <1>1, <1>r, <1>7, <2>2, <2>4, AddedOrdered
  <2>5. Ordered(Done', chan')
    BY <1>6, <2>0, <2>1, <2>3, <2>4, OrderKept
  <2>6. \A n \in PeerIDs : Stored(node'[n]) \subseteq TxIDs
    BY <1>2, StoredKnown DEF NetworkInv, NetworkType
  <2>7. ASSUME NEW a \in PeerIDs, NEW b \in Peers[a],
               NEW u \in Stored(node'[a]) \ Stored(node[a])
        PROVE  SpreadTo(Done', chan', a, b, u)
    <3>1. a = q /\ node'[q] = st
      BY <1>1 DEF Delivery
    <3> QED BY <1>1, <1>r, <1>7, <3>1, LearnedSpread
  <2>8. Spreading(node', Done', chan')
    BY <1>6, <2>0, <2>1, <2>3, <2>6, <2>7, SpreadKept
  <2>9. Refusals'
    BY <1>1, <1>r, <1>7, RefusalStep
  <2> QED BY <2>5, <2>8, <2>9
<1>8. /\ Faultless' = Faultless
      /\ Faultless => up' = PeerIDs /\ stale' = {} /\ \A n \in PeerIDs : lost'[n] = {}
  BY <1>5 DEF CausalInv, Faultless
<1> QED BY <1>2, <1>3, <1>4, <1>6, <1>7, <1>8 DEF CausalInv

----------------------------------------------------------------------------
(* The user submits a transfer, or a tool asks for a proof.                *)

\* No frame is taken: the frame handled is one that no conversation has.
LEMMA SendOnlyPlaces ==
    ASSUME chan \in Channels, NEW n \in PeerIDs, NEW out \in Seq(Outgoing),
           send(n, out, chan), NEW y
    PROVE  /\ Flows(chan, chan', n, n, ACK) /\ Handover(y, chan', n, n, ACK)
           /\ \A a, b \in PeerIDs : \A i \in DOMAIN chan'[a][b] :
                 Stayed(chan, chan', n, n, ACK, a, b, i) \/ Added(chan, chan', n, out, a, b, i)
<1>1. ASSUME NEW a \in PeerIDs, NEW b \in PeerIDs
      PROVE  /\ \A M \in SUBSET Messages : Holds(chan[a][b], M) => Holds(chan'[a][b], M)
             /\ \A i \in DOMAIN chan'[a][b] :
                   \/ /\ i \in DOMAIN chan[a][b] /\ chan'[a][b][i] = chan[a][b][i]
                      /\ \A M \in SUBSET Messages :
                            Ahead(chan[a][b], i, M) => Ahead(chan'[a][b], i, M)
                   \/ Added(chan, chan', n, out, a, b, i)
  BY SendPlaces
<1>2. Flows(chan, chan', n, n, ACK)
  BY <1>1 DEF Flows
<1>3. \A u \in TxIDs : ACK \notin Offers(u) /\ ACK \notin Requests(u) /\ ACK \notin Delivers(u)
  BY DEF ACK, Offers, Requests, Delivers
<1>4. Handover(y, chan', n, n, ACK)
  BY <1>3 DEF Handover
<1>5. ASSUME NEW a \in PeerIDs, NEW b \in PeerIDs, NEW i \in DOMAIN chan'[a][b],
             ~Added(chan, chan', n, out, a, b, i)
      PROVE  Stayed(chan, chan', n, n, ACK, a, b, i)
  BY <1>1, <1>5 DEF Stayed
<1> QED BY <1>2, <1>4, <1>5

\* What n submits, or has submitted before, and sends.
Submission(n, t, st, out) ==
    /\ LedgerStep(st, node[n], now) /\ st.peers = node[n].peers
    /\ out \in Seq(Outgoing) /\ OnePerPeer(out) /\ \A i \in DOMAIN out : out[i].msg = INV(t)
    /\ \/ st = node[n] /\ out = <<>>
       \/ /\ Stored(st) = Stored(node[n]) \cup {t}
          /\ Inputs(t) \subseteq node[n].valueStore
          /\ \A i \in DOMAIN out : out[i].to \in node[n].peers
          /\ \A b \in node[n].peers : \E i \in DOMAIN out : out[i].to = b
    /\ node'[n] = st /\ \A m \in PeerIDs : m # n => node'[m] = node[m]
    /\ send(n, out, chan)
    /\ UNCHANGED <<up, drops, crashes, lost, now>>

(* Submit, with its parts named. *)
LEMMA SubmissionExists ==
    ASSUME NetworkInv, NEW n \in PeerIDs, NEW t \in TxIDs, NEW sig \in Keys,
           Submit(n, t, sig)
    PROVE  \E st, out : Submission(n, t, st, out)
<1> DEFINE s == node[n]
           r == AcceptLocalTransfer(s, now, t, sig)
<1>1. now \in Nat /\ NodeInv(s, now) /\ DOMAIN node = PeerIDs
  BY NetworkAssumption DEF NetworkInv, NetworkType
<1>2. /\ node' = [node EXCEPT ![n] = r.st] /\ send(n, r.out, chan)
      /\ UNCHANGED <<up, drops, crashes, lost, now>>
  BY DEF Submit
<1> HIDE DEF s
<1>3. /\ LedgerStep(r.st, s, now) /\ r.st.peers = s.peers
      /\ \/ r.st = s /\ r.out = <<>>
         \/ /\ validateTransfer(s, now, t, sig)
            /\ \A i \in DOMAIN r.out : r.out[i].to \in s.peers
            /\ \A b \in s.peers : \E i \in DOMAIN r.out : r.out[i].to = b
  BY <1>1, SubmitCausalFacts
<1>4. /\ r.out \in Seq(Outgoing) /\ OnePerPeer(r.out)
      /\ \A i \in DOMAIN r.out : r.out[i].msg = INV(t)
      /\ (r.st = s /\ r.out = <<>>) \/ StoredFrom(r.st, s, t, Local)
  BY <1>1, SubmitFacts
<1> HIDE DEF r
<1>5. validateTransfer(s, now, t, sig) => Inputs(t) \subseteq s.valueStore
  BY ValidHonest
<1>6. node'[n] = r.st /\ \A m \in PeerIDs : m # n => node'[m] = node[m]
  BY <1>1, <1>2
<1>7. Submission(n, t, r.st, r.out)
  BY <1>2, <1>3, <1>4, <1>5, <1>6 DEF Submission, StoredFrom, s
<1> QED BY <1>7

(* AcceptLocalTransfer at n. *)
LEMMA SubmitCausal ==
    ASSUME CausalInv, NEW n \in PeerIDs, NEW t \in TxIDs, NEW sig \in Keys,
           Submit(n, t, sig), UNCHANGED refused
    PROVE  CausalInv'
<1>0. NetworkInv /\ NodesBacked /\ FramesHonest /\ chan \in Channels
  BY DEF CausalInv, NetworkInv, NetworkType
<1>1. PICK st, out : Submission(n, t, st, out)
  BY <1>0, SubmissionExists
<1>2. NetworkInv'
  BY <1>0, SubmitStep
<1>3. /\ NodesBacked'
      /\ \A m \in PeerIDs : Stored(node[m]) \subseteq Stored(node'[m])
  BY <1>0, <1>1, LearnStep DEF Submission
<1>d. \A m \in PeerIDs : Done[m] \subseteq Done'[m]
  BY <1>3 DEF Done
<1>4. /\ Flows(chan, chan', n, n, ACK) /\ Handover(Done', chan', n, n, ACK)
      /\ \A a, b \in PeerIDs : \A i \in DOMAIN chan'[a][b] :
            Stayed(chan, chan', n, n, ACK, a, b, i) \/ Added(chan, chan', n, out, a, b, i)
  BY <1>0, <1>1, SendOnlyPlaces DEF Submission
<1>5. stale' \subseteq stale /\ UNCHANGED <<up, drops, crashes, lost, now, refused>>
  BY <1>0, <1>1, SendFacts DEF Submission
<1>6. INV(t).type = "INV" /\ INV(t).tx = t /\ INV(t) \in Offers(t)
  BY MessageTypes DEF INV, Offers
<1>7. FramesHonest'
  <2> SUFFICES ASSUME NEW a \in PeerIDs, NEW b \in PeerIDs, NEW i \in DOMAIN chan'[a][b],
                      chan'[a][b][i].type = "TX"
               PROVE  Honest(chan'[a][b][i].tx, chan'[a][b][i].sig)
    BY DEF FramesHonest, Range
  <2>1. ~Added(chan, chan', n, out, a, b, i)
    BY <1>1, <1>6 DEF Added, Submission
  <2>2. Stayed(chan, chan', n, n, ACK, a, b, i)
    BY <1>4, <2>1
  <2> QED BY <1>0, <2>2 DEF Stayed, FramesHonest, Range
<1>8. ASSUME Faultless PROVE Spreading(node', Done', chan') /\ Ordered(Done', chan')
  <2>0. /\ Spreading(node, Done, chan) /\ Ordered(Done, chan) /\ stale = {} /\ up = PeerIDs
        /\ node[n].peers = Peers[n]
    BY <1>8 DEF CausalInv, NodesBacked, Backed
  <2>1. \A m \in PeerIDs : Stored(node[m]) \subseteq TxIDs /\ Stored(node'[m]) \subseteq TxIDs
    BY <1>0, <1>2, StoredKnown DEF NetworkInv, NetworkType
  <2>2. ASSUME NEW a \in PeerIDs, NEW b \in PeerIDs, NEW i \in DOMAIN chan'[a][b],
               ~Stayed(chan, chan', n, n, ACK, a, b, i)
        PROVE  FrameOK(Done', chan', a, b, i)
    <3>1. a = n
      BY <1>4, <2>2 DEF Added
    <3>2. PICK k \in DOMAIN out :
            /\ out[k].to = b /\ chan'[n][b][i] = out[k].msg
            /\ \A M \in SUBSET Messages : Holds(chan[n][b], M) => Ahead(chan'[n][b], i, M)
      BY <1>4, <2>2, <3>1 DEF Added
    <3>3. chan'[n][b][i] = INV(t) /\ b \in Peers[n] /\ Inputs(t) \subseteq node[n].valueStore
      BY <1>1, <2>0, <3>2 DEF Submission
    <3>4. ASSUME NEW u \in TxIDs
          PROVE  /\ Holds(chan[n][b], Offers(u)) => Ahead(chan'[n][b], i, Offers(u))
                 /\ Holds(chan[b][n], Requests(u)) => Holds(chan'[b][n], Requests(u))
      <4>1. ACK \notin Requests(u)
        BY DEF ACK, Requests
      <4> QED BY <1>4, <3>2, <4>1, Kinds DEF Flows
    <3>5. ASSUME NEW v \in Inputs(t) PROVE OfferOK(Done', chan', n, b, i, v)
      BY <1>0, <1>d, <2>0, <2>1, <3>3, <3>4, AnnounceOrdered
    <3> QED BY <1>6, <3>1, <3>3, <3>5 DEF FrameOK
  <2>4. Ordered(Done', chan')
    BY <1>d, <1>4, <2>0, <2>2, OrderKept
  <2>5. ASSUME NEW a \in PeerIDs, NEW b \in Peers[a],
               NEW u \in Stored(node'[a]) \ Stored(node[a])
        PROVE  SpreadTo(Done', chan', a, b, u)
    <3>1. a = n /\ u = t
      BY <1>1 DEF Submission
    <3>2. PICK k \in DOMAIN out : out[k].to = b /\ out[k].msg = INV(t)
      BY <1>1, <2>0, <3>1 DEF Submission
    <3>3. Holds(chan'[n][b], Offers(t))
      BY <1>0, <1>1, <1>6, <1>8, <2>0, <3>2, SendAll DEF Submission
    <3> QED BY <3>1, <3>3 DEF SpreadTo
  <2>6. Spreading(node', Done', chan')
    BY <1>d, <1>4, <2>0, <2>1, <2>5, SpreadKept
  <2> QED BY <2>4, <2>6
<1>9. Faultless' = Faultless
  BY <1>5 DEF Faultless
<1>10. /\ refused' \in [PeerIDs -> SUBSET TxIDs]
       /\ Faultless => up' = PeerIDs /\ stale' = {} /\ \A m \in PeerIDs : lost'[m] = {}
  BY <1>5 DEF CausalInv
<1>11. Faultless => Refusals'
  BY <1>5 DEF CausalInv, Refusals, Blocked, expired
<1> QED BY <1>2, <1>3, <1>7, <1>8, <1>9, <1>10, <1>11 DEF CausalInv

(* A proof request from n to p. *)
LEMMA RequestProofCausal ==
    ASSUME CausalInv, NEW n \in PeerIDs, NEW p \in PeerIDs, NEW t \in TxIDs,
           RequestProof(n, p, t), UNCHANGED refused
    PROVE  CausalInv'
<1> DEFINE e == [to |-> p, msg |-> PROOF_REQ(t)]
           out == <<e>>
<1>0. NetworkInv /\ NodesBacked /\ FramesHonest /\ chan \in Channels
  BY DEF CausalInv, NetworkInv, NetworkType
<1>1. out \in Seq(Outgoing) /\ \A i \in DOMAIN out : out[i] = e
  BY MessageTypes, SingleFacts
<1>2. send(n, out, chan) /\ UNCHANGED <<node, up, drops, crashes, lost, now>>
  BY DEF RequestProof
<1> HIDE DEF out
<1>3. NetworkInv' /\ Done' = Done
  BY <1>0, <1>2, RequestProofStep DEF Done
<1>4. /\ Flows(chan, chan', n, n, ACK) /\ Handover(Done', chan', n, n, ACK)
      /\ \A a, b \in PeerIDs : \A i \in DOMAIN chan'[a][b] :
            Stayed(chan, chan', n, n, ACK, a, b, i) \/ Added(chan, chan', n, out, a, b, i)
  BY <1>0, <1>1, <1>2, SendOnlyPlaces
<1>5. stale' \subseteq stale
  BY <1>0, <1>1, <1>2, SendFacts
<1>6. ASSUME NEW a \in PeerIDs, NEW b \in PeerIDs, NEW i \in DOMAIN chan'[a][b],
             Added(chan, chan', n, out, a, b, i)
      PROVE  chan'[a][b][i].type = "PROOF_REQ"
  BY <1>1, <1>6 DEF Added, PROOF_REQ
<1>7. FramesHonest'
  <2> SUFFICES ASSUME NEW a \in PeerIDs, NEW b \in PeerIDs, NEW i \in DOMAIN chan'[a][b],
                      chan'[a][b][i].type = "TX"
               PROVE  Honest(chan'[a][b][i].tx, chan'[a][b][i].sig)
    BY DEF FramesHonest, Range
  <2>1. Stayed(chan, chan', n, n, ACK, a, b, i)
    BY <1>4, <1>6
  <2> QED BY <1>0, <2>1 DEF Stayed, FramesHonest, Range
<1>8. ASSUME Faultless PROVE Spreading(node', Done', chan') /\ Ordered(Done', chan')
  <2>0. Spreading(node, Done, chan) /\ Ordered(Done, chan)
    BY <1>8 DEF CausalInv
  <2>1. \A m \in PeerIDs : Stored(node'[m]) \subseteq TxIDs /\ node'[m] = node[m]
    BY <1>2, <1>3, StoredKnown DEF NetworkInv, NetworkType
  <2>2. ASSUME NEW a \in PeerIDs, NEW b \in PeerIDs, NEW i \in DOMAIN chan'[a][b],
               ~Stayed(chan, chan', n, n, ACK, a, b, i)
        PROVE  FrameOK(Done', chan', a, b, i)
    BY <1>4, <1>6, <2>2 DEF FrameOK
  <2>4. Ordered(Done', chan')
    BY <1>3, <1>4, <2>0, <2>2, OrderKept
  <2>5. Spreading(node', Done', chan')
    BY <1>3, <1>4, <2>0, <2>1, SpreadKept
  <2> QED BY <2>4, <2>5
<1>9. Faultless' = Faultless
  BY <1>2 DEF Faultless
<1>10. /\ refused' \in [PeerIDs -> SUBSET TxIDs]
       /\ Faultless => up' = PeerIDs /\ stale' = {} /\ \A m \in PeerIDs : lost'[m] = {}
  BY <1>2, <1>5 DEF CausalInv
<1>11. Faultless => Refusals'
  BY <1>2 DEF CausalInv, Refusals, Blocked, expired
<1>12. NodesBacked'
  BY <1>0, <1>2 DEF NodesBacked
<1> QED BY <1>3, <1>7, <1>8, <1>9, <1>10, <1>11, <1>12 DEF CausalInv

----------------------------------------------------------------------------
(* Faults end the order for good, and time only makes values expire.       *)

(* After a fault nothing is claimed; the clock alone changes nothing. *)
LEMMA FaultCausal ==
    ASSUME CausalInv, UNCHANGED refused,
           \/ \E n \in PeerIDs : Crash(n) \/ Restart(n)
           \/ \E p, q \in PeerIDs : Drop(p, q) \/ Notice(p, q)
           \/ Tick
           \/ UNCHANGED vars
    PROVE  CausalInv'
<1>0. /\ NetworkInv /\ NodesBacked /\ FramesHonest /\ refused \in [PeerIDs -> SUBSET TxIDs]
      /\ drops \in Nat /\ crashes \in Nat /\ now \in Nat
  BY NetworkAssumption DEF CausalInv, NetworkInv, NetworkType
<1>1. NetworkInv' /\ Emptied /\ Forgotten
  BY <1>0, FaultFacts
<1>2. NodesBacked'
  BY <1>0, <1>1, StartupBacked DEF NodesBacked, Forgotten
<1>3. FramesHonest'
  <2>1. \A p, q \in PeerIDs : Range(chan'[p][q]) \subseteq Range(chan[p][q])
    BY <1>1, EmptyQueue DEF Emptied
  <2> QED BY <1>0, <2>1 DEF FramesHonest
<1> DEFINE Calm == Faultless /\ UNCHANGED <<node, chan, up, lost>> /\ stale' \subseteq stale
<1>4. Faultless' => Calm /\ now <= now'
  <2>1. ASSUME NEW n \in PeerIDs, Crash(n) PROVE ~Faultless'
    <3>1. crashes' # 0
      BY <1>0, <2>1 DEF Crash
    <3> QED BY <3>1 DEF Faultless
  <2>2. ASSUME NEW n \in PeerIDs, Restart(n) PROVE ~Faultless'
    <3>1. n \notin up /\ crashes' = crashes /\ drops' = drops
      BY <2>2 DEF Restart
    <3> QED BY <3>1 DEF Faultless, CausalInv
  <2>3. ASSUME NEW p \in PeerIDs, NEW q \in PeerIDs, Drop(p, q) PROVE ~Faultless'
    <3>1. drops' # 0
      BY <1>0, <2>3 DEF Drop
    <3> QED BY <3>1 DEF Faultless
  <2>4. ASSUME NEW p \in PeerIDs, NEW q \in PeerIDs, Notice(p, q)
        PROVE  (Faultless' => Calm) /\ now <= now'
    BY <1>0, <2>4 DEF Notice, Faultless
  <2>5. ASSUME Tick PROVE (Faultless' => Calm) /\ now <= now'
    BY <1>0, <2>5 DEF Tick, Faultless
  <2>6. ASSUME UNCHANGED vars PROVE (Faultless' => Calm) /\ now <= now'
    BY <1>0, <2>6 DEF vars, Faultless
  <2> QED BY <2>1, <2>2, <2>3, <2>4, <2>5, <2>6
<1>5. ASSUME Faultless'
      PROVE  /\ up' = PeerIDs /\ stale' = {} /\ \A n \in PeerIDs : lost'[n] = {}
             /\ Spreading(node', Done', chan') /\ Ordered(Done', chan')
    BY <1>4, <1>5 DEF CausalInv, Done
<1>6. ASSUME Faultless' PROVE Refusals'
  <2>1. now <= now' /\ now' \in Nat
    BY <1>1, <1>4, <1>6, NetworkAssumption DEF NetworkInv, NetworkType
  <2>2. \A v \in ValueIDs : ValueExpiry[v] \in Int
    BY ValueAssumption
  <2>3. \A t \in TxIDs : Range(TxOutputs[t]) \subseteq ValueIDs
    BY TransferAssumption DEF Range
  <2>4. ASSUME NEW t \in TxIDs, expired(t) PROVE expired(t)'
    BY <1>0, <2>1, <2>2, <2>3, <2>4 DEF expired
  <2>5. \A n \in PeerIDs : \A v : Blocked(n, v) => Blocked(n, v)'
    BY DEF Blocked
  <2>6. Refusals
    BY <1>4, <1>6 DEF CausalInv
  <2>7. \A n \in PeerIDs : \A t \in refused[n] : t \in TxIDs
    BY <1>0
  <2> SUFFICES ASSUME NEW n \in PeerIDs, NEW t \in refused[n]
               PROVE  expired(t)' \/ \E v \in Inputs(t) : Blocked(n, v)'
    BY DEF Refusals
  <2> QED BY <2>4, <2>5, <2>6, <2>7 DEF Refusals
<1> QED BY <1>0, <1>1, <1>2, <1>3, <1>5, <1>6 DEF CausalInv

(* CausalInv is inductive. *)
LEMMA CausalInvStep == CausalInv /\ [CausalNext]_cvars => CausalInv'
<1> SUFFICES ASSUME CausalInv, [CausalNext]_cvars PROVE CausalInv'
  OBVIOUS
<1>1. ASSUME NEW p \in PeerIDs, NEW q \in PeerIDs, CausalDeliver(p, q) PROVE CausalInv'
  BY <1>1, DeliverCausal
<1>2. ASSUME OtherStep, UNCHANGED refused PROVE CausalInv'
  <2>1. ASSUME NEW n \in PeerIDs, NEW t \in Submissions[n], NEW sig \in Keys, Submit(n, t, sig)
        PROVE  CausalInv'
    <3>1. t \in TxIDs
      BY NetworkAssumption
    <3> QED BY <1>2, <2>1, <3>1, SubmitCausal
  <2>2. ASSUME NEW e \in Questions, RequestProof(e[1], e[2], e[3]) PROVE CausalInv'
    <3>1. e[1] \in PeerIDs /\ e[2] \in PeerIDs /\ e[3] \in TxIDs
      BY NetworkAssumption
    <3> QED BY <1>2, <2>2, <3>1, RequestProofCausal
  <2>3. CASE \/ \E n \in PeerIDs : Crash(n) \/ Restart(n)
             \/ \E p, q \in PeerIDs : Drop(p, q) \/ Notice(p, q)
             \/ Tick
    BY <1>2, <2>3, FaultCausal
  <2> QED BY <1>2, <2>1, <2>2, <2>3 DEF OtherStep
<1>3. CASE UNCHANGED cvars
  BY <1>3, FaultCausal DEF cvars
<1> QED BY <1>1, <1>2, <1>3 DEF CausalNext

(* The network starts in the invariant. *)
LEMMA CausalInvInit == CausalInit => CausalInv
<1> SUFFICES ASSUME CausalInit PROVE CausalInv
  OBVIOUS
<1>1. Init /\ refused = [n \in PeerIDs |-> {}]
  BY DEF CausalInit
<1>2. \A p, q \in PeerIDs : chan[p][q] = <<>>
  BY <1>1 DEF Init
<1>3. \A n \in PeerIDs : node[n] = Startup(n)
  BY <1>1 DEF Init
<1>4. NodesBacked
  BY <1>3, StartupBacked DEF NodesBacked
<1>5. FramesHonest /\ Ordered(Done, chan)
  BY <1>2 DEF FramesHonest, Ordered, Range
<1>6. Spreading(node, Done, chan)
  BY <1>3, StartupFacts DEF Spreading
<1>7. /\ refused \in [PeerIDs -> SUBSET TxIDs] /\ Refusals
      /\ up = PeerIDs /\ stale = {} /\ \A n \in PeerIDs : lost[n] = {}
  BY <1>1 DEF Init, Refusals
<1> QED BY <1>1, <1>4, <1>5, <1>6, <1>7, NetworkInvInit DEF CausalInv

(* Parents first, in every topology and whatever the nodes were seeded with: as
   long as no process or connection has failed, handleTX never drops a transfer
   because it came before its parents.  What it drops has expired, or spends a
   seed that the node was not given, or an output of what the node has dropped. *)
THEOREM ParentsFirstHolds == CausalSpec => []ParentsFirst
<1>1. CausalInv => ParentsFirst
  BY DEF CausalInv, Refusals, Blocked, Outs, ParentsFirst
<1>2. QED
  BY <1>1, CausalInvInit, CausalInvStep, PTL DEF CausalSpec

----------------------------------------------------------------------------
(* Who sends what to whom, when nobody asks for proofs.  Between two nodes *)
(* the frames about a transfer go back and forth between the node where it *)
(* was submitted, which offers it, and the other one, which requests it.   *)

Pair == \A p, q, r \in PeerIDs : p = q \/ q = r \/ p = r

Homeward(m, p, q) ==
    /\ m.type \in {"INV", "TX"} => m.tx \in Submissions[p]
    /\ m.type = "GET" => m.tx \in Submissions[q]

Routed(m, p, q) ==
    /\ p # q /\ m.type \in {"INV", "GET", "TX"}
    /\ Pair => Homeward(m, p, q)

FramesRouted == \A p, q \in PeerIDs : \A m \in Range(chan[p][q]) : Routed(m, p, q)

RouteInv == NetworkInv /\ NodesBacked /\ FramesRouted

\* A frame that q sends to b in answer to one from p.
LEMMA AnswerRouted ==
    ASSUME NEW p \in PeerIDs, NEW q \in PeerIDs, NEW m, Routed(m, p, q),
           NEW e, NEW st, NEW s, NEW time, s.peers = Peers[q],
           Meant(e, s, time, p, m), Answer(e, st, s, p, m)
    PROVE  Routed(e.msg, q, e.to)
<1>1. Peers[q] \subseteq PeerIDs /\ q \notin Peers[q]
  BY NetworkAssumption
<1>2. CASE m.type = "INV"
  <2>1. e = [to |-> p, msg |-> GET(m.tx)]
    BY <1>2 DEF Answer
  <2>2. e.to = p /\ e.msg.type = "GET" /\ e.msg.tx = m.tx
    BY <2>1 DEF GET
  <2> QED BY <1>2, <2>2 DEF Routed, Homeward
<1>3. CASE m.type = "GET"
  <2>1. e.to = p /\ e.msg.type = "TX" /\ e.msg.tx = m.tx
    BY <1>3 DEF Answer
  <2> QED BY <1>3, <2>1 DEF Routed, Homeward
<1>4. CASE m.type = "TX"
  <2>1. e.msg = INV(m.tx)
    BY <1>4 DEF Answer
  <2>2. e.msg.type = "INV"
    BY <2>1 DEF INV
  <2>3. e.to \in Peers[q] \ {p}
    BY <2>2 DEF Meant
  <2>4. q # e.to /\ ~Pair
    BY <1>1, <2>3 DEF Pair, Routed
  <2> QED BY <2>2, <2>4 DEF Routed
<1> QED BY <1>2, <1>3, <1>4 DEF Routed

(* OnMessage at q, with a frame of p. *)
LEMMA DeliverRouted ==
    ASSUME RouteInv, NEW p \in PeerIDs, NEW q \in PeerIDs, Deliver(p, q)
    PROVE  RouteInv'
<1>1. NetworkInv' /\ NetworkInv /\ NodesBacked /\ FramesRouted /\ chan \in Channels
  BY DeliverStep DEF RouteInv, NetworkInv, NetworkType
<1>2. PICK m, st, out, ch : Delivery(p, q, m, st, out, ch)
  BY <1>1, DeliveryExists
<1>3. NodesBacked'
  BY <1>1, <1>2, LearnStep DEF Delivery
<1>4. \A a, b \in PeerIDs : \A i \in DOMAIN chan'[a][b] :
          Stayed(chan, chan', p, q, m, a, b, i) \/ Added(ch, chan', q, out, a, b, i)
  BY <1>1, <1>2, DeliverPlaces DEF Delivery
<1>5. Routed(m, p, q)
  <2>1. m = Head(chan[p][q]) /\ chan[p][q] # <<>> /\ chan[p][q] \in Seq(Messages)
    BY <1>1, <1>2 DEF Delivery, Channels
  <2>2. m \in Range(chan[p][q])
    BY <2>1, TakeHead
  <2> QED BY <1>1, <2>2 DEF FramesRouted
<1>6. \A k \in DOMAIN out : Routed(out[k].msg, q, out[k].to)
  <2>1. node[q].peers = Peers[q]
    BY <1>1 DEF NodesBacked, Backed
  <2> QED BY <1>2, <1>5, <2>1, AnswerRouted DEF Delivery
<1>7. ASSUME NEW a \in PeerIDs, NEW b \in PeerIDs, NEW i \in DOMAIN chan'[a][b]
      PROVE  Routed(chan'[a][b][i], a, b)
  <2>1. CASE Stayed(chan, chan', p, q, m, a, b, i)
    BY <1>1, <2>1 DEF Stayed, FramesRouted, Range
  <2>2. CASE Added(ch, chan', q, out, a, b, i)
    BY <1>6, <2>2 DEF Added
  <2> QED BY <1>4, <2>1, <2>2
<1>8. FramesRouted'
  BY <1>7 DEF FramesRouted, Range
<1> QED BY <1>1, <1>3, <1>8 DEF RouteInv

(* AcceptLocalTransfer at n. *)
LEMMA SubmitRouted ==
    ASSUME RouteInv, NEW n \in PeerIDs, NEW t \in Submissions[n], NEW sig \in Keys,
           Submit(n, t, sig)
    PROVE  RouteInv'
<1>0. t \in TxIDs /\ Peers[n] \subseteq PeerIDs /\ n \notin Peers[n]
  BY NetworkAssumption
<1>1. NetworkInv' /\ NetworkInv /\ NodesBacked /\ FramesRouted /\ chan \in Channels
  BY <1>0, SubmitStep DEF RouteInv, NetworkInv, NetworkType
<1>2. PICK st, out : Submission(n, t, st, out)
  BY <1>0, <1>1, SubmissionExists
<1>3. NodesBacked'
  BY <1>1, <1>2, LearnStep DEF Submission
<1>4. \A a, b \in PeerIDs : \A i \in DOMAIN chan'[a][b] :
          Stayed(chan, chan', n, n, ACK, a, b, i) \/ Added(chan, chan', n, out, a, b, i)
  <2>1. out \in Seq(Outgoing) /\ send(n, out, chan)
    BY <1>2 DEF Submission
  <2> QED BY <1>1, <2>1, SendOnlyPlaces
<1>5. ASSUME NEW k \in DOMAIN out PROVE Routed(out[k].msg, n, out[k].to)
  <2>1. node[n].peers = Peers[n]
    BY <1>1 DEF NodesBacked, Backed
  <2>2. out # <<>>
    BY <1>5
  <2>3. out[k].msg = INV(t) /\ out[k].to \in Peers[n]
    BY <1>2, <2>1, <2>2 DEF Submission
  <2>4. out[k].msg.type = "INV" /\ out[k].msg.tx = t
    BY <2>3 DEF INV
  <2> QED BY <1>0, <2>3, <2>4 DEF Routed, Homeward
<1>6. ASSUME NEW a \in PeerIDs, NEW b \in PeerIDs, NEW i \in DOMAIN chan'[a][b]
      PROVE  Routed(chan'[a][b][i], a, b)
  <2>1. CASE Stayed(chan, chan', n, n, ACK, a, b, i)
    BY <1>1, <2>1 DEF Stayed, FramesRouted, Range
  <2>2. CASE Added(chan, chan', n, out, a, b, i)
    BY <1>5, <2>2 DEF Added
  <2> QED BY <1>4, <2>1, <2>2
<1>7. FramesRouted'
  BY <1>6 DEF FramesRouted, Range
<1> QED BY <1>1, <1>3, <1>7 DEF RouteInv

(* RouteInv is inductive. *)
LEMMA RouteInvStep == ASSUME Questions = {} PROVE RouteInv /\ [Next]_vars => RouteInv'
<1> SUFFICES ASSUME RouteInv, [Next]_vars PROVE RouteInv'
  OBVIOUS
<1>1. ASSUME NEW n \in PeerIDs, NEW t \in Submissions[n], NEW sig \in Keys, Submit(n, t, sig)
      PROVE  RouteInv'
  BY <1>1, SubmitRouted
<1>2. ASSUME NEW p \in PeerIDs, NEW q \in PeerIDs, Deliver(p, q) PROVE RouteInv'
  BY <1>2, DeliverRouted
<1>3. CASE \/ \E n \in PeerIDs : Crash(n) \/ Restart(n)
           \/ \E p, q \in PeerIDs : Drop(p, q) \/ Notice(p, q)
           \/ Tick
           \/ UNCHANGED vars
  <2>1. NetworkInv' /\ Emptied /\ Forgotten
    BY <1>3, FaultFacts DEF RouteInv
  <2>2. \A p, q \in PeerIDs : Range(chan'[p][q]) \subseteq Range(chan[p][q])
    BY <2>1, EmptyQueue DEF Emptied
  <2>3. NodesBacked'
    BY <2>1, StartupBacked DEF RouteInv, NodesBacked, Forgotten
  <2>4. FramesRouted'
    BY <2>2 DEF RouteInv, FramesRouted
  <2> QED BY <2>1, <2>3, <2>4 DEF RouteInv
<1> QED BY <1>1, <1>2, <1>3 DEF Next, OtherStep

(* The network starts in the invariant. *)
LEMMA RouteInvInit == Init => RouteInv
<1> SUFFICES ASSUME Init PROVE RouteInv
  OBVIOUS
<1>1. \A p, q \in PeerIDs : chan[p][q] = <<>>
  BY DEF Init
<1>3. NodesBacked
  BY StartupBacked DEF Init, NodesBacked
<1>4. FramesRouted
  BY <1>1 DEF FramesRouted, Range
<1> QED BY <1>3, <1>4, NetworkInvInit DEF RouteInv

\* Distinct members of a finite set cannot be more than the set has.
LEMMA DistinctBound ==
    ASSUME NEW S, IsFiniteSet(S), NEW n \in Nat, NEW f \in [1..n -> S],
           \A i, j \in 1..n : f[i] = f[j] => i = j
    PROVE  n <= Cardinality(S) /\ Cardinality(S) \in Nat
<1>1. f \in Injection(1..n, S)
  BY DEF Injection, IsInjective
<1>2. Cardinality(1..n) <= Cardinality(S)
  BY <1>1, FS_Injection
<1>3. Cardinality(1..n) = n
  BY FS_Interval
<1> QED BY <1>2, <1>3, FS_CardinalityType

\* No process was started again.
NothingLost == \A n \in PeerIDs : lost[n] = {}

\* The transfers that any node has stored.
Circulating == UNION {Stored(node[n]) : n \in PeerIDs}

(* Then every frame is about a transfer that some node has. *)
LEMMA FrameCirculates ==
    ASSUME NothingLost, RouteInv, NEW a \in PeerIDs, NEW b \in PeerIDs,
           NEW i \in DOMAIN chan[a][b]
    PROVE  chan[a][b][i].tx \in Circulating
<1> DEFINE m == chan[a][b][i]
<1>1. m \in Range(chan[a][b])
  BY DEF Range
<1> HIDE DEF m
<1>2. Routed(m, a, b) /\ Sound(AllHeld, m, a, b)
  BY <1>1 DEF RouteInv, FramesRouted, NetworkInv, FramesSound
<1>3. m.tx \in AllHeld[a] \/ m.tx \in AllHeld[b]
  BY <1>2 DEF Routed, Sound
<1>4. m.tx \in Circulating
  BY <1>3 DEF AllHeld, Held, NothingLost, Circulating
<1> QED BY <1>4 DEF m

(* There are finitely many of them if there are finitely many at all. *)
LEMMA CirculatingFinite ==
    ASSUME IsFiniteSet(TxIDs), NetworkInv
    PROVE  /\ Circulating \subseteq TxIDs /\ IsFiniteSet(Circulating)
           /\ Cardinality(Circulating) \in Nat
<1>1. Circulating \subseteq TxIDs
  BY StoredKnown DEF NetworkInv, NetworkType, Circulating
<1>2. IsFiniteSet(Circulating)
  BY <1>1, FS_Subset
<1> QED BY <1>1, <1>2, FS_CardinalityType

\* Between two nodes, in either direction, a transfer is offered or requested
\* once.
LEMMA FramesDiffer ==
    ASSUME NothingLost, FloodInv, RouteInv, NEW a \in PeerIDs, NEW b \in PeerIDs,
           NEW i \in DOMAIN chan[a][b], NEW j \in DOMAIN chan[a][b],
           chan[a][b][i].tx = chan[a][b][j].tx,
           chan[a][b][i].type = "GET" <=> chan[a][b][j].type = "GET"
    PROVE  i = j
<1> DEFINE c == chan[a][b]
           t == c[i].tx
<1>1. c \in Seq(Messages)
  BY DEF FloodInv, NetworkInv, NetworkType, Channels
<1>2. c[i] \in Messages /\ c[j] \in Messages
  BY <1>1
<1>3. Routed(c[i], a, b) /\ Routed(c[j], a, b)
  BY DEF RouteInv, FramesRouted, Range
<1>4. t \in Remembered
  <2>1. t \in TxIDs
    BY <1>2, <1>3 DEF Messages, Routed, ACK
  <2> QED BY <2>1 DEF Remembered, NothingLost
<1>5. Once(c, Offers(t)) /\ Once(c, Requests(t))
  BY <1>4 DEF FloodInv, Conversations, Thin
<1>6. CASE c[i].type = "GET"
  BY <1>2, <1>5, <1>6 DEF Once, Requests
<1>7. CASE c[i].type # "GET"
  BY <1>2, <1>3, <1>5, <1>7 DEF Once, Offers, Routed
<1> QED BY <1>6, <1>7

\* A connection carries each transfer at most twice, whatever the topology: once
\* offered and once requested.
LEMMA QueueBound ==
    ASSUME IsFiniteSet(TxIDs), NothingLost, FloodInv, RouteInv,
           NEW a \in PeerIDs, NEW b \in PeerIDs
    PROVE  Len(chan[a][b]) <= 2 * Cardinality(Circulating)
<1> DEFINE c == chan[a][b]
           T == Circulating
           S == BOOLEAN \X T
           f == [i \in 1..Len(c) |-> <<c[i].type = "GET", c[i].tx>>]
<1>1. c \in Seq(Messages)
  BY DEF FloodInv, NetworkInv, NetworkType, Channels
<1>2. \A i \in 1..Len(c) : i \in DOMAIN c /\ c[i] \in Messages
  BY <1>1
<1>3. \A i \in 1..Len(c) : c[i].tx \in T
  BY <1>2, FrameCirculates
<1>t. IsFiniteSet(T)
  BY CirculatingFinite DEF RouteInv
<1> HIDE DEF T
<1>4. f \in [1..Len(c) -> S]
  BY <1>3
<1>5. \A i, j \in 1..Len(c) : f[i] = f[j] => i = j
  <2> SUFFICES ASSUME NEW i \in 1..Len(c), NEW j \in 1..Len(c), f[i] = f[j]
               PROVE  i = j
    OBVIOUS
  <2>1. c[i].tx = c[j].tx /\ (c[i].type = "GET" <=> c[j].type = "GET")
    OBVIOUS
  <2>2. i \in DOMAIN c /\ j \in DOMAIN c
    BY <1>2
  <2> QED BY <2>1, <2>2, FramesDiffer
<1>6. IsFiniteSet(S) /\ Cardinality(S) = 2 * Cardinality(T)
  <2>1. IsFiniteSet(BOOLEAN) /\ Cardinality(BOOLEAN) = 2
    <3>1. BOOLEAN = {TRUE, FALSE} /\ TRUE # FALSE
      OBVIOUS
    <3>2. Cardinality({TRUE}) = 1 /\ IsFiniteSet({TRUE})
      BY FS_Singleton
    <3>3. /\ IsFiniteSet({TRUE} \cup {FALSE})
          /\ Cardinality({TRUE} \cup {FALSE}) = Cardinality({TRUE}) + 1
      BY <3>1, <3>2, FS_AddElement, Zenon
    <3>4. BOOLEAN = {TRUE} \cup {FALSE}
      BY <3>1
    <3>5. 1 + 1 = 2
      OBVIOUS
    <3> QED BY <3>2, <3>3, <3>4, <3>5, Zenon
  <2> QED BY <1>t, <2>1, FS_Product
<1>7. Len(c) \in Nat
  BY <1>1
<1> HIDE DEF f, S, c
<1>8. Len(c) <= Cardinality(S)
  BY <1>4, <1>5, <1>6, <1>7, DistinctBound
<1> QED BY <1>6, <1>8 DEF c, T

\* The two connections between the only two nodes carry each transfer once.
LEMMA PairBound ==
    ASSUME IsFiniteSet(TxIDs), NothingLost, OneSubmitter, Pair, FloodInv, RouteInv,
           NEW a \in PeerIDs, NEW b \in PeerIDs, a # b
    PROVE  Len(chan[a][b]) + Len(chan[b][a]) <= Cardinality(Circulating)
<1> DEFINE c == chan[a][b]
           d == chan[b][a]
           m == Len(c)
           n == Len(d)
<1>1. c \in Seq(Messages) /\ d \in Seq(Messages)
  BY DEF FloodInv, NetworkInv, NetworkType, Channels
<1>2. /\ m \in Nat /\ \A i \in 1..m : i \in DOMAIN c /\ c[i] \in Messages
      /\ n \in Nat /\ \A i \in 1..n : i \in DOMAIN d /\ d[i] \in Messages
  BY <1>1
<1>3. /\ \A i \in 1..m : Routed(c[i], a, b)
      /\ \A i \in 1..n : Routed(d[i], b, a)
  BY <1>2 DEF RouteInv, FramesRouted, Range
<1>4. /\ \A i \in 1..m : c[i].tx \in TxIDs
      /\ \A i \in 1..n : d[i].tx \in TxIDs
  BY <1>2, <1>3, SMTT(30) DEF Messages, Routed, ACK
<1>5. \A t \in TxIDs : ~(t \in Submissions[a] /\ t \in Submissions[b])
  BY DEF OneSubmitter
<1>6. ASSUME NEW i \in 1..m, NEW j \in 1..m, c[i].tx = c[j].tx PROVE i = j
  <2>1. c[i].type = "GET" <=> c[j].type = "GET"
    BY <1>3, <1>4, <1>5, <1>6 DEF Routed, Homeward
  <2> QED BY <1>2, <1>6, <2>1, FramesDiffer
<1>7. ASSUME NEW i \in 1..n, NEW j \in 1..n, d[i].tx = d[j].tx PROVE i = j
  <2>1. d[i].type = "GET" <=> d[j].type = "GET"
    BY <1>3, <1>4, <1>5, <1>7 DEF Routed, Homeward
  <2> QED BY <1>2, <1>7, <2>1, FramesDiffer
<1>8. ASSUME NEW i \in 1..m, NEW j \in 1..n PROVE c[i].tx # d[j].tx
  <2> SUFFICES ASSUME c[i].tx = d[j].tx PROVE FALSE
    OBVIOUS
  <2> DEFINE t == c[i].tx
  <2>1. t \in TxIDs /\ d[j].tx = t
    BY <1>4
  <2>2. Thin(chan, a, b, t) /\ Thin(chan, b, a, t)
    BY <2>1 DEF FloodInv, Conversations, Remembered, NothingLost
  <2>3. \/ c[i] \in Offers(t) /\ d[j] \in Requests(t)
        \/ c[i] \in Requests(t) /\ d[j] \in Offers(t)
    BY <1>2, <1>3, <1>5, <2>1 DEF Routed, Homeward, Offers, Requests
  <2>4. c[i] \in Range(c) /\ d[j] \in Range(d)
    BY <1>2 DEF Range
  <2> QED BY <2>2, <2>3, <2>4 DEF Thin, Lacks
<1>t. /\ \A i \in 1..m : c[i].tx \in Circulating
      /\ \A i \in 1..n : d[i].tx \in Circulating
  BY <1>2, FrameCirculates
<1>u. IsFiniteSet(Circulating)
  BY CirculatingFinite DEF RouteInv
<1> DEFINE f == [k \in 1..(m + n) |-> IF k <= m THEN c[k].tx ELSE d[k - m].tx]
<1> HIDE DEF c, d, m, n
<1>9. \A k \in 1..(m + n) : k \in 1..m \/ (k - m \in 1..n /\ ~(k <= m))
  BY <1>2
<1>10. f \in [1..(m + n) -> Circulating]
  BY <1>2, <1>t, <1>9
<1>11. ASSUME NEW k \in 1..(m + n), NEW l \in 1..(m + n), f[k] = f[l] PROVE k = l
  <2>1. CASE k <= m /\ l <= m
    <3>1. k \in 1..m /\ l \in 1..m
      BY <1>2, <2>1
    <3>2. c[k].tx = c[l].tx
      BY <1>11, <2>1
    <3> QED BY <1>6, <3>1, <3>2
  <2>2. CASE ~(k <= m) /\ ~(l <= m)
    <3>1. k - m \in 1..n /\ l - m \in 1..n
      BY <1>2, <2>2
    <3>2. d[k - m].tx = d[l - m].tx
      BY <1>11, <2>2
    <3>3. k - m = l - m
      BY <1>7, <3>1, <3>2
    <3> QED BY <1>2, <3>3
  <2>3. CASE k <= m /\ ~(l <= m)
    <3>1. k \in 1..m /\ l - m \in 1..n
      BY <1>2, <2>3
    <3>2. c[k].tx = d[l - m].tx
      BY <1>11, <2>3
    <3> QED BY <1>8, <3>1, <3>2
  <2>4. CASE ~(k <= m) /\ l <= m
    <3>1. l \in 1..m /\ k - m \in 1..n
      BY <1>2, <2>4
    <3>2. c[l].tx = d[k - m].tx
      BY <1>11, <2>4
    <3> QED BY <1>8, <3>1, <3>2
  <2> QED BY <2>1, <2>2, <2>3, <2>4
<1> HIDE DEF f
<1>12. m + n \in Nat
  BY <1>2
<1>13. m + n <= Cardinality(Circulating)
  BY <1>u, <1>10, <1>11, <1>12, DistinctBound
<1> QED BY <1>13 DEF c, d, m, n

=============================================================================
