---------------------------- MODULE MCWeb4Node -----------------------------
(***************************************************************************)
(* Instances of Web4Node for TLC.  One unit of time is 15 seconds, so the  *)
(* code's stabilityTau of 30 s is 2.  The instances take a replay TTL of 1 *)
(* instead of 4: a message ID is then free again after one unit, and the   *)
(* number of IDs bounds the messages per unit instead of the messages of a *)
(* whole behaviour.                                                        *)
(***************************************************************************)
EXTENDS Web4Loops, Web4NodeLedger, SequencesExt

CONSTANTS t1, t2, t3, t4,         \* transfers
          v1, v2, o1, o2, o3,     \* seeded values and outputs
          alice, bob,             \* keys
          p1, p2, p3              \* peers

\* math.Log(1+n) in units of 1/Scale
Logs == <<693147, 1098612, 1386294, 1609438>>
MCLogCount == [n \in 0..Cardinality(PeerIDs) |-> IF n = 0 THEN 0 ELSE Logs[n]]

MCHashOrder == [t \in TxIDs |-> CASE t = t1 -> 4 [] t = t2 -> 1 [] t = t3 -> 3 [] OTHER -> 2]
NeverExpires == [v \in ValueIDs |-> 0]
OneOwner == [v \in ValueIDs |-> alice]
PeerSeq == SetToSeq(PeerIDs)

(* t1 and t2 compete for v1, t2 and t3 for v2; t2 needs both and moves an
   amount of the medium tier. *)
ConflictInputs == t1 :> <<v1>> @@ t2 :> <<v1, v2>> @@ t3 :> <<v2>>
ConflictOutputs == t1 :> <<o1>> @@ t2 :> <<o2>> @@ t3 :> <<o3>>
ConflictAmount == [v \in ValueIDs |-> IF v = o2 THEN 60000 ELSE 10]

(* t1 pays o1 to bob, who spends it with t3 into a value that expires; v2 has
   an empty owner field: before v1 it is passed over (t2), after v1 it is a
   different owner (t4).  Only both outputs of t2 together leave the lowest
   tier. *)
LineageInputs == t1 :> <<v1>> @@ t2 :> <<v2, v1>> @@ t3 :> <<o1>> @@ t4 :> <<v1, v2>>
LineageOutputs == t1 :> <<o1>> @@ t2 :> <<o2, o2>> @@ t3 :> <<o3>> @@ t4 :> <<o2>>
LineageOwner == [v \in ValueIDs |-> CASE v = v2 -> NoOwner [] v = o1 -> bob [] OTHER -> alice]
LineageAmount == [v \in ValueIDs |-> IF v = o2 THEN 30000 ELSE 10]
LineageExpiry == [v \in ValueIDs |-> IF v = o3 THEN 2 ELSE 0]

Symmetry == Permutations(MsgIDs) \cup Permutations(PeerIDs)

=============================================================================
