------------------------ MODULE Web4HandlersProofs -------------------------
(***************************************************************************)
(* Facts about the operations of one node, which the proofs about a node,  *)
(* a network and a running process share.                                  *)
(*                                                                         *)
(* Scoring and selection: the scores are integers, betterScore is a strict *)
(* total order on the candidates of an input, so selectBest returns one of *)
(* them, and time can only raise a confidence.                             *)
(*                                                                         *)
(* The node's invariant, which every operation preserves: a change of the  *)
(* stores (a new transfer, a further observation, a proof) for transfer t  *)
(* leaves everything intact except the selection of t's inputs and the     *)
(* finality of their contenders (Disturbed), and                           *)
(* recomputeSelectionForTransfer repairs exactly those (RecomputeRepairs). *)
(*                                                                         *)
(* Replies: what each handler answers, to whom, and what it changes.       *)
(***************************************************************************)
EXTENDS Web4Handlers, FiniteSetTheorems, WellFoundedInduction, TLAPS

----------------------------------------------------------------------------
(* Scoring and selection.                                                  *)

(* Induction over the subsets of a finite set: a non-empty family of them has a
   member of which no proper subset is in the family. *)
LEMMA MinimalSubset ==
    ASSUME NEW S, IsFiniteSet(S), NEW Bad \in SUBSET (SUBSET S), Bad # {}
    PROVE  \E T \in Bad : \A U \in SUBSET T : U # T => U \notin Bad
<1>1. Bad \subseteq FiniteSubsetsOf(S)
  BY FS_FiniteSubsetsOfFinite
<1>2. PICK T \in Bad : \A U \in Bad : ~(<<U, T>> \in StrictSubsetOrdering(S))
  BY <1>1, FS_StrictSubsetOrderingWellFounded, WFMin, Zenon
<1>3. \A U \in SUBSET T : U # T => U \notin Bad
  BY <1>2 DEF StrictSubsetOrdering
<1> QED BY <1>3

\* R is transitive on S and relates any two elements of S.
Orders(R, S) ==
    /\ \A x, y \in S : x # y => <<x, y>> \in R \/ <<y, x>> \in R
    /\ \A x, y, z \in S : <<x, y>> \in R /\ <<y, z>> \in R => <<x, z>> \in R

(* A finite non-empty set has an element that comes before all others in a
   relation that orders it. *)
LEMMA FiniteMaximum ==
    ASSUME NEW S, IsFiniteSet(S), S # {}, NEW R, Orders(R, S)
    PROVE  \E m \in S : \A y \in S \ {m} : <<m, y>> \in R
<1> DEFINE Max(T, m) == m \in T /\ \A y \in T \ {m} : <<m, y>> \in R
           Bad == {T \in SUBSET S : T # {} /\ ~\E m \in T : Max(T, m)}
<1>1. SUFFICES ASSUME Bad # {} PROVE FALSE
  BY Zenon
<1>3. PICK T \in Bad : \A U \in SUBSET T : U # T => U \notin Bad
  <2>1. Bad \in SUBSET (SUBSET S)
    OBVIOUS
  <2> HIDE DEF Bad
  <2> QED BY <1>1, <2>1, MinimalSubset
<1>4. PICK x \in T : TRUE
  BY <1>3
<1>5. CASE T \ {x} = {}
  <2>1. Max(T, x)
    BY <1>4, <1>5
  <2> QED BY <2>1, <1>3, <1>4
<1>6. CASE T \ {x} # {}
  <2>0. T \subseteq S
    BY <1>3
  <2>1. T \ {x} \notin Bad /\ T \ {x} \in SUBSET S
    <3> HIDE DEF Bad
    <3> QED BY <1>3, <1>4, <2>0
  <2>2. PICK m \in T \ {x} : Max(T \ {x}, m)
    BY <2>1, <1>3, <1>6
  <2>3. m \in S /\ x \in S /\ T \subseteq S
    BY <1>3, <1>4
  <2>4. CASE <<m, x>> \in R
    <3>1. Max(T, m)
      BY <2>2, <2>4
    <3> QED BY <3>1, <2>2, <1>3
  <2>5. CASE <<x, m>> \in R
    <3>1. \A y \in T \ {x} : <<x, y>> \in R
      BY <2>2, <2>3, <2>5 DEF Orders
    <3> QED BY <3>1, <1>3, <1>4
  <2> QED BY <2>2, <2>3, <2>4, <2>5 DEF Orders
<1> QED BY <1>5, <1>6

----------------------------------------------------------------------------
(* Folds over a finite set.  The community modules take the elements in    *)
(* some fixed order; such a fold exists, whatever it folds.                *)

\* The value of a fold at s: base, or one element h-ed onto the rest.
FoldStep(h, base, g, s) ==
    IF s = {} THEN base
    ELSE h[<<CHOOSE x \in s : TRUE, g[s \ {CHOOSE x \in s : TRUE}]>>]

\* g is the fold of every subset of T.
IsFold(h, base, V, T, g) ==
    /\ g \in [SUBSET T -> V]
    /\ \A s \in SUBSET T : g[s] = FoldStep(h, base, g, s)

(* Two folds agree where both are defined. *)
LEMMA FoldUnique ==
    ASSUME NEW h, NEW base, NEW V, NEW A, IsFiniteSet(A), NEW B, NEW f, NEW g,
           IsFold(h, base, V, A, f), IsFold(h, base, V, B, g)
    PROVE  \A s \in SUBSET A : s \subseteq B => f[s] = g[s]
<1> DEFINE Bad == {s \in SUBSET A : s \subseteq B /\ f[s] # g[s]}
<1> SUFFICES ASSUME Bad # {} PROVE FALSE
  OBVIOUS
<1>1. PICK T \in Bad : \A U \in SUBSET T : U # T => U \notin Bad
  <2>1. Bad \in SUBSET (SUBSET A)
    OBVIOUS
  <2> HIDE DEF Bad
  <2> QED BY <2>1, MinimalSubset
<1> DEFINE x == CHOOSE y \in T : TRUE
<1>2. T \subseteq A /\ T \subseteq B /\ f[T] # g[T]
  BY <1>1
<1>3. f[T] = FoldStep(h, base, f, T) /\ g[T] = FoldStep(h, base, g, T)
  BY <1>2 DEF IsFold
<1>4. CASE T = {}
  BY <1>2, <1>3, <1>4 DEF FoldStep
<1>5. CASE T # {}
  <2>1. x \in T
    BY <1>5
  <2>2. T \ {x} \notin Bad
    BY <1>1, <2>1
  <2>3. f[T \ {x}] = g[T \ {x}]
    BY <1>2, <2>2
  <2> QED BY <1>2, <1>3, <1>5, <2>3 DEF FoldStep
<1> QED BY <1>4, <1>5

(* There is a fold of every finite set. *)
LEMMA FoldExists ==
    ASSUME NEW S, IsFiniteSet(S), NEW V, NEW base \in V, NEW h \in [S \X V -> V]
    PROVE  \E g : IsFold(h, base, V, S, g)
<1> DEFINE Bad == {T \in SUBSET S : ~\E g : IsFold(h, base, V, T, g)}
<1> SUFFICES ASSUME Bad # {} PROVE FALSE
  OBVIOUS
<1>1. PICK T \in Bad : \A U \in SUBSET T : U # T => U \notin Bad
  <2>1. Bad \in SUBSET (SUBSET S)
    OBVIOUS
  <2> HIDE DEF Bad
  <2> QED BY <2>1, MinimalSubset
<1>2. T \subseteq S /\ ~\E g : IsFold(h, base, V, T, g)
  BY <1>1
<1>3. \A U \in SUBSET T : U # T => \E g : IsFold(h, base, V, U, g)
  BY <1>1, <1>2
<1> DEFINE of(U) == CHOOSE g : IsFold(h, base, V, U, g)
           x(s) == CHOOSE y \in s : TRUE
           G == [s \in SUBSET T |->
                   IF s = {} THEN base
                   ELSE h[<<x(s), of(s \ {x(s)})[s \ {x(s)}]>>]]
<1>4. \A U \in SUBSET T : U # T => IsFold(h, base, V, U, of(U))
  BY <1>3
<1>5. \A s \in SUBSET T : s # {} => x(s) \in s /\ s \ {x(s)} \in SUBSET T /\ s \ {x(s)} # T
  OBVIOUS
<1> HIDE DEF of, x
<1>6. \A s \in SUBSET T : s # {} => of(s \ {x(s)})[s \ {x(s)}] \in V
  <2>1. ASSUME NEW U \in SUBSET T, U # T PROVE of(U)[U] \in V
    <3>1. of(U) \in [SUBSET U -> V] /\ U \in SUBSET U
      BY <1>4, <2>1 DEF IsFold
    <3> QED BY <3>1
  <2> QED BY <1>5, <2>1
<1>7. G \in [SUBSET T -> V]
  <2>1. \A s \in SUBSET T : s # {} => x(s) \in S
    BY <1>2, <1>5
  <2> QED BY <1>6, <2>1
<1>8. ASSUME NEW s \in SUBSET T, s # T PROVE G[s] = of(s)[s]
  <2>0. IsFold(h, base, V, s, of(s))
    BY <1>4, <1>8
  <2>1. of(s)[s] = FoldStep(h, base, of(s), s)
    BY <2>0 DEF IsFold
  <2>2. CASE s = {}
    BY <2>1, <2>2 DEF FoldStep
  <2>3. CASE s # {}
    <3>1. IsFold(h, base, V, s \ {x(s)}, of(s \ {x(s)}))
      BY <1>4, <1>5, <2>3
    <3>2. IsFiniteSet(s)
      <4>1. s \subseteq S
        BY <1>2
      <4> QED BY <4>1, FS_Subset
    <3>3. of(s)[s \ {x(s)}] = of(s \ {x(s)})[s \ {x(s)}]
      <4> DEFINE U == s \ {x(s)}
                 f == of(s)
                 g == of(U)
      <4>1. U \in SUBSET s /\ IsFold(h, base, V, s, f) /\ IsFold(h, base, V, U, g)
        BY <2>0, <3>1
      <4> HIDE DEF U, f, g
      <4>2. \A a \in SUBSET s : a \subseteq U => f[a] = g[a]
        BY <3>2, <4>1, FoldUnique, SMTT(30)
      <4>3. f[U] = g[U]
        BY <4>1, <4>2
      <4> QED BY <4>3 DEF U, f, g
    <3>4. of(s)[s] = h[<<x(s), of(s)[s \ {x(s)}]>>]
      BY <2>1, <2>3 DEF FoldStep, x
    <3> QED BY <2>3, <3>3, <3>4
  <2> QED BY <2>2, <2>3
<1>9. ASSUME NEW s \in SUBSET T PROVE G[s] = FoldStep(h, base, G, s)
  <2>1. CASE s = {}
    BY <2>1 DEF FoldStep
  <2>2. CASE s # {}
    <3>1. G[s \ {x(s)}] = of(s \ {x(s)})[s \ {x(s)}]
      <4> HIDE DEF G
      <4> QED BY <1>5, <1>8, <2>2
    <3>2. G[s] = h[<<x(s), of(s \ {x(s)})[s \ {x(s)}]>>]
      BY <2>2
    <3>3. FoldStep(h, base, G, s) = h[<<x(s), G[s \ {x(s)}]>>]
      <4> HIDE DEF G
      <4> QED BY <2>2 DEF FoldStep, x
    <3> HIDE DEF G
    <3> QED BY <3>1, <3>2, <3>3
  <2> QED BY <2>1, <2>2
<1>10. IsFold(h, base, V, T, G)
  <2> HIDE DEF G
  <2> QED BY <1>7, <1>9 DEF IsFold
<1> QED BY <1>2, <1>10

----------------------------------------------------------------------------
(* Types of the score components.                                          *)

FiniteConflicts(s) == \A v \in ValueIDs : IsFiniteSet(s.conflictSets[v])

ScoreBreakdown == [tx : TxIDs, score : Int, firstSeen : Int, propagation : Int,
                   timeStability : Int, neighborhood : Int]

(* Integer division by a positive number is an integer, is monotone and
   rounds down. *)
LEMMA DivFacts ==
    ASSUME NEW a \in Int, NEW b \in Int, NEW k \in Nat \ {0}
    PROVE  /\ a \div k \in Int
           /\ a <= b => a \div k <= b \div k
           /\ k * (a \div k) <= a /\ a < k * (a \div k) + k
<1>1. a \div k \in Int /\ b \div k \in Int
  OBVIOUS
<1>2. /\ k * (a \div k) <= a /\ a < k * (a \div k) + k
      /\ b < k * (b \div k) + k
  OBVIOUS
<1>3. ASSUME a <= b, b \div k < a \div k PROVE FALSE
  <2>1. (b \div k) + 1 <= a \div k
    BY <1>1, <1>3
  <2>2. k * ((b \div k) + 1) <= k * (a \div k)
    BY <1>1, <2>1
  <2> QED BY <1>1, <1>2, <1>3, <2>2
<1> QED BY <1>1, <1>2, <1>3

(* The age term is between 0 and Scale and never decreases with the clock. *)
LEMMA TimeStabilityFacts ==
    ASSUME NEW s, NEW t, s.txStore[t].firstSeen \in Nat,
           NEW a \in Nat, NEW b \in Nat, a <= b
    PROVE  /\ timeStability(s, a, t) \in Int
           /\ timeStability(s, a, t) <= timeStability(s, b, t)
           /\ timeStability(s, a, t) <= Scale
<1> DEFINE f == s.txStore[t].firstSeen
           p == a - f
           q == b - f
           v(n) == CASE n < 0             -> 0
                     [] n >= StabilityTau -> Scale
                     [] OTHER             -> (n * Scale) \div StabilityTau
<1>1. p \in Int /\ q \in Int /\ p <= q
  OBVIOUS
<1>2. timeStability(s, a, t) = v(p) /\ timeStability(s, b, t) = v(q)
  BY DEF timeStability
<1>3. StabilityTau \in Nat \ {0} /\ Scale \in Nat
  BY ScoreAssumption DEF Scale
<1> HIDE DEF p, q, f
<1>4. \A n \in Int : n * Scale \in Int
  BY <1>3
<1>5. \A m, n \in Int : m <= n => m * Scale <= n * Scale
  BY DEF Scale
<1>6. \A n \in Int : (n * Scale) \div StabilityTau \in Int
  BY <1>3, <1>4, DivFacts
<1>7. \A m, n \in Int :
         m <= n => (m * Scale) \div StabilityTau <= (n * Scale) \div StabilityTau
  BY <1>3, <1>4, <1>5, DivFacts
<1>8. (0 * Scale) \div StabilityTau = 0
  BY <1>3 DEF Scale
<1>9. (StabilityTau * Scale) \div StabilityTau = Scale
  BY <1>3 DEF Scale
<1>10. v(p) \in Int
  BY <1>1, <1>3, <1>6
<1>11. v(p) <= v(q)
  <2>1. CASE p < 0
    <3>1. \A n \in Int : 0 <= n => 0 <= (n * Scale) \div StabilityTau
      BY <1>7, <1>8
    <3> QED BY <2>1, <3>1, <1>1, <1>3, <1>6
  <2>2. CASE p >= StabilityTau
    BY <2>2, <1>1, <1>3
  <2>3. CASE p >= 0 /\ p < StabilityTau
    <3>1. (p * Scale) \div StabilityTau <= Scale
      BY <2>3, <1>1, <1>3, <1>7, <1>9
    <3>2. CASE q >= StabilityTau
      BY <2>3, <3>1, <3>2, <1>1, <1>3
    <3>3. CASE q < StabilityTau
      BY <2>3, <3>3, <1>1, <1>3, <1>7
    <3> QED BY <3>2, <3>3, <1>1, <1>3
  <2> QED BY <2>1, <2>2, <2>3, <1>1, <1>3
<1>12. v(p) <= Scale
  <2>1. CASE p < 0 \/ p >= StabilityTau
    BY <1>1, <1>3, <2>1
  <2>2. CASE p >= 0 /\ p < StabilityTau
    <3>1. (p * Scale) \div StabilityTau <= Scale
      BY <1>1, <1>3, <1>7, <1>9, <2>2
    <3> QED BY <1>1, <1>3, <2>2, <3>1
  <2> QED BY <1>1, <1>3, <2>1, <2>2
<1> QED BY <1>2, <1>10, <1>11, <1>12

(* The number of peers seen with a transfer is an index of LogCount. *)
LEMMA PropagationType ==
    ASSUME NEW s, IsNodeState(s), NEW t \in TxIDs
    PROVE  propagationScore(s, t) \in Int
<1>1. s.peerObservations[t] \in SUBSET PeerIDs
  BY DEF IsNodeState
<1>2. Cardinality(s.peerObservations[t]) \in 0..Cardinality(PeerIDs)
  BY <1>1, PeersFinite, FS_Subset, FS_CardinalityType
<1> QED BY <1>2, ScoreAssumption DEF propagationScore

(* The proof term of a score (neighborhoodFinality) is a number: a transfer has
   at most one proof per peer, and there are finitely many peers. *)
LEMMA NeighborhoodType ==
    ASSUME NEW s, IsNodeState(s), NEW t \in TxIDs
    PROVE  neighborhood(s, t) \in Int
<1>1. DOMAIN s.proofStore[t] \in SUBSET PeerIDs
  BY DEF IsNodeState, IsMap
<1>2. ASSUME NEW D PROVE Cardinality(supporting(s, t, D)) \in Nat
  <2>1. supporting(s, t, D) \in SUBSET PeerIDs
    BY <1>1 DEF supporting
  <2> QED BY <2>1, PeersFinite, FS_Subset, FS_CardinalityType
<1> DEFINE w == proofWeight(s, t)
<1>3. w \in Nat
  BY <1>2 DEF proofWeight
<1> HIDE DEF w
<1>4. w * Scale \in Int /\ w + 10 \in Nat \ {0}
  BY <1>3 DEF Scale
<1>5. (w * Scale) \div (w + 10) \in Int
  BY <1>4, DivFacts
<1> QED BY <1>5 DEF neighborhood, w

(* conflictCleanliness is a number for every contender of a contested input. *)
LEMMA CleanlinessType ==
    ASSUME NEW s, IsNodeState(s), FiniteConflicts(s),
           NEW v \in ValueIDs, s.conflictSets[v] # {}, NEW t \in TxIDs
    PROVE  conflictCleanliness(s, v, t) \in Int
<1> DEFINE rivals  == Cardinality(s.conflictSets[v]) - 1
           proofs  == DOMAIN s.proofStore[t]
           against == {p \in proofs : s.proofStore[t][p].conflict}
           signals == rivals + Cardinality(against)
           most    == rivals + Cardinality(proofs)
<1>1. rivals \in Nat
  BY FS_CardinalityType, FS_EmptySet DEF FiniteConflicts
<1>2. proofs \in SUBSET PeerIDs /\ against \in SUBSET PeerIDs
  BY DEF IsNodeState, IsMap
<1>3. Cardinality(proofs) \in Nat /\ Cardinality(against) \in Nat
  <2> HIDE DEF proofs, against
  <2> QED BY <1>2, PeersFinite, FS_Subset, FS_CardinalityType
<1>4. signals * Scale \in Int /\ most + 1 \in Nat \ {0}
  <2> HIDE DEF proofs, against, rivals
  <2> QED BY <1>1, <1>3 DEF Scale
<1>5. (signals * Scale) \div (most + 1) \in Int
  <2> HIDE DEF signals, most
  <2> QED BY <1>4, DivFacts
<1>6. conflictCleanliness(s, v, t) = Scale - (signals * Scale) \div (most + 1)
  BY DEF conflictCleanliness
<1> HIDE DEF signals, most
<1> QED BY <1>5, <1>6 DEF Scale

(* scoreTx yields a well-formed breakdown of the transfer it was asked about. *)
LEMMA ScoreType ==
    ASSUME NEW s, IsNodeState(s), FiniteConflicts(s), NEW now \in Nat,
           NEW v \in ValueIDs, NEW t \in s.conflictSets[v],
           s.conflictSets[v] \subseteq Stored(s)
    PROVE  /\ scoreTx(s, now, v, t) \in ScoreBreakdown
           /\ scoreTx(s, now, v, t).tx = t
<1>1. t \in TxIDs /\ t \in Stored(s) /\ s.txStore[t].firstSeen \in Nat
  BY DEF IsNodeState, IsMap, TxRecord, Stored
<1>2. rankByArrival(s, v, t) \in Nat
  <2> DEFINE earlier == {u \in s.conflictSets[v] : arrivedBefore(s, u, t)}
  <2>1. earlier \in SUBSET s.conflictSets[v] /\ IsFiniteSet(s.conflictSets[v])
    BY DEF FiniteConflicts
  <2>2. Cardinality(earlier) \in Nat
    <3> HIDE DEF earlier
    <3> QED BY <2>1, FS_Subset, FS_CardinalityType
  <2> QED BY <2>2 DEF rankByArrival
<1>3. Scale \div (1 + rankByArrival(s, v, t)) \in Int
  BY <1>2, DivFacts DEF Scale
<1>4. propagationScore(s, t) \in Int
  BY <1>1, PropagationType
<1>5. timeStability(s, now, t) \in Int
  BY <1>1, TimeStabilityFacts
<1>6. neighborhood(s, t) \in Int
  BY <1>1, NeighborhoodType
<1>7. conflictCleanliness(s, v, t) \in Int
  BY <1>1, CleanlinessType
<1> DEFINE F == Scale \div (1 + rankByArrival(s, v, t))
           P == propagationScore(s, t)
           T == timeStability(s, now, t)
           N == neighborhood(s, t)
           C == conflictCleanliness(s, v, t)
<1>8. 35 * F + 20 * P + 20 * T + 20 * N + 5 * C \in Int
  <2> HIDE DEF F, P, T, N, C
  <2>1. F \in Int /\ P \in Int /\ T \in Int /\ N \in Int /\ C \in Int
    BY <1>3, <1>4, <1>5, <1>6, <1>7 DEF F, P, T, N, C
  <2> QED BY <2>1
<1>9. scoreTx(s, now, v, t) =
         [tx |-> t, score |-> 35 * F + 20 * P + 20 * T + 20 * N + 5 * C,
          firstSeen |-> F, propagation |-> P, timeStability |-> T,
          neighborhood |-> N]
  BY DEF scoreTx, weightFirstSeen, weightPropagation, weightTime, weightProof,
         weightConflict
<1> HIDE DEF F, P, T, N, C
<1>10. F \in Int /\ P \in Int /\ T \in Int /\ N \in Int
  BY <1>3, <1>4, <1>5, <1>6 DEF F, P, T, N
<1> QED BY <1>1, <1>8, <1>9, <1>10 DEF ScoreBreakdown

----------------------------------------------------------------------------
(* Selection.                                                              *)

(* betterScore decides between any two candidates with different transfers,
   and is transitive. *)
LEMMA BetterScoreOrder ==
    /\ \A l, r \in ScoreBreakdown :
          l.tx # r.tx => betterScore(l, r) \/ betterScore(r, l)
    /\ \A a, b, c \in ScoreBreakdown :
          betterScore(a, b) /\ betterScore(b, c) => betterScore(a, c)
<1>1. HashOrder \in [TxIDs -> Nat]
      /\ \A t, u \in TxIDs : HashOrder[t] = HashOrder[u] => t = u
  BY TransferAssumption
<1>2. ASSUME NEW l \in ScoreBreakdown, NEW r \in ScoreBreakdown, l.tx # r.tx
      PROVE  betterScore(l, r) \/ betterScore(r, l)
  BY <1>1, <1>2 DEF ScoreBreakdown, betterScore
<1>3. ASSUME NEW a \in ScoreBreakdown, NEW b \in ScoreBreakdown,
             NEW c \in ScoreBreakdown, betterScore(a, b), betterScore(b, c)
      PROVE  betterScore(a, c)
  BY <1>1, <1>3 DEF ScoreBreakdown, betterScore
<1> QED BY <1>2, <1>3

(* selectBest returns the score of one of the candidates. *)
LEMMA SelectBestFacts ==
    ASSUME NEW s, IsNodeState(s), FiniteConflicts(s), NEW now \in Nat,
           NEW v \in ValueIDs, s.conflictSets[v] # {},
           s.conflictSets[v] \subseteq Stored(s)
    PROVE  /\ selectBest(s, now, v) \in ScoreBreakdown
           /\ selectBest(s, now, v).tx \in s.conflictSets[v]
<1> DEFINE C == s.conflictSets[v]
           sc(t) == scoreTx(s, now, v, t)
           R == {p \in C \X C : betterScore(sc(p[1]), sc(p[2]))}
           cand == {sc(t) : t \in C}
<1>1. \A t \in C : sc(t) \in ScoreBreakdown /\ sc(t).tx = t
  BY ScoreType
<1>2. IsFiniteSet(C) /\ C # {}
  BY DEF FiniteConflicts
<1> HIDE DEF sc, C
<1>3. Orders(R, C)
  <2>1. \A x, y \in C : x # y => <<x, y>> \in R \/ <<y, x>> \in R
    BY <1>1, BetterScoreOrder
  <2>2. \A x, y, z \in C : <<x, y>> \in R /\ <<y, z>> \in R => <<x, z>> \in R
    BY <1>1, BetterScoreOrder
  <2> HIDE DEF R
  <2> QED BY <2>1, <2>2 DEF Orders
<1>5. PICK m \in C : \A y \in C \ {m} : <<m, y>> \in R
  <2> HIDE DEF R
  <2> QED BY <1>2, <1>3, FiniteMaximum
<1>6. \A other \in cand \ {sc(m)} : betterScore(sc(m), other)
  BY <1>5
<1>7. \E best \in cand : \A other \in cand \ {best} : betterScore(best, other)
  BY <1>5, <1>6
<1>8. selectBest(s, now, v) =
         CHOOSE best \in cand : \A other \in cand \ {best} : betterScore(best, other)
  BY DEF selectBest, sc, C
<1>9. selectBest(s, now, v) \in cand
  <2> HIDE DEF cand
  <2> QED BY <1>7, <1>8
<1> QED BY <1>1, <1>9 DEF C

(* What a score reads: the candidates of the input and, of each of them, its
   record, its observations and its proofs. *)
LEMMA SelectBestFrame ==
    ASSUME NEW s, NEW r, NEW now, NEW v,
           r.conflictSets[v] = s.conflictSets[v],
           \A t \in s.conflictSets[v] :
              /\ r.txStore[t] = s.txStore[t]
              /\ r.peerObservations[t] = s.peerObservations[t]
              /\ r.proofStore[t] = s.proofStore[t]
    PROVE  selectBest(r, now, v) = selectBest(s, now, v)
<1>1. ASSUME NEW t \in s.conflictSets[v]
      PROVE  scoreTx(r, now, v, t) = scoreTx(s, now, v, t)
  <2>1. rankByArrival(r, v, t) = rankByArrival(s, v, t)
    BY <1>1 DEF rankByArrival, arrivedBefore
  <2>2. propagationScore(r, t) = propagationScore(s, t)
    BY <1>1 DEF propagationScore
  <2>3. timeStability(r, now, t) = timeStability(s, now, t)
    BY <1>1 DEF timeStability
  <2>4. neighborhood(r, t) = neighborhood(s, t)
    BY <1>1 DEF neighborhood, proofWeight, supporting
  <2>5. conflictCleanliness(r, v, t) = conflictCleanliness(s, v, t)
    BY <1>1 DEF conflictCleanliness
  <2> QED BY <2>1, <2>2, <2>3, <2>4, <2>5 DEF scoreTx
<1>2. {scoreTx(r, now, v, t) : t \in r.conflictSets[v]}
        = {scoreTx(s, now, v, t) : t \in s.conflictSets[v]}
  BY <1>1
<1> QED BY <1>2 DEF selectBest

----------------------------------------------------------------------------
(* Finality.                                                               *)

(* computeConfidence reads the record, the observers and the proofs of its own
   transfer, and nothing else of the node. *)
LEMMA ConfidenceFrame ==
    ASSUME NEW s, NEW r, NEW now, NEW t,
           r.txStore[t] = s.txStore[t],
           r.peerObservations[t] = s.peerObservations[t],
           r.proofStore[t] = s.proofStore[t]
    PROVE  computeConfidence(r, now, t) = computeConfidence(s, now, t)
BY DEF computeConfidence, propagationScore, timeStability, neighborhood,
       proofWeight, supporting

(* Confidence never falls as the clock advances and nothing else changes. *)
LEMMA ConfidenceMonotone ==
    ASSUME NEW s, IsNodeState(s), NEW t \in Stored(s),
           NEW a \in Nat, NEW b \in Nat, a <= b
    PROVE  /\ computeConfidence(s, a, t) \in Int
           /\ computeConfidence(s, b, t) \in Int
           /\ computeConfidence(s, a, t) <= computeConfidence(s, b, t)
<1>1. t \in TxIDs /\ s.txStore[t].firstSeen \in Nat
  BY DEF IsNodeState, IsMap, TxRecord, Stored
<1> DEFINE P == propagationScore(s, t)
           N == neighborhood(s, t)
           A == timeStability(s, a, t)
           B == timeStability(s, b, t)
<1>2. P \in Int /\ N \in Int
  BY <1>1, PropagationType, NeighborhoodType
<1>3. A \in Int /\ B \in Int /\ A <= B
  BY <1>1, TimeStabilityFacts
<1>4. /\ computeConfidence(s, a, t) = 30 * P + 35 * A + 35 * N
      /\ computeConfidence(s, b, t) = 30 * P + 35 * B + 35 * N
  BY DEF computeConfidence, confidencePropagation, confidenceTime, confidenceProof
<1> HIDE DEF P, N, A, B
<1> QED BY <1>2, <1>3, <1>4

(* The proof term grows with the weight of the proofs and stays below Scale. *)
LEMMA QuotientFacts ==
    ASSUME NEW w \in Nat, NEW x \in Nat, w <= x
    PROVE  /\ (w * Scale) \div (w + 10) \in Int
           /\ (w * Scale) \div (w + 10) <= (x * Scale) \div (x + 10)
           /\ (w * Scale) \div (w + 10) < Scale
<1> DEFINE a == (w * Scale) \div (w + 10)
           b == (x * Scale) \div (x + 10)
<1>1. Scale \in Nat /\ Scale > 0
  BY DEF Scale
<1>2. /\ w * Scale \in Int /\ x * Scale \in Int
      /\ w + 10 \in Nat \ {0} /\ x + 10 \in Nat \ {0}
  BY <1>1
<1>3. a \in Int /\ b \in Int
  BY <1>2, DivFacts
<1>4. (w + 10) * a <= w * Scale /\ x * Scale < (x + 10) * b + (x + 10)
  BY <1>2, DivFacts
<1> HIDE DEF a, b
<1>5. a < Scale
  <2> SUFFICES ASSUME Scale <= a PROVE FALSE
    BY <1>1, <1>3
  <2>1. (w + 10) * Scale <= (w + 10) * a
    BY <1>1, <1>3
  <2>2. (w + 10) * Scale = w * Scale + 10 * Scale
    BY <1>1
  <2> QED BY <1>1, <1>2, <1>3, <1>4, <2>1, <2>2
<1>6. a <= b
  <2> SUFFICES ASSUME b + 1 <= a PROVE FALSE
    BY <1>3
  <2> DEFINE d == x - w
  <2>1. d \in Nat /\ x = w + d
    OBVIOUS
  <2>2. (x + 10) * (b + 1) <= (x + 10) * a
    BY <1>3
  <2>3. (x + 10) * a = (w + 10) * a + d * a
    BY <1>3, <2>1
  <2>4. d * a <= d * Scale
    BY <1>1, <1>3, <1>5, <2>1
  <2>5. x * Scale = w * Scale + d * Scale
    BY <1>1, <2>1
  <2>6. (x + 10) * (b + 1) = (x + 10) * b + (x + 10)
    BY <1>3
  <2>7. /\ d * a \in Int /\ d * Scale \in Int /\ (w + 10) * a \in Int
        /\ (x + 10) * b \in Int /\ (x + 10) * a \in Int
    BY <1>1, <1>3, <2>1
  <2> HIDE DEF d
  <2> QED BY <1>2, <1>4, <2>2, <2>3, <2>4, <2>5, <2>6, <2>7
<1> QED BY <1>3, <1>5, <1>6 DEF a, b

(* The weight of the proofs is a number, and is 0 when no proof supports. *)
LEMMA ProofWeightFacts ==
    ASSUME NEW s, IsNodeState(s), NEW t \in TxIDs
    PROVE  /\ proofWeight(s, t) \in Nat
           /\ \A D : /\ IsFiniteSet(supporting(s, t, D))
                     /\ Cardinality(supporting(s, t, D)) \in Nat
           /\ supporting(s, t, Distances) = {} => proofWeight(s, t) = 0
<1>1. DOMAIN s.proofStore[t] \in SUBSET PeerIDs
  BY DEF IsNodeState, IsMap
<1>2. ASSUME NEW D PROVE /\ IsFiniteSet(supporting(s, t, D))
                         /\ Cardinality(supporting(s, t, D)) \in Nat
  <2>1. supporting(s, t, D) \in SUBSET PeerIDs
    BY <1>1 DEF supporting
  <2> QED BY <2>1, PeersFinite, FS_Subset, FS_CardinalityType
<1>3. proofWeight(s, t) \in Nat
  BY <1>2 DEF proofWeight
<1>4. ASSUME supporting(s, t, Distances) = {} PROVE proofWeight(s, t) = 0
  <2>1. \A p \in DOMAIN s.proofStore[t] : s.proofStore[t][p].distance \in Distances
    BY DEF IsNodeState, IsMap, ProofRecord
  <2>2. ASSUME NEW D PROVE supporting(s, t, D) = {}
    BY <1>4, <2>1 DEF supporting
  <2>3. ASSUME NEW D PROVE Cardinality(supporting(s, t, D)) = 0
    BY <2>2, FS_EmptySet
  <2> QED BY <2>3 DEF proofWeight
<1> QED BY <1>2, <1>3, <1>4

(* More observers and more proofs never lower a confidence. *)
LEMMA ConfidenceGrows ==
    ASSUME NEW s, IsNodeState(s), NEW r, IsNodeState(r), NEW now \in Nat,
           NEW t \in Stored(s), r.txStore[t] = s.txStore[t],
           s.peerObservations[t] \subseteq r.peerObservations[t],
           DOMAIN s.proofStore[t] \subseteq DOMAIN r.proofStore[t],
           \A p \in DOMAIN s.proofStore[t] : r.proofStore[t][p] = s.proofStore[t][p]
    PROVE  /\ computeConfidence(s, now, t) \in Int
           /\ computeConfidence(r, now, t) \in Int
           /\ computeConfidence(s, now, t) <= computeConfidence(r, now, t)
<1>1. t \in TxIDs /\ s.txStore[t].firstSeen \in Nat
  BY DEF IsNodeState, IsMap, TxRecord, Stored
<1>2. propagationScore(s, t) <= propagationScore(r, t)
  <2> DEFINE S == s.peerObservations[t]
             R == r.peerObservations[t]
  <2>1. S \subseteq R /\ R \subseteq PeerIDs
    BY <1>1 DEF IsNodeState
  <2> HIDE DEF S, R
  <2>2. IsFiniteSet(R) /\ Cardinality(R) <= Cardinality(PeerIDs)
    BY <2>1, PeersFinite, FS_Subset
  <2>3. IsFiniteSet(S) /\ Cardinality(S) <= Cardinality(R)
    BY <2>1, <2>2, FS_Subset
  <2>4. Cardinality(S) \in Nat /\ Cardinality(R) \in Nat /\ Cardinality(PeerIDs) \in Nat
    BY <2>2, <2>3, PeersFinite, FS_CardinalityType
  <2>5. LogCount[Cardinality(S)] <= LogCount[Cardinality(R)]
    BY <2>2, <2>3, <2>4, ScoreAssumption
  <2> QED BY <2>5 DEF propagationScore, S, R
<1>3. neighborhood(s, t) <= neighborhood(r, t)
  <2>1. ASSUME NEW D PROVE /\ Cardinality(supporting(s, t, D)) \in Nat
                           /\ Cardinality(supporting(r, t, D)) \in Nat
                           /\ Cardinality(supporting(s, t, D)) <= Cardinality(supporting(r, t, D))
    <3>1. supporting(s, t, D) \subseteq supporting(r, t, D)
      BY DEF supporting
    <3>2. IsFiniteSet(supporting(r, t, D))
      BY <1>1, ProofWeightFacts
    <3> QED BY <1>1, <3>1, <3>2, FS_Subset, ProofWeightFacts
  <2>2. proofWeight(s, t) \in Nat /\ proofWeight(r, t) \in Nat
    BY <1>1, ProofWeightFacts
  <2>3. proofWeight(s, t) <= proofWeight(r, t)
    BY <2>1 DEF proofWeight
  <2> QED BY <2>2, <2>3, QuotientFacts DEF neighborhood
<1>4. timeStability(s, now, t) = timeStability(r, now, t)
  BY DEF timeStability
<1> DEFINE P == propagationScore(s, t)
           N == neighborhood(s, t)
           T == timeStability(s, now, t)
           PR == propagationScore(r, t)
           NR == neighborhood(r, t)
<1>5. P \in Int /\ N \in Int /\ PR \in Int /\ NR \in Int
  BY <1>1, PropagationType, NeighborhoodType
<1>6. T \in Int
  BY <1>1, TimeStabilityFacts
<1>7. /\ computeConfidence(s, now, t) = 30 * P + 35 * T + 35 * N
      /\ computeConfidence(r, now, t) = 30 * PR + 35 * T + 35 * NR
  BY <1>4 DEF computeConfidence, confidencePropagation, confidenceTime, confidenceProof
<1> HIDE DEF P, N, T, PR, NR
<1> QED BY <1>2, <1>3, <1>5, <1>6, <1>7 DEF P, PR, N, NR

(* finalityThreshold is a number in every tier. *)
LEMMA ThresholdType == \A t : finalityThreshold(t) \in Int
BY DEF finalityThreshold, thresholdSmall, thresholdMedium, thresholdLarge, Scale

----------------------------------------------------------------------------
(* The invariant of a node.                                                *)

\* Every selection of an input outside V, and every finality entry of a stored
\* transfer outside U, is current.
CurrentExcept(s, now, V, U) ==
    /\ DOMAIN s.selectedLineage \subseteq {v \in ValueIDs : s.conflictSets[v] # {}}
    /\ \A v \in ValueIDs \ V :
          /\ s.conflictSets[v] # {} => v \in DOMAIN s.selectedLineage
          /\ v \in DOMAIN s.selectedLineage =>
                /\ s.selectedLineage[v].tx \in s.conflictSets[v]
                /\ s.selectedLineage[v].tx
                     = selectBest(s, s.selectedLineage[v].updatedAt, v).tx
                /\ s.selectedLineage[v].score
                     = selectBest(s, s.selectedLineage[v].updatedAt, v).score
                /\ s.selectedLineage[v].updatedAt <= now
    /\ DOMAIN s.finalityState \subseteq Stored(s)
    /\ \A t \in Stored(s) \ U :
          /\ t \in DOMAIN s.finalityState
          /\ s.finalityState[t].status # "PENDING" <=> selectedOnAllInputs(s, t)
          /\ s.finalityState[t].score = lineageScore(s, t)
          /\ s.finalityState[t].status = "FINAL" =>
                computeConfidence(s, now, t) >= finalityThreshold(t)

StoresOK(s) == IsNodeState(s) /\ FiniteConflicts(s) /\ ConflictSetsExactIn(s)

NodeInv(s, now) == StoresOK(s) /\ CurrentExcept(s, now, {}, {})

Disturbed(s, now, t) ==
    /\ StoresOK(s)
    /\ t \in Stored(s)
    /\ CurrentExcept(s, now, Inputs(t), contenders(s, t))

(* The node invariant contains what a node promises. *)
LEMMA NodeInvImplies ==
    ASSUME NEW s, NEW now, NodeInv(s, now)
    PROVE  /\ IsNodeState(s)
           /\ ConflictSetsExactIn(s)
           /\ SelectionReproducibleIn(s, now)
           /\ FinalityMatchesSelectionIn(s)
           /\ FinalJustifiedIn(s, now)
<1>1. IsNodeState(s) /\ ConflictSetsExactIn(s)
  BY DEF NodeInv, StoresOK
<1>2. SelectionReproducibleIn(s, now)
  BY DEF NodeInv, CurrentExcept, SelectionReproducibleIn
<1>3. FinalityMatchesSelectionIn(s)
  BY DEF NodeInv, CurrentExcept, FinalityMatchesSelectionIn
<1>4. FinalJustifiedIn(s, now)
  BY DEF NodeInv, CurrentExcept, FinalJustifiedIn
<1> QED BY <1>1, <1>2, <1>3, <1>4

(* The inputs of a transfer are value IDs, at the positions 1 to their number. *)
LEMMA InputsType ==
    ASSUME NEW t \in TxIDs
    PROVE  /\ Inputs(t) \subseteq ValueIDs
           /\ TxInputs[t] \in Seq(ValueIDs)
           /\ DOMAIN TxInputs[t] = 1..Len(TxInputs[t])
           /\ \A i \in DOMAIN TxInputs[t] : TxInputs[t][i] \in Inputs(t)
<1>1. TxInputs[t] \in Seq(ValueIDs)
  BY TransferAssumption
<1> QED BY <1>1 DEF Inputs, Range

(* Two transfers selected on all their inputs share none of them. *)
LEMMA SelectionExcludes ==
    ASSUME NEW s, NEW now, NodeInv(s, now)
    PROVE  NoDoubleSelectionIn(s)
<1> SUFFICES ASSUME NEW t \in Stored(s), NEW u \in Stored(s), t # u,
                    NEW v \in Inputs(t) \cap Inputs(u),
                    s.finalityState[t].status # "PENDING",
                    s.finalityState[u].status # "PENDING"
             PROVE  FALSE
  BY DEF NoDoubleSelectionIn
<1>1. lostInputs(s, t) = {} /\ lostInputs(s, u) = {}
  BY DEF NodeInv, CurrentExcept, selectedOnAllInputs
<1>2. s.selectedLineage[v].tx = t
  BY <1>1 DEF Inputs, Range, lostInputs
<1>3. s.selectedLineage[v].tx = u
  BY <1>1 DEF Inputs, Range, lostInputs
<1> QED BY <1>2, <1>3

(* The walk over the inputs ends at one of them, or before the first. *)
LEMMA WalkEnd ==
    ASSUME NEW s, NEW t \in TxIDs
    PROVE  LET lost == lostInputs(s, t)
               n == IF lost = {} THEN Len(TxInputs[t])
                    ELSE (CHOOSE i \in lost : \A j \in lost : i <= j) - 1
           IN  n = 0 \/ n \in DOMAIN TxInputs[t]
<1> DEFINE lost == lostInputs(s, t)
           R == {p \in Int \X Int : p[1] < p[2]}
<1>1. DOMAIN TxInputs[t] = 1..Len(TxInputs[t]) /\ Len(TxInputs[t]) \in Nat
  BY InputsType
<1>2. lost \in SUBSET (1..Len(TxInputs[t]))
  BY <1>1 DEF lostInputs
<1>3. CASE lost = {}
  BY <1>1, <1>3
<1>4. CASE lost # {}
  <2> HIDE DEF lost
  <2>1. IsFiniteSet(lost)
    <3>1. IsFiniteSet(1..Len(TxInputs[t]))
      BY <1>1, FS_Interval
    <3> QED BY <1>2, <3>1, FS_Subset
  <2>2. \A x, y \in lost : x # y => <<x, y>> \in R \/ <<y, x>> \in R
    BY <1>1, <1>2
  <2>3. \A x, y, z \in lost : <<x, y>> \in R /\ <<y, z>> \in R => <<x, z>> \in R
    BY <1>1, <1>2
  <2>4. \E m \in lost : \A y \in lost \ {m} : <<m, y>> \in R
    <3> HIDE DEF R
    <3>1. Orders(R, lost)
      BY <2>2, <2>3 DEF Orders
    <3> QED BY <1>4, <2>1, <3>1, FiniteMaximum
  <2>5. \E m \in lost : \A y \in lost : m <= y
    <3>1. PICK m \in lost : \A y \in lost \ {m} : <<m, y>> \in R
      BY <2>4
    <3>2. \A y \in lost \ {m} : m < y
      BY <3>1
    <3>3. \A y \in lost : y \in Int
      BY <1>1, <1>2
    <3>4. \A y \in lost : m <= y
      BY <3>2, <3>3
    <3> QED BY <3>4
  <2>6. (CHOOSE i \in lost : \A j \in lost : i <= j) \in lost
    BY <2>5
  <2> QED BY <1>1, <1>2, <1>4, <2>6, SMTT(30) DEF lost
<1> QED BY <1>3, <1>4

(* The finality of a transfer depends on the lineage of its own inputs. *)
LEMMA FinalityFrame ==
    ASSUME NEW s, NEW r, NEW t \in TxIDs,
           \A v \in Inputs(t) :
              /\ v \in DOMAIN r.selectedLineage <=> v \in DOMAIN s.selectedLineage
              /\ r.selectedLineage[v] = s.selectedLineage[v]
    PROVE  /\ selectedOnAllInputs(r, t) <=> selectedOnAllInputs(s, t)
           /\ lineageScore(r, t) = lineageScore(s, t)
<1>1. \A i \in DOMAIN TxInputs[t] : TxInputs[t][i] \in Inputs(t)
  BY InputsType
<1>2. lostInputs(r, t) = lostInputs(s, t)
  BY <1>1 DEF lostInputs
<1> DEFINE lost == lostInputs(s, t)
           n == IF lost = {} THEN Len(TxInputs[t])
                ELSE (CHOOSE i \in lost : \A j \in lost : i <= j) - 1
<1>3. n = 0 \/ n \in DOMAIN TxInputs[t]
  BY WalkEnd
<1>4. /\ lineageScore(s, t)
           = IF n = 0 THEN 0 ELSE s.selectedLineage[TxInputs[t][n]].score
      /\ lineageScore(r, t)
           = IF n = 0 THEN 0 ELSE r.selectedLineage[TxInputs[t][n]].score
  BY <1>2 DEF lineageScore
<1> HIDE DEF n
<1>5. lineageScore(r, t) = lineageScore(s, t)
  BY <1>1, <1>3, <1>4
<1> QED BY <1>2, <1>5 DEF selectedOnAllInputs

(* The score updateFinalityForTransfer copies from the lineage is a number once
   all inputs of the transfer have a selection. *)
LEMMA LineageScoreType ==
    ASSUME NEW s, IsNodeState(s), NEW t \in TxIDs,
           Inputs(t) \subseteq DOMAIN s.selectedLineage
    PROVE  lineageScore(s, t) \in Int
<1> DEFINE lost == lostInputs(s, t)
           n == IF lost = {} THEN Len(TxInputs[t])
                ELSE (CHOOSE i \in lost : \A j \in lost : i <= j) - 1
<1>1. n = 0 \/ n \in DOMAIN TxInputs[t]
  BY WalkEnd
<1>2. lineageScore(s, t)
        = IF n = 0 THEN 0 ELSE s.selectedLineage[TxInputs[t][n]].score
  BY DEF lineageScore
<1> HIDE DEF n
<1>3. n # 0 => TxInputs[t][n] \in DOMAIN s.selectedLineage
  BY <1>1, InputsType
<1> QED BY <1>2, <1>3 DEF IsNodeState, IsMap, SelectedLineage

----------------------------------------------------------------------------
(* Recomputing the selection.                                              *)

\* r agrees with s on everything that scores and confidences read.
SameEvidence(r, s) ==
    /\ DOMAIN r = DOMAIN s
    /\ r.txStore = s.txStore
    /\ r.conflictSets = s.conflictSets
    /\ r.peerObservations = s.peerObservations
    /\ r.proofStore = s.proofStore

(* Selection, confidence and contenders depend on the evidence only: operations
   that leave the transfer, conflict, observation and proof stores alone
   leave them alone too. *)
LEMMA EvidenceFrame ==
    ASSUME NEW r, NEW s, SameEvidence(r, s)
    PROVE  /\ \A now, v : selectBest(r, now, v) = selectBest(s, now, v)
           /\ \A now, t : computeConfidence(r, now, t) = computeConfidence(s, now, t)
           /\ \A t : contenders(r, t) = contenders(s, t)
           /\ Stored(r) = Stored(s)
           /\ FiniteConflicts(s) => FiniteConflicts(r)
           /\ ConflictSetsExactIn(s) => ConflictSetsExactIn(r)
<1>1. \A now, v : selectBest(r, now, v) = selectBest(s, now, v)
  BY SelectBestFrame DEF SameEvidence
<1>2. \A now, t : computeConfidence(r, now, t) = computeConfidence(s, now, t)
  BY ConfidenceFrame DEF SameEvidence
<1>3. \A t : contenders(r, t) = contenders(s, t)
  BY DEF SameEvidence, contenders
<1> QED BY <1>1, <1>2, <1>3
        DEF SameEvidence, Stored, FiniteConflicts, ConflictSetsExactIn

\* What recomputing the inputs of t does to the selections.
SelectionStep(r, s, now, t) ==
    /\ IsNodeState(r)
    /\ SameEvidence(r, s)
    /\ r.finalityState = s.finalityState
    /\ r.valueStore = s.valueStore
    /\ r.consumed = s.consumed
    /\ DOMAIN r.selectedLineage = DOMAIN s.selectedLineage \cup Inputs(t)
    /\ \A v \in Inputs(t) :
          /\ s.conflictSets[v] # {}
          /\ selectBest(s, now, v).tx \in s.conflictSets[v]
          /\ r.selectedLineage[v] = [tx        |-> selectBest(s, now, v).tx,
                                     score     |-> selectBest(s, now, v).score,
                                     updatedAt |-> now]
    /\ \A v \in DOMAIN s.selectedLineage \ Inputs(t) :
          r.selectedLineage[v] = s.selectedLineage[v]

(* What recomputeSelectionForInput has written once all inputs of t are done:
   their lineage entries are new, all other entries are as before. *)
LEMMA SelectionStepFacts ==
    ASSUME NEW s, NEW now \in Nat, NEW t, Disturbed(s, now, t)
    PROVE  SelectionStep(recomputeSelectionForInputs(s, now, Inputs(t)), s, now, t)
<1> DEFINE r == recomputeSelectionForInputs(s, now, Inputs(t))
           new(v) == [tx |-> selectBest(s, now, v).tx,
                      score |-> selectBest(s, now, v).score, updatedAt |-> now]
           lin == [v \in DOMAIN s.selectedLineage \cup Inputs(t) |->
                     IF v \in Inputs(t) THEN new(v) ELSE s.selectedLineage[v]]
<1>1. IsNodeState(s) /\ FiniteConflicts(s) /\ ConflictSetsExactIn(s) /\ t \in Stored(s)
  BY DEF Disturbed, StoresOK
<1>2. t \in TxIDs
  BY <1>1 DEF IsNodeState, IsMap, Stored
<1>3. Inputs(t) \subseteq ValueIDs
  BY <1>2, InputsType
<1>4. \A v \in Inputs(t) : s.conflictSets[v] # {} /\ s.conflictSets[v] \subseteq Stored(s)
  BY <1>1, <1>3 DEF ConflictSetsExactIn
<1>5. \A v \in Inputs(t) : /\ selectBest(s, now, v) \in ScoreBreakdown
                           /\ selectBest(s, now, v).tx \in s.conflictSets[v]
  BY <1>1, <1>3, <1>4, SelectBestFacts
<1>6. r = [s EXCEPT !.selectedLineage = lin]
  BY DEF recomputeSelectionForInputs
<1>7. \A v \in Inputs(t) : new(v) \in SelectedLineage
  BY <1>5 DEF ScoreBreakdown, SelectedLineage
<1> HIDE DEF r, new
<1>8. IsMap(lin, ValueIDs, SelectedLineage)
  <2>1. \A v \in DOMAIN s.selectedLineage : s.selectedLineage[v] \in SelectedLineage
    BY <1>1 DEF IsNodeState, IsMap
  <2>2. DOMAIN s.selectedLineage \subseteq ValueIDs
    BY <1>1 DEF IsNodeState, IsMap
  <2> QED BY <2>1, <2>2, <1>3, <1>7 DEF IsMap
<1>9. /\ DOMAIN r = DOMAIN s /\ r.selectedLineage = lin
      /\ r.txStore = s.txStore /\ r.valueStore = s.valueStore
      /\ r.conflictSets = s.conflictSets /\ r.finalityState = s.finalityState
      /\ r.peerObservations = s.peerObservations /\ r.proofStore = s.proofStore
      /\ r.replayCache = s.replayCache /\ r.consumed = s.consumed
      /\ r.peers = s.peers /\ r.arrivalSeq = s.arrivalSeq
  <2> HIDE DEF lin
  <2> QED BY <1>1, <1>6 DEF IsNodeState
<1>10. IsNodeState(r)
  <2> HIDE DEF lin
  <2> QED BY <1>1, <1>8, <1>9 DEF IsNodeState
<1>11. SameEvidence(r, s)
  BY <1>9 DEF SameEvidence
<1>12. /\ DOMAIN lin = DOMAIN s.selectedLineage \cup Inputs(t)
       /\ \A v \in Inputs(t) : lin[v] = new(v)
       /\ \A v \in DOMAIN s.selectedLineage \ Inputs(t) : lin[v] = s.selectedLineage[v]
  OBVIOUS
<1> HIDE DEF lin
<1> QED BY <1>4, <1>5, <1>9, <1>10, <1>11, <1>12 DEF r, new, SelectionStep

\* r is s with the inputs of t decided anew: other selections and the finality of
\* transfers that do not contend with t stay, the contenders are FINAL if they
\* deserve it.
Decided(r, s, now, t) ==
    /\ DOMAIN r.selectedLineage = DOMAIN s.selectedLineage \cup Inputs(t)
    /\ \A v \in DOMAIN s.selectedLineage \ Inputs(t) :
          r.selectedLineage[v] = s.selectedLineage[v]
    /\ \A u \in DOMAIN s.finalityState \ contenders(r, t) :
          r.finalityState[u] = s.finalityState[u]
    /\ \A u \in contenders(r, t) :
          /\ selectedOnAllInputs(r, u)
          /\ computeConfidence(r, now, u) >= finalityThreshold(u)
          => r.finalityState[u].status = "FINAL"

(* recomputeSelectionForTransfer restores the invariant after a change that
   concerns transfer t, and touches the selection of t's inputs and the
   finality of their contenders only. *)
LEMMA RecomputeRepairs ==
    ASSUME NEW s, NEW now \in Nat, NEW t, Disturbed(s, now, t)
    PROVE  LET r == recomputeSelectionForTransfer(s, now, t)
           IN  /\ NodeInv(r, now)
               /\ Decided(r, s, now, t)
               /\ SameEvidence(r, s)
               /\ r.valueStore = s.valueStore
               /\ r.consumed = s.consumed
<1> DEFINE I == Inputs(t)
           C == contenders(s, t)
           s1 == recomputeSelectionForInputs(s, now, I)
           s2 == recomputeSelectionForTransfer(s, now, t)
           fin == [u \in DOMAIN s1.finalityState \cup C |->
                     IF u \in C THEN finalityOf(s1, now, u) ELSE s1.finalityState[u]]
<1>1. IsNodeState(s) /\ FiniteConflicts(s) /\ ConflictSetsExactIn(s) /\ t \in Stored(s)
  BY DEF Disturbed, StoresOK
<1>2. CurrentExcept(s, now, I, C)
  BY DEF Disturbed
<1>0. SelectionStep(s1, s, now, t)
  BY SelectionStepFacts
<1>3. /\ IsNodeState(s1)
      /\ SameEvidence(s1, s)
      /\ s1.finalityState = s.finalityState
      /\ s1.valueStore = s.valueStore
      /\ s1.consumed = s.consumed
      /\ DOMAIN s1.selectedLineage = DOMAIN s.selectedLineage \cup I
      /\ \A v \in I : s1.selectedLineage[v] = [tx        |-> selectBest(s, now, v).tx,
                                               score     |-> selectBest(s, now, v).score,
                                               updatedAt |-> now]
      /\ \A v \in DOMAIN s.selectedLineage \ I :
            s1.selectedLineage[v] = s.selectedLineage[v]
      /\ \A v \in I : /\ selectBest(s, now, v).tx \in s.conflictSets[v]
                      /\ s.conflictSets[v] # {}
  <2> HIDE DEF s1
  <2> QED BY <1>0 DEF SelectionStep
<1>4. s2 = [s1 EXCEPT !.finalityState = fin]
  BY DEF recomputeSelectionForTransfer, updateFinality
<1> HIDE DEF s1, s2
<1>5. /\ DOMAIN s2 = DOMAIN s1 /\ s2.finalityState = fin
      /\ s2.txStore = s1.txStore /\ s2.valueStore = s1.valueStore
      /\ s2.conflictSets = s1.conflictSets
      /\ s2.selectedLineage = s1.selectedLineage
      /\ s2.peerObservations = s1.peerObservations
      /\ s2.proofStore = s1.proofStore
      /\ s2.replayCache = s1.replayCache /\ s2.consumed = s1.consumed
      /\ s2.peers = s1.peers /\ s2.arrivalSeq = s1.arrivalSeq
  <2> HIDE DEF fin
  <2> QED BY <1>3, <1>4 DEF IsNodeState
<1>6. SameEvidence(s2, s) /\ Stored(s1) = Stored(s) /\ Stored(s2) = Stored(s)
  <2> HIDE DEF fin
  <2> QED BY <1>3, <1>5 DEF SameEvidence, Stored
<1>7. t \in TxIDs /\ I \subseteq ValueIDs /\ Stored(s) \subseteq TxIDs
  <2>1. Stored(s) \subseteq TxIDs
    BY <1>1 DEF IsNodeState, IsMap, Stored
  <2> QED BY <1>1, <2>1, InputsType
<1>8. C \subseteq Stored(s)
  BY <1>1, <1>7 DEF ConflictSetsExactIn, contenders
<1>9. ASSUME NEW u \in Stored(s) PROVE Inputs(u) \subseteq DOMAIN s1.selectedLineage
  <2> SUFFICES ASSUME NEW v \in Inputs(u) PROVE v \in DOMAIN s1.selectedLineage
    OBVIOUS
  <2>1. v \in ValueIDs /\ u \in s.conflictSets[v]
    BY <1>1, <1>7, InputsType DEF ConflictSetsExactIn
  <2>2. v \in I \/ v \in DOMAIN s.selectedLineage
    BY <1>2, <2>1 DEF CurrentExcept
  <2> QED BY <1>3, <2>2
<1>10. ASSUME NEW u \in C PROVE finalityOf(s1, now, u) \in FinalityState
  <2>1. u \in TxIDs /\ u \in Stored(s1)
    BY <1>6, <1>7, <1>8
  <2>2. lineageScore(s1, u) \in Int
    BY <1>3, <1>6, <1>9, <2>1, LineageScoreType
  <2>3. computeConfidence(s1, now, u) \in Int
    BY <1>3, <2>1, ConfidenceMonotone
  <2> QED BY <2>2, <2>3 DEF finalityOf, FinalityState
<1>11. IsNodeState(s2)
  <2>1. IsMap(fin, TxIDs, FinalityState)
    <3>1. IsMap(s1.finalityState, TxIDs, FinalityState)
      BY <1>3 DEF IsNodeState
    <3>2. C \subseteq TxIDs
      BY <1>7, <1>8
    <3> HIDE DEF C
    <3> QED BY <3>1, <3>2, <1>10 DEF IsMap
  <2> HIDE DEF fin
  <2> QED BY <1>3, <1>5, <2>1 DEF IsNodeState
<1>12. StoresOK(s2)
  BY <1>1, <1>6, <1>11, EvidenceFrame DEF StoresOK
<1>13. \A u \in Stored(s) : /\ selectedOnAllInputs(s2, u) <=> selectedOnAllInputs(s1, u)
                            /\ lineageScore(s2, u) = lineageScore(s1, u)
  <2> HIDE DEF fin
  <2> QED BY <1>5, <1>7, FinalityFrame
<1>14. ASSUME NEW u \in Stored(s) \ C
       PROVE  /\ selectedOnAllInputs(s1, u) <=> selectedOnAllInputs(s, u)
              /\ lineageScore(s1, u) = lineageScore(s, u)
  <2>1. Inputs(u) \cap I = {} /\ u \in TxIDs
    BY <1>1, <1>7 DEF ConflictSetsExactIn, contenders
  <2>2. Inputs(u) \subseteq DOMAIN s1.selectedLineage
    BY <1>9
  <2>3. \A v \in Inputs(u) :
           /\ v \in DOMAIN s1.selectedLineage <=> v \in DOMAIN s.selectedLineage
           /\ s1.selectedLineage[v] = s.selectedLineage[v]
    BY <1>3, <2>1, <2>2
  <2> QED BY <2>1, <2>3, FinalityFrame
<1>15. \A n, v : selectBest(s2, n, v) = selectBest(s, n, v)
  BY <1>6, EvidenceFrame
<1>16. \A n, u : /\ computeConfidence(s2, n, u) = computeConfidence(s, n, u)
                 /\ computeConfidence(s1, n, u) = computeConfidence(s, n, u)
  BY <1>3, <1>6, EvidenceFrame
<1>17. DOMAIN s2.selectedLineage \subseteq {v \in ValueIDs : s2.conflictSets[v] # {}}
  <2> HIDE DEF fin
  <2> QED BY <1>2, <1>3, <1>5, <1>6, <1>7 DEF CurrentExcept, SameEvidence
<1>18. ASSUME NEW v \in ValueIDs
       PROVE  /\ s2.conflictSets[v] # {} => v \in DOMAIN s2.selectedLineage
              /\ v \in DOMAIN s2.selectedLineage =>
                   /\ s2.selectedLineage[v].tx \in s2.conflictSets[v]
                   /\ s2.selectedLineage[v].tx
                        = selectBest(s2, s2.selectedLineage[v].updatedAt, v).tx
                   /\ s2.selectedLineage[v].score
                        = selectBest(s2, s2.selectedLineage[v].updatedAt, v).score
                   /\ s2.selectedLineage[v].updatedAt <= now
  <2> HIDE DEF fin
  <2>1. s2.conflictSets = s.conflictSets /\ s2.selectedLineage = s1.selectedLineage
    BY <1>5, <1>6 DEF SameEvidence
  <2>2. CASE v \in I
    <3> DEFINE best == selectBest(s, now, v)
    <3>1. s1.selectedLineage[v] = [tx |-> best.tx, score |-> best.score,
                                   updatedAt |-> now]
      BY <1>3, <2>2
    <3>2. /\ v \in DOMAIN s1.selectedLineage
          /\ best.tx \in s.conflictSets[v]
          /\ selectBest(s2, now, v) = best
      BY <1>3, <1>15, <2>2
    <3> HIDE DEF best
    <3> QED BY <2>1, <3>1, <3>2
  <2>3. CASE v \notin I
    <3>1. v \in DOMAIN s1.selectedLineage <=> v \in DOMAIN s.selectedLineage
      BY <1>3, <2>3
    <3>2. v \in DOMAIN s.selectedLineage => s1.selectedLineage[v] = s.selectedLineage[v]
      BY <1>3, <2>3
    <3> QED BY <1>2, <1>15, <2>1, <2>3, <3>1, <3>2 DEF CurrentExcept
  <2> QED BY <2>2, <2>3
<1>19. DOMAIN s2.finalityState \subseteq Stored(s2)
  BY <1>2, <1>3, <1>5, <1>6, <1>8 DEF CurrentExcept
<1>20. ASSUME NEW u \in Stored(s2)
       PROVE  /\ u \in DOMAIN s2.finalityState
              /\ s2.finalityState[u].status # "PENDING" <=> selectedOnAllInputs(s2, u)
              /\ s2.finalityState[u].score = lineageScore(s2, u)
              /\ s2.finalityState[u].status = "FINAL" =>
                    computeConfidence(s2, now, u) >= finalityThreshold(u)
  <2>1. u \in Stored(s) /\ u \in TxIDs
    BY <1>6, <1>7
  <2>2. CASE u \in C
    <3>1. u \in DOMAIN s2.finalityState /\ s2.finalityState[u] = finalityOf(s1, now, u)
      BY <1>5, <2>2
    <3>2. computeConfidence(s1, now, u) \in Int /\ finalityThreshold(u) \in Int
      BY <1>3, <1>6, <2>1, ConfidenceMonotone, ThresholdType
    <3>3. /\ finalityOf(s1, now, u).status # "PENDING" <=> selectedOnAllInputs(s1, u)
          /\ finalityOf(s1, now, u).score = lineageScore(s1, u)
          /\ finalityOf(s1, now, u).status = "FINAL" =>
                computeConfidence(s1, now, u) >= finalityThreshold(u)
      BY <3>2 DEF finalityOf
    <3> QED BY <3>1, <3>3, <1>13, <1>16, <2>1
  <2>3. CASE u \notin C
    <3>1. /\ u \in DOMAIN s.finalityState
          /\ s.finalityState[u].status # "PENDING" <=> selectedOnAllInputs(s, u)
          /\ s.finalityState[u].score = lineageScore(s, u)
          /\ s.finalityState[u].status = "FINAL" =>
                computeConfidence(s, now, u) >= finalityThreshold(u)
      BY <1>2, <2>1, <2>3 DEF CurrentExcept
    <3>2. u \in DOMAIN s2.finalityState /\ s2.finalityState[u] = s.finalityState[u]
      BY <1>3, <1>5, <2>3, <3>1
    <3> QED BY <3>1, <3>2, <1>13, <1>14, <1>16, <2>1, <2>3
  <2> QED BY <2>2, <2>3
<1>21. CurrentExcept(s2, now, {}, {})
  BY <1>17, <1>18, <1>19, <1>20 DEF CurrentExcept
<1>22. Decided(s2, s, now, t)
  <2>1. \A u \in DOMAIN s.finalityState \ C : s2.finalityState[u] = s.finalityState[u]
    <3> HIDE DEF C
    <3> QED BY <1>3, <1>5
  <2>2. ASSUME NEW u \in C, selectedOnAllInputs(s2, u),
               computeConfidence(s2, now, u) >= finalityThreshold(u)
        PROVE  s2.finalityState[u].status = "FINAL"
    <3>1. s2.finalityState[u] = finalityOf(s1, now, u)
      BY <1>5
    <3>2. u \in Stored(s) /\ u \in TxIDs
      BY <1>7, <1>8
    <3>3. computeConfidence(s1, now, u) \in Int /\ finalityThreshold(u) \in Int
      BY <1>3, <3>2, ConfidenceMonotone, ThresholdType, <1>6
    <3>4. selectedOnAllInputs(s1, u)
      BY <1>13, <2>2, <3>2
    <3>5. computeConfidence(s1, now, u) >= finalityThreshold(u)
      BY <1>16, <2>2
    <3>6. finalityOf(s1, now, u).status = "FINAL"
      BY <3>3, <3>4, <3>5 DEF finalityOf
    <3> QED BY <3>1, <3>6
  <2>3. contenders(s2, t) = C
    BY <1>6, EvidenceFrame
  <2> HIDE DEF fin, C
  <2> QED BY <1>3, <1>5, <2>1, <2>2, <2>3 DEF Decided
<1> QED BY <1>3, <1>5, <1>6, <1>12, <1>21, <1>22 DEF NodeInv, s2

----------------------------------------------------------------------------
(* Changes of the stores.                                                  *)

\* r is s after transfer t was stored or further evidence for it arrived.
TouchesOnly(r, s, t) ==
    /\ IsNodeState(r)
    /\ Stored(r) = Stored(s) \cup {t}
    /\ \A u \in Stored(s) \ {t} :
          /\ r.txStore[u] = s.txStore[u]
          /\ r.peerObservations[u] = s.peerObservations[u]
          /\ r.proofStore[u] = s.proofStore[u]
    /\ \A v \in ValueIDs :
          r.conflictSets[v] = IF v \in Inputs(t) THEN s.conflictSets[v] \cup {t}
                              ELSE s.conflictSets[v]
    /\ r.selectedLineage = s.selectedLineage
    /\ r.finalityState = s.finalityState

(* A change of the stores that concerns transfer t alone (a new record, a new
   observer, a new proof) can leave stale only what t contends for. *)
LEMMA TouchDisturbs ==
    ASSUME NEW s, NEW now \in Nat, NodeInv(s, now), NEW t \in TxIDs,
           NEW r, TouchesOnly(r, s, t)
    PROVE  Disturbed(r, now, t)
<1>1. IsNodeState(s) /\ FiniteConflicts(s) /\ ConflictSetsExactIn(s)
      /\ CurrentExcept(s, now, {}, {})
  BY DEF NodeInv, StoresOK
<1>2. Stored(s) \subseteq TxIDs
  BY <1>1 DEF IsNodeState, IsMap, Stored
<1>3. FiniteConflicts(r)
  <2> SUFFICES ASSUME NEW v \in ValueIDs PROVE IsFiniteSet(r.conflictSets[v])
    BY DEF FiniteConflicts
  <2>1. IsFiniteSet(s.conflictSets[v])
    BY <1>1 DEF FiniteConflicts
  <2>2. IsFiniteSet(s.conflictSets[v] \cup {t})
    BY <2>1, FS_AddElement
  <2> QED BY <2>1, <2>2 DEF TouchesOnly
<1>4. ConflictSetsExactIn(r)
  <2> SUFFICES ASSUME NEW v \in ValueIDs
               PROVE  r.conflictSets[v] = {u \in Stored(r) : v \in Inputs(u)}
    BY DEF ConflictSetsExactIn
  <2>1. s.conflictSets[v] = {u \in Stored(s) : v \in Inputs(u)}
    BY <1>1 DEF ConflictSetsExactIn
  <2> QED BY <2>1 DEF TouchesOnly
<1>5. ASSUME NEW v \in ValueIDs \ Inputs(t)
      PROVE  /\ r.conflictSets[v] = s.conflictSets[v]
             /\ \A n : selectBest(r, n, v) = selectBest(s, n, v)
  <2>1. r.conflictSets[v] = s.conflictSets[v]
    BY DEF TouchesOnly
  <2>2. \A u \in s.conflictSets[v] : u \in Stored(s) \ {t}
    BY <1>1 DEF ConflictSetsExactIn
  <2>3. \A u \in s.conflictSets[v] : /\ r.txStore[u] = s.txStore[u]
                                     /\ r.peerObservations[u] = s.peerObservations[u]
                                     /\ r.proofStore[u] = s.proofStore[u]
    BY <2>2 DEF TouchesOnly
  <2> QED BY <2>1, <2>3, SelectBestFrame
<1>6. ASSUME NEW u \in Stored(r) \ contenders(r, t)
      PROVE  /\ u \in Stored(s)
             /\ selectedOnAllInputs(r, u) <=> selectedOnAllInputs(s, u)
             /\ lineageScore(r, u) = lineageScore(s, u)
             /\ computeConfidence(r, now, u) = computeConfidence(s, now, u)
  <2>1. u # t /\ u \in Stored(s) /\ u \in TxIDs
    BY <1>2 DEF contenders, TouchesOnly
  <2>2. r.selectedLineage = s.selectedLineage
    BY DEF TouchesOnly
  <2>3. selectedOnAllInputs(r, u) <=> selectedOnAllInputs(s, u)
    BY <2>2 DEF selectedOnAllInputs, lostInputs
  <2>4. lineageScore(r, u) = lineageScore(s, u)
    BY <2>1, <2>2, FinalityFrame
  <2>5. computeConfidence(r, now, u) = computeConfidence(s, now, u)
    BY <2>1, ConfidenceFrame DEF TouchesOnly
  <2> QED BY <2>1, <2>3, <2>4, <2>5
<1>7. CurrentExcept(r, now, Inputs(t), contenders(r, t))
  <2>1. r.selectedLineage = s.selectedLineage /\ r.finalityState = s.finalityState
    BY DEF TouchesOnly
  <2>2. DOMAIN r.selectedLineage \subseteq {v \in ValueIDs : r.conflictSets[v] # {}}
    BY <1>1, <2>1 DEF CurrentExcept, TouchesOnly
  <2>3. ASSUME NEW v \in ValueIDs \ Inputs(t)
        PROVE  /\ r.conflictSets[v] # {} => v \in DOMAIN r.selectedLineage
               /\ v \in DOMAIN r.selectedLineage =>
                    /\ r.selectedLineage[v].tx \in r.conflictSets[v]
                    /\ r.selectedLineage[v].tx
                         = selectBest(r, r.selectedLineage[v].updatedAt, v).tx
                    /\ r.selectedLineage[v].score
                         = selectBest(r, r.selectedLineage[v].updatedAt, v).score
                    /\ r.selectedLineage[v].updatedAt <= now
    BY <1>1, <1>5, <2>1 DEF CurrentExcept
  <2>4. DOMAIN r.finalityState \subseteq Stored(r)
    BY <1>1, <2>1 DEF CurrentExcept, TouchesOnly
  <2>5. ASSUME NEW u \in Stored(r) \ contenders(r, t)
        PROVE  /\ u \in DOMAIN r.finalityState
               /\ r.finalityState[u].status # "PENDING" <=> selectedOnAllInputs(r, u)
               /\ r.finalityState[u].score = lineageScore(r, u)
               /\ r.finalityState[u].status = "FINAL" =>
                    computeConfidence(r, now, u) >= finalityThreshold(u)
    BY <1>1, <1>6, <2>1 DEF CurrentExcept
  <2> QED BY <2>2, <2>3, <2>4, <2>5 DEF CurrentExcept
<1> QED BY <1>3, <1>4, <1>7 DEF Disturbed, StoresOK, TouchesOnly

(* The clock may advance between two operations. *)
LEMMA TimePasses ==
    ASSUME NEW s, NEW a \in Nat, NEW b \in Nat, a <= b, NodeInv(s, a)
    PROVE  NodeInv(s, b)
<1>1. IsNodeState(s) /\ CurrentExcept(s, a, {}, {})
  BY DEF NodeInv, StoresOK
<1>2. \A u \in Stored(s) :
         computeConfidence(s, a, u) >= finalityThreshold(u)
         => computeConfidence(s, b, u) >= finalityThreshold(u)
  BY <1>1, ConfidenceMonotone, ThresholdType
<1>3. \A v \in DOMAIN s.selectedLineage :
         s.selectedLineage[v].updatedAt <= a => s.selectedLineage[v].updatedAt <= b
  BY <1>1 DEF IsNodeState, IsMap, SelectedLineage
<1>4. CurrentExcept(s, b, {}, {})
  BY <1>1, <1>2, <1>3 DEF CurrentExcept
<1> QED BY <1>4 DEF NodeInv

(* The replay cache, the input tracker and the value store are not evidence. *)
LEMMA QuietStep ==
    ASSUME NEW s, NEW now, NodeInv(s, now), NEW r, IsNodeState(r),
           SameEvidence(r, s), r.selectedLineage = s.selectedLineage,
           r.finalityState = s.finalityState
    PROVE  NodeInv(r, now)
<1>1. CurrentExcept(s, now, {}, {}) /\ StoresOK(s)
  BY DEF NodeInv
<1>2. StoresOK(r)
  BY <1>1, EvidenceFrame DEF StoresOK
<1>3. /\ \A n, v : selectBest(r, n, v) = selectBest(s, n, v)
      /\ \A n, t : computeConfidence(r, n, t) = computeConfidence(s, n, t)
      /\ Stored(r) = Stored(s) /\ r.conflictSets = s.conflictSets
  BY EvidenceFrame DEF SameEvidence
<1>4. \A t \in Stored(s) : /\ selectedOnAllInputs(r, t) <=> selectedOnAllInputs(s, t)
                           /\ lineageScore(r, t) = lineageScore(s, t)
  <2>1. Stored(s) \subseteq TxIDs
    BY <1>1 DEF StoresOK, IsNodeState, IsMap, Stored
  <2> QED BY <2>1, FinalityFrame
<1>5. CurrentExcept(r, now, {}, {})
  BY <1>1, <1>3, <1>4 DEF CurrentExcept
<1> QED BY <1>2, <1>5 DEF NodeInv

----------------------------------------------------------------------------
(* The operations.                                                         *)

\* r differs from s in the replay cache, the input tracker and the like only.
SameLedger(r, s) ==
    /\ SameEvidence(r, s)
    /\ r.valueStore = s.valueStore
    /\ r.selectedLineage = s.selectedLineage
    /\ r.finalityState = s.finalityState

(* observePeer changes the observers of its transfer and nothing else. *)
LEMMA ObserveFacts ==
    ASSUME NEW s, IsNodeState(s), NEW t \in TxIDs, NEW from \in PeerIDs \cup {Local}
    PROVE  LET r == observePeer(s, t, from)
           IN  /\ IsNodeState(r)
               /\ DOMAIN r = DOMAIN s
               /\ r.txStore = s.txStore
               /\ r.conflictSets = s.conflictSets
               /\ r.selectedLineage = s.selectedLineage
               /\ r.finalityState = s.finalityState
               /\ r.proofStore = s.proofStore
               /\ r.valueStore = s.valueStore
               /\ r.consumed = s.consumed
               /\ \A u \in TxIDs \ {t} : r.peerObservations[u] = s.peerObservations[u]
               /\ s.peerObservations[t] \subseteq r.peerObservations[t]
               /\ r.peerObservations[t] \subseteq s.peerObservations[t] \cup {from}
<1>1. CASE from = Local
  BY <1>1 DEF observePeer
<1>2. CASE from # Local
  <2> DEFINE obs == [s.peerObservations EXCEPT ![t] = @ \cup {from}]
  <2>1. observePeer(s, t, from) = [s EXCEPT !.peerObservations = obs]
    BY <1>2 DEF observePeer, IsNodeState
  <2>2. /\ obs \in [TxIDs -> SUBSET PeerIDs]
        /\ \A u \in TxIDs \ {t} : obs[u] = s.peerObservations[u]
        /\ obs[t] = s.peerObservations[t] \cup {from}
    BY <1>2 DEF IsNodeState
  <2> HIDE DEF obs
  <2> QED BY <2>1, <2>2 DEF IsNodeState
<1> QED BY <1>1, <1>2

\* r is s with a new transfer.
InsertStep(r, s, t, sig) ==
    /\ IsNodeState(r)
    /\ Stored(r) = Stored(s) \cup {t}
    /\ \A u \in Stored(s) : r.txStore[u] = s.txStore[u]
    /\ r.txStore[t].sig = sig
    /\ \A v \in ValueIDs :
          r.conflictSets[v] = IF v \in Inputs(t) THEN s.conflictSets[v] \cup {t}
                              ELSE s.conflictSets[v]
    /\ r.selectedLineage = s.selectedLineage
    /\ r.finalityState = s.finalityState
    /\ r.proofStore = s.proofStore
    /\ r.peerObservations = s.peerObservations
    /\ r.valueStore = s.valueStore \cup Range(TxOutputs[t])
    /\ r.consumed = s.consumed

(* The first half of upsertTransfer, for a transfer that is new: one record, the
   outputs, and membership in the conflict set of every input. *)
LEMMA InsertFacts ==
    ASSUME NEW s, IsNodeState(s), NEW now \in Nat, NEW t \in TxIDs, NEW sig \in Keys,
           t \notin Stored(s)
    PROVE  InsertStep(insertTransfer(s, now, t, sig), s, t, sig)
<1> DEFINE r == insertTransfer(s, now, t, sig)
           rec == [firstSeen |-> now, arrivalSeq |-> s.arrivalSeq + 1, sig |-> sig]
           txs == Put(s.txStore, t, rec)
           cs == [v \in ValueIDs |-> IF v \in Inputs(t) THEN s.conflictSets[v] \cup {t}
                                     ELSE s.conflictSets[v]]
           vals == s.valueStore \cup Range(TxOutputs[t])
<1>1. rec \in TxRecord
  BY DEF IsNodeState, TxRecord
<1>2. /\ IsMap(txs, TxIDs, TxRecord)
      /\ DOMAIN txs = Stored(s) \cup {t}
      /\ \A u \in Stored(s) : txs[u] = s.txStore[u]
      /\ txs[t].sig = sig
  <2>1. txs[t].sig = sig
    BY DEF Put
  <2> HIDE DEF rec
  <2> QED BY <1>1, <2>1 DEF IsNodeState, IsMap, Put, Stored
<1>3. cs \in [ValueIDs -> SUBSET TxIDs]
  BY DEF IsNodeState
<1>4. vals \subseteq ValueIDs
  BY TransferAssumption DEF IsNodeState, Range
<1>5. \A v \in ValueIDs : cs[v] = IF v \in Inputs(t) THEN s.conflictSets[v] \cup {t}
                                  ELSE s.conflictSets[v]
  OBVIOUS
<1>6. r = [s EXCEPT !.arrivalSeq = s.arrivalSeq + 1, !.txStore = txs,
                    !.valueStore = vals, !.conflictSets = cs]
  BY DEF insertTransfer
<1> HIDE DEF txs, vals, cs, r
<1>7. /\ DOMAIN r = DOMAIN s
      /\ r.arrivalSeq = s.arrivalSeq + 1 /\ r.txStore = txs
      /\ r.valueStore = vals /\ r.conflictSets = cs
      /\ r.selectedLineage = s.selectedLineage
      /\ r.finalityState = s.finalityState
      /\ r.proofStore = s.proofStore
      /\ r.peerObservations = s.peerObservations
      /\ r.consumed = s.consumed /\ r.peers = s.peers
      /\ r.replayCache = s.replayCache
  BY <1>6 DEF IsNodeState
<1>8. IsNodeState(r)
  BY <1>2, <1>3, <1>4, <1>7 DEF IsNodeState
<1> QED BY <1>2, <1>5, <1>7, <1>8 DEF r, vals, Stored, InsertStep

(* upsertTransfer, for a new transfer or a known one, touches that transfer
   only and never rewrites a stored record. *)
LEMMA UpsertTouches ==
    ASSUME NEW s, NEW now \in Nat, NodeInv(s, now), NEW t \in TxIDs,
           NEW sig \in Keys, NEW from \in PeerIDs \cup {Local}
    PROVE  LET r == upsertTransfer(s, now, t, sig, from)
           IN  /\ TouchesOnly(r, s, t)
               /\ \A u \in Stored(s) : r.txStore[u] = s.txStore[u]
               /\ t \notin Stored(s) => r.txStore[t].sig = sig
               /\ r.valueStore = s.valueStore \cup
                     (IF t \in Stored(s) THEN {} ELSE Range(TxOutputs[t]))
               /\ r.consumed = s.consumed
               /\ r.proofStore = s.proofStore
               /\ \A u \in TxIDs \ {t} : r.peerObservations[u] = s.peerObservations[u]
               /\ s.peerObservations[t] \subseteq r.peerObservations[t]
               /\ r.peerObservations[t] \subseteq s.peerObservations[t] \cup {from}
<1>1. IsNodeState(s) /\ ConflictSetsExactIn(s)
  BY DEF NodeInv, StoresOK
<1>2. Stored(s) \subseteq TxIDs
  BY <1>1 DEF IsNodeState, IsMap, Stored
<1> DEFINE b == IF t \in Stored(s) THEN s ELSE insertTransfer(s, now, t, sig)
           r == observePeer(b, t, from)
<1>3. /\ IsNodeState(b)
      /\ Stored(b) = Stored(s) \cup {t}
      /\ \A u \in Stored(s) : b.txStore[u] = s.txStore[u]
      /\ t \notin Stored(s) => b.txStore[t].sig = sig
      /\ \A v \in ValueIDs :
            b.conflictSets[v] = IF v \in Inputs(t) THEN s.conflictSets[v] \cup {t}
                                ELSE s.conflictSets[v]
      /\ b.selectedLineage = s.selectedLineage
      /\ b.finalityState = s.finalityState
      /\ b.proofStore = s.proofStore
      /\ b.peerObservations = s.peerObservations
      /\ b.valueStore = s.valueStore \cup
            (IF t \in Stored(s) THEN {} ELSE Range(TxOutputs[t]))
      /\ b.consumed = s.consumed
  <2>1. CASE t \in Stored(s)
    BY <1>1, <2>1 DEF ConflictSetsExactIn
  <2>2. CASE t \notin Stored(s)
    <3>1. b = insertTransfer(s, now, t, sig)
      BY <2>2
    <3>2. InsertStep(b, s, t, sig)
      BY <1>1, <2>2, <3>1, InsertFacts
    <3> HIDE DEF b
    <3> QED BY <2>2, <3>2 DEF InsertStep
  <2> QED BY <2>1, <2>2
<1>4. r = upsertTransfer(s, now, t, sig, from)
  BY DEF upsertTransfer
<1> HIDE DEF b
<1>5. /\ IsNodeState(r)
      /\ r.txStore = b.txStore
      /\ r.conflictSets = b.conflictSets
      /\ r.selectedLineage = b.selectedLineage
      /\ r.finalityState = b.finalityState
      /\ r.proofStore = b.proofStore
      /\ r.valueStore = b.valueStore
      /\ r.consumed = b.consumed
      /\ \A u \in TxIDs \ {t} : r.peerObservations[u] = b.peerObservations[u]
      /\ b.peerObservations[t] \subseteq r.peerObservations[t]
      /\ r.peerObservations[t] \subseteq b.peerObservations[t] \cup {from}
  BY <1>3, ObserveFacts
<1> HIDE DEF r
<1>6. TouchesOnly(r, s, t)
  BY <1>2, <1>3, <1>5 DEF TouchesOnly, Stored
<1> QED BY <1>3, <1>4, <1>5, <1>6

(* Storing a transfer and recomputing keeps the node invariant. *)
LEMMA StoreTransferInv ==
    ASSUME NEW s, NEW now \in Nat, NodeInv(s, now), NEW t \in TxIDs,
           NEW sig \in Keys, NEW from \in PeerIDs \cup {Local}
    PROVE  NodeInv(recomputeSelectionForTransfer(
                      upsertTransfer(s, now, t, sig, from), now, t), now)
<1> DEFINE r == upsertTransfer(s, now, t, sig, from)
<1>1. TouchesOnly(r, s, t)
  BY UpsertTouches
<1> HIDE DEF r
<1>2. Disturbed(r, now, t)
  BY <1>1, TouchDisturbs
<1>3. NodeInv(recomputeSelectionForTransfer(r, now, t), now)
  BY <1>2, RecomputeRepairs
<1> QED BY <1>3 DEF r

(* updateProof changes the proofs of its transfer and nothing else. *)
LEMMA ProofFacts ==
    ASSUME NEW s, IsNodeState(s), NEW t \in TxIDs, NEW from \in PeerIDs,
           NEW proof \in ProofRecord
    PROVE  LET r == updateProof(s, t, from, proof)
           IN  /\ IsNodeState(r)
               /\ DOMAIN r = DOMAIN s
               /\ r.txStore = s.txStore
               /\ r.conflictSets = s.conflictSets
               /\ r.selectedLineage = s.selectedLineage
               /\ r.finalityState = s.finalityState
               /\ r.peerObservations = s.peerObservations
               /\ r.valueStore = s.valueStore
               /\ r.consumed = s.consumed
               /\ \A u \in TxIDs \ {t} : r.proofStore[u] = s.proofStore[u]
               /\ DOMAIN s.proofStore[t] \subseteq DOMAIN r.proofStore[t]
               /\ r.proofStore[t] = Put(s.proofStore[t], from, proof)
<1> DEFINE r == updateProof(s, t, from, proof)
           mine == Put(s.proofStore[t], from, proof)
           prf == [s.proofStore EXCEPT ![t] = mine]
<1>1. IsMap(mine, PeerIDs, ProofRecord) /\ DOMAIN s.proofStore[t] \subseteq DOMAIN mine
  BY DEF IsNodeState, IsMap, Put
<1>2. r = [s EXCEPT !.proofStore = prf]
  BY DEF updateProof, IsNodeState
<1> HIDE DEF mine
<1>3. /\ DOMAIN prf = TxIDs /\ prf[t] = mine
      /\ \A u \in TxIDs \ {t} : prf[u] = s.proofStore[u]
  BY DEF IsNodeState
<1>4. \A u \in TxIDs : IsMap(prf[u], PeerIDs, ProofRecord)
  BY <1>1, <1>3 DEF IsNodeState
<1> HIDE DEF prf, r
<1>5. /\ DOMAIN r = DOMAIN s /\ r.proofStore = prf
      /\ r.txStore = s.txStore /\ r.valueStore = s.valueStore
      /\ r.conflictSets = s.conflictSets
      /\ r.selectedLineage = s.selectedLineage
      /\ r.finalityState = s.finalityState
      /\ r.peerObservations = s.peerObservations
      /\ r.consumed = s.consumed /\ r.peers = s.peers
      /\ r.replayCache = s.replayCache /\ r.arrivalSeq = s.arrivalSeq
  BY <1>2 DEF IsNodeState
<1>6. IsNodeState(r)
  BY <1>3, <1>4, <1>5 DEF IsNodeState
<1>7. r.proofStore[t] = Put(s.proofStore[t], from, proof)
  BY <1>3, <1>5 DEF mine
<1> QED BY <1>1, <1>3, <1>5, <1>6, <1>7 DEF r

(* handleProofResponse keeps the node invariant, also when the proof comes
   before its transfer and nothing is recomputed. *)
LEMMA ProofResponseInv ==
    ASSUME NEW s, NEW now \in Nat, NodeInv(s, now), NEW from \in PeerIDs,
           NEW m, m.tx \in TxIDs, m.seen \in BOOLEAN, m.conflict \in BOOLEAN,
           m.distance \in Distances
    PROVE  NodeInv(handleProofResponse(s, now, from, m).st, now)
<1> DEFINE t == m.tx
           proof == [seen |-> m.seen, conflict |-> m.conflict, distance |-> m.distance]
           r == updateProof(s, t, from, proof)
<1>1. IsNodeState(s) /\ ConflictSetsExactIn(s) /\ CurrentExcept(s, now, {}, {})
  BY DEF NodeInv, StoresOK
<1>2. proof \in ProofRecord
  BY DEF ProofRecord
<1> HIDE DEF proof
<1>3. /\ IsNodeState(r)
      /\ DOMAIN r = DOMAIN s
      /\ r.txStore = s.txStore
      /\ r.conflictSets = s.conflictSets
      /\ r.selectedLineage = s.selectedLineage
      /\ r.finalityState = s.finalityState
      /\ r.peerObservations = s.peerObservations
      /\ \A u \in TxIDs \ {t} : r.proofStore[u] = s.proofStore[u]
  BY <1>1, <1>2, ProofFacts
<1> HIDE DEF r
<1>4. Stored(s) \subseteq TxIDs /\ Stored(r) = Stored(s)
  BY <1>1, <1>3 DEF IsNodeState, IsMap, Stored
<1>5. CASE t \in Stored(s)
  <2>1. TouchesOnly(r, s, t)
    BY <1>1, <1>3, <1>4, <1>5 DEF TouchesOnly, ConflictSetsExactIn
  <2>2. NodeInv(recomputeSelectionForTransfer(r, now, t), now)
    BY <2>1, TouchDisturbs, RecomputeRepairs
  <2> QED BY <1>5, <2>2 DEF handleProofResponse, Reply, r, proof
<1>6. CASE t \notin Stored(s)
  <2>1. \A u \in Stored(s) : /\ r.txStore[u] = s.txStore[u]
                             /\ r.peerObservations[u] = s.peerObservations[u]
                             /\ r.proofStore[u] = s.proofStore[u]
    BY <1>3, <1>4, <1>6
  <2>2. \A v \in ValueIDs : s.conflictSets[v] \subseteq Stored(s)
    BY <1>1 DEF ConflictSetsExactIn
  <2>3. \A v \in ValueIDs : \A n : selectBest(r, n, v) = selectBest(s, n, v)
    BY <1>3, <2>1, <2>2, SelectBestFrame
  <2>4. \A u \in Stored(s) : computeConfidence(r, now, u) = computeConfidence(s, now, u)
    BY <2>1, ConfidenceFrame
  <2>5. \A u \in Stored(s) : /\ selectedOnAllInputs(r, u) <=> selectedOnAllInputs(s, u)
                             /\ lineageScore(r, u) = lineageScore(s, u)
    BY <1>3, <1>4, FinalityFrame
  <2>6. CurrentExcept(r, now, {}, {})
    BY <1>1, <1>3, <1>4, <2>3, <2>4, <2>5 DEF CurrentExcept
  <2>7. StoresOK(r)
    BY <1>3 DEF NodeInv, StoresOK, FiniteConflicts, ConflictSetsExactIn, Stored
  <2> QED BY <1>6, <2>6, <2>7 DEF handleProofResponse, Reply, NodeInv, r, proof
<1> QED BY <1>5, <1>6

(* PruneExpired keeps the node invariant and everything it is about. *)
LEMMA PruneInv ==
    ASSUME NEW s, NEW now \in Nat, NodeInv(s, now)
    PROVE  /\ NodeInv(PruneExpired(s, now), now)
           /\ SameLedger(PruneExpired(s, now), s)
           /\ PruneExpired(s, now).consumed = s.consumed
<1> DEFINE r == PruneExpired(s, now)
           live == {id \in DOMAIN s.replayCache :
                      s.replayCache[id] = 0 \/ s.replayCache[id] > now}
           cache == [id \in live |-> s.replayCache[id]]
<1>1. IsNodeState(s)
  BY DEF NodeInv, StoresOK
<1>2. r = [s EXCEPT !.replayCache = cache]
  BY DEF PruneExpired
<1>3. IsMap(cache, MsgIDs, Nat)
  BY <1>1 DEF IsNodeState, IsMap
<1> HIDE DEF cache, r
<1>4. /\ IsNodeState(r) /\ SameEvidence(r, s)
      /\ r.selectedLineage = s.selectedLineage
      /\ r.finalityState = s.finalityState
      /\ r.valueStore = s.valueStore /\ r.consumed = s.consumed
  BY <1>1, <1>2, <1>3 DEF IsNodeState, SameEvidence
<1>5. NodeInv(r, now)
  BY <1>4, QuietStep
<1> QED BY <1>4, <1>5 DEF r, SameLedger

(* MarkSeen keeps the node invariant and everything it is about. *)
LEMMA MarkSeenInv ==
    ASSUME NEW s, NEW now \in Nat, NodeInv(s, now), NEW id \in MsgIDs
    PROVE  /\ NodeInv(MarkSeen(s, now, id), now)
           /\ SameLedger(MarkSeen(s, now, id), s)
           /\ MarkSeen(s, now, id).consumed = s.consumed
<1> DEFINE r == MarkSeen(s, now, id)
           cache == Put(s.replayCache, id, IF ReplayTTL > 0 THEN now + ReplayTTL ELSE 0)
<1>1. IsNodeState(s)
  BY DEF NodeInv, StoresOK
<1>2. r = [s EXCEPT !.replayCache = cache]
  BY DEF MarkSeen
<1>3. IsMap(cache, MsgIDs, Nat)
  BY <1>1, ReplayAssumption DEF IsNodeState, IsMap, Put
<1> HIDE DEF cache, r
<1>4. /\ IsNodeState(r) /\ SameEvidence(r, s)
      /\ r.selectedLineage = s.selectedLineage
      /\ r.finalityState = s.finalityState
      /\ r.valueStore = s.valueStore /\ r.consumed = s.consumed
  BY <1>1, <1>2, <1>3 DEF IsNodeState, SameEvidence
<1>5. NodeInv(r, now)
  BY <1>4, QuietStep
<1> QED BY <1>4, <1>5 DEF r, SameLedger

(* SeedValue keeps the node invariant. *)
LEMMA SeedInv ==
    ASSUME NEW s, NEW now \in Nat, NodeInv(s, now), NEW v \in ValueIDs
    PROVE  NodeInv(SeedValue(s, v), now)
<1>1. IsNodeState(s)
  BY DEF NodeInv, StoresOK
<1>2. /\ IsNodeState(SeedValue(s, v)) /\ SameEvidence(SeedValue(s, v), s)
      /\ SeedValue(s, v).selectedLineage = s.selectedLineage
      /\ SeedValue(s, v).finalityState = s.finalityState
  BY <1>1 DEF IsNodeState, SameEvidence, SeedValue
<1> QED BY <1>2, QuietStep

(* ConsumeInputs keeps the node invariant and everything it is about. *)
LEMMA ConsumeInv ==
    ASSUME NEW s, NEW now \in Nat, NodeInv(s, now), NEW t \in TxIDs
    PROVE  /\ NodeInv(ConsumeInputs(s, t), now)
           /\ SameLedger(ConsumeInputs(s, t), s)
           /\ ConsumeInputs(s, t).consumed = s.consumed \cup Inputs(t)
<1> DEFINE r == ConsumeInputs(s, t)
<1>1. IsNodeState(s) /\ Inputs(t) \subseteq ValueIDs
  BY InputsType DEF NodeInv, StoresOK
<1>2. /\ IsNodeState(r) /\ SameEvidence(r, s)
      /\ r.selectedLineage = s.selectedLineage
      /\ r.finalityState = s.finalityState
      /\ r.valueStore = s.valueStore
      /\ r.consumed = s.consumed \cup Inputs(t)
  BY <1>1 DEF IsNodeState, SameEvidence, ConsumeInputs
<1> HIDE DEF r
<1>3. NodeInv(r, now)
  BY <1>2, QuietStep
<1> QED BY <1>2, <1>3 DEF r, SameLedger

(* OnMessage, whatever the message and whoever sends it. *)
LEMMA OnMessageInv ==
    ASSUME NEW s, NEW now \in Nat, NodeInv(s, now), NEW from \in PeerIDs,
           NEW id \in MsgIDs, NEW m \in Messages
    PROVE  NodeInv(OnMessage(s, now, from, id, m).st, now)
<1> DEFINE p == PruneExpired(s, now)
           q == MarkSeen(p, now, id)
<1>1. NodeInv(p, now)
  BY PruneInv
<1> HIDE DEF p
<1>2. NodeInv(q, now)
  BY <1>1, MarkSeenInv
<1> HIDE DEF q
<1>3. CASE IsSeen(p, id)
  BY <1>1, <1>3 DEF OnMessage, Reply, p
<1>4. CASE ~IsSeen(p, id)
  <2>1. OnMessage(s, now, from, id, m) = dispatch(q, now, from, m)
    BY <1>4 DEF OnMessage, p, q
  <2>2. CASE m.type \in {"INV", "GET", "PROOF_REQ", "ACK"}
    BY <1>2, <2>1, <2>2
       DEF dispatch, Reply, handleINV, handleGET, handleProofRequest
  <2>3. CASE m \in [type : {"TX"}, tx : TxIDs, sig : Keys]
    <3>1. m.tx \in TxIDs /\ m.sig \in Keys /\ m.type = "TX"
      BY <2>3
    <3> DEFINE r == recomputeSelectionForTransfer(
                      upsertTransfer(q, now, m.tx, m.sig, from), now, m.tx)
    <3>2. NodeInv(r, now)
      BY <1>2, <3>1, StoreTransferInv
    <3>3. handleTX(q, now, from, m.tx, m.sig).st \in {q, r}
      BY DEF handleTX, Reply
    <3> HIDE DEF r
    <3> QED BY <1>2, <2>1, <3>1, <3>2, <3>3 DEF dispatch
  <2>4. CASE m \in [type : {"PROOF_RESP"}, tx : TxIDs, seen : BOOLEAN,
                    conflict : BOOLEAN, distance : Distances]
    <3>1. /\ m.type = "PROOF_RESP" /\ m.tx \in TxIDs /\ m.seen \in BOOLEAN
          /\ m.conflict \in BOOLEAN /\ m.distance \in Distances
      BY <2>4
    <3>2. NodeInv(handleProofResponse(q, now, from, m).st, now)
      BY <1>2, <3>1, ProofResponseInv
    <3> QED BY <2>1, <3>1, <3>2 DEF dispatch
  <2> QED BY <2>2, <2>3, <2>4 DEF Messages, ACK
<1> QED BY <1>3, <1>4

(* AcceptLocalTransfer, whether it accepts or not. *)
LEMMA AcceptLocalInv ==
    ASSUME NEW s, NEW now \in Nat, NodeInv(s, now), NEW t \in TxIDs, NEW sig \in Keys
    PROVE  NodeInv(AcceptLocalTransfer(s, now, t, sig).st, now)
<1> DEFINE c == ConsumeInputs(s, t)
           r == recomputeSelectionForTransfer(
                    upsertTransfer(c, now, t, sig, Local), now, t)
<1>1. NodeInv(c, now)
  BY ConsumeInv
<1> HIDE DEF c
<1>2. NodeInv(r, now)
  BY <1>1, StoreTransferInv
<1>3. AcceptLocalTransfer(s, now, t, sig).st \in {s, r}
  BY DEF AcceptLocalTransfer, Reply, c
<1> HIDE DEF r
<1> QED BY <1>2, <1>3

----------------------------------------------------------------------------
(* What an operation does to the ledger: nothing, or it learns one         *)
(* transfer, or it reconsiders one that is known.                          *)

\* r is s after evidence about transfer t came in and t's inputs were decided anew.
Reconsidered(r, s, now, t) ==
    /\ Stored(r) = Stored(s) \cup {t}
    /\ \A u \in Stored(s) : r.txStore[u] = s.txStore[u]
    /\ \A u \in TxIDs : s.peerObservations[u] \subseteq r.peerObservations[u]
    /\ \A u \in TxIDs \ {t} : r.proofStore[u] = s.proofStore[u]
    /\ DOMAIN s.proofStore[t] \subseteq DOMAIN r.proofStore[t]
    /\ Decided(r, s, now, t)

Learned(r, s, now, t, sig) ==
    /\ t \notin Stored(s)
    /\ validateTransfer(s, now, t, sig)
    /\ Reconsidered(r, s, now, t)
    /\ r.txStore[t].sig = sig
    /\ r.valueStore = s.valueStore \cup Range(TxOutputs[t])

Rechecked(r, s, now, t) ==
    /\ t \in Stored(s)
    /\ Reconsidered(r, s, now, t)
    /\ r.valueStore = s.valueStore

\* A proof for a transfer that is not stored is kept and changes nothing else.
Unrelated(r, s) ==
    /\ r.txStore = s.txStore
    /\ \A u \in Stored(s) : /\ r.peerObservations[u] = s.peerObservations[u]
                            /\ r.proofStore[u] = s.proofStore[u]
    /\ r.valueStore = s.valueStore
    /\ r.selectedLineage = s.selectedLineage
    /\ r.finalityState = s.finalityState

LedgerStep(r, s, now) ==
    \/ Unrelated(r, s)
    \/ \E t \in TxIDs, sig \in Keys : Learned(r, s, now, t, sig)
    \/ \E t \in TxIDs : Rechecked(r, s, now, t)

(* The steps do not see the replay cache and the input tracker. *)
LEMMA SameLedgerStep ==
    ASSUME NEW q, NEW s, SameLedger(q, s), NEW r, NEW now, LedgerStep(r, q, now)
    PROVE  LedgerStep(r, s, now)
<1>1. /\ q.txStore = s.txStore /\ q.valueStore = s.valueStore
      /\ q.selectedLineage = s.selectedLineage /\ q.finalityState = s.finalityState
      /\ q.peerObservations = s.peerObservations /\ q.proofStore = s.proofStore
      /\ Stored(q) = Stored(s)
  BY DEF SameLedger, SameEvidence, Stored
<1>2. \A t, sig : validateTransfer(q, now, t, sig) => validateTransfer(s, now, t, sig)
  BY <1>1 DEF validateTransfer, signedByOwner
<1>3. \A t : Reconsidered(r, q, now, t) => Reconsidered(r, s, now, t)
  BY <1>1 DEF Reconsidered, Decided
<1>4. CASE Unrelated(r, q)
  BY <1>1, <1>4 DEF Unrelated, LedgerStep
<1>5. CASE \E t \in TxIDs, sig \in Keys : Learned(r, q, now, t, sig)
  BY <1>1, <1>2, <1>3, <1>5 DEF Learned, LedgerStep
<1>6. CASE \E t \in TxIDs : Rechecked(r, q, now, t)
  BY <1>1, <1>3, <1>6 DEF Rechecked, LedgerStep
<1> QED BY <1>4, <1>5, <1>6 DEF LedgerStep

\* What a transfer that came from a peer, or from the user, leaves in the stores.
StoredFrom(r, s, t, from) ==
    /\ Stored(r) = Stored(s) \cup {t}
    /\ \A u \in TxIDs \ {t} : r.peerObservations[u] = s.peerObservations[u]
    /\ r.peerObservations[t] \subseteq s.peerObservations[t] \cup {from}
    /\ r.proofStore = s.proofStore

(* upsertTransfer and the recomputation after it learn a valid transfer, or
   reconsider it when it is stored already. *)
LEMMA StoreTransferStep ==
    ASSUME NEW s, NEW now \in Nat, NodeInv(s, now), NEW t \in TxIDs,
           NEW sig \in Keys, NEW from \in PeerIDs \cup {Local},
           validateTransfer(s, now, t, sig)
    PROVE  LET r == recomputeSelectionForTransfer(
                        upsertTransfer(s, now, t, sig, from), now, t)
           IN  /\ LedgerStep(r, s, now) /\ r.consumed = s.consumed /\ t \in Stored(r)
               /\ StoredFrom(r, s, t, from)
<1> DEFINE q == upsertTransfer(s, now, t, sig, from)
           r == recomputeSelectionForTransfer(q, now, t)
<1>1. /\ TouchesOnly(q, s, t)
      /\ \A u \in Stored(s) : q.txStore[u] = s.txStore[u]
      /\ t \notin Stored(s) => q.txStore[t].sig = sig
      /\ q.valueStore = s.valueStore \cup
            (IF t \in Stored(s) THEN {} ELSE Range(TxOutputs[t]))
      /\ q.consumed = s.consumed
      /\ q.proofStore = s.proofStore
      /\ \A u \in TxIDs \ {t} : q.peerObservations[u] = s.peerObservations[u]
      /\ s.peerObservations[t] \subseteq q.peerObservations[t]
      /\ q.peerObservations[t] \subseteq s.peerObservations[t] \cup {from}
  BY UpsertTouches
<1> HIDE DEF q
<1>2. Disturbed(q, now, t)
  BY <1>1, TouchDisturbs
<1>3. /\ Decided(r, q, now, t)
      /\ SameEvidence(r, q)
      /\ r.valueStore = q.valueStore
      /\ r.consumed = q.consumed
  BY <1>2, RecomputeRepairs
<1> HIDE DEF r
<1>4. /\ Stored(q) = Stored(s) \cup {t}
      /\ q.selectedLineage = s.selectedLineage
      /\ q.finalityState = s.finalityState
  BY <1>1 DEF TouchesOnly
<1>5. /\ r.txStore = q.txStore /\ r.peerObservations = q.peerObservations
      /\ r.proofStore = q.proofStore /\ Stored(r) = Stored(q)
  BY <1>3 DEF SameEvidence, Stored
<1>6. Decided(r, s, now, t)
  BY <1>3, <1>4 DEF Decided
<1>7. Reconsidered(r, s, now, t)
  BY <1>1, <1>4, <1>5, <1>6 DEF Reconsidered
<1>8. LedgerStep(r, s, now)
  <2>1. CASE t \in Stored(s)
    BY <1>1, <1>3, <1>7, <2>1 DEF Rechecked, LedgerStep
  <2>2. CASE t \notin Stored(s)
    BY <1>1, <1>3, <1>5, <1>7, <2>2 DEF Learned, LedgerStep
  <2> QED BY <2>1, <2>2
<1>9. StoredFrom(r, s, t, from)
  BY <1>1, <1>4, <1>5 DEF StoredFrom
<1> QED BY <1>1, <1>3, <1>4, <1>5, <1>8, <1>9 DEF q, r

\* updateProof and the recomputation after it.
ProofFiled(r, s, from, m) ==
    /\ Stored(r) = Stored(s)
    /\ r.peerObservations = s.peerObservations
    /\ r.consumed = s.consumed
    /\ \A u \in TxIDs \ {m.tx} : r.proofStore[u] = s.proofStore[u]
    /\ r.proofStore[m.tx] = Put(s.proofStore[m.tx], from,
            [seen |-> m.seen, conflict |-> m.conflict, distance |-> m.distance])

(* handleProofResponse reconsiders the transfer it is about, if that is stored. *)
LEMMA ProofResponseStep ==
    ASSUME NEW s, NEW now \in Nat, NodeInv(s, now), NEW from \in PeerIDs,
           NEW m, m.tx \in TxIDs, m.seen \in BOOLEAN, m.conflict \in BOOLEAN,
           m.distance \in Distances
    PROVE  LET r == handleProofResponse(s, now, from, m).st
           IN  /\ LedgerStep(r, s, now) /\ r.consumed = s.consumed
               /\ ProofFiled(r, s, from, m)
<1> DEFINE t == m.tx
           proof == [seen |-> m.seen, conflict |-> m.conflict, distance |-> m.distance]
           q == updateProof(s, t, from, proof)
           r == recomputeSelectionForTransfer(q, now, t)
<1>1. IsNodeState(s) /\ ConflictSetsExactIn(s)
  BY DEF NodeInv, StoresOK
<1>2. proof \in ProofRecord
  BY DEF ProofRecord
<1> HIDE DEF proof
<1>3. /\ IsNodeState(q)
      /\ q.txStore = s.txStore
      /\ q.conflictSets = s.conflictSets
      /\ q.selectedLineage = s.selectedLineage
      /\ q.finalityState = s.finalityState
      /\ q.peerObservations = s.peerObservations
      /\ q.valueStore = s.valueStore
      /\ q.consumed = s.consumed
      /\ \A u \in TxIDs \ {t} : q.proofStore[u] = s.proofStore[u]
      /\ DOMAIN s.proofStore[t] \subseteq DOMAIN q.proofStore[t]
      /\ q.proofStore[t] = Put(s.proofStore[t], from, proof)
  BY <1>1, <1>2, ProofFacts
<1> HIDE DEF q
<1>4. Stored(s) \subseteq TxIDs /\ Stored(q) = Stored(s)
  BY <1>1, <1>3 DEF IsNodeState, IsMap, Stored
<1>5. CASE t \in Stored(s)
  <2>1. TouchesOnly(q, s, t)
    BY <1>1, <1>3, <1>4, <1>5 DEF TouchesOnly, ConflictSetsExactIn
  <2>2. /\ Decided(r, q, now, t)
        /\ SameEvidence(r, q)
        /\ r.valueStore = q.valueStore
        /\ r.consumed = q.consumed
    BY <2>1, TouchDisturbs, RecomputeRepairs
  <2>3. handleProofResponse(s, now, from, m).st = r
    BY <1>5 DEF handleProofResponse, Reply, q, proof
  <2> HIDE DEF r
  <2>4. /\ r.txStore = q.txStore /\ r.peerObservations = q.peerObservations
        /\ r.proofStore = q.proofStore /\ Stored(r) = Stored(q)
    BY <2>2 DEF SameEvidence, Stored
  <2>5. Decided(r, s, now, t)
    BY <1>3, <2>2 DEF Decided
  <2>6. Reconsidered(r, s, now, t)
    BY <1>3, <1>4, <1>5, <2>4, <2>5 DEF Reconsidered
  <2>7. ProofFiled(r, s, from, m)
    BY <1>3, <1>4, <2>2, <2>4 DEF ProofFiled, proof
  <2> QED BY <1>3, <1>5, <2>2, <2>3, <2>6, <2>7 DEF Rechecked, LedgerStep
<1>6. CASE t \notin Stored(s)
  <2>1. handleProofResponse(s, now, from, m).st = q
    BY <1>6 DEF handleProofResponse, Reply, q, proof
  <2>2. Unrelated(q, s)
    BY <1>3, <1>4, <1>6 DEF Unrelated
  <2>3. ProofFiled(q, s, from, m)
    BY <1>3, <1>4 DEF ProofFiled, proof
  <2> QED BY <1>3, <2>1, <2>2, <2>3 DEF LedgerStep
<1> QED BY <1>5, <1>6

(* A state in which nothing happened to the ledger. *)
LEMMA SameLedgerUnrelated ==
    ASSUME NEW q, NEW s, SameLedger(q, s)
    PROVE  \A now : LedgerStep(q, s, now)
BY DEF SameLedger, SameEvidence, Unrelated, LedgerStep

(* A message of any kind learns at most one transfer, reconsiders at most one,
   and consumes no input. *)
LEMMA OnMessageStep ==
    ASSUME NEW s, NEW now \in Nat, NodeInv(s, now), NEW from \in PeerIDs,
           NEW id \in MsgIDs, NEW m \in Messages
    PROVE  LET r == OnMessage(s, now, from, id, m).st
           IN  LedgerStep(r, s, now) /\ r.consumed = s.consumed
<1> DEFINE p == PruneExpired(s, now)
           q == MarkSeen(p, now, id)
           res == OnMessage(s, now, from, id, m).st
<1>1. NodeInv(p, now) /\ SameLedger(p, s) /\ p.consumed = s.consumed
  BY PruneInv
<1> HIDE DEF p
<1>2. NodeInv(q, now) /\ SameLedger(q, p) /\ q.consumed = p.consumed
  BY <1>1, MarkSeenInv
<1> HIDE DEF q
<1>3. SameLedger(q, s)
  BY <1>1, <1>2 DEF SameLedger, SameEvidence
<1>4. CASE IsSeen(p, id)
  <2>1. res = p
    BY <1>4 DEF OnMessage, Reply, p
  <2> HIDE DEF res
  <2> QED BY <1>1, <2>1, SameLedgerUnrelated DEF res
<1>5. CASE ~IsSeen(p, id)
  <2>1. res = dispatch(q, now, from, m).st
    BY <1>5 DEF OnMessage, p, q
  <2> HIDE DEF res
  <2>2. CASE m.type \in {"INV", "GET", "PROOF_REQ", "ACK"}
    <3>1. res = q
      BY <2>1, <2>2
         DEF dispatch, Reply, handleINV, handleGET, handleProofRequest
    <3> QED BY <1>1, <1>2, <1>3, <3>1, SameLedgerUnrelated DEF res
  <2>3. CASE m \in [type : {"TX"}, tx : TxIDs, sig : Keys]
    <3>1. m.tx \in TxIDs /\ m.sig \in Keys /\ m.type = "TX"
      BY <2>3
    <3> DEFINE r == recomputeSelectionForTransfer(
                      upsertTransfer(q, now, m.tx, m.sig, from), now, m.tx)
    <3>2. res = handleTX(q, now, from, m.tx, m.sig).st
      BY <2>1, <3>1 DEF dispatch
    <3>3. CASE validateTransfer(q, now, m.tx, m.sig)
      <4>1. res = r
        BY <3>2, <3>3 DEF handleTX, Reply
      <4>2. LedgerStep(r, q, now) /\ r.consumed = q.consumed
        BY <1>2, <3>1, <3>3, StoreTransferStep
      <4> HIDE DEF r
      <4> QED BY <1>1, <1>2, <1>3, <4>1, <4>2, SameLedgerStep DEF res
    <3>4. CASE ~validateTransfer(q, now, m.tx, m.sig)
      <4>1. res = q
        BY <3>2, <3>4 DEF handleTX, Reply
      <4> QED BY <1>1, <1>2, <1>3, <4>1, SameLedgerUnrelated DEF res
    <3> QED BY <3>3, <3>4
  <2>4. CASE m \in [type : {"PROOF_RESP"}, tx : TxIDs, seen : BOOLEAN,
                    conflict : BOOLEAN, distance : Distances]
    <3>1. /\ m.type = "PROOF_RESP" /\ m.tx \in TxIDs /\ m.seen \in BOOLEAN
          /\ m.conflict \in BOOLEAN /\ m.distance \in Distances
      BY <2>4
    <3>2. res = handleProofResponse(q, now, from, m).st
      BY <2>1, <3>1 DEF dispatch
    <3>3. LedgerStep(res, q, now) /\ res.consumed = q.consumed
      BY <1>2, <3>1, <3>2, ProofResponseStep
    <3>4. LedgerStep(res, s, now)
      BY <1>3, <3>3, SameLedgerStep
    <3> QED BY <1>1, <1>2, <3>3, <3>4 DEF res
  <2> QED BY <2>2, <2>3, <2>4 DEF Messages, ACK
<1> QED BY <1>4, <1>5

(* AcceptLocalTransfer either refuses and changes nothing, or stores the
   transfer and consumes its inputs. *)
LEMMA AcceptLocalStep ==
    ASSUME NEW s, NEW now \in Nat, NodeInv(s, now), NEW t \in TxIDs, NEW sig \in Keys
    PROVE  LET r == AcceptLocalTransfer(s, now, t, sig).st
           IN  /\ LedgerStep(r, s, now)
               /\ canAcceptLocal(s, now, t, sig) =>
                     /\ r.consumed = s.consumed \cup Inputs(t) /\ t \in Stored(r)
                     /\ StoredFrom(r, s, t, Local)
               /\ ~canAcceptLocal(s, now, t, sig) => r = s
<1> DEFINE c == ConsumeInputs(s, t)
           r == recomputeSelectionForTransfer(
                    upsertTransfer(c, now, t, sig, Local), now, t)
           res == AcceptLocalTransfer(s, now, t, sig).st
<1>1. NodeInv(c, now) /\ SameLedger(c, s) /\ c.consumed = s.consumed \cup Inputs(t)
  BY ConsumeInv
<1>2. CASE canAcceptLocal(s, now, t, sig)
  <2>1. res = r
    BY <1>2 DEF AcceptLocalTransfer, Reply
  <2> HIDE DEF c
  <2>2. validateTransfer(c, now, t, sig)
    BY <1>1, <1>2 DEF canAcceptLocal, validateTransfer, signedByOwner, SameLedger
  <2>3. /\ LedgerStep(r, c, now) /\ r.consumed = c.consumed /\ t \in Stored(r)
        /\ StoredFrom(r, c, t, Local)
    BY <1>1, <2>2, StoreTransferStep
  <2> HIDE DEF r, res
  <2>4. StoredFrom(r, s, t, Local)
    BY <1>1, <2>3 DEF StoredFrom, SameLedger, SameEvidence, Stored
  <2> QED BY <1>1, <1>2, <2>1, <2>3, <2>4, SameLedgerStep DEF res
<1>3. CASE ~canAcceptLocal(s, now, t, sig)
  <2>1. res = s
    BY <1>3 DEF AcceptLocalTransfer, Reply
  <2>2. LedgerStep(s, s, now)
    BY DEF LedgerStep, Unrelated
  <2> HIDE DEF res
  <2> QED BY <1>3, <2>1, <2>2 DEF res
<1> QED BY <1>2, <1>3

(* Whatever an operation does, a FINAL transfer that still wins its inputs, and
   whose proofs were not replaced, stays FINAL: further observers, further proofs
   and rivals that lose cannot take it. *)
LEMMA FinalKept ==
    ASSUME NEW s, NEW now \in Nat, NodeInv(s, now), NEW r, IsNodeState(r),
           LedgerStep(r, s, now), NEW t \in Stored(s),
           s.finalityState[t].status = "FINAL",
           \A v \in Inputs(t) : r.selectedLineage[v].tx = t,
           \A p \in DOMAIN s.proofStore[t] : r.proofStore[t][p] = s.proofStore[t][p]
    PROVE  r.finalityState[t].status = "FINAL"
<1>1. /\ IsNodeState(s) /\ t \in TxIDs /\ t \in DOMAIN s.finalityState
      /\ selectedOnAllInputs(s, t)
      /\ computeConfidence(s, now, t) >= finalityThreshold(t)
  <2>1. IsNodeState(s) /\ CurrentExcept(s, now, {}, {})
    BY DEF NodeInv, StoresOK
  <2>2. t \in TxIDs
    BY <2>1 DEF IsNodeState, IsMap, Stored
  <2> QED BY <2>1, <2>2 DEF CurrentExcept
<1>2. ASSUME NEW u \in TxIDs, Reconsidered(r, s, now, u)
      PROVE  r.finalityState[t].status = "FINAL"
  <2>0. Decided(r, s, now, u)
    BY <1>2 DEF Reconsidered
  <2>1. CASE t \notin contenders(r, u)
    BY <1>1, <2>0, <2>1 DEF Decided
  <2>2. CASE t \in contenders(r, u)
    <3>1. Inputs(t) \subseteq DOMAIN r.selectedLineage
      <4>1. Inputs(t) \subseteq DOMAIN s.selectedLineage
        BY <1>1 DEF selectedOnAllInputs, lostInputs, Inputs, Range
      <4> QED BY <2>0, <4>1 DEF Decided
    <3>2. selectedOnAllInputs(r, t)
      BY <1>1, <3>1, InputsType DEF selectedOnAllInputs, lostInputs
    <3>3. /\ r.txStore[t] = s.txStore[t]
          /\ s.peerObservations[t] \subseteq r.peerObservations[t]
          /\ DOMAIN s.proofStore[t] \subseteq DOMAIN r.proofStore[t]
      BY <1>1, <1>2 DEF Reconsidered
    <3>4. /\ computeConfidence(s, now, t) \in Int
          /\ computeConfidence(r, now, t) \in Int
          /\ computeConfidence(s, now, t) <= computeConfidence(r, now, t)
      BY <1>1, <3>3, ConfidenceGrows
    <3>5. computeConfidence(r, now, t) >= finalityThreshold(t)
      BY <1>1, <3>4, ThresholdType
    <3> QED BY <2>0, <2>2, <3>2, <3>5 DEF Decided
  <2> QED BY <2>1, <2>2
<1>3. CASE Unrelated(r, s)
  BY <1>3 DEF Unrelated
<1>4. CASE \E u \in TxIDs, sig \in Keys : Learned(r, s, now, u, sig)
  BY <1>2, <1>4 DEF Learned
<1>5. CASE \E u \in TxIDs : Rechecked(r, s, now, u)
  BY <1>2, <1>5 DEF Rechecked
<1> QED BY <1>3, <1>4, <1>5 DEF LedgerStep

(* A new node satisfies the invariant at any time. *)
LEMMA NewNodeInv == ASSUME NEW now \in Nat PROVE NodeInv(NewNode, now)
<1>1. DOMAIN EmptyMap = {}
  BY DEF EmptyMap
<1>2. ASSUME NEW K, NEW V PROVE IsMap(EmptyMap, K, V)
  BY DEF IsMap, EmptyMap
<1>3. IsNodeState(NewNode)
  BY <1>2 DEF IsNodeState, NewNode
<1>4. FiniteConflicts(NewNode)
  BY FS_EmptySet DEF FiniteConflicts, NewNode
<1>5. ConflictSetsExactIn(NewNode)
  BY <1>1 DEF ConflictSetsExactIn, NewNode, Stored
<1>6. CurrentExcept(NewNode, now, {}, {})
  BY <1>1 DEF CurrentExcept, NewNode, Stored
<1> QED BY <1>3, <1>4, <1>5, <1>6 DEF NodeInv, StoresOK

----------------------------------------------------------------------------
(* peerIDsExcept: the peers in order, each once.                           *)

(* sort.Slice has one result: the order of the peers is total and strict. *)
LEMMA PrecedesOrders ==
    /\ \A p, q \in PeerIDs : p # q => precedes(p, q) \/ precedes(q, p)
    /\ \A p, q, r \in PeerIDs : precedes(p, q) /\ precedes(q, r) => precedes(p, r)
    /\ \A p \in PeerIDs : ~precedes(p, p)
<1> DEFINE n == Len(PeerOrder)
<1>1. /\ n \in Nat /\ DOMAIN PeerOrder = 1..n
      /\ \A p \in PeerIDs : \E i \in 1..n : PeerOrder[i] = p
      /\ \A i, j \in 1..n : PeerOrder[i] = PeerOrder[j] => i = j
  BY PeerOrderAssumption DEF Range, IsInjective
<1> HIDE DEF n
<1>2. ASSUME NEW p \in PeerIDs, NEW q \in PeerIDs, p # q
      PROVE  precedes(p, q) \/ precedes(q, p)
  <2>1. PICK i \in 1..n : PeerOrder[i] = p
    BY <1>1
  <2>2. PICK j \in 1..n : PeerOrder[j] = q
    BY <1>1
  <2>3. i < j \/ j < i
    BY <1>1, <1>2, <2>1, <2>2
  <2> QED BY <1>1, <2>1, <2>2, <2>3 DEF precedes
<1>3. ASSUME NEW p \in PeerIDs, NEW q \in PeerIDs, NEW r \in PeerIDs,
             precedes(p, q), precedes(q, r)
      PROVE  precedes(p, r)
  <2>1. PICK i \in 1..n, j \in 1..n : i < j /\ PeerOrder[i] = p /\ PeerOrder[j] = q
    BY <1>1, <1>3 DEF precedes
  <2>2. PICK k \in 1..n, l \in 1..n : k < l /\ PeerOrder[k] = q /\ PeerOrder[l] = r
    BY <1>1, <1>3 DEF precedes
  <2>3. j = k
    BY <1>1, <2>1, <2>2
  <2>4. i < l
    BY <1>1, <2>1, <2>2, <2>3
  <2> QED BY <1>1, <2>1, <2>2, <2>4 DEF precedes
<1>4. \A p \in PeerIDs : ~precedes(p, p)
  BY <1>1 DEF precedes
<1> QED BY <1>2, <1>3, <1>4

Sorted(list, n) == \A i, j \in 1..n : i < j => precedes(list[i], list[j])

(* Every set of peers can be listed in order. *)
LEMMA SortedListExists ==
    ASSUME NEW S \in SUBSET PeerIDs
    PROVE  \E list \in [1..Cardinality(S) -> S] : Sorted(list, Cardinality(S))
<1> DEFINE Listed(T) == \E list \in [1..Cardinality(T) -> T] : Sorted(list, Cardinality(T))
           Bad == {T \in SUBSET PeerIDs : ~Listed(T)}
<1>1. SUFFICES ASSUME Bad # {} PROVE FALSE
  BY Zenon
<1>2. PICK T \in Bad : \A U \in SUBSET T : U # T => U \notin Bad
  <2>1. Bad \in SUBSET (SUBSET PeerIDs)
    OBVIOUS
  <2> HIDE DEF Bad
  <2> QED BY <1>1, <2>1, PeersFinite, MinimalSubset
<1>3. T \subseteq PeerIDs /\ ~Listed(T) /\ IsFiniteSet(T)
  BY PeersFinite, FS_Subset
<1>4. \A U \in SUBSET T : U # T => Listed(U)
  BY <1>2, <1>3
<1> HIDE DEF Bad
<1>5. CASE T = {}
  <2>1. Cardinality(T) = 0
    BY <1>5, FS_EmptySet
  <2>2. [i \in 1..0 |-> i] \in [1..0 -> T] /\ Sorted([i \in 1..0 |-> i], 0)
    BY DEF Sorted
  <2> QED BY <1>3, <2>1, <2>2
<1>6. CASE T # {}
  <2> DEFINE R == {x \in PeerIDs \X PeerIDs : precedes(x[1], x[2])}
  <2>1. \A p, q \in T : <<p, q>> \in R <=> precedes(p, q)
    BY <1>3
  <2> HIDE DEF R
  <2>2. PICK p \in T : \A q \in T \ {p} : <<p, q>> \in R
    <3>1. \A x, y \in T : x # y => <<x, y>> \in R \/ <<y, x>> \in R
      BY <1>3, <2>1, PrecedesOrders
    <3>2. \A x, y, z \in T : <<x, y>> \in R /\ <<y, z>> \in R => <<x, z>> \in R
      BY <1>3, <2>1, PrecedesOrders
    <3>3. Orders(R, T)
      BY <3>1, <3>2 DEF Orders
    <3> QED BY <1>3, <1>6, <3>3, FiniteMaximum
  <2> DEFINE U == T \ {p}
             c == Cardinality(U)
  <2>3. c \in Nat /\ Cardinality(T) = c + 1
    <3>1. IsFiniteSet(U) /\ c = Cardinality(T) - 1
      BY <1>3, <2>2, FS_RemoveElement
    <3>2. Cardinality(T) \in Nat /\ c \in Nat
      BY <1>3, <3>1, FS_CardinalityType
    <3> QED BY <3>1, <3>2
  <2>4. Listed(U)
    BY <1>4
  <2>5. PICK list \in [1..c -> U] : Sorted(list, c)
    BY <2>4
  <2>6. \A q \in U : precedes(p, q)
    BY <2>1, <2>2
  <2> HIDE DEF c
  <2> DEFINE longer == [i \in 1..(c + 1) |-> IF i = 1 THEN p ELSE list[i - 1]]
  <2>7. \A i \in 1..(c + 1) : i # 1 => i - 1 \in 1..c /\ list[i - 1] \in U
    BY <2>3, <2>5
  <2>8. longer \in [1..(c + 1) -> T]
    BY <2>7
  <2>9. Sorted(longer, c + 1)
    <3> SUFFICES ASSUME NEW i \in 1..(c + 1), NEW j \in 1..(c + 1), i < j
                 PROVE  precedes(longer[i], longer[j])
      BY DEF Sorted
    <3>1. j # 1 /\ longer[j] = list[j - 1] /\ list[j - 1] \in U /\ j - 1 \in 1..c
      BY <2>3, <2>7
    <3>2. CASE i = 1
      BY <2>6, <3>1, <3>2
    <3>3. CASE i # 1
      <4>1. longer[i] = list[i - 1] /\ i - 1 \in 1..c /\ i - 1 < j - 1
        BY <2>3, <2>7, <3>3
      <4> QED BY <2>5, <3>1, <4>1 DEF Sorted
    <3> QED BY <3>2, <3>3
  <2> HIDE DEF longer
  <2> QED BY <1>3, <2>3, <2>8, <2>9
<1> QED BY <1>5, <1>6

(* peerIDsExcept lists each peer but the skipped one once. *)
LEMMA PeerListFacts ==
    ASSUME NEW s, s.peers \subseteq PeerIDs, NEW skip
    PROVE  LET list == peerIDsExcept(s, skip)
           IN  /\ list \in Seq(PeerIDs)
               /\ \A i \in DOMAIN list : list[i] \in s.peers \ {skip}
               /\ \A i, j \in DOMAIN list : list[i] = list[j] => i = j
               /\ \A q \in s.peers \ {skip} : \E i \in DOMAIN list : list[i] = q
<1> DEFINE ids == s.peers \ {skip}
           n == Cardinality(ids)
           list == peerIDsExcept(s, skip)
<1>1. IsFiniteSet(ids) /\ n \in Nat
  BY PeersFinite, FS_Subset, FS_CardinalityType
<1>2. list \in [1..n -> ids] /\ Sorted(list, n)
  BY SortedListExists DEF peerIDsExcept, Sorted
<1> HIDE DEF list, n
<1>3. list \in Seq(PeerIDs) /\ DOMAIN list = 1..n
  BY <1>1, <1>2
<1>4. ASSUME NEW i \in 1..n, NEW j \in 1..n, list[i] = list[j] PROVE i = j
  <2>1. ~(i < j) /\ ~(j < i)
    BY <1>2, <1>4, PrecedesOrders DEF Sorted
  <2> QED BY <1>1, <2>1
<1>5. \A q \in ids : \E i \in 1..n : list[i] = q
  <2>1. list \in Injection(1..n, ids)
    BY <1>2, <1>4 DEF Injection, IsInjective
  <2>2. Cardinality(1..n) = Cardinality(ids)
    BY <1>1, FS_Interval DEF n
  <2>3. list \in Surjection(1..n, ids)
    BY ONLY <1>1, <2>1, <2>2, FS_Injection
  <2> QED BY <2>3 DEF Surjection
<1> QED BY <1>2, <1>3, <1>4, <1>5 DEF list

----------------------------------------------------------------------------
(* Replies: what each handler answers, and what it changes.                *)

Outgoing == [to : PeerIDs, msg : Messages]

\* No peer is sent two messages at once.
OnePerPeer(out) == \A i, j \in DOMAIN out : out[i].to = out[j].to => i = j

\* The change of the stores by the answer to m.
Changes(r, s, from, m) ==
    \/ r = s
    \/ /\ m.type = "TX" /\ m.tx \in TxIDs
       /\ StoredFrom(r, s, m.tx, from) /\ r.consumed = s.consumed
    \/ m.type = "PROOF_RESP" /\ m.tx \in TxIDs /\ ProofFiled(r, s, from, m)

\* One message e of the answer to m.
Answer(e, r, s, from, m) ==
    \/ m.type = "INV" /\ m.tx \notin Stored(s) /\ e = [to |-> from, msg |-> GET(m.tx)]
    \/ /\ m.type = "GET" /\ m.tx \in Stored(s)
       /\ e.to = from /\ e.msg.type = "TX" /\ e.msg.tx = m.tx
    \/ /\ m.type = "TX" /\ m.tx \notin Stored(s) /\ m.tx \in Stored(r)
       /\ e.msg = INV(m.tx)
    \/ /\ m.type = "PROOF_REQ" /\ e.msg.type = "PROOF_RESP" /\ e.msg.tx = m.tx
       /\ e.msg.seen => m.tx \in Stored(s)

(* The messages of the protocol, whoever composes them. *)
LEMMA MessageTypes ==
    ASSUME NEW t \in TxIDs
    PROVE  /\ INV(t) \in Messages
           /\ GET(t) \in Messages
           /\ PROOF_REQ(t) \in Messages
           /\ ACK \in Messages
           /\ \A sig \in Keys : TX(t, sig) \in Messages
           /\ \A seen, conflict \in BOOLEAN, distance \in Distances :
                 PROOF_RESP(t, seen, conflict, distance) \in Messages
BY DEF Messages, INV, GET, PROOF_REQ, ACK, TX, PROOF_RESP

(* An announcement is one INV for each peer. *)
LEMMA AnnounceFacts ==
    ASSUME NEW s, s.peers \subseteq PeerIDs, NEW t \in TxIDs, NEW skip
    PROVE  LET out == announce(s, t, skip)
           IN  /\ out \in Seq(Outgoing)
               /\ OnePerPeer(out)
               /\ \A i \in DOMAIN out : out[i].msg = INV(t)
<1> DEFINE to == peerIDsExcept(s, skip)
           out == [i \in DOMAIN to |-> [to |-> to[i], msg |-> INV(t)]]
<1>1. to \in Seq(PeerIDs) /\ \A i, j \in DOMAIN to : to[i] = to[j] => i = j
  BY PeerListFacts
<1>2. announce(s, t, skip) = out
  BY DEF announce
<1> HIDE DEF to
<1>3. INV(t) \in Messages
  BY MessageTypes
<1>4. \A i \in DOMAIN to : [to |-> to[i], msg |-> INV(t)] \in Outgoing
  BY <1>1, <1>3 DEF Outgoing
<1>5. out \in Seq(Outgoing)
  BY <1>1, <1>4
<1>6. OnePerPeer(out)
  BY <1>1 DEF OnePerPeer
<1>7. \A i \in DOMAIN out : out[i].msg = INV(t)
  OBVIOUS
<1> QED BY <1>2, <1>5, <1>6, <1>7

(* A reply of one message. *)
LEMMA SingleFacts ==
    ASSUME NEW p \in PeerIDs, NEW m \in Messages
    PROVE  /\ <<[to |-> p, msg |-> m]>> \in Seq(Outgoing)
           /\ OnePerPeer(<<[to |-> p, msg |-> m]>>)
           /\ \A i \in DOMAIN <<[to |-> p, msg |-> m]>> :
                 <<[to |-> p, msg |-> m]>>[i] = [to |-> p, msg |-> m]
<1> DEFINE e == [to |-> p, msg |-> m]
<1>1. e \in Outgoing
  BY DEF Outgoing
<1> HIDE DEF e
<1>2. DOMAIN <<e>> = {1} /\ <<e>>[1] = e /\ <<e>> \in Seq(Outgoing)
  BY <1>1
<1> QED BY <1>2 DEF OnePerPeer, e

(* No reply. *)
LEMMA NothingSent == <<>> \in Seq(Outgoing) /\ OnePerPeer(<<>>) /\ DOMAIN <<>> = {}
BY DEF OnePerPeer

(* handleINV changes nothing and may ask for the transfer. *)
LEMMA HandleINVFacts ==
    ASSUME NEW s, NEW time, NEW from \in PeerIDs, NEW m \in Messages, m.type = "INV",
           m.tx \in TxIDs
    PROVE  LET r == dispatch(s, time, from, m)
           IN  /\ r.st = s
               /\ r.out \in Seq(Outgoing) /\ OnePerPeer(r.out)
               /\ \A i \in DOMAIN r.out : Answer(r.out[i], r.st, s, from, m)
<1> DEFINE r == dispatch(s, time, from, m)
<1>1. r = handleINV(s, from, m.tx)
  BY DEF dispatch
<1>2. CASE m.tx \in Stored(s)
  <2>1. r.st = s /\ r.out = <<>>
    BY <1>1, <1>2 DEF handleINV, Reply
  <2> HIDE DEF r
  <2> QED BY <2>1, NothingSent DEF r
<1>3. CASE m.tx \notin Stored(s)
  <2> DEFINE e == [to |-> from, msg |-> GET(m.tx)]
  <2>1. r.st = s /\ r.out = <<e>>
    BY <1>1, <1>3 DEF handleINV, Reply
  <2>2. <<e>> \in Seq(Outgoing) /\ OnePerPeer(<<e>>) /\ \A i \in DOMAIN <<e>> : <<e>>[i] = e
    BY SingleFacts, MessageTypes
  <2>3. Answer(e, s, s, from, m)
    BY <1>3 DEF Answer
  <2> HIDE DEF r, e
  <2> QED BY <2>1, <2>2, <2>3 DEF r
<1> QED BY <1>2, <1>3

(* handleGET changes nothing and may serve the transfer. *)
LEMMA HandleGETFacts ==
    ASSUME NEW s, IsNodeState(s), NEW time, NEW from \in PeerIDs, NEW m \in Messages,
           m.type = "GET", m.tx \in TxIDs
    PROVE  LET r == dispatch(s, time, from, m)
           IN  /\ r.st = s
               /\ r.out \in Seq(Outgoing) /\ OnePerPeer(r.out)
               /\ \A i \in DOMAIN r.out : Answer(r.out[i], r.st, s, from, m)
<1> DEFINE r == dispatch(s, time, from, m)
<1>1. r = handleGET(s, from, m.tx)
  BY DEF dispatch
<1>2. CASE m.tx \notin Stored(s)
  <2>1. r.st = s /\ r.out = <<>>
    BY <1>1, <1>2 DEF handleGET, Reply
  <2> HIDE DEF r
  <2> QED BY <2>1, NothingSent DEF r
<1>3. CASE m.tx \in Stored(s)
  <2> DEFINE tx == TX(m.tx, s.txStore[m.tx].sig)
             e == [to |-> from, msg |-> tx]
  <2>1. r.st = s /\ r.out = <<e>>
    BY <1>1, <1>3 DEF handleGET, Reply
  <2>2. s.txStore[m.tx] \in TxRecord
    BY <1>3 DEF IsNodeState, IsMap, Stored
  <2>3. s.txStore[m.tx].sig \in Keys
    BY <2>2 DEF TxRecord
  <2>4. tx \in Messages /\ tx.type = "TX" /\ tx.tx = m.tx
    BY <2>3, MessageTypes DEF TX
  <2> HIDE DEF tx
  <2>5. <<e>> \in Seq(Outgoing) /\ OnePerPeer(<<e>>) /\ \A i \in DOMAIN <<e>> : <<e>>[i] = e
    BY <2>4, SingleFacts
  <2>6. Answer(e, s, s, from, m)
    BY <1>3, <2>4 DEF Answer
  <2> HIDE DEF r, e
  <2> QED BY <2>1, <2>5, <2>6 DEF r
<1> QED BY <1>2, <1>3

(* handleProofRequest changes nothing and answers what the node holds. *)
LEMMA HandleProofRequestFacts ==
    ASSUME NEW s, NEW time, NEW from \in PeerIDs, NEW m \in Messages,
           m.type = "PROOF_REQ", m.tx \in TxIDs
    PROVE  LET r == dispatch(s, time, from, m)
           IN  /\ r.st = s
               /\ r.out \in Seq(Outgoing) /\ OnePerPeer(r.out)
               /\ \A i \in DOMAIN r.out : Answer(r.out[i], r.st, s, from, m)
<1> DEFINE r == dispatch(s, time, from, m)
           seen == m.tx \in Stored(s)
           conflict == hasConflict(s, m.tx)
           resp == PROOF_RESP(m.tx, seen, conflict, 1)
           e == [to |-> from, msg |-> resp]
<1>1. r.st = s /\ r.out = <<e>>
  BY DEF dispatch, handleProofRequest, Reply
<1>2. seen \in BOOLEAN /\ conflict \in BOOLEAN
  BY DEF hasConflict
<1>3. resp.type = "PROOF_RESP" /\ resp.tx = m.tx /\ resp.seen = seen
  BY Zenon DEF PROOF_RESP
<1>4. resp.seen => m.tx \in Stored(s)
  BY <1>3
<1> HIDE DEF seen, conflict
<1>5. resp \in Messages
  BY <1>2, MessageTypes, ReplayAssumption
<1> HIDE DEF resp
<1>6. <<e>> \in Seq(Outgoing) /\ OnePerPeer(<<e>>) /\ \A i \in DOMAIN <<e>> : <<e>>[i] = e
  BY <1>5, SingleFacts
<1>7. e.msg = resp
  OBVIOUS
<1> HIDE DEF r, e
<1>8. Answer(e, s, s, from, m)
  BY <1>3, <1>4, <1>7 DEF Answer
<1> QED BY <1>1, <1>6, <1>8 DEF r

(* handleTX keeps the invariant; what it announces it holds. *)
LEMMA HandleTXFacts ==
    ASSUME NEW s, NEW time \in Nat, NodeInv(s, time), NEW from \in PeerIDs,
           NEW m \in Messages, m.type = "TX", m.tx \in TxIDs, m.sig \in Keys
    PROVE  LET r == dispatch(s, time, from, m)
           IN  /\ NodeInv(r.st, time) /\ Changes(r.st, s, from, m)
               /\ r.out \in Seq(Outgoing) /\ OnePerPeer(r.out)
               /\ \A i \in DOMAIN r.out : Answer(r.out[i], r.st, s, from, m)
<1> DEFINE t == m.tx
           r == dispatch(s, time, from, m)
           q == recomputeSelectionForTransfer(
                    upsertTransfer(s, time, t, m.sig, from), time, t)
<1>1. r = handleTX(s, time, from, t, m.sig)
  BY DEF dispatch
<1>2. CASE ~validateTransfer(s, time, t, m.sig)
  <2>1. r.st = s /\ r.out = <<>>
    BY <1>1, <1>2 DEF handleTX, Reply
  <2> HIDE DEF r
  <2> QED BY <2>1, NothingSent DEF r, Changes
<1>3. CASE validateTransfer(s, time, t, m.sig)
  <2>1. NodeInv(q, time)
    BY StoreTransferInv
  <2>2. StoredFrom(q, s, t, from) /\ q.consumed = s.consumed
    BY <1>3, StoreTransferStep
  <2>3. r.st = q /\ r.out = IF t \in Stored(s) THEN <<>> ELSE announce(q, t, from)
    BY <1>1, <1>3 DEF handleTX, Reply
  <2> HIDE DEF q, r
  <2>4. Changes(r.st, s, from, m)
    BY <2>2, <2>3 DEF Changes
  <2>5. q.peers \subseteq PeerIDs
    BY <2>1 DEF NodeInv, StoresOK, IsNodeState
  <2>6. CASE t \in Stored(s)
    BY <2>1, <2>3, <2>4, <2>6, NothingSent DEF r
  <2>7. CASE t \notin Stored(s)
    <3> DEFINE out == announce(q, t, from)
    <3>1. out \in Seq(Outgoing) /\ OnePerPeer(out) /\ \A i \in DOMAIN out : out[i].msg = INV(t)
      BY <2>5, AnnounceFacts
    <3>2. t \in Stored(q)
      BY <2>2 DEF StoredFrom
    <3>3. r.out = out
      BY <2>3, <2>7
    <3> HIDE DEF out
    <3>4. \A i \in DOMAIN out : Answer(out[i], q, s, from, m)
      BY <2>7, <3>1, <3>2 DEF Answer
    <3> QED BY <2>1, <2>3, <2>4, <3>1, <3>3, <3>4 DEF r
  <2> QED BY <2>6, <2>7
<1> QED BY <1>2, <1>3

(* Every message: the node stays in its invariant, changes only what the message
   entitles it to, and answers with well-formed messages, one for each peer. *)
LEMMA DispatchFacts ==
    ASSUME NEW s, NEW time \in Nat, NodeInv(s, time), NEW from \in PeerIDs,
           NEW m \in Messages
    PROVE  LET r == dispatch(s, time, from, m)
           IN  /\ NodeInv(r.st, time) /\ Changes(r.st, s, from, m)
               /\ r.out \in Seq(Outgoing) /\ OnePerPeer(r.out)
               /\ \A i \in DOMAIN r.out : Answer(r.out[i], r.st, s, from, m)
<1> DEFINE r == dispatch(s, time, from, m)
<1>1. IsNodeState(s)
  BY DEF NodeInv, StoresOK
<1>2. CASE m \in [type : {"INV", "GET", "PROOF_REQ"}, tx : TxIDs]
  <2>1. m.type \in {"INV", "GET", "PROOF_REQ"} /\ m.tx \in TxIDs
    BY <1>2
  <2>2. /\ r.st = s
        /\ r.out \in Seq(Outgoing) /\ OnePerPeer(r.out)
        /\ \A i \in DOMAIN r.out : Answer(r.out[i], r.st, s, from, m)
    BY <1>1, <2>1, HandleINVFacts, HandleGETFacts, HandleProofRequestFacts
  <2> HIDE DEF r
  <2> QED BY <2>2 DEF Changes, r
<1>3. CASE m \in [type : {"TX"}, tx : TxIDs, sig : Keys]
  <2>1. m.type = "TX" /\ m.tx \in TxIDs /\ m.sig \in Keys
    BY <1>3
  <2> QED BY <2>1, HandleTXFacts
<1>4. CASE m \in [type : {"PROOF_RESP"}, tx : TxIDs, seen : BOOLEAN,
                  conflict : BOOLEAN, distance : Distances]
  <2>1. /\ m.type = "PROOF_RESP" /\ m.tx \in TxIDs /\ m.seen \in BOOLEAN
        /\ m.conflict \in BOOLEAN /\ m.distance \in Distances
    BY <1>4
  <2>2. r = handleProofResponse(s, time, from, m)
    BY <2>1 DEF dispatch
  <2>3. r.out = <<>>
    BY <2>2 DEF handleProofResponse, Reply
  <2>4. NodeInv(handleProofResponse(s, time, from, m).st, time)
    BY <2>1, ProofResponseInv
  <2>5. ProofFiled(handleProofResponse(s, time, from, m).st, s, from, m)
    BY <2>1, ProofResponseStep
  <2> HIDE DEF r
  <2>6. Changes(r.st, s, from, m)
    BY <2>1, <2>2, <2>5 DEF Changes
  <2> QED BY <2>2, <2>3, <2>4, <2>6, NothingSent DEF r
<1>5. CASE m = ACK
  <2>1. r.st = s /\ r.out = <<>>
    BY <1>5 DEF dispatch, ACK, Reply
  <2> HIDE DEF r
  <2> QED BY <2>1, NothingSent DEF r, Changes
<1> QED BY <1>2, <1>3, <1>4, <1>5 DEF Messages

(* A submission: refused, or stored and announced. *)
LEMMA SubmitFacts ==
    ASSUME NEW s, NEW time \in Nat, NodeInv(s, time), NEW t \in TxIDs, NEW sig \in Keys
    PROVE  LET r == AcceptLocalTransfer(s, time, t, sig)
           IN  /\ NodeInv(r.st, time)
               /\ r.out \in Seq(Outgoing) /\ OnePerPeer(r.out)
               /\ \A i \in DOMAIN r.out : r.out[i].msg = INV(t)
               /\ \/ r.st = s /\ r.out = <<>>
                  \/ /\ StoredFrom(r.st, s, t, Local)
                     /\ r.st.consumed = s.consumed \cup Inputs(t)
                     /\ Inputs(t) \cap s.consumed = {} /\ Inputs(t) # {}
<1> DEFINE r == AcceptLocalTransfer(s, time, t, sig)
<1>1. NodeInv(r.st, time)
  BY AcceptLocalInv
<1>2. CASE ~canAcceptLocal(s, time, t, sig)
  <2>1. r.st = s /\ r.out = <<>>
    BY <1>2 DEF AcceptLocalTransfer, Reply
  <2> HIDE DEF r
  <2> QED BY <1>1, <2>1, NothingSent DEF r
<1>3. CASE canAcceptLocal(s, time, t, sig)
  <2>1. StoredFrom(r.st, s, t, Local) /\ r.st.consumed = s.consumed \cup Inputs(t)
    BY <1>3, AcceptLocalStep
  <2>2. Inputs(t) \cap s.consumed = {} /\ Len(TxInputs[t]) > 0
    BY <1>3 DEF canAcceptLocal, validateTransfer
  <2>3. Inputs(t) # {}
    BY <2>2, InputsType
  <2>4. r.out = announce(r.st, t, Local)
    BY <1>3 DEF AcceptLocalTransfer, Reply
  <2>5. r.st.peers \subseteq PeerIDs
    BY <1>1 DEF NodeInv, StoresOK, IsNodeState
  <2> HIDE DEF r
  <2> DEFINE q == r.st
             out == announce(q, t, Local)
  <2>6. out \in Seq(Outgoing) /\ OnePerPeer(out) /\ \A i \in DOMAIN out : out[i].msg = INV(t)
    BY <2>5, AnnounceFacts
  <2>7. r.out = out
    BY <2>4
  <2> HIDE DEF out
  <2> QED BY <1>1, <2>1, <2>2, <2>3, <2>6, <2>7 DEF r
<1> QED BY <1>2, <1>3

=============================================================================
