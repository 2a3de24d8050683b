--------------------------- MODULE Web4WireProofs ---------------------------
(***************************************************************************)
(* Proofs about the codec and the wire: what the encoders write the        *)
(* decoders read, what the decoders accept the encoders write, and so the  *)
(* read loop hands on what was sent.                                       *)
(***************************************************************************)
EXTENDS Web4Wire, FiniteSetTheorems, SequenceTheorems, WellFoundedInduction, TLAPS

----------------------------------------------------------------------------
(* Induction and recursion over the naturals, with sets and functions in   *)
(* the place of operators.                                                 *)

(* A non-empty set of naturals has a least element. *)
LEMMA Least ==
    ASSUME NEW B \in SUBSET Nat, B # {}
    PROVE  \E m \in B : \A k \in B : m <= k
<1>1. PICK b \in B : TRUE
  OBVIOUS
<1> DEFINE Bad == {0..k : k \in B \cap (0..b)}
<1>2. IsFiniteSet(0..b)
  BY FS_Interval
<1>3. Bad \subseteq FiniteSubsetsOf(0..b)
  <2>1. Bad \subseteq SUBSET (0..b)
    OBVIOUS
  <2> QED BY <1>2, <2>1, FS_FiniteSubsetsOfFinite
<1>4. Bad # {}
  BY <1>1
<1>5. PICK T \in Bad : \A U \in Bad : ~(<<U, T>> \in StrictSubsetOrdering(0..b))
  <2> HIDE DEF Bad
  <2> QED BY <1>2, <1>3, <1>4, FS_StrictSubsetOrderingWellFounded, WFMin, Zenon
<1>6. PICK m \in B \cap (0..b) : T = 0..m
  BY <1>5
<1>7. ASSUME NEW k \in B, k < m PROVE FALSE
  <2>1. 0..k \in Bad /\ 0..k \in SUBSET (0..b) /\ 0..m \in SUBSET (0..b)
    BY <1>6, <1>7
  <2>2. 0..k \in SUBSET (0..m) /\ 0..k # 0..m
    <3>1. m \in 0..m /\ m \notin 0..k
      BY <1>6, <1>7
    <3> QED BY <3>1, <1>6, <1>7
  <2> QED BY <2>1, <2>2, <1>5, <1>6 DEF StrictSubsetOrdering
<1> QED BY <1>6, <1>7

(* Induction: a set that holds 0, and n + 1 with every n it holds, is Nat. *)
LEMMA Induction ==
    ASSUME NEW P \in SUBSET Nat, 0 \in P, \A n \in Nat : n \in P => n + 1 \in P
    PROVE  \A n \in Nat : n \in P
<1> SUFFICES ASSUME Nat \ P # {} PROVE FALSE
  OBVIOUS
<1>1. PICK m \in Nat \ P : \A k \in Nat \ P : m <= k
  BY Least
<1>2. m # 0 /\ m - 1 \in Nat
  BY <1>1
<1>3. m - 1 \in P
  BY <1>1, <1>2
<1> QED BY <1>1, <1>3

(* The function that goes from base by the functions step[1], step[2], ... as
   far as n. *)
Walks(f, n, base, step) ==
    f = [i \in 0..n |-> IF i = 0 THEN base ELSE step[i][f[i - 1]]]

(* Two walks agree as far as their steps do. *)
LEMMA WalkUnique ==
    ASSUME NEW m \in Nat, NEW n \in Nat, m <= n, NEW base,
           NEW step, NEW other, \A i \in 1..m : step[i] = other[i],
           NEW f, Walks(f, m, base, step), NEW g, Walks(g, n, base, other)
    PROVE  \A i \in 0..m : f[i] = g[i]
<1> DEFINE P == {i \in Nat : i <= m => f[i] = g[i]}
<1>1. 0 \in P
  BY DEF Walks
<1>2. ASSUME NEW i \in Nat, i \in P PROVE i + 1 \in P
  <2> SUFFICES ASSUME i + 1 <= m PROVE f[i + 1] = g[i + 1]
    OBVIOUS
  <2>1. f[i] = g[i]
    BY <1>2
  <2>2. f[i + 1] = step[i + 1][f[i]] /\ g[i + 1] = other[i + 1][g[i]]
    <3>1. i + 1 \in 0..m /\ i + 1 \in 0..n /\ i + 1 # 0 /\ (i + 1) - 1 = i
      OBVIOUS
    <3> QED BY <3>1 DEF Walks
  <2> QED BY <2>1, <2>2
<1>3. \A i \in Nat : i \in P
  <2>1. P \in SUBSET Nat
    OBVIOUS
  <2> HIDE DEF P
  <2> QED BY <1>1, <1>2, <2>1, Induction
<1> QED BY <1>3

(* A walk inside a set exists. *)
LEMMA WalkExists ==
    ASSUME NEW n \in Nat, NEW S, NEW base \in S, NEW step \in [1..n -> [S -> S]]
    PROVE  \E f \in [0..n -> S] : Walks(f, n, base, step)
<1> DEFINE P == {i \in Nat : i <= n => \E f \in [0..i -> S] : Walks(f, i, base, step)}
<1>1. 0 \in P
  <2> DEFINE f == [i \in 0..0 |-> base]
  <2>1. f \in [0..0 -> S] /\ Walks(f, 0, base, step)
    BY DEF Walks
  <2> QED BY <2>1
<1>2. ASSUME NEW i \in Nat, i \in P PROVE i + 1 \in P
  <2> SUFFICES ASSUME i + 1 <= n
               PROVE  \E f \in [0..(i + 1) -> S] : Walks(f, i + 1, base, step)
    OBVIOUS
  <2>1. PICK g \in [0..i -> S] : Walks(g, i, base, step)
    BY <1>2
  <2> DEFINE f == [j \in 0..(i + 1) |-> IF j = i + 1 THEN step[i + 1][g[i]] ELSE g[j]]
  <2>2. step[i + 1][g[i]] \in S
    <3>1. step[i + 1] \in [S -> S] /\ g[i] \in S
      OBVIOUS
    <3> QED BY <3>1
  <2>3. f \in [0..(i + 1) -> S]
    BY <2>2
  <2>4. \A j \in 0..(i + 1) : f[j] = IF j = 0 THEN base ELSE step[j][f[j - 1]]
    <3> TAKE j \in 0..(i + 1)
    <3>1. CASE j = i + 1
      BY <3>1
    <3>2. CASE j \in 0..i
      <4>1. g[j] = IF j = 0 THEN base ELSE step[j][g[j - 1]]
        BY <2>1, <3>2 DEF Walks
      <4>2. f[j] = g[j] /\ (j # 0 => f[j - 1] = g[j - 1])
        BY <3>2
      <4> QED BY <4>1, <4>2
    <3> QED BY <3>1, <3>2
  <2>5. Walks(f, i + 1, base, step)
    <3>1. f = [j \in 0..(i + 1) |-> f[j]]
      BY <2>3
    <3> QED BY <2>4, <3>1 DEF Walks
  <2> QED BY <2>3, <2>5
<1>3. \A i \in Nat : i \in P
  <2>1. P \in SUBSET Nat
    OBVIOUS
  <2> HIDE DEF P
  <2> QED BY <1>1, <1>2, <2>1, Induction
<1>4. n \in P
  BY <1>3
<1> QED BY <1>4

(* A walk over all naturals exists. *)
LEMMA EndlessWalk ==
    ASSUME NEW S, NEW base \in S, NEW step \in [Nat -> [S -> S]]
    PROVE  \E f \in [Nat -> S] :
              f = [i \in Nat |-> IF i = 0 THEN base ELSE step[i][f[i - 1]]]
<1> DEFINE to(n) == CHOOSE f \in [0..n -> S] : Walks(f, n, base, step)
           G == [n \in Nat |-> to(n)[n]]
<1>1. ASSUME NEW n \in Nat PROVE to(n) \in [0..n -> S] /\ Walks(to(n), n, base, step)
  <2> DEFINE part == [i \in 1..n |-> step[i]]
  <2>1. part \in [1..n -> [S -> S]]
    OBVIOUS
  <2>2. PICK f \in [0..n -> S] : Walks(f, n, base, part)
    <3> HIDE DEF part
    <3> QED BY <2>1, WalkExists
  <2>3. Walks(f, n, base, step)
    <3>1. \A i \in 0..n : i # 0 => part[i] = step[i]
      OBVIOUS
    <3> HIDE DEF part
    <3> QED BY <2>2, <3>1 DEF Walks
  <2> QED BY <2>3
<1> HIDE DEF to
<1>2. \A n \in Nat : to(n)[n] \in S
  BY <1>1
<1>3. ASSUME NEW n \in Nat \ {0} PROVE to(n)[n] = step[n][to(n - 1)[n - 1]]
  <2>1. n - 1 \in Nat /\ n - 1 <= n /\ n - 1 \in 0..(n - 1)
    OBVIOUS
  <2>2. Walks(to(n), n, base, step) /\ Walks(to(n - 1), n - 1, base, step)
    BY <2>1, <1>1
  <2>3. to(n)[n - 1] = to(n - 1)[n - 1]
    BY <2>1, <2>2, WalkUnique
  <2>4. to(n)[n] = step[n][to(n)[n - 1]]
    BY <2>2 DEF Walks
  <2> QED BY <2>3, <2>4
<1>4. to(0)[0] = base
  BY <1>1 DEF Walks
<1>5. \A n \in Nat : G[n] = IF n = 0 THEN base ELSE step[n][G[n - 1]]
  BY <1>3, <1>4
<1>6. G \in [Nat -> S] /\ G = [n \in Nat |-> IF n = 0 THEN base ELSE step[n][G[n - 1]]]
  BY <1>2, <1>5
<1> QED BY <1>6

----------------------------------------------------------------------------
(* Integers in bytes.                                                      *)

(* Division by 256. *)
LEMMA Division ==
    /\ \A k \in Int : /\ k \div 256 \in Int /\ k % 256 \in Byte
                      /\ 256 * (k \div 256) + (k % 256) = k
    /\ \A v \in Int, x \in Byte : (256 * v + x) \div 256 = v /\ (256 * v + x) % 256 = x
    /\ \A p \in Int : \A k \in 0..(256 * p - 1) : k \div 256 \in 0..(p - 1)
<1>1. \A k \in Int : k \div 256 \in Int /\ k % 256 \in Byte /\ 256 * (k \div 256) + (k % 256) = k
  BY DEF Byte
<1>2. \A v \in Int, x \in Byte : (256 * v + x) \div 256 = v /\ (256 * v + x) % 256 = x
  BY DEF Byte
<1>3. \A p \in Int : \A k \in 0..(256 * p - 1) : k \div 256 \in 0..(p - 1)
  OBVIOUS
<1> QED BY <1>1, <1>2, <1>3

(* Pow256 is the power: it satisfies its equations and is positive. *)
LEMMA Powers ==
    /\ Pow256[0] = 1
    /\ \A w \in Nat : Pow256[w + 1] = 256 * Pow256[w]
    /\ \A w \in Nat : Pow256[w] \in Nat \ {0}
<1> DEFINE step == [w \in Nat |-> [v \in Nat |-> 256 * v]]
<1>1. \E f \in [Nat -> Nat] : f = [w \in Nat |-> IF w = 0 THEN 1 ELSE step[w][f[w - 1]]]
  <2> DEFINE S == Nat  one == 1
  <2>1. step \in [Nat -> [S -> S]]
    OBVIOUS
  <2>2. one \in S
    OBVIOUS
  <2>3. \E f \in [Nat -> S] : f = [w \in Nat |-> IF w = 0 THEN one ELSE step[w][f[w - 1]]]
    <3> HIDE DEF step, S, one
    <3> QED BY <2>1, <2>2, EndlessWalk
  <2> HIDE DEF step
  <2> QED BY <2>3
<1>0. PICK f \in [Nat -> Nat] : f = [w \in Nat |-> IF w = 0 THEN 1 ELSE step[w][f[w - 1]]]
  BY <1>1
<1>2. f = [w \in Nat |-> IF w = 0 THEN 1 ELSE 256 * f[w - 1]]
  <2>1. \A w \in Nat : w # 0 => step[w][f[w - 1]] = 256 * f[w - 1]
    <3> TAKE w \in Nat
    <3> HAVE w # 0
    <3>1. f[w - 1] \in Nat
      OBVIOUS
    <3> QED BY <3>1
  <2> HIDE DEF step
  <2> QED BY <1>0, <2>1
<1>3. Pow256 = [w \in Nat |-> IF w = 0 THEN 1 ELSE 256 * Pow256[w - 1]]
  BY <1>2 DEF Pow256
<1>4. Pow256[0] = 1 /\ \A w \in Nat : Pow256[w + 1] = 256 * Pow256[w]
  <2>1. \A w \in Nat : w + 1 \in Nat /\ w + 1 # 0 /\ (w + 1) - 1 = w
    OBVIOUS
  <2> QED BY <1>3, <2>1
<1> DEFINE P == {w \in Nat : Pow256[w] \in Nat \ {0}}
<1>5. \A w \in Nat : w \in P
  <2>1. P \in SUBSET Nat /\ 0 \in P /\ \A w \in Nat : w \in P => w + 1 \in P
    BY <1>4
  <2> HIDE DEF P
  <2> QED BY <2>1, Induction
<1> QED BY <1>4, <1>5

(* The encoder of integers satisfies its equations. *)
LEMMA Digits ==
    /\ \A w \in Nat, n \in Int : appendUint(w, n) \in Seq(Byte)
    /\ \A n \in Int : Len(appendUint(0, n)) = 0
    /\ \A w \in Nat, n \in Int :
          appendUint(w + 1, n) = Append(appendUint(w, n \div 256), n % 256)
<1> DEFINE S == [Int -> Seq(Byte)]
           next == [g \in S |-> [n \in Int |-> Append(g[n \div 256], n % 256)]]
           none == [n \in Int |-> <<>>]
           step == [w \in Nat |-> next]
<1>0. \A n \in Int : n \div 256 \in Int /\ n % 256 \in Byte
  BY DEF Byte
<1>1. PICK f \in [Nat -> S] : f = [w \in Nat |-> IF w = 0 THEN none ELSE step[w][f[w - 1]]]
  <2>1. ASSUME NEW g \in S, NEW n \in Int PROVE Append(g[n \div 256], n % 256) \in Seq(Byte)
    <3>1. g[n \div 256] \in Seq(Byte) /\ n % 256 \in Byte
      BY <1>0
    <3> QED BY <3>1
  <2>2. step \in [Nat -> [S -> S]]
    BY <2>1, SMTT(30)
  <2>3. none \in S
    OBVIOUS
  <2> HIDE DEF step, S, none
  <2> QED BY <2>2, <2>3, EndlessWalk
<1>2. \A w \in Nat \ {0} : step[w][f[w - 1]] = [n \in Int |-> Append(f[w - 1][n \div 256], n % 256)]
  <2> TAKE w \in Nat \ {0}
  <2>1. f[w - 1] \in S
    <3> HIDE DEF S
    <3> QED OBVIOUS
  <2> HIDE DEF S
  <2> QED BY <2>1
<1>3. f = [w \in Nat |-> [n \in Int |-> IF w = 0 THEN <<>> ELSE Append(f[w - 1][n \div 256], n % 256)]]
  <2>1. \A w \in Nat : f[w] = [n \in Int |-> IF w = 0 THEN <<>> ELSE Append(f[w - 1][n \div 256], n % 256)]
    <3> TAKE w \in Nat
    <3>1. CASE w = 0
      <4>1. f[w] = none
        <5> HIDE DEF none, step, S
        <5> QED BY <1>1, <3>1
      <4> QED BY <3>1, <4>1
    <3>2. CASE w # 0
      <4>1. f[w] = step[w][f[w - 1]]
        <5> HIDE DEF none, step, S
        <5> QED BY <1>1, <3>2
      <4>2. f[w] = [n \in Int |-> Append(f[w - 1][n \div 256], n % 256)]
        <5> HIDE DEF none, step, S
        <5> QED BY <1>2, <3>2, <4>1, ZenonT(60)
      <4> HIDE DEF none, step, S
      <4> QED BY <3>2, <4>2
    <3> QED BY <3>1, <3>2
  <2> HIDE DEF none, step, S
  <2> QED BY <2>1
<1> DEFINE Is(g) == g = [w \in Nat |-> [n \in Int |-> IF w = 0 THEN <<>> ELSE Append(g[w - 1][n \div 256], n % 256)]]
<1>4. Is(digits)
  <2>1. Is(f)
    BY <1>3
  <2>2. digits = CHOOSE g : Is(g)
    BY DEF digits
  <2> HIDE DEF Is
  <2> QED BY <2>1, <2>2
<1>5. \A w \in Nat : digits[w] = [n \in Int |-> IF w = 0 THEN <<>> ELSE Append(digits[w - 1][n \div 256], n % 256)]
  <2> HIDE DEF none, step, S, next
  <2> QED BY <1>4, Zenon
<1>6. \A n \in Int : Len(appendUint(0, n)) = 0 /\ appendUint(0, n) \in Seq(Byte)
  <2> TAKE n \in Int
  <2>0. 0 \in Nat
    OBVIOUS
  <2>1. digits[0][n] = <<>>
    <3>1. digits[0] = [k \in Int |-> <<>>]
      BY <1>5, <2>0, ZenonT(60)
    <3> QED BY <3>1, Zenon
  <2>2. <<>> \in Seq(Byte) /\ Len(<<>>) = 0
    BY EmptySeq
  <2> QED BY <2>1, <2>2, Zenon DEF appendUint
<1>7. \A w \in Nat, n \in Int : appendUint(w + 1, n) = Append(appendUint(w, n \div 256), n % 256)
  <2> TAKE w \in Nat, n \in Int
  <2>1. w + 1 \in Nat /\ w + 1 # 0 /\ (w + 1) - 1 = w
    OBVIOUS
  <2>2. digits[w + 1] = [k \in Int |-> Append(digits[w][k \div 256], k % 256)]
    <3>1. digits[w + 1] = [k \in Int |-> IF w + 1 = 0 THEN <<>> ELSE Append(digits[(w + 1) - 1][k \div 256], k % 256)]
      BY <1>5, <2>1, Zenon
    <3> QED BY <2>1, <3>1, ZenonT(60)
  <2> QED BY <2>2, Zenon DEF appendUint
<1> DEFINE P == {w \in Nat : \A n \in Int : appendUint(w, n) \in Seq(Byte)}
<1>8. \A w \in Nat : w \in P
  <2>1. 0 \in P
    BY <1>6
  <2>2. ASSUME NEW w \in Nat, w \in P, NEW n \in Int PROVE appendUint(w + 1, n) \in Seq(Byte)
    <3>1. appendUint(w, n \div 256) \in Seq(Byte) /\ n % 256 \in Byte
      BY <1>0, <2>2
    <3>2. appendUint(w + 1, n) = Append(appendUint(w, n \div 256), n % 256)
      BY <1>7, <2>2, ZenonT(60)
    <3>3. Append(appendUint(w, n \div 256), n % 256) \in Seq(Byte)
      BY <3>1, AppendProperties
    <3> QED BY <3>2, <3>3, Zenon
  <2>3. P \in SUBSET Nat
    OBVIOUS
  <2>4. ASSUME NEW w \in Nat, w \in P PROVE w + 1 \in P
    <3>1. w + 1 \in Nat
      OBVIOUS
    <3> QED BY <2>2, <2>4, <3>1, Zenon
  <2> HIDE DEF P
  <2> QED BY <2>1, <2>3, <2>4, Induction
<1> QED BY <1>6, <1>7, <1>8

(* An encoded integer has its width, and a number and the number 256^w above
   it have the same digits. *)
LEMMA DigitsWidth ==
    \A w \in Nat, n \in Int :
        /\ Len(appendUint(w, n)) = w
        /\ appendUint(w, n + Pow256[w]) = appendUint(w, n)
<1> DEFINE P == {w \in Nat : \A n \in Int : Len(appendUint(w, n)) = w
                                            /\ appendUint(w, n + Pow256[w]) = appendUint(w, n)}
<1>1. 0 \in P
  <2>1. \A n \in Int : n + Pow256[0] \in Int
    BY Powers
  <2>2. \A n, k \in Int : appendUint(0, n) = appendUint(0, k)
    BY Digits, SeqEqual
  <2> QED BY <2>1, <2>2, Digits, ZenonT(60)
<1>2. ASSUME NEW w \in Nat, w \in P PROVE w + 1 \in P
  <2> SUFFICES ASSUME NEW n \in Int
               PROVE  Len(appendUint(w + 1, n)) = w + 1
                      /\ appendUint(w + 1, n + Pow256[w + 1]) = appendUint(w + 1, n)
    OBVIOUS
  <2> DEFINE p == Pow256[w]
  <2>1. p \in Nat /\ Pow256[w + 1] = 256 * p /\ n + 256 * p \in Int
    BY Powers
  <2> HIDE DEF p
  <2>2. (n + 256 * p) \div 256 = (n \div 256) + p /\ (n + 256 * p) % 256 = n % 256
    BY <2>1
  <2>3. n \div 256 \in Int /\ n % 256 \in Byte
    BY DEF Byte
  <2>4. appendUint(w, (n \div 256) + p) = appendUint(w, n \div 256) /\ Len(appendUint(w, n \div 256)) = w
    BY <1>2, <2>3 DEF p
  <2>5. appendUint(w + 1, n) = Append(appendUint(w, n \div 256), n % 256)
    BY Digits, ZenonT(60)
  <2>6. appendUint(w + 1, n + 256 * p) = Append(appendUint(w, (n \div 256) + p), n % 256)
    <3>1. \A i \in Int : appendUint(w + 1, i) = Append(appendUint(w, i \div 256), i % 256)
      BY Digits, Zenon
    <3>2. appendUint(w + 1, n + 256 * p)
             = Append(appendUint(w, (n + 256 * p) \div 256), (n + 256 * p) % 256)
      BY <2>1, <3>1, ZenonT(60)
    <3> QED BY <2>2, <3>2, ZenonT(60)
  <2>7. appendUint(w, n \div 256) \in Seq(Byte)
    BY Digits, <2>3
  <2>8. Len(appendUint(w + 1, n)) = w + 1
    BY <2>3, <2>4, <2>5, <2>7
  <2> QED BY <2>1, <2>4, <2>5, <2>6, <2>8, SMTT(30)
<1>3. \A w \in Nat : w \in P
  <2>1. P \in SUBSET Nat
    OBVIOUS
  <2> HIDE DEF P
  <2> QED BY <1>1, <1>2, <2>1, Induction
<1> QED BY <1>3

(* The decoder of integers satisfies its equations. *)
LEMMA Number ==
    /\ \A b \in Seq(Byte) : number(b) \in Nat
    /\ \A b \in Seq(Byte) : Len(b) = 0 => number(b) = 0
    /\ \A b \in Seq(Byte), x \in Byte : number(Append(b, x)) = 256 * number(b) + x
<1> DEFINE step(b) == [i \in 1..Len(b) |-> [v \in Nat |-> 256 * v + b[i]]]
           Is(b, g) == g = [i \in 0..Len(b) |-> IF i = 0 THEN 0 ELSE 256 * g[i - 1] + b[i]]
           of(b) == CHOOSE g : Is(b, g)
<1>1. ASSUME NEW b \in Seq(Byte)
      PROVE  of(b) \in [0..Len(b) -> Nat] /\ Walks(of(b), Len(b), 0, step(b))
  <2> DEFINE l == Len(b)  zero == 0  N == Nat
  <2>0. l \in Nat /\ \A i \in 1..l : b[i] \in Nat
    <3>1. l \in Nat /\ \A i \in 1..l : b[i] \in Byte
      OBVIOUS
    <3>2. \A x \in Byte : x \in Nat
      BY DEF Byte
    <3> QED BY <3>1, <3>2
  <2>1. step(b) \in [1..l -> [N -> N]]
    BY <2>0
  <2>2. PICK f \in [0..l -> N] : Walks(f, l, zero, step(b))
    <3>1. zero \in N
      OBVIOUS
    <3> HIDE DEF step, zero, N, l
    <3> QED BY <2>0, <2>1, <3>1, WalkExists
  <2>3. Is(b, f)
    <3>1. \A i \in 0..l : f[i] = IF i = 0 THEN 0 ELSE 256 * f[i - 1] + b[i]
      <4> TAKE i \in 0..l
      <4>1. CASE i = 0
        BY <2>2, <4>1 DEF Walks
      <4>2. CASE i # 0
        <5>1. i \in 1..l /\ f[i - 1] \in Nat
          BY <2>0, <4>2, SMTT(30)
        <5>2. f[i] = step(b)[i][f[i - 1]]
          <6> HIDE DEF step
          <6> QED BY <2>2, <4>2 DEF Walks
        <5> QED BY <4>2, <5>1, <5>2
      <4> QED BY <4>1, <4>2
    <3> HIDE DEF l
    <3> QED BY <3>1 DEF l
  <2>4. Is(b, of(b))
    <3> HIDE DEF Is
    <3> QED BY <2>3
  <2> DEFINE g == of(b)
  <2>5. \A i \in 0..l : g[i] = IF i = 0 THEN 0 ELSE 256 * g[i - 1] + b[i]
    <3> HIDE DEF g, of
    <3> QED BY <2>4 DEF g
  <2>6. g = [i \in 0..l |-> g[i]]
    <3> HIDE DEF of
    <3> QED BY <2>4
  <2> HIDE DEF g
  <2> DEFINE P == {i \in Nat : i <= l => g[i] \in Nat}
  <2>7. \A i \in Nat : i \in P
    <3>1. P \in SUBSET Nat /\ 0 \in P
      BY <2>0, <2>5
    <3>2. ASSUME NEW i \in Nat, i \in P PROVE i + 1 \in P
      <4> SUFFICES ASSUME i + 1 <= l PROVE g[i + 1] \in Nat
        OBVIOUS
      <4> HIDE DEF l
      <4>1. i + 1 \in 0..l /\ i + 1 # 0 /\ (i + 1) - 1 = i /\ b[i + 1] \in Nat
        BY <2>0
      <4>2. g[i + 1] = 256 * g[i] + b[i + 1]
        BY <2>5, <4>1
      <4> QED BY <2>0, <3>2, <4>1, <4>2, SMTT(30)
    <3> HIDE DEF P
    <3> QED BY <3>1, <3>2, Induction
  <2>8. g \in [0..l -> Nat]
    <3> HIDE DEF l
    <3> QED BY <2>0, <2>6, <2>7
  <2>9. \A i \in 0..l : g[i] = IF i = 0 THEN 0 ELSE step(b)[i][g[i - 1]]
    <3> HIDE DEF l
    <3>1. \A i \in 0..l : i # 0 => step(b)[i][g[i - 1]] = 256 * g[i - 1] + b[i]
      <4> TAKE i \in 0..l
      <4> HAVE i # 0
      <4>1. i \in 1..l /\ i - 1 \in 0..l /\ g[i - 1] \in Nat
        <5> HIDE DEF step, P
        <5> QED BY <2>0, <2>8
      <4> QED BY <4>1 DEF l
    <3> HIDE DEF step
    <3> QED BY <2>5, <3>1
  <2>10. Walks(g, l, 0, step(b))
    <3> HIDE DEF l, step
    <3> QED BY <2>6, <2>9 DEF Walks
  <2> QED BY <2>8, <2>10 DEF g
<1>2. \A b : number(b) = of(b)[Len(b)]
  BY DEF number
<1>3. \A b \in Seq(Byte) : Len(b) \in Nat
  OBVIOUS
<1> HIDE DEF step, of
<1>4. \A b \in Seq(Byte) : number(b) \in Nat
  BY <1>1, <1>2, <1>3
<1>5. \A b \in Seq(Byte) : Len(b) = 0 => number(b) = 0
  <2> SUFFICES ASSUME NEW b \in Seq(Byte), Len(b) = 0 PROVE of(b)[0] = 0
    BY <1>2
  <2>1. Walks(of(b), 0, 0, step(b))
    BY <1>1
  <2> QED BY <2>1 DEF Walks
<1>6. ASSUME NEW b \in Seq(Byte), NEW x \in Byte
      PROVE  number(Append(b, x)) = 256 * number(b) + x
  <2> DEFINE c == Append(b, x)  l == Len(b)
  <2>1. c \in Seq(Byte) /\ l \in Nat /\ Len(c) = l + 1 /\ c[l + 1] = x
        /\ \A i \in 1..l : c[i] = b[i]
    BY AppendProperties
  <2>2. \A i \in 1..l : step(b)[i] = step(c)[i]
    <3> HIDE DEF c
    <3> QED BY <2>1 DEF step
  <2>3. Walks(of(b), l, 0, step(b)) /\ Walks(of(c), l + 1, 0, step(c))
    <3> HIDE DEF c
    <3> QED BY <1>1, <2>1
  <2>4. of(c)[l] = of(b)[l]
    <3>1. l \in 0..l /\ l <= l + 1 /\ l + 1 \in Nat
      BY <2>1
    <3> DEFINE f == of(b)  h == of(c)  sb == step(b)  sc == step(c)  m == l + 1  zero == 0
    <3>2. Walks(f, l, zero, sb) /\ Walks(h, m, zero, sc) /\ l <= m /\ m \in Nat
          /\ l \in Nat /\ \A i \in 1..l : sb[i] = sc[i]
      <4> HIDE DEF c, l
      <4> QED BY <2>1, <2>2, <2>3, <3>1
    <3>3. \A i \in 0..l : f[i] = h[i]
      <4> HIDE DEF c, l, m, sb, sc, f, h, zero
      <4> QED BY <3>2, WalkUnique
    <3> QED BY <3>1, <3>3
  <2>5. of(c)[l + 1] = step(c)[l + 1][of(c)[l]]
    <3> HIDE DEF c, l
    <3>1. l + 1 \in 0..(l + 1) /\ l + 1 # 0 /\ (l + 1) - 1 = l
      BY <2>1
    <3> QED BY <2>3, <3>1 DEF Walks
  <2>6. number(c) = of(c)[l + 1] /\ number(b) = of(b)[l]
    BY <1>2, <2>1
  <2>7. step(c)[l + 1][number(b)] = 256 * number(b) + x
    <3> HIDE DEF c, l
    <3> QED BY <1>4, <2>1 DEF step
  <2> HIDE DEF c, l
  <2> QED BY <2>4, <2>5, <2>6, <2>7 DEF c
<1> QED BY <1>4, <1>5, <1>6

(* What w bytes hold is read back from them. *)
LEMMA UintReadBack ==
    ASSUME NEW w \in Nat, NEW n \in Uints(w)
    PROVE  number(appendUint(w, n)) = n
<1> DEFINE P == {u \in Nat : \A k \in Uints(u) : number(appendUint(u, k)) = k}
<1>1. 0 \in P
  <2> SUFFICES ASSUME NEW k \in Uints(0) PROVE number(appendUint(0, k)) = k
    OBVIOUS
  <2>1. k = 0
    BY Powers DEF Uints
  <2>2. appendUint(0, k) \in Seq(Byte) /\ Len(appendUint(0, k)) = 0
    BY <2>1, Digits
  <2> QED BY <2>1, <2>2, Number
<1>2. ASSUME NEW u \in Nat, u \in P PROVE u + 1 \in P
  <2> SUFFICES ASSUME NEW k \in Uints(u + 1) PROVE number(appendUint(u + 1, k)) = k
    OBVIOUS
  <2> DEFINE p == Pow256[u]  q == k \div 256
  <2>1. p \in Nat /\ k \in 0..(256 * p - 1)
    BY Powers DEF Uints
  <2> HIDE DEF p
  <2>2. k \in Int /\ q \in 0..(p - 1) /\ k % 256 \in Byte /\ 256 * q + (k % 256) = k
    BY <2>1, Division
  <2>3. q \in Uints(u) /\ q \in Int
    BY <2>2 DEF Uints, p
  <2> HIDE DEF q
  <2>4. number(appendUint(u, q)) = q
    BY <1>2, <2>3
  <2>5. appendUint(u, q) \in Seq(Byte)
    BY <2>3, Digits, ZenonT(60)
  <2>6. appendUint(u + 1, k) = Append(appendUint(u, k \div 256), k % 256)
    <3>1. k \in Int
      BY <2>2
    <3> QED BY <3>1, Digits, ZenonT(60)
  <2>7. number(appendUint(u + 1, k)) = 256 * number(appendUint(u, q)) + (k % 256)
    <3>1. k % 256 \in Byte
      BY <2>2
    <3>2. \A x \in Byte : number(Append(appendUint(u, q), x)) = 256 * number(appendUint(u, q)) + x
      BY <2>5, Number, Zenon
    <3>3. number(Append(appendUint(u, q), k % 256)) = 256 * number(appendUint(u, q)) + (k % 256)
      BY <3>1, <3>2, Zenon
    <3> QED BY <2>6, <3>3, Zenon DEF q
  <2> QED BY <2>2, <2>4, <2>6, <2>7
<1>3. P \in SUBSET Nat
  OBVIOUS
<1>4. w \in P
  <2> HIDE DEF P
  <2> QED BY <1>1, <1>2, <1>3, Induction
<1> QED BY <1>4

(* A field of bytes is what the encoder makes of its number. *)
LEMMA UintWriteBack ==
    ASSUME NEW w \in Nat, NEW b \in Seq(Byte), Len(b) = w
    PROVE  number(b) \in Uints(w) /\ appendUint(w, number(b)) = b
<1> DEFINE P == {u \in Nat : \A c \in Seq(Byte) : Len(c) = u => /\ number(c) \in Uints(u)
                                                              /\ appendUint(u, number(c)) = c}
<1>1. 0 \in P
  <2> SUFFICES ASSUME NEW c \in Seq(Byte), Len(c) = 0
               PROVE  number(c) \in Uints(0) /\ appendUint(0, number(c)) = c
    OBVIOUS
  <2>1. number(c) = 0
    BY Number
  <2>2. appendUint(0, 0) \in Seq(Byte) /\ Len(appendUint(0, 0)) = 0
    BY Digits
  <2>3. appendUint(0, 0) = c
    BY <2>2, SeqEqual
  <2> QED BY <2>1, <2>3, Powers DEF Uints
<1>2. ASSUME NEW u \in Nat, u \in P PROVE u + 1 \in P
  <2> SUFFICES ASSUME NEW c \in Seq(Byte), Len(c) = u + 1
               PROVE  number(c) \in Uints(u + 1) /\ appendUint(u + 1, number(c)) = c
    OBVIOUS
  <2>1. PICK d \in Seq(Byte), x \in Byte : c = Append(d, x)
    <3>1. c # <<>>
      BY EmptySeq
    <3> QED BY <3>1, SequenceEmptyOrAppend
  <2>2. Len(d) = u
    BY <2>1, AppendProperties
  <2> DEFINE p == Pow256[u]  v == number(d)
  <2>3. v \in Uints(u) /\ appendUint(u, v) = d
    BY <1>2, <2>2
  <2>4. number(c) = 256 * v + x
    BY <2>1, Number, ZenonT(60)
  <2>5. p \in Nat /\ v \in 0..(p - 1) /\ x \in 0..255
    BY <2>3, Powers DEF Uints, Byte
  <2> HIDE DEF v
  <2>6. number(c) \in Uints(u + 1) /\ number(c) \in Int
    <3>1. 256 * v + x \in 0..(256 * p - 1)
      <4> HIDE DEF p
      <4> QED BY <2>5
    <3>2. Pow256[u + 1] = 256 * p
      BY Powers
    <3> HIDE DEF p
    <3> QED BY <2>4, <3>1, <3>2 DEF Uints
  <2>7. number(c) \div 256 = v /\ number(c) % 256 = x
    <3>1. v \in Int /\ x \in Byte
      BY <2>5 DEF Byte
    <3>2. (256 * v + x) \div 256 = v /\ (256 * v + x) % 256 = x
      <4>1. \A i \in Int, y \in Byte : (256 * i + y) \div 256 = i /\ (256 * i + y) % 256 = y
        BY Division, Zenon
      <4> QED BY <3>1, <4>1, ZenonT(60)
    <3> QED BY <2>4, <3>2, Zenon
  <2>8. appendUint(u + 1, number(c)) = Append(appendUint(u, number(c) \div 256), number(c) % 256)
    BY <2>6, Digits, ZenonT(60)
  <2>9. appendUint(u + 1, number(c)) = c
    BY <2>1, <2>3, <2>7, <2>8, Zenon
  <2> QED BY <2>6, <2>9
<1>3. P \in SUBSET Nat
  OBVIOUS
<1>4. w \in P
  <2> HIDE DEF P
  <2> QED BY <1>1, <1>2, <1>3, Induction
<1> QED BY <1>4

\* What decodeIntAt makes of an unsigned number of w bytes.
signed(w, u) == IF 2 * u >= Pow256[w] THEN u - Pow256[w] ELSE u

(* Two's complement, read back. *)
LEMMA IntReadBack ==
    ASSUME NEW w \in Nat, NEW n \in Ints(w)
    PROVE  signed(w, number(appendUint(w, n))) = n
<1> DEFINE p == Pow256[w]
<1>1. p \in Nat /\ n \in Int /\ -p <= 2 * n /\ 2 * n < p
  BY Powers DEF Ints
<1>2. CASE n >= 0
  <2>1. n \in Uints(w)
    BY <1>1, <1>2 DEF Uints
  <2>2. number(appendUint(w, n)) = n
    BY <2>1, UintReadBack
  <2> QED BY <1>1, <2>2 DEF signed
<1>3. CASE n < 0
  <2>1. n + p \in Uints(w) /\ n + p \in Int
    BY <1>1, <1>3 DEF Uints
  <2>2. appendUint(w, n + p) = appendUint(w, n)
    BY <1>1, DigitsWidth
  <2>3. number(appendUint(w, n)) = n + p
    BY <2>1, <2>2, UintReadBack
  <2> HIDE DEF p
  <2>4. 2 * (n + p) >= p /\ (n + p) - p = n
    BY <1>1
  <2> QED BY <2>3, <2>4 DEF signed, p
<1> QED BY <1>1, <1>2, <1>3

(* Two's complement, written back. *)
LEMMA IntWriteBack ==
    ASSUME NEW w \in Nat, NEW b \in Seq(Byte), Len(b) = w
    PROVE  signed(w, number(b)) \in Ints(w) /\ appendUint(w, signed(w, number(b))) = b
<1> DEFINE p == Pow256[w]  u == number(b)
<1>1. u \in Uints(w) /\ appendUint(w, u) = b
  BY UintWriteBack
<1>2. p \in Nat /\ u \in 0..(p - 1)
  BY <1>1, Powers DEF Uints
<1> HIDE DEF u
<1>3. CASE 2 * u >= p
  <2>1. signed(w, u) = u - p /\ u - p \in Int
    BY <1>2, <1>3 DEF signed
  <2>2. appendUint(w, (u - p) + p) = appendUint(w, u - p)
    BY <2>1, DigitsWidth
  <2>3. (u - p) + p = u
    <3> HIDE DEF p
    <3> QED BY <1>2
  <2>4. u - p \in Ints(w)
    BY <1>2, <1>3 DEF Ints
  <2> QED BY <1>1, <2>1, <2>2, <2>3, <2>4 DEF u
<1>4. CASE 2 * u < p
  <2>1. signed(w, u) = u /\ u \in Ints(w)
    BY <1>2, <1>4 DEF signed, Ints
  <2> QED BY <1>1, <2>1 DEF u
<1> QED BY <1>2, <1>3, <1>4

----------------------------------------------------------------------------
(* Readers.                                                                *)

\* The byte string e stands in data from the offset "at" to the offset "next".
At(data, at, e, next) ==
    /\ at \in Nat /\ e \in Seq(Byte)
    /\ next = at + Len(e) /\ next <= Len(data)
    /\ SubSeq(data, at + 1, next) = e

(* One string after the other. *)
LEMMA Join ==
    ASSUME NEW data \in Seq(Byte), NEW i, NEW j, NEW k, NEW a, NEW b,
           At(data, i, a, j), At(data, j, b, k)
    PROVE  At(data, i, a \o b, k)
<1>1. a \in Seq(Byte) /\ b \in Seq(Byte) /\ i \in Nat /\ j = i + Len(a) /\ k = j + Len(b)
      /\ k <= Len(data) /\ SubSeq(data, i + 1, j) = a /\ SubSeq(data, j + 1, k) = b
  BY DEF At
<1>2. Len(a) \in Nat /\ Len(b) \in Nat /\ Len(data) \in Nat
  BY <1>1
<1>3. a \o b \in Seq(Byte) /\ Len(a \o b) = Len(a) + Len(b)
  BY <1>1, ConcatProperties
<1>4. SubSeq(data, i + 1, j) \o SubSeq(data, j + 1, k) = SubSeq(data, i + 1, k)
  <2>1. i + 1 \in 1..(Len(data) + 1) /\ j \in ((i + 1) - 1)..Len(data) /\ k \in j..Len(data)
    BY <1>1, <1>2
  <2> QED BY <2>1, ConcatAdjacentSubSeq
<1>5. k = i + Len(a \o b)
  BY <1>1, <1>2, <1>3
<1>6. SubSeq(data, i + 1, k) = a \o b
  BY <1>1, <1>4, Zenon
<1> QED BY <1>1, <1>3, <1>5, <1>6, Zenon DEF At

(* A string in two parts. *)
LEMMA Split ==
    ASSUME NEW data \in Seq(Byte), NEW i, NEW k, NEW a \in Seq(Byte), NEW b \in Seq(Byte),
           At(data, i, a \o b, k)
    PROVE  At(data, i, a, i + Len(a)) /\ At(data, i + Len(a), b, k)
<1> DEFINE j == i + Len(a)  c == a \o b
<1>1. c \in Seq(Byte) /\ Len(c) = Len(a) + Len(b)
      /\ \A x \in 1..(Len(a) + Len(b)) : c[x] = IF x <= Len(a) THEN a[x] ELSE b[x - Len(a)]
  BY ConcatProperties
<1>2. i \in Nat /\ k = i + Len(c) /\ k <= Len(data) /\ SubSeq(data, i + 1, k) = c
  BY DEF At
<1> HIDE DEF c
<1>3. Len(a) \in Nat /\ Len(b) \in Nat /\ Len(data) \in Nat
  OBVIOUS
<1>4. \A x \in 1..(Len(a) + Len(b)) : c[x] = data[i + x]
  <2> DEFINE l == Len(c)
  <2>1. l \in Nat /\ l = Len(a) + Len(b) /\ i + l <= Len(data) /\ k = i + l
    BY <1>1, <1>2, <1>3
  <2> HIDE DEF l
  <2>2. \A x \in (i + 1)..(i + l) : data[x] \in Byte
    BY <1>2, <1>3, <2>1
  <2>3. \A x \in 1..l : SubSeq(data, i + 1, i + l)[x] = data[i + x]
    BY <1>2, <1>3, <2>1
  <2> QED BY <1>2, <2>1, <2>3
<1>5. SubSeq(data, i + 1, j) = a
  <2>1. SubSeq(data, i + 1, j) \in Seq(Byte) /\ Len(SubSeq(data, i + 1, j)) = Len(a)
        /\ \A x \in 1..Len(a) : SubSeq(data, i + 1, j)[x] = data[i + x]
    BY <1>1, <1>2, <1>3
  <2>2. \A x \in 1..Len(a) : data[i + x] = a[x]
    BY <1>1, <1>3, <1>4, SMTT(30)
  <2> QED BY <2>1, <2>2, SeqEqual
<1>6. SubSeq(data, j + 1, k) = b
  <2>1. SubSeq(data, j + 1, k) \in Seq(Byte) /\ Len(SubSeq(data, j + 1, k)) = Len(b)
        /\ \A x \in 1..Len(b) : SubSeq(data, j + 1, k)[x] = data[j + x]
    BY <1>1, <1>2, <1>3
  <2>2. \A x \in 1..Len(b) : data[j + x] = b[x]
    <3> TAKE x \in 1..Len(b)
    <3> DEFINE y == Len(a) + x
    <3>1. y \in 1..(Len(a) + Len(b)) /\ ~(y <= Len(a)) /\ y - Len(a) = x /\ i + y = j + x
      BY <1>2, <1>3
    <3> HIDE DEF y, j
    <3> QED BY <3>1, <1>1, <1>4
  <2> QED BY <2>1, <2>2, SeqEqual
<1>7. j \in Nat /\ j <= Len(data) /\ k = j + Len(b)
  BY <1>1, <1>2, <1>3
<1> QED BY <1>2, <1>5, <1>6, <1>7 DEF At

(* The whole of the data. *)
LEMMA Whole ==
    ASSUME NEW data \in Seq(Byte)
    PROVE  /\ At(data, 0, data, Len(data))
           /\ \A e : At(data, 0, e, Len(data)) => e = data
<1>1. SubSeq(data, 1, Len(data)) = data /\ Len(data) \in Nat
  BY SubSeqFull
<1> QED BY <1>1 DEF At

(* Fields of a given length. *)
LEMMA FixedRead ==
    ASSUME NEW data \in Seq(Byte), NEW at, NEW next, NEW e, At(data, at, e, next)
    PROVE  fixedAt(Len(e), data, at) = [val |-> e, next |-> next]
<1>1. at \in Nat /\ Len(e) \in Nat /\ Len(data) \in Nat /\ next = at + Len(e)
      /\ next <= Len(data) /\ SubSeq(data, at + 1, next) = e
  BY DEF At
<1>2. ~(at = Short \/ Len(data) - at < Len(e))
  BY <1>1 DEF Short
<1> QED BY <1>1, <1>2 DEF fixedAt

(* A field that is read is where it was read. *)
LEMMA FixedWritten ==
    ASSUME NEW data \in Seq(Byte), NEW at \in offsets(data), NEW w \in Nat
    PROVE  LET f == fixedAt(w, data, at)
           IN  /\ f.next \in offsets(data) /\ f.val \in Seq(Byte)
               /\ f.next # Short => At(data, at, f.val, f.next) /\ Len(f.val) = w
<1>1. Len(data) \in Nat /\ at \in {-1} \cup 0..Len(data)
  BY DEF offsets, Short
<1>2. CASE at = Short \/ Len(data) - at < w
  <2>1. fixedAt(w, data, at) = [val |-> <<>>, next |-> Short]
    BY <1>2 DEF fixedAt
  <2>2. <<>> \in Seq(Byte)
    BY EmptySeq
  <2> QED BY <2>1, <2>2 DEF offsets
<1>3. CASE at \in 0..Len(data) /\ at + w <= Len(data)
  <2> DEFINE e == SubSeq(data, at + 1, at + w)
  <2>1. fixedAt(w, data, at) = [val |-> e, next |-> at + w]
    BY <1>1, <1>3 DEF fixedAt, Short
  <2>2. e \in Seq(Byte) /\ Len(e) = w
    BY <1>1, <1>3
  <2>3. At(data, at, e, at + w)
    BY <1>1, <1>3, <2>2 DEF At
  <2>4. at + w \in offsets(data)
    BY <1>1, <1>3 DEF offsets
  <2> QED BY <2>1, <2>2, <2>3, <2>4
<1> QED BY <1>1, <1>2, <1>3 DEF Short

\* A reader that stood at the offset "at" has returned r: it has failed, or it
\* has moved over e.
Took(data, at, r, e) ==
    r.next \in offsets(data) /\ (r.next # Short => At(data, at, e, r.next))

(* Integers. *)
LEMMA UintRead ==
    ASSUME NEW data \in Seq(Byte), NEW at, NEW next, NEW w \in Nat, NEW n \in Uints(w),
           At(data, at, appendUint(w, n), next)
    PROVE  decodeUintAt(w, data, at) = [val |-> n, next |-> next]
<1>1. n \in Int
  BY DEF Uints
<1>2. Len(appendUint(w, n)) = w
  BY <1>1, DigitsWidth, Zenon
<1>3. fixedAt(w, data, at) = [val |-> appendUint(w, n), next |-> next]
  BY <1>2, FixedRead
<1>4. number(appendUint(w, n)) = n
  BY UintReadBack
<1> QED BY <1>3, <1>4 DEF decodeUintAt

(* An unsigned integer that is read is encoded to the bytes it was read from. *)
LEMMA UintWritten ==
    ASSUME NEW data \in Seq(Byte), NEW at \in offsets(data), NEW w \in Nat, NEW r,
           r = decodeUintAt(w, data, at)
    PROVE  /\ Took(data, at, r, appendUint(w, r.val))
           /\ r.val \in Nat
<1> DEFINE f == fixedAt(w, data, at)
<1>1. f.next \in offsets(data) /\ f.val \in Seq(Byte)
      /\ (f.next # Short => At(data, at, f.val, f.next) /\ Len(f.val) = w)
  BY FixedWritten
<1>2. r = [val |-> number(f.val), next |-> f.next]
  BY DEF decodeUintAt
<1> HIDE DEF f
<1>3. r.val = number(f.val) /\ r.next = f.next
  BY <1>2
<1>4. r.val \in Nat
  BY <1>1, <1>3, Number
<1>5. ASSUME f.next # Short PROVE At(data, at, appendUint(w, r.val), r.next)
  <2>1. appendUint(w, number(f.val)) = f.val
    BY <1>1, <1>5, UintWriteBack
  <2> QED BY <1>1, <1>3, <1>5, <2>1
<1> QED BY <1>1, <1>3, <1>4, <1>5 DEF Took

(* A signed integer is the unsigned one with the sign taken out. *)
LEMMA IntFromUint ==
    ASSUME NEW data, NEW at, NEW w
    PROVE  decodeIntAt(w, data, at)
              = [val  |-> signed(w, decodeUintAt(w, data, at).val),
                 next |-> decodeUintAt(w, data, at).next]
<1> DEFINE f == fixedAt(w, data, at)
<1>1. decodeUintAt(w, data, at) = [val |-> number(f.val), next |-> f.next]
  BY DEF decodeUintAt
<1> QED BY <1>1 DEF decodeIntAt, signed

(* An encoded signed integer is read back. *)
LEMMA IntRead ==
    ASSUME NEW data \in Seq(Byte), NEW at, NEW next, NEW w \in Nat, NEW n \in Ints(w),
           At(data, at, appendUint(w, n), next)
    PROVE  decodeIntAt(w, data, at) = [val |-> n, next |-> next]
<1>1. n \in Int
  BY DEF Ints
<1>2. Len(appendUint(w, n)) = w
  BY <1>1, DigitsWidth, Zenon
<1>3. fixedAt(w, data, at) = [val |-> appendUint(w, n), next |-> next]
  BY <1>2, FixedRead
<1>4. decodeUintAt(w, data, at) = [val |-> number(appendUint(w, n)), next |-> next]
  BY <1>3 DEF decodeUintAt
<1>5. signed(w, number(appendUint(w, n))) = n
  BY IntReadBack
<1> QED BY <1>4, <1>5, IntFromUint

(* A signed integer that is read is encoded to the bytes it was read from. *)
LEMMA IntWritten ==
    ASSUME NEW data \in Seq(Byte), NEW at \in offsets(data), NEW w \in Nat, NEW r,
           r = decodeIntAt(w, data, at)
    PROVE  Took(data, at, r, appendUint(w, r.val)) /\ r.val \in Int
<1> DEFINE f == fixedAt(w, data, at)
<1>1. f.next \in offsets(data) /\ f.val \in Seq(Byte)
      /\ (f.next # Short => At(data, at, f.val, f.next) /\ Len(f.val) = w)
  BY FixedWritten
<1>2. decodeUintAt(w, data, at) = [val |-> number(f.val), next |-> f.next]
  BY DEF decodeUintAt
<1> HIDE DEF f
<1>3. r.val = signed(w, number(f.val)) /\ r.next = f.next
  BY <1>2, IntFromUint
<1>5. ASSUME f.next # Short PROVE At(data, at, appendUint(w, r.val), r.next)
  <2>1. appendUint(w, signed(w, number(f.val))) = f.val
    BY <1>1, <1>5, IntWriteBack
  <2> QED BY <1>1, <1>3, <1>5, <2>1
<1>6. r.val \in Int
  <2>1. number(f.val) \in Nat /\ Pow256[w] \in Nat
    BY <1>1, Number, Powers
  <2> QED BY <1>3, <2>1 DEF signed
<1> QED BY <1>1, <1>3, <1>5, <1>6 DEF Took

(* Byte strings with their length. *)
LEMMA BytesRead ==
    ASSUME NEW data \in Seq(Byte), NEW at, NEW next, NEW b \in Seq(Byte),
           Len(b) \in Uints(W32), At(data, at, appendBytes(b), next)
    PROVE  decodeBytesAt(data, at) = [val |-> b, next |-> next]
<1> DEFINE n == appendUint(W32, Len(b))
<1>0. W32 \in Nat /\ Len(b) \in Nat /\ Len(b) \in Int
  BY CodecAssumption
<1>1. n \in Seq(Byte)
  BY <1>0, Digits, ZenonT(60)
<1>2. At(data, at, n \o b, next)
  BY DEF appendBytes
<1> HIDE DEF n
<1>3. At(data, at, n, at + Len(n)) /\ At(data, at + Len(n), b, next)
  BY <1>1, <1>2, Split
<1>4. decodeUintAt(W32, data, at) = [val |-> Len(b), next |-> at + Len(n)]
  BY <1>0, <1>3, UintRead DEF n
<1>5. fixedAt(Len(b), data, at + Len(n)) = [val |-> b, next |-> next]
  BY <1>3, FixedRead
<1> QED BY <1>4, <1>5 DEF decodeBytesAt

(* A byte string that is read is encoded to the bytes it was read from. *)
LEMMA BytesWritten ==
    ASSUME NEW data \in Seq(Byte), NEW at \in offsets(data), NEW r,
           r = decodeBytesAt(data, at)
    PROVE  /\ Took(data, at, r, appendBytes(r.val))
           /\ r.val \in Seq(Byte)
<1> DEFINE n == decodeUintAt(W32, data, at)
<1>0. W32 \in Nat
  BY CodecAssumption
<1>1. Took(data, at, n, appendUint(W32, n.val)) /\ n.val \in Nat
  BY <1>0, UintWritten
<1> HIDE DEF n
<1>2. r = fixedAt(n.val, data, n.next)
  BY DEF n, decodeBytesAt
<1>3. r.next \in offsets(data) /\ r.val \in Seq(Byte)
      /\ (r.next # Short => At(data, n.next, r.val, r.next) /\ Len(r.val) = n.val)
  BY <1>1, <1>2, FixedWritten DEF Took
<1>4. ASSUME r.next # Short PROVE At(data, at, appendBytes(r.val), r.next)
  <2>1. At(data, n.next, r.val, r.next) /\ Len(r.val) = n.val
    BY <1>3, <1>4
  <2>2. n.next # Short
    BY <2>1 DEF At, Short
  <2>3. At(data, at, appendUint(W32, n.val), n.next)
    BY <1>1, <2>2 DEF Took
  <2>4. At(data, at, appendUint(W32, n.val) \o r.val, r.next)
    BY <2>1, <2>3, Join
  <2> QED BY <2>1, <2>4 DEF appendBytes
<1> QED BY <1>3, <1>4 DEF Took

(* Booleans. *)
LEMMA BoolWritten ==
    ASSUME NEW data \in Seq(Byte), NEW at \in offsets(data), NEW r,
           r = decodeBoolAt(data, at)
    PROVE  Took(data, at, r, appendBool(r.val))
<1> DEFINE f == fixedAt(1, data, at)
<1>1. f.next \in offsets(data) /\ f.val \in Seq(Byte)
      /\ (f.next # Short => At(data, at, f.val, f.next) /\ Len(f.val) = 1)
  BY FixedWritten
<1>0. decodeBoolAt(data, at).val <=> f.val = <<1>>
  BY Zenon DEF decodeBoolAt
<1>6. r.val <=> f.val = <<1>>
  BY <1>0, Zenon
<1> HIDE DEF f
<1>2. r = [val |-> f.val = <<1>>, next |-> IF f.val \in {<<0>>, <<1>>} THEN f.next ELSE Short]
  BY DEF f, decodeBoolAt
<1>3. CASE f.val = <<1>>
  <2>0. r.val
    BY <1>6, <1>3, Zenon
  <2>1. appendBool(r.val) = f.val
    BY <1>3, <2>0 DEF appendBool
  <2>2. r.next = f.next
    BY <1>2, <1>3
  <2> QED BY <1>1, <2>1, <2>2 DEF Took
<1>4. CASE f.val = <<0>>
  <2>0. <<0>> # <<1>>
    OBVIOUS
  <2>3. ~r.val
    BY <1>6, <1>4, <2>0, Zenon
  <2>1. appendBool(r.val) = f.val
    BY <1>4, <2>3 DEF appendBool
  <2>2. r.next = f.next
    BY <1>2, <1>4
  <2> QED BY <1>1, <2>1, <2>2 DEF Took
<1>5. CASE f.val \notin {<<0>>, <<1>>}
  BY <1>2, <1>5 DEF Took, offsets
<1> QED BY <1>3, <1>4, <1>5

----------------------------------------------------------------------------
(* Concatenations.                                                         *)

(* FlattenSeq, element by element from the end. *)
LEMMA FlattenEnd ==
    ASSUME NEW S
    PROVE  /\ FlattenSeq(<<>>) = <<>>
           /\ \A s \in Seq(Seq(S)) : FlattenSeq(s) \in Seq(S)
           /\ \A s \in Seq(Seq(S)), x \in Seq(S) : FlattenSeq(Append(s, x)) = FlattenSeq(s) \o x
<1> DEFINE B == Seq(S)
           Is(s, g) == g = [i \in 1..Len(s) |-> IF i = 1 THEN s[i] ELSE g[i - 1] \o s[i]]
           of(s) == CHOOSE g : Is(s, g)
<1>0. \A u, v \in B : u \o v \in B
  OBVIOUS
<1>1. ASSUME NEW s \in Seq(B) PROVE Is(s, of(s))
  <2> DEFINE l == Len(s)  none == <<>>
             step == [i \in 1..l |-> [v \in B |-> v \o s[i]]]
  <2>1. l \in Nat /\ \A i \in 1..l : s[i] \in B
    <3> HIDE DEF B
    <3> QED OBVIOUS
  <2>2. step \in [1..l -> [B -> B]]
    <3> HIDE DEF B, l
    <3> QED BY <1>0, <2>1
  <2>3. none \in B
    BY EmptySeq
  <2>4. PICK f \in [0..l -> B] : Walks(f, l, none, step)
    <3> HIDE DEF l, none, step, B
    <3> QED BY <2>1, <2>2, <2>3, WalkExists
  <2> DEFINE g == [i \in 1..l |-> f[i]]
  <2>5. \A i \in 1..l : f[i] = f[i - 1] \o s[i]
    <3> HIDE DEF l, B
    <3> TAKE i \in 1..l
    <3>1. i \in 0..l /\ i # 0 /\ f[i - 1] \in B
      BY <2>1
    <3> QED BY <2>4, <3>1 DEF Walks
  <2>6. \A i \in 1..l : g[i] = IF i = 1 THEN s[i] ELSE g[i - 1] \o s[i]
    <3> TAKE i \in 1..l
    <3>1. CASE i = 1
      <4>1. f[0] = <<>>
        <5> HIDE DEF l, step
        <5> QED BY <2>1, <2>4 DEF Walks
      <4>2. <<>> \o s[1] = s[1]
        BY <2>1, <3>1, ConcatEmptySeq
      <4>3. f[1] = f[0] \o s[1]
        <5>1. 1 \in 1..l /\ 1 - 1 = 0
          BY <3>1
        <5>2. f[1] = f[1 - 1] \o s[1]
          <6> HIDE DEF l
          <6> QED BY <2>5, <5>1, Zenon
        <5> QED BY <5>1, <5>2, Zenon
      <4> QED BY <3>1, <4>1, <4>2, <4>3
    <3>2. CASE i # 1
      <4> HIDE DEF l
      <4>1. i - 1 \in 1..l
        BY <2>1, <3>2
      <4> QED BY <2>5, <3>2, <4>1
    <3> QED BY <3>1, <3>2
  <2>7. Is(s, g)
    <3>1. g = [i \in 1..l |-> g[i]]
      OBVIOUS
    <3> HIDE DEF g, B
    <3> QED BY <2>6, <3>1, Zenon
  <2> HIDE DEF Is, g
  <2> QED BY <2>7
<1>2. \A s : Len(s) # 0 => FlattenSeq(s) = of(s)[Len(s)]
  BY DEF FlattenSeq
<1>3. ASSUME NEW s \in Seq(B), NEW i \in 1..Len(s)
      PROVE  of(s)[i] = IF i = 1 THEN s[i] ELSE of(s)[i - 1] \o s[i]
  <2> HIDE DEF of
  <2> QED BY <1>1
<1>4. ASSUME NEW s \in Seq(B), NEW x \in B
      PROVE  \A i \in 1..Len(s) : of(Append(s, x))[i] = of(s)[i] /\ of(s)[i] \in B
  <2> DEFINE c == Append(s, x)  l == Len(s)
             P == {i \in Nat : i \in 1..l => of(c)[i] = of(s)[i] /\ of(s)[i] \in B}
  <2>1. c \in Seq(B) /\ Len(c) = l + 1 /\ l \in Nat /\ \A i \in 1..l : c[i] = s[i] /\ s[i] \in B
    <3> HIDE DEF B
    <3> QED BY AppendProperties
  <2> HIDE DEF of, c
  <2>2. ASSUME NEW i \in Nat, i \in P PROVE i + 1 \in P
    <3> SUFFICES ASSUME i + 1 \in 1..l
                 PROVE  of(c)[i + 1] = of(s)[i + 1] /\ of(s)[i + 1] \in B
      OBVIOUS
    <3> HIDE DEF B
    <3>1. i + 1 \in 1..Len(c) /\ (i + 1) - 1 = i
      BY <2>1
    <3>2. of(c)[i + 1] = IF i + 1 = 1 THEN c[i + 1] ELSE of(c)[(i + 1) - 1] \o c[i + 1]
      BY <1>3, <2>1, <3>1
    <3>3. of(s)[i + 1] = IF i + 1 = 1 THEN s[i + 1] ELSE of(s)[(i + 1) - 1] \o s[i + 1]
      BY <1>3
    <3>4. CASE i = 0
      BY <2>1, <3>2, <3>3, <3>4
    <3>5. CASE i # 0
      <4>1. i \in 1..l
        BY <3>5, <2>1
      <4>2. of(c)[i] = of(s)[i] /\ of(s)[i] \in B
        BY <2>2, <4>1
      <4>3. of(c)[i + 1] = of(c)[i] \o c[i + 1] /\ of(s)[i + 1] = of(s)[i] \o s[i + 1]
        <5>1. i + 1 # 1
          BY <3>5
        <5> QED BY <3>1, <3>2, <3>3, <5>1, Zenon
      <4> QED BY <1>0, <2>1, <4>2, <4>3
    <3> QED BY <3>4, <3>5
  <2>3. P \in SUBSET Nat /\ 0 \in P
    BY <2>1
  <2>4. \A i \in Nat : i \in P
    <3> HIDE DEF P
    <3> QED BY <2>2, <2>3, Induction
  <2> QED BY <2>1, <2>4 DEF c
<1>5. FlattenSeq(<<>>) = <<>>
  BY EmptySeq DEF FlattenSeq
<1>6. ASSUME NEW s \in Seq(B) PROVE FlattenSeq(s) \in B
  <2>1. CASE Len(s) = 0
    <3>1. s = <<>>
      BY <2>1
    <3>2. <<>> \in B
      BY EmptySeq
    <3> QED BY <1>5, <3>1, <3>2
  <2>2. CASE Len(s) # 0
    <3>1. Len(s) \in 1..Len(s)
      BY <2>2
    <3>2. <<>> \in B
      BY EmptySeq
    <3>3. of(s)[Len(s)] \in B
      <4> HIDE DEF of, B
      <4> QED BY <1>4, <3>1, <3>2
    <3> HIDE DEF of
    <3> QED BY <1>2, <2>2, <3>3
  <2> QED BY <2>1, <2>2
<1>7. ASSUME NEW s \in Seq(B), NEW x \in B PROVE FlattenSeq(Append(s, x)) = FlattenSeq(s) \o x
  <2> DEFINE c == Append(s, x)  l == Len(s)
  <2>1. c \in Seq(B) /\ Len(c) = l + 1 /\ l \in Nat /\ c[l + 1] = x
    <3> HIDE DEF B
    <3> QED BY AppendProperties
  <2> HIDE DEF of
  <2>2. FlattenSeq(c) = of(c)[l + 1]
    <3> HIDE DEF c
    <3> QED BY <1>2, <2>1
  <2>3. of(c)[l + 1] = IF l + 1 = 1 THEN c[l + 1] ELSE of(c)[(l + 1) - 1] \o c[l + 1]
    <3> HIDE DEF c, B
    <3>1. l + 1 \in 1..Len(c)
      BY <2>1
    <3> QED BY <1>3, <2>1, <3>1
  <2>4. CASE l = 0
    <3>1. s = <<>>
      BY <2>4
    <3>2. FlattenSeq(s) = <<>>
      BY <1>5, <3>1
    <3>3. <<>> \o x = x
      BY ConcatEmptySeq
    <3>4. FlattenSeq(c) = x
      <4> HIDE DEF c
      <4> QED BY <2>1, <2>2, <2>3, <2>4
    <3> QED BY <3>2, <3>3, <3>4
  <2>5. CASE l # 0
    <3>1. l \in 1..l /\ (l + 1) - 1 = l /\ l + 1 # 1
      BY <2>1, <2>5
    <3>2. of(c)[l] = of(s)[l]
      <4> HIDE DEF B
      <4> QED BY <1>4, <3>1
    <3>3. FlattenSeq(s) = of(s)[l]
      BY <1>2, <2>5
    <3> HIDE DEF c, l
    <3> QED BY <2>1, <2>2, <2>3, <3>1, <3>2, <3>3 DEF c
  <2> QED BY <2>4, <2>5
<1> QED BY <1>5, <1>6, <1>7

(* FlattenSeq, element by element from the front. *)
LEMMA FlattenFront ==
    ASSUME NEW S
    PROVE  \A s \in Seq(Seq(S)) :
              Len(s) > 0 => FlattenSeq(s) = Head(s) \o FlattenSeq(Tail(s))
<1>0. \A i, j, k \in Seq(S) : (i \o j) \o k = i \o (j \o k)
  <2> TAKE i, j, k \in Seq(S)
  <2> QED BY ConcatAssociative
<1> DEFINE B == Seq(S)
           P == {n \in Nat : \A t \in Seq(B) : Len(t) = n + 1 =>
                                FlattenSeq(t) = Head(t) \o FlattenSeq(Tail(t))}
<1>1. 0 \in P
  <2> SUFFICES ASSUME NEW t \in Seq(B), Len(t) = 1
               PROVE  FlattenSeq(t) = Head(t) \o FlattenSeq(Tail(t))
    OBVIOUS
  <2>5. PICK u \in Seq(B), x \in B : t = Append(u, x)
    <3> HIDE DEF B, P
    <3>1. t # <<>>
      OBVIOUS
    <3> QED BY <3>1, SequenceEmptyOrAppend
  <2>6. u = <<>>
    <3> HIDE DEF B, P
    <3>1. Len(t) = Len(u) + 1 /\ Len(u) \in Nat
      BY <2>5, AppendProperties
    <3>2. Len(u) = 0
      BY <3>1
    <3> QED BY <3>2
  <2>1. Head(t) = x /\ Tail(t) = <<>> /\ t = Append(<<>>, x) /\ x \in B
    <3> HIDE DEF B
    <3> QED BY <2>5, <2>6, HeadTailAppend
  <2>2. <<>> \in Seq(B) /\ <<>> \in B
    BY EmptySeq
  <2>3. FlattenSeq(Append(<<>>, x)) = <<>> \o x /\ FlattenSeq(<<>>) = <<>>
    BY <2>1, <2>2, FlattenEnd
  <2>4. <<>> \o x = x /\ x \o <<>> = x
    BY <2>1, ConcatEmptySeq
  <2> QED BY <2>1, <2>3, <2>4
<1>2. ASSUME NEW n \in Nat, n \in P PROVE n + 1 \in P
  <2> SUFFICES ASSUME NEW t \in Seq(B), Len(t) = (n + 1) + 1
               PROVE  FlattenSeq(t) = Head(t) \o FlattenSeq(Tail(t))
    OBVIOUS
  <2>1. PICK u \in Seq(B), x \in B : t = Append(u, x)
    <3> HIDE DEF B, P
    <3>1. t # <<>>
      OBVIOUS
    <3> QED BY <3>1, SequenceEmptyOrAppend
  <2>2. Len(u) = n + 1 /\ u # <<>>
    <3> HIDE DEF B, P
    <3>1. Len(t) = Len(u) + 1 /\ Len(u) \in Nat
      BY <2>1, AppendProperties
    <3>2. Len(u) = n + 1
      BY <3>1
    <3> QED BY <3>2, EmptySeq
  <2>3. Head(t) = Head(u) /\ Tail(t) = Append(Tail(u), x)
    <3> HIDE DEF B
    <3> QED BY <2>1, <2>2, HeadTailAppend
  <2>4. Head(u) \in B /\ Tail(u) \in Seq(B)
    <3> HIDE DEF B
    <3> QED BY <2>2, HeadTailProperties
  <2>5. FlattenSeq(t) = FlattenSeq(u) \o x
        /\ FlattenSeq(Append(Tail(u), x)) = FlattenSeq(Tail(u)) \o x
        /\ FlattenSeq(Tail(u)) \in B
    BY <2>1, <2>4, FlattenEnd
  <2>6. FlattenSeq(u) = Head(u) \o FlattenSeq(Tail(u))
    BY <1>2, <2>2
  <2>7. (Head(u) \o FlattenSeq(Tail(u))) \o x = Head(u) \o (FlattenSeq(Tail(u)) \o x)
    <3> DEFINE a == Head(u)  b == FlattenSeq(Tail(u))
    <3>1. a \in Seq(S) /\ b \in Seq(S) /\ x \in Seq(S)
      BY <2>1, <2>4, <2>5
    <3> HIDE DEF a, b, P
    <3>3. (a \o b) \o x = a \o (b \o x)
      BY <1>0, <3>1, Zenon
    <3> QED BY <3>3, Zenon DEF a, b
  <2> QED BY <2>3, <2>5, <2>6, <2>7, Zenon
<1>3. P \in SUBSET Nat
  OBVIOUS
<1>4. \A n \in Nat : n \in P
  <2> HIDE DEF P
  <2> QED BY <1>1, <1>2, <1>3, Induction
<1>5. ASSUME NEW s \in Seq(B), Len(s) > 0
      PROVE  FlattenSeq(s) = Head(s) \o FlattenSeq(Tail(s))
  <2> HIDE DEF B, P
  <2>1. Len(s) - 1 \in Nat /\ (Len(s) - 1) + 1 = Len(s)
    <3>1. Len(s) \in Nat
      BY LenProperties, Zenon
    <3> QED BY <1>5, <3>1
  <2>2. Len(s) - 1 \in P
    BY <1>4, <2>1
  <2> QED BY <2>1, <2>2 DEF P
<1> QED BY <1>5

----------------------------------------------------------------------------
(* Messages, frames and handshakes.                                        *)

(* Widths and types fit. *)
LEMMA Widths ==
    /\ W16 \in Nat /\ W32 \in Nat /\ W64 \in Nat /\ HashLen \in Nat /\ IDLen \in Nat
    /\ \A type \in 0..ERRORType : type \in Uints(W32)
<1>1. W16 \in Nat /\ W32 \in Nat \ {0} /\ W64 \in Nat /\ HashLen \in Nat /\ IDLen \in Nat
  BY CodecAssumption
<1> DEFINE v == W32 - 1
<1>2. v \in Nat /\ v + 1 = W32
  BY <1>1
<1> HIDE DEF v
<1>3. Pow256[v + 1] = 256 * Pow256[v] /\ Pow256[v] \in Nat \ {0}
  BY <1>2, Powers
<1>4. Pow256[W32] \in Nat /\ Pow256[W32] >= 256
  BY <1>2, <1>3
<1> QED BY <1>1, <1>4 DEF Uints, ERRORType

(* The fields of a message. *)
LEMMA MessageFields ==
    ASSUME NEW m \in Messages
    PROVE  /\ m.id \in Seq(Byte) /\ Len(m.id) = IDLen
           /\ m.timestamp \in Ints(W64) /\ m.ttl \in Ints(W64) /\ m.type \in 0..ERRORType
           /\ m.payload \in Seq(Byte)
           /\ appendUint(W64, m.timestamp) \in Seq(Byte) /\ appendUint(W64, m.ttl) \in Seq(Byte)
           /\ appendUint(W32, m.type) \in Seq(Byte)
           /\ appendBytes(m.payload) \in Seq(Byte)
           /\ Len(appendBytes(m.payload)) >= Len(m.payload)
<1>1. m.id \in Seq(Byte) /\ Len(m.id) = IDLen
      /\ m.timestamp \in Ints(W64) /\ m.ttl \in Ints(W64) /\ m.type \in 0..ERRORType
      /\ m.payload \in Seq(Byte)
  BY DEF Messages
<1>2. m.timestamp \in Int /\ m.ttl \in Int /\ m.type \in Int /\ Len(m.payload) \in Int
  BY <1>1 DEF Ints, ERRORType
<1>3. appendUint(W64, m.timestamp) \in Seq(Byte) /\ appendUint(W64, m.ttl) \in Seq(Byte)
      /\ appendUint(W32, m.type) \in Seq(Byte) /\ appendUint(W32, Len(m.payload)) \in Seq(Byte)
  <2>1. \A w \in Nat, n \in Int : appendUint(w, n) \in Seq(Byte)
    BY Digits, Zenon
  <2>2. W64 \in Nat /\ W32 \in Nat
    BY Widths
  <2> QED BY <1>2, <2>1, <2>2, Zenon
<1>4. appendBytes(m.payload) \in Seq(Byte) /\ Len(appendBytes(m.payload)) >= Len(m.payload)
  <2> DEFINE n == appendUint(W32, Len(m.payload))
  <2>1. n \in Seq(Byte)
    BY <1>3
  <2>0. appendBytes(m.payload) = n \o m.payload
    BY DEF appendBytes
  <2> HIDE DEF n
  <2>2. n \o m.payload \in Seq(Byte) /\ Len(n \o m.payload) = Len(n) + Len(m.payload)
    BY <1>1, <2>1, ConcatProperties
  <2>3. Len(n) \in Nat /\ Len(m.payload) \in Nat
    BY <1>1, <2>1
  <2> QED BY <2>0, <2>2, <2>3
<1> QED BY <1>1, <1>3, <1>4

(* An encoded message is read back. *)
LEMMA MessageRead ==
    ASSUME NEW m \in Messages, Len(EncodeMessage(m)) \in Uints(W32)
    PROVE  /\ EncodeMessage(m) \in Seq(Byte)
           /\ DecodeMessage(EncodeMessage(m)).ok
           /\ DecodeMessage(EncodeMessage(m)).val = m
<1> DEFINE a == m.id
           b == appendUint(W64, m.timestamp)
           c == appendUint(W64, m.ttl)
           d == appendUint(W32, m.type)
           e == appendBytes(m.payload)
           data == EncodeMessage(m)
<1>1. a \in Seq(Byte) /\ b \in Seq(Byte) /\ c \in Seq(Byte) /\ d \in Seq(Byte) /\ e \in Seq(Byte)
      /\ Len(a) = IDLen /\ Len(e) >= Len(m.payload) /\ m.payload \in Seq(Byte)
  BY MessageFields
<1>2. data = (((a \o b) \o c) \o d) \o e
  BY DEF EncodeMessage
<1> HIDE DEF a, b, c, d, e, data
<1> DEFINE ab == a \o b  abc == ab \o c  abcd == abc \o d
<1>3. ab \in Seq(Byte) /\ abc \in Seq(Byte) /\ abcd \in Seq(Byte)
  BY <1>1
<1>4. data = abcd \o e
  BY <1>2
<1>5. data \in Seq(Byte) /\ Len(data) = Len(abcd) + Len(e)
  <2> HIDE DEF abcd
  <2> QED BY <1>1, <1>3, <1>4
<1>6. Len(m.payload) \in Uints(W32)
  <2>1. Len(data) \in Uints(W32)
    BY DEF data
  <2>2. Len(m.payload) \in Nat /\ Len(abcd) \in Nat /\ Len(e) \in Nat /\ Pow256[W32] \in Nat
    <3> HIDE DEF abcd
    <3>1. Len(m.payload) \in Nat /\ Len(abcd) \in Nat /\ Len(e) \in Nat
      BY <1>1, <1>3
    <3>2. W32 \in Nat
      BY Widths
    <3> QED BY <3>1, <3>2, Powers
  <2> HIDE DEF abcd
  <2> QED BY <1>1, <1>5, <2>1, <2>2 DEF Uints
<1>7. At(data, 0, abcd \o e, Len(data))
  BY <1>4, <1>5, Whole
<1>8. At(data, 0, abcd, 0 + Len(abcd)) /\ At(data, 0 + Len(abcd), e, Len(data))
  <2> HIDE DEF abcd
  <2> QED BY <1>1, <1>3, <1>5, <1>7, Split
<1>9. At(data, 0, abc, 0 + Len(abc)) /\ At(data, 0 + Len(abc), d, 0 + Len(abcd))
  <2> HIDE DEF abc
  <2> QED BY <1>1, <1>3, <1>5, <1>8, Split
<1>10. At(data, 0, ab, 0 + Len(ab)) /\ At(data, 0 + Len(ab), c, 0 + Len(abc))
  <2> HIDE DEF ab
  <2> QED BY <1>1, <1>3, <1>5, <1>9, Split
<1>11. At(data, 0, a, 0 + Len(a)) /\ At(data, 0 + Len(a), b, 0 + Len(ab))
  BY <1>1, <1>3, <1>5, <1>10, Split
<1> DEFINE i == 0 + Len(a)  j == 0 + Len(ab)  k == 0 + Len(abc)  l == 0 + Len(abcd)
<1> HIDE DEF ab, abc, abcd
<1>12. fixedAt(IDLen, data, 0) = [val |-> a, next |-> i]
  BY <1>1, <1>5, <1>11, FixedRead
<1>13. decodeIntAt(W64, data, i) = [val |-> m.timestamp, next |-> j]
  BY <1>5, <1>11, MessageFields, Widths, IntRead DEF b
<1>14. decodeIntAt(W64, data, j) = [val |-> m.ttl, next |-> k]
  BY <1>5, <1>10, MessageFields, Widths, IntRead DEF c
<1>15. decodeUintAt(W32, data, k) = [val |-> m.type, next |-> l]
  <2>1. m.type \in Uints(W32)
    BY MessageFields, Widths
  <2> QED BY <1>5, <1>9, <2>1, Widths, UintRead DEF d
<1>16. decodeBytesAt(data, l) = [val |-> m.payload, next |-> Len(data)]
  BY <1>1, <1>5, <1>6, <1>8, BytesRead DEF e
<1> HIDE DEF i, j, k, l
<1>19. m.type <= ERRORType
  <2>1. m.type \in 0..ERRORType
    BY MessageFields
  <2> QED BY <2>1 DEF ERRORType
<1>17. DecodeMessage(data).ok
  <2> DEFINE id        == fixedAt(IDLen, data, 0)
             timestamp == decodeIntAt(W64, data, id.next)
             ttl       == decodeIntAt(W64, data, timestamp.next)
             type      == decodeUintAt(W32, data, ttl.next)
             payload   == decodeBytesAt(data, type.next)
  <2>1. id.next = i
    BY <1>12
  <2>2. timestamp.next = j
    BY <1>13, <2>1
  <2>3. ttl.next = k
    BY <1>14, <2>2
  <2>4. type.next = l /\ type.val = m.type
    BY <1>15, <2>3
  <2>5. payload.next = Len(data)
    BY <1>16, <2>4
  <2>6. DecodeMessage(data).ok <=> payload.next = Len(data) /\ type.val <= ERRORType
    BY Zenon DEF DecodeMessage
  <2> HIDE DEF payload, type
  <2> QED BY <1>19, <2>4, <2>5, <2>6
<1>18. DecodeMessage(data).val = [id |-> a, timestamp |-> m.timestamp, ttl |-> m.ttl,
                                 type |-> m.type, payload |-> m.payload]
  BY <1>12, <1>13, <1>14, <1>15, <1>16 DEF DecodeMessage
<1>20. m = [id |-> a, timestamp |-> m.timestamp, ttl |-> m.ttl,
            type |-> m.type, payload |-> m.payload]
  BY DEF Messages, a
<1> QED BY <1>5, <1>17, <1>18, <1>20 DEF data

(* A message that is accepted is encoded to the bytes it was read from. *)
LEMMA MessageWritten ==
    ASSUME NEW data \in Seq(Byte), NEW m, DecodeMessage(data).ok, m = DecodeMessage(data).val
    PROVE  EncodeMessage(m) = data /\ m.payload \in Seq(Byte)
<1> DEFINE id        == fixedAt(IDLen, data, 0)
           timestamp == decodeIntAt(W64, data, id.next)
           ttl       == decodeIntAt(W64, data, timestamp.next)
           type      == decodeUintAt(W32, data, ttl.next)
           payload   == decodeBytesAt(data, type.next)
<1>1. payload.next = Len(data)
  BY DEF DecodeMessage
<1>2. m = [id |-> id.val, timestamp |-> timestamp.val, ttl |-> ttl.val,
           type |-> type.val, payload |-> payload.val]
  BY DEF DecodeMessage
<1>3. 0 \in offsets(data) /\ Len(data) \in Nat
  BY DEF offsets
<1>4. id.next \in offsets(data) /\ (id.next # Short => At(data, 0, id.val, id.next))
  BY <1>3, Widths, FixedWritten
<1> HIDE DEF id
<1>5. Took(data, id.next, timestamp, appendUint(W64, timestamp.val))
  BY <1>4, Widths, IntWritten
<1> HIDE DEF timestamp
<1>6. Took(data, timestamp.next, ttl, appendUint(W64, ttl.val))
  BY <1>5, Widths, IntWritten DEF Took
<1> HIDE DEF ttl
<1>7. Took(data, ttl.next, type, appendUint(W32, type.val))
  BY <1>6, Widths, UintWritten DEF Took
<1> HIDE DEF type
<1>8. Took(data, type.next, payload, appendBytes(payload.val)) /\ payload.val \in Seq(Byte)
  BY <1>7, BytesWritten DEF Took
<1> HIDE DEF payload
<1>9. At(data, type.next, appendBytes(payload.val), Len(data))
  BY <1>1, <1>3, <1>8 DEF Took, Short
<1>10. At(data, ttl.next, appendUint(W32, type.val), type.next)
  BY <1>7, <1>9 DEF Took, At, Short
<1>11. At(data, timestamp.next, appendUint(W64, ttl.val), ttl.next)
  BY <1>6, <1>10 DEF Took, At, Short
<1>12. At(data, id.next, appendUint(W64, timestamp.val), timestamp.next)
  BY <1>5, <1>11 DEF Took, At, Short
<1>13. At(data, 0, id.val, id.next)
  BY <1>4, <1>12 DEF At, Short
<1>14. At(data, 0, id.val \o appendUint(W64, timestamp.val), timestamp.next)
  BY <1>12, <1>13, Join
<1>15. At(data, 0, (id.val \o appendUint(W64, timestamp.val)) \o appendUint(W64, ttl.val), ttl.next)
  BY <1>11, <1>14, Join
<1>16. At(data, 0, ((id.val \o appendUint(W64, timestamp.val)) \o appendUint(W64, ttl.val))
                       \o appendUint(W32, type.val), type.next)
  BY <1>10, <1>15, Join
<1>17. At(data, 0, (((id.val \o appendUint(W64, timestamp.val)) \o appendUint(W64, ttl.val))
                       \o appendUint(W32, type.val)) \o appendBytes(payload.val), Len(data))
  BY <1>9, <1>16, Join
<1>18. EncodeMessage(m) = (((id.val \o appendUint(W64, timestamp.val)) \o appendUint(W64, ttl.val))
                       \o appendUint(W32, type.val)) \o appendBytes(payload.val)
  <2>1. m.id = id.val /\ m.timestamp = timestamp.val /\ m.ttl = ttl.val /\ m.type = type.val
        /\ m.payload = payload.val
    BY <1>2
  <2> QED BY <2>1, Zenon DEF EncodeMessage
<1>19. m.payload \in Seq(Byte)
  BY <1>2, <1>8
<1> QED BY <1>17, <1>18, <1>19, Whole

----------------------------------------------------------------------------
(* Transfers.                                                              *)

(* What two readers have taken one after the other. *)
LEMMA Chain ==
    ASSUME NEW data \in Seq(Byte), NEW at, NEW i, NEW j, NEW a, NEW b,
           i # Short => At(data, at, a, i), j # Short => At(data, i, b, j)
    PROVE  j # Short => At(data, at, a \o b, j)
<1> SUFFICES ASSUME j # Short PROVE At(data, at, a \o b, j)
  OBVIOUS
<1>1. At(data, i, b, j)
  OBVIOUS
<1>2. i # Short
  BY <1>1 DEF At, Short
<1>3. At(data, at, a, i)
  BY <1>2
<1> QED BY <1>1, <1>3, Join

\* What a reader of values returns.
Values ==
    [amount : Nat, unit : Seq(Byte), owner : Seq(Byte), expiry : Int, depth : Int]

(* A value that is read is encoded to the bytes it was read from. *)
LEMMA ValueWritten ==
    ASSUME NEW data \in Seq(Byte), NEW at \in offsets(data), NEW r,
           r = decodeValue(data, at)
    PROVE  /\ Took(data, at, r, appendValueEncoding(r.val))
           /\ r.val \in Values
<1> DEFINE amount == decodeUintAt(W64, data, at)
           unit   == decodeBytesAt(data, amount.next)
           owner  == decodeBytesAt(data, unit.next)
           expiry == decodeIntAt(W64, data, owner.next)
           depth  == decodeIntAt(W64, data, expiry.next)
<1>1. r = [val  |-> [amount |-> amount.val, unit |-> unit.val, owner |-> owner.val,
                     expiry |-> expiry.val, depth |-> depth.val],
           next |-> depth.next]
  BY DEF decodeValue
<1>2. Took(data, at, amount, appendUint(W64, amount.val)) /\ amount.val \in Nat
  BY Widths, UintWritten
<1> HIDE DEF amount
<1>3. Took(data, amount.next, unit, appendBytes(unit.val)) /\ unit.val \in Seq(Byte)
  BY <1>2, BytesWritten DEF Took
<1> HIDE DEF unit
<1>4. Took(data, unit.next, owner, appendBytes(owner.val)) /\ owner.val \in Seq(Byte)
  BY <1>3, BytesWritten DEF Took
<1> HIDE DEF owner
<1>5. Took(data, owner.next, expiry, appendUint(W64, expiry.val)) /\ expiry.val \in Int
  BY <1>4, Widths, IntWritten DEF Took
<1> HIDE DEF expiry
<1>6. Took(data, expiry.next, depth, appendUint(W64, depth.val)) /\ depth.val \in Int
  BY <1>5, Widths, IntWritten DEF Took
<1> HIDE DEF depth
<1> DEFINE a == appendUint(W64, amount.val)  b == appendBytes(unit.val)
           c == appendBytes(owner.val)  d == appendUint(W64, expiry.val)
           e == appendUint(W64, depth.val)
<1>7. /\ amount.next # Short => At(data, at, a, amount.next)
      /\ unit.next # Short => At(data, amount.next, b, unit.next)
      /\ owner.next # Short => At(data, unit.next, c, owner.next)
      /\ expiry.next # Short => At(data, owner.next, d, expiry.next)
      /\ depth.next # Short => At(data, expiry.next, e, depth.next)
      /\ depth.next \in offsets(data)
  BY <1>2, <1>3, <1>4, <1>5, <1>6 DEF Took
<1>8. appendValueEncoding(r.val) = (((a \o b) \o c) \o d) \o e
  <2>1. r.val.amount = amount.val /\ r.val.unit = unit.val /\ r.val.owner = owner.val
        /\ r.val.expiry = expiry.val /\ r.val.depth = depth.val
    BY <1>1
  <2> QED BY <2>1, Zenon DEF appendValueEncoding
<1> HIDE DEF a, b, c, d, e
<1>9. unit.next # Short => At(data, at, a \o b, unit.next)
  BY <1>7, Chain
<1>10. owner.next # Short => At(data, at, (a \o b) \o c, owner.next)
  BY <1>7, <1>9, Chain
<1>11. expiry.next # Short => At(data, at, ((a \o b) \o c) \o d, expiry.next)
  BY <1>7, <1>10, Chain
<1>12. depth.next # Short => At(data, at, (((a \o b) \o c) \o d) \o e, depth.next)
  BY <1>7, <1>11, Chain
<1>13. r.next = depth.next
  BY <1>1
<1>14. r.val \in Values
  BY <1>1, <1>2, <1>3, <1>4, <1>5, <1>6 DEF Values
<1> QED BY <1>7, <1>8, <1>12, <1>13, <1>14, Zenon DEF Took

\* element[p] is what is read at p: a value v of V that stands there as enc[v].
Elements(data, element, enc, V) ==
    \A p \in offsets(data) : element[p].val \in V /\ Took(data, p, element[p], enc[element[p].val])

\* r is what has been read from the offset "at": n values of V, one after the
\* other, or a failure.
Listed(data, at, r, n, enc, V) ==
    /\ Took(data, at, r, FlattenSeq([i \in DOMAIN r.val |-> enc[r.val[i]]]))
    /\ r.val \in Seq(V)
    /\ r.next # Short => Len(r.val) = n

(* So is a list of elements, when each element is. *)
LEMMA ManyWritten ==
    ASSUME NEW data \in Seq(Byte), NEW at \in offsets(data), NEW n \in Nat,
           NEW V, NEW enc \in [V -> Seq(Byte)], NEW element,
           Elements(data, element, enc, V)
    PROVE  Listed(data, at, decodeMany(element, n, data, at), n, enc, V)
<1> DEFINE r == decodeMany(element, n, data, at)
           S == [val : Seq(V), next : offsets(data)]
           after(b) == [val |-> Append(b.val, element[b.next].val), next |-> element[b.next].next]
           base == [val |-> <<>>, next |-> at]
           step == [i \in 1..n |-> [b \in S |-> after(b)]]
           Is(g) == g = [i \in 0..n |-> IF i = 0 THEN base ELSE after(g[i - 1])]
           read == CHOOSE g : Is(g)
           all(q) == FlattenSeq([i \in DOMAIN q |-> enc[q[i]]])
<1>0. \A p \in offsets(data) : /\ element[p].val \in V
                                 /\ Took(data, p, element[p], enc[element[p].val])
  BY DEF Elements
<1>1. r = IF n > Len(data) THEN [val |-> <<>>, next |-> Short] ELSE read[n]
  BY Zenon DEF decodeMany
<1>2. \A b \in S : after(b) \in S
  BY <1>0 DEF Took
<1>3. base \in S
  BY EmptySeq
<1>4. step \in [1..n -> [S -> S]]
  <2> HIDE DEF S, after
  <2> QED BY <1>2
<1>5. PICK f \in [0..n -> S] : Walks(f, n, base, step)
  <2> HIDE DEF step, S, base
  <2> QED BY <1>3, <1>4, WalkExists
<1>6. Is(f)
  <2> HIDE DEF S, after, base
  <2>1. \A i \in 0..n : f[i] = IF i = 0 THEN base ELSE after(f[i - 1])
    <3> TAKE i \in 0..n
    <3>1. f[i] = IF i = 0 THEN base ELSE step[i][f[i - 1]]
      <4> HIDE DEF step
      <4> QED BY <1>5 DEF Walks
    <3>2. i # 0 => i \in 1..n /\ f[i - 1] \in S
      BY <1>5
    <3> QED BY <3>1, <3>2
  <2>2. f = [i \in 0..n |-> f[i]]
    OBVIOUS
  <2> QED BY <2>1, <2>2, Zenon
<1>7. Is(read)
  <2> HIDE DEF Is
  <2> QED BY <1>6
<1> HIDE DEF read
<1>8. \A q : q = <<>> => all(q) = <<>>
  <2> TAKE q
  <2> SUFFICES ASSUME q = <<>> PROVE all(q) = <<>>
    OBVIOUS
  <2>1. [i \in DOMAIN q |-> enc[q[i]]] = <<>>
    OBVIOUS
  <2> QED BY <2>1, FlattenEnd
<1>9. ASSUME NEW q \in Seq(V), NEW v \in V PROVE all(Append(q, v)) = all(q) \o enc[v]
  <2> DEFINE s == [i \in DOMAIN q |-> enc[q[i]]]
             t == [i \in DOMAIN Append(q, v) |-> enc[Append(q, v)[i]]]
             B == Seq(Byte)
  <2>0. \A u \in V : enc[u] \in B
    OBVIOUS
  <2>1. s \in Seq(B) /\ t \in Seq(B) /\ enc[v] \in B /\ Append(s, enc[v]) = t
    <3> DEFINE c == Append(q, v)
    <3>1. c \in Seq(V) /\ Len(c) = Len(q) + 1 /\ Len(q) \in Nat /\ c[Len(q) + 1] = v
          /\ \A i \in 1..Len(q) : c[i] = q[i] /\ q[i] \in V
      BY AppendProperties
    <3>2. DOMAIN q = 1..Len(q) /\ DOMAIN c = 1..Len(c)
      BY <3>1
    <3> HIDE DEF c, B
    <3>3. s = [i \in 1..Len(q) |-> enc[q[i]]] /\ t = [i \in 1..Len(c) |-> enc[c[i]]]
      BY <3>2, Zenon DEF c
    <3> HIDE DEF s, t
    <3>4. s \in Seq(B) /\ Len(s) = Len(q)
      BY <2>0, <3>1, <3>3
    <3>5. t \in Seq(B) /\ Len(t) = Len(q) + 1
      BY <2>0, <3>1, <3>3
    <3>6. Append(s, enc[v]) \in Seq(B) /\ Len(Append(s, enc[v])) = Len(q) + 1
          /\ Append(s, enc[v])[Len(q) + 1] = enc[v]
          /\ \A i \in 1..Len(q) : Append(s, enc[v])[i] = s[i]
      BY <2>0, <3>4, AppendProperties
    <3>7. \A i \in 1..(Len(q) + 1) : Append(s, enc[v])[i] = t[i]
      BY <3>1, <3>3, <3>6, SMTT(30)
    <3>8. Append(s, enc[v]) = t
      <4> DEFINE a == Append(s, enc[v])
      <4>1. a \in Seq(B) /\ Len(a) = Len(t) /\ \A i \in 1..Len(a) : a[i] = t[i]
        BY <3>5, <3>6, <3>7
      <4>2. t \in Seq(B)
        BY <3>5
      <4> HIDE DEF a
      <4>3. a = t
        BY <4>1, <4>2, SeqEqual
      <4> QED BY <4>3 DEF a
    <3> QED BY <2>0, <3>4, <3>5, <3>8
  <2>2. FlattenSeq(Append(s, enc[v])) = FlattenSeq(s) \o enc[v]
    <3> HIDE DEF s
    <3> QED BY <2>1, FlattenEnd
  <2> QED BY <2>1, <2>2, Zenon
<1> HIDE DEF all
<1> DEFINE P == {k \in Nat : k \in 0..n =>
                    /\ read[k].val \in Seq(V) /\ read[k].next \in offsets(data)
                    /\ Len(read[k].val) = k
                    /\ Took(data, at, read[k], all(read[k].val))}
<1>10. 0 \in P
  <2>1. read[0] = base
    <3> HIDE DEF base, after
    <3> QED BY <1>7
  <2>2. read[0].val = <<>> /\ read[0].next = at
    BY <2>1
  <2>3. all(read[0].val) = <<>>
    BY <1>8, <2>2
  <2>4. at # Short => At(data, at, <<>>, at)
    <3>1. at # Short => at \in 0..Len(data) /\ Len(data) \in Nat
      BY DEF offsets
    <3> QED BY <3>1 DEF At
  <2>5. <<>> \in Seq(V) /\ Len(<<>>) = 0
    OBVIOUS
  <2> QED BY <2>2, <2>3, <2>4, <2>5 DEF Took
<1>11. ASSUME NEW k \in Nat, k \in P PROVE k + 1 \in P
  <2> SUFFICES ASSUME k + 1 \in 0..n
               PROVE  /\ read[k + 1].val \in Seq(V) /\ read[k + 1].next \in offsets(data)
                      /\ Len(read[k + 1].val) = k + 1
                      /\ Took(data, at, read[k + 1], all(read[k + 1].val))
    OBVIOUS
  <2> DEFINE b == read[k]  x == element[b.next]  c == read[k + 1]
  <2>1. b.val \in Seq(V) /\ b.next \in offsets(data) /\ Len(b.val) = k
        /\ Took(data, at, b, all(b.val))
    BY <1>11
  <2>2. c = after(b)
    <3>1. k + 1 # 0 /\ (k + 1) - 1 = k
      OBVIOUS
    <3> HIDE DEF after, base, P
    <3> QED BY <1>7, <3>1
  <2> HIDE DEF P, b, c
  <2>3. c.val = Append(b.val, x.val) /\ c.next = x.next
    BY <2>2
  <2>4. x.val \in V /\ Took(data, b.next, x, enc[x.val])
    BY <1>0, <2>1
  <2> HIDE DEF x
  <2>5. all(c.val) = all(b.val) \o enc[x.val]
    BY <1>9, <2>1, <2>3, <2>4
  <2>6. x.next # Short => At(data, at, all(b.val) \o enc[x.val], x.next)
    BY <2>1, <2>4, Chain DEF Took
  <2>7. Took(data, at, c, all(c.val))
    BY <2>3, <2>4, <2>5, <2>6 DEF Took
  <2>8. c.val \in Seq(V) /\ Len(c.val) = k + 1 /\ c.next \in offsets(data)
    BY <2>1, <2>3, <2>4 DEF Took
  <2> QED BY <2>7, <2>8 DEF c
<1>12. P \in SUBSET Nat
  OBVIOUS
<1>13. n \in P
  <2> HIDE DEF P
  <2> QED BY <1>10, <1>11, <1>12, Induction
<1> HIDE DEF r
<1>16. ASSUME Took(data, at, r, all(r.val)), r.val \in Seq(V), r.next # Short => Len(r.val) = n
       PROVE  Listed(data, at, r, n, enc, V)
  <2>1. Took(data, at, r, FlattenSeq([i \in DOMAIN r.val |-> enc[r.val[i]]]))
    BY <1>16, Zenon DEF all
  <2> QED BY <1>16, <2>1, Zenon DEF Listed
<1>14. ASSUME n > Len(data) PROVE Listed(data, at, r, n, enc, V)
  <2>1. r.next = Short /\ r.val = <<>>
    BY <1>1, <1>14
  <2>2. Took(data, at, r, all(r.val))
    BY <2>1 DEF Took, offsets
  <2>3. r.val \in Seq(V)
    BY <2>1, EmptySeq
  <2> QED BY <1>16, <2>1, <2>2, <2>3, Zenon
<1>15. ASSUME ~(n > Len(data)) PROVE Listed(data, at, r, n, enc, V)
  <2>1. r = read[n]
    BY <1>1, <1>15
  <2>2. n \in 0..n
    OBVIOUS
  <2>3. /\ read[n].val \in Seq(V)
        /\ Len(read[n].val) = n
        /\ Took(data, at, read[n], all(read[n].val))
    BY <1>13, <2>2
  <2>4. /\ r.val \in Seq(V)
        /\ Len(r.val) = n
        /\ Took(data, at, r, all(r.val))
    BY <2>1, <2>3, Zenon
  <2> QED BY <1>16, <2>4, Zenon
<1> QED BY <1>14, <1>15 DEF r

(* A transfer that is accepted is encoded to the bytes it was read from. *)
LEMMA TransferWritten ==
    ASSUME NEW data \in Seq(Byte), DecodeTransfer(data).ok
    PROVE  EncodeTransfer(DecodeTransfer(data).val) = data
<1> DEFINE nIn     == decodeUintAt(W32, data, 0)
           hash    == [p \in offsets(data) |-> fixedAt(HashLen, data, p)]
           inputs  == decodeMany(hash, nIn.val, data, nIn.next)
           nOut    == decodeUintAt(W32, data, inputs.next)
           value   == [p \in offsets(data) |-> decodeValue(data, p)]
           outputs == decodeMany(value, nOut.val, data, nOut.next)
           t       == DecodeTransfer(data).val
           V       == Values
           B       == Seq(Byte)
           same    == [b \in B |-> b]
           enc     == [v \in V |-> appendValueEncoding(v)]
           valid   == {v \in V : appendValueEncoding(v) \in B}
<1>1. outputs.next = Len(data)
  BY Zenon DEF DecodeTransfer, whole
<1>2. t = [inputs |-> inputs.val, outputs |-> outputs.val]
  BY DEF DecodeTransfer, whole
<1>3. 0 \in offsets(data) /\ Len(data) \in Nat
  BY DEF offsets
<1>4. Took(data, 0, nIn, appendUint(W32, nIn.val)) /\ nIn.val \in Nat
  BY <1>3, Widths, UintWritten
<1> HIDE DEF nIn
<1>5. \A p \in offsets(data) : hash[p].val \in B /\ Took(data, p, hash[p], same[hash[p].val])
  <2> TAKE p \in offsets(data)
  <2> DEFINE f == fixedAt(HashLen, data, p)
  <2>1. f.next \in offsets(data) /\ f.val \in B /\ (f.next # Short => At(data, p, f.val, f.next))
    BY Widths, FixedWritten
  <2>2. hash[p] = f
    OBVIOUS
  <2> HIDE DEF f, B, hash
  <2>3. same[f.val] = f.val
    BY <2>1
  <2> QED BY <2>1, <2>2, <2>3 DEF Took
<1>6. same \in [B -> B]
  <2> HIDE DEF B
  <2> QED OBVIOUS
<1> HIDE DEF hash, same
<1>7. /\ Took(data, nIn.next, inputs, FlattenSeq([i \in DOMAIN inputs.val |-> same[inputs.val[i]]]))
      /\ inputs.val \in Seq(B)
      /\ inputs.next # Short => Len(inputs.val) = nIn.val
  <2> HIDE DEF B
  <2>1. same \in [B -> Seq(Byte)]
    BY <1>6 DEF B
  <2>2. nIn.next \in offsets(data)
    BY <1>4 DEF Took
  <2>3. Elements(data, hash, same, B)
    BY <1>5 DEF Elements
  <2>4. Listed(data, nIn.next, decodeMany(hash, nIn.val, data, nIn.next), nIn.val, same, B)
    BY <1>4, <2>1, <2>2, <2>3, ManyWritten
  <2> HIDE DEF inputs
  <2>5. Listed(data, nIn.next, inputs, nIn.val, same, B)
    BY <2>4 DEF inputs
  <2> QED BY <2>5, Zenon DEF Listed
<1> HIDE DEF inputs
<1>8. [i \in DOMAIN inputs.val |-> same[inputs.val[i]]] = inputs.val
  <2> HIDE DEF B
  <2>1. \A b \in B : same[b] = b
    BY DEF same
  <2> QED BY <1>7, <2>1
<1>9. Took(data, inputs.next, nOut, appendUint(W32, nOut.val)) /\ nOut.val \in Nat
  BY <1>7, Widths, UintWritten DEF Took
<1> HIDE DEF nOut
<1>10. \A p \in offsets(data) : value[p].val \in V
                                /\ Took(data, p, value[p], appendValueEncoding(value[p].val))
  <2> TAKE p \in offsets(data)
  <2>1. value[p] = decodeValue(data, p)
    OBVIOUS
  <2> HIDE DEF value
  <2> QED BY <2>1, ValueWritten
<1>11. \A v \in V : appendValueEncoding(v) \in Seq(Byte)
  <2> TAKE v \in V
  <2> DEFINE a == appendUint(W64, v.amount)  b == appendBytes(v.unit)
             c == appendBytes(v.owner)  d == appendUint(W64, v.expiry)
             e == appendUint(W64, v.depth)
  <2>1. \A w \in Nat, n \in Int : appendUint(w, n) \in Seq(Byte)
    BY Digits, Zenon
  <2>2. v.amount \in Int /\ v.expiry \in Int /\ v.depth \in Int
        /\ v.unit \in Seq(Byte) /\ v.owner \in Seq(Byte)
        /\ Len(v.unit) \in Int /\ Len(v.owner) \in Int
    BY DEF Values
  <2>3. a \in Seq(Byte) /\ d \in Seq(Byte) /\ e \in Seq(Byte)
    BY <2>1, <2>2, Widths
  <2>4. b \in Seq(Byte) /\ c \in Seq(Byte)
    BY <2>1, <2>2, Widths, ConcatProperties DEF appendBytes
  <2>5. appendValueEncoding(v) = (((a \o b) \o c) \o d) \o e
    BY DEF appendValueEncoding
  <2> HIDE DEF a, b, c, d, e
  <2> QED BY <2>3, <2>4, <2>5
<1>12. enc \in [V -> Seq(Byte)] /\ \A v \in V : enc[v] = appendValueEncoding(v)
  <2> HIDE DEF V
  <2> QED BY <1>11
<1> HIDE DEF value, enc, V
<1>13. /\ Took(data, nOut.next, outputs, FlattenSeq([i \in DOMAIN outputs.val |-> enc[outputs.val[i]]]))
       /\ outputs.val \in Seq(V)
       /\ outputs.next # Short => Len(outputs.val) = nOut.val
  <2>1. \A p \in offsets(data) : value[p].val \in V
                                /\ Took(data, p, value[p], enc[value[p].val])
    BY <1>10, <1>12
  <2>2. nOut.next \in offsets(data)
    BY <1>9 DEF Took
  <2>3. Elements(data, value, enc, V)
    BY <2>1 DEF Elements
  <2>4. Listed(data, nOut.next, decodeMany(value, nOut.val, data, nOut.next), nOut.val, enc, V)
    BY <1>9, <1>12, <2>2, <2>3, ManyWritten
  <2> HIDE DEF outputs
  <2>5. Listed(data, nOut.next, outputs, nOut.val, enc, V)
    BY <2>4 DEF outputs
  <2> QED BY <2>5, Zenon DEF Listed
<1> HIDE DEF outputs
<1>14. [i \in DOMAIN outputs.val |-> enc[outputs.val[i]]]
          = [i \in DOMAIN outputs.val |-> appendValueEncoding(outputs.val[i])]
  <2>1. \A i \in DOMAIN outputs.val : outputs.val[i] \in V
    BY <1>13
  <2> QED BY <1>12, <2>1
<1> DEFINE a == appendUint(W32, nIn.val)  b == FlattenSeq(inputs.val)
           c == appendUint(W32, nOut.val)
           d == FlattenSeq([i \in DOMAIN outputs.val |-> appendValueEncoding(outputs.val[i])])
<1>15. /\ nIn.next # Short => At(data, 0, a, nIn.next)
       /\ inputs.next # Short => At(data, nIn.next, b, inputs.next)
       /\ nOut.next # Short => At(data, inputs.next, c, nOut.next)
       /\ outputs.next # Short => At(data, nOut.next, d, outputs.next)
  BY <1>4, <1>7, <1>8, <1>9, <1>13, <1>14 DEF Took
<1>16. outputs.next # Short
  BY <1>1, <1>3 DEF Short
<1>17. nOut.next # Short /\ inputs.next # Short
  BY <1>15, <1>16 DEF At, Short
<1>18. Len(inputs.val) = nIn.val /\ Len(outputs.val) = nOut.val
  BY <1>7, <1>13, <1>16, <1>17
<1>19. EncodeTransfer(t) = ((a \o b) \o c) \o d
  <2>1. t.inputs = inputs.val /\ t.outputs = outputs.val
    BY <1>2
  <2> HIDE DEF t
  <2> QED BY <1>18, <2>1, Zenon DEF EncodeTransfer
<1> HIDE DEF a, b, c, d
<1>20. inputs.next # Short => At(data, 0, a \o b, inputs.next)
  BY <1>15, Chain
<1>21. nOut.next # Short => At(data, 0, (a \o b) \o c, nOut.next)
  BY <1>15, <1>20, Chain
<1>22. outputs.next # Short => At(data, 0, ((a \o b) \o c) \o d, outputs.next)
  BY <1>15, <1>21, Chain
<1>23. At(data, 0, ((a \o b) \o c) \o d, Len(data))
  BY <1>1, <1>16, <1>22
<1> QED BY <1>19, <1>23, Whole

----------------------------------------------------------------------------
(* Payloads.                                                               *)

(* The kinds of payload. *)
LEMMA Kinds ==
    ASSUME NEW type
    PROVE  /\ type = TXType =>
                 /\ \A data : DecodePayload(type, data) = DecodeTXPayload(data)
                 /\ \A p : EncodePayload(type, p)
                              = appendBytes(EncodeTransfer(p.transfer)) \o appendBytes(p.sig)
           /\ type = PROOF_RESPType =>
                 /\ \A data : DecodePayload(type, data) = DecodeProofResponsePayload(data)
                 /\ \A p : EncodePayload(type, p)
                              = p.target \o appendBool(p.seen) \o appendUint(W64, p.seenTime)
                                   \o appendBool(p.conflict) \o appendUint(W64, p.distance)
           /\ type = ERRORType =>
                 /\ \A data : DecodePayload(type, data) = DecodeErrorPayload(data)
                 /\ \A p : EncodePayload(type, p) = p.id \o appendBytes(p.code)
           /\ type = ACKType =>
                 /\ \A data : DecodePayload(type, data) = whole(data, fixedAt(IDLen, data, 0))
                 /\ \A p : EncodePayload(type, p) = p
           /\ type \notin {TXType, PROOF_RESPType, ERRORType, ACKType} =>
                 /\ \A data : DecodePayload(type, data) = whole(data, fixedAt(HashLen, data, 0))
                 /\ \A p : EncodePayload(type, p) = p
<1>1. TXType = 2 /\ PROOF_RESPType = 4 /\ ACKType = 5 /\ ERRORType = 6
  BY DEF TXType, PROOF_RESPType, ACKType, ERRORType
<1>2. ASSUME type = TXType
      PROVE  /\ \A data : DecodePayload(type, data) = DecodeTXPayload(data)
             /\ \A p : EncodePayload(type, p)
                          = appendBytes(EncodeTransfer(p.transfer)) \o appendBytes(p.sig)
  BY <1>1, <1>2 DEF DecodePayload, EncodePayload
<1>3. ASSUME type = PROOF_RESPType
      PROVE  /\ \A data : DecodePayload(type, data) = DecodeProofResponsePayload(data)
             /\ \A p : EncodePayload(type, p)
                          = p.target \o appendBool(p.seen) \o appendUint(W64, p.seenTime)
                               \o appendBool(p.conflict) \o appendUint(W64, p.distance)
  <2>1. \A data : DecodePayload(type, data) = DecodeProofResponsePayload(data)
    BY <1>1, <1>3 DEF DecodePayload
  <2>3. ASSUME NEW p PROVE EncodePayload(type, p) = p.target \o appendBool(p.seen)
             \o appendUint(W64, p.seenTime) \o appendBool(p.conflict) \o appendUint(W64, p.distance)
    <3> DEFINE tx   == appendBytes(EncodeTransfer(p.transfer)) \o appendBytes(p.sig)
               resp == p.target \o appendBool(p.seen) \o appendUint(W64, p.seenTime)
                          \o appendBool(p.conflict) \o appendUint(W64, p.distance)
               error == p.id \o appendBytes(p.code)
    <3>1. EncodePayload(type, p) = CASE type = TXType         -> tx
                                     [] type = PROOF_RESPType -> resp
                                     [] type = ERRORType      -> error
                                     [] OTHER                 -> p
      BY Zenon DEF EncodePayload
    <3> HIDE DEF tx, resp, error
    <3>2. EncodePayload(type, p) = resp
      BY <1>1, <1>3, <3>1
    <3> QED BY <3>2 DEF resp
  <2> QED BY <2>1, <2>3
<1>4. ASSUME type = ERRORType
      PROVE  /\ \A data : DecodePayload(type, data) = DecodeErrorPayload(data)
             /\ \A p : EncodePayload(type, p) = p.id \o appendBytes(p.code)
  <2>1. \A data : DecodePayload(type, data) = DecodeErrorPayload(data)
    BY <1>1, <1>4 DEF DecodePayload
  <2>3. ASSUME NEW p PROVE EncodePayload(type, p) = p.id \o appendBytes(p.code)
    <3> DEFINE tx   == appendBytes(EncodeTransfer(p.transfer)) \o appendBytes(p.sig)
               resp == p.target \o appendBool(p.seen) \o appendUint(W64, p.seenTime)
                          \o appendBool(p.conflict) \o appendUint(W64, p.distance)
               error == p.id \o appendBytes(p.code)
    <3>1. EncodePayload(type, p) = CASE type = TXType         -> tx
                                     [] type = PROOF_RESPType -> resp
                                     [] type = ERRORType      -> error
                                     [] OTHER                 -> p
      BY Zenon DEF EncodePayload
    <3> HIDE DEF tx, resp, error
    <3>2. EncodePayload(type, p) = error
      BY <1>1, <1>4, <3>1
    <3> QED BY <3>2 DEF error
  <2> QED BY <2>1, <2>3
<1>5. ASSUME type = ACKType
      PROVE  /\ \A data : DecodePayload(type, data) = whole(data, fixedAt(IDLen, data, 0))
             /\ \A p : EncodePayload(type, p) = p
  BY <1>1, <1>5 DEF DecodePayload, EncodePayload
<1>6. ASSUME type \notin {TXType, PROOF_RESPType, ERRORType, ACKType}
      PROVE  /\ \A data : DecodePayload(type, data) = whole(data, fixedAt(HashLen, data, 0))
             /\ \A p : EncodePayload(type, p) = p
  BY <1>1, <1>6 DEF DecodePayload, EncodePayload
<1> QED BY <1>2, <1>3, <1>4, <1>5, <1>6

(* A payload that is a fixed-size field alone. *)
LEMMA FieldWritten ==
    ASSUME NEW data \in Seq(Byte), NEW w \in Nat, whole(data, fixedAt(w, data, 0)).ok
    PROVE  whole(data, fixedAt(w, data, 0)).val = data
<1> DEFINE f == fixedAt(w, data, 0)
<1>1. f.next = Len(data) /\ whole(data, f).val = f.val
  BY Zenon DEF whole
<1>2. 0 \in offsets(data) /\ Len(data) \in Nat
  BY DEF offsets
<1>3. f.next # Short => At(data, 0, f.val, f.next)
  BY <1>2, FixedWritten
<1> HIDE DEF f
<1>4. At(data, 0, f.val, Len(data))
  BY <1>1, <1>2, <1>3 DEF Short
<1> QED BY <1>1, <1>4, Whole DEF f

(* TX. *)
LEMMA TXWritten ==
    ASSUME NEW data \in Seq(Byte), NEW p,
           DecodeTXPayload(data).ok, p = DecodeTXPayload(data).val
    PROVE  appendBytes(EncodeTransfer(p.transfer)) \o appendBytes(p.sig) = data
<1> DEFINE transferBytes == decodeBytesAt(data, 0)
           signature     == decodeBytesAt(data, transferBytes.next)
           transfer      == DecodeTransfer(transferBytes.val)
<1>1. signature.next = Len(data) /\ transfer.ok
  BY Zenon DEF DecodeTXPayload
<1>2. p = [transfer |-> transfer.val, sig |-> signature.val]
  BY Zenon DEF DecodeTXPayload
<1>3. 0 \in offsets(data) /\ Len(data) \in Nat
  BY DEF offsets
<1>4. Took(data, 0, transferBytes, appendBytes(transferBytes.val)) /\ transferBytes.val \in Seq(Byte)
  BY <1>3, BytesWritten
<1>5. EncodeTransfer(transfer.val) = transferBytes.val
  <2> HIDE DEF transferBytes
  <2> QED BY <1>1, <1>4, TransferWritten
<1> HIDE DEF transferBytes, transfer
<1>6. Took(data, transferBytes.next, signature, appendBytes(signature.val))
  BY <1>4, BytesWritten DEF Took
<1> HIDE DEF signature
<1> DEFINE a == appendBytes(transferBytes.val)  b == appendBytes(signature.val)
<1>7. /\ transferBytes.next # Short => At(data, 0, a, transferBytes.next)
      /\ signature.next # Short => At(data, transferBytes.next, b, signature.next)
  BY <1>4, <1>6 DEF Took
<1>8. appendBytes(EncodeTransfer(p.transfer)) \o appendBytes(p.sig) = a \o b
  <2>1. p.transfer = transfer.val /\ p.sig = signature.val
    BY <1>2
  <2> QED BY <1>5, <2>1, Zenon
<1> HIDE DEF a, b
<1>9. signature.next # Short => At(data, 0, a \o b, signature.next)
  BY <1>7, Chain
<1>10. At(data, 0, a \o b, Len(data))
  BY <1>1, <1>3, <1>9 DEF Short
<1> QED BY <1>8, <1>10, Whole

(* PROOF_RESP. *)
LEMMA ProofResponseWritten ==
    ASSUME NEW data \in Seq(Byte), NEW p,
           DecodeProofResponsePayload(data).ok, p = DecodeProofResponsePayload(data).val
    PROVE  p.target \o appendBool(p.seen) \o appendUint(W64, p.seenTime)
              \o appendBool(p.conflict) \o appendUint(W64, p.distance) = data
<1> DEFINE target   == fixedAt(HashLen, data, 0)
           seen     == decodeBoolAt(data, target.next)
           seenTime == decodeIntAt(W64, data, seen.next)
           conflict == decodeBoolAt(data, seenTime.next)
           distance == decodeIntAt(W64, data, conflict.next)
<1>1. distance.next = Len(data)
  BY Zenon DEF DecodeProofResponsePayload, whole
<1>2. p = [target |-> target.val, seen |-> seen.val, seenTime |-> seenTime.val,
           conflict |-> conflict.val, distance |-> distance.val]
  BY Zenon DEF DecodeProofResponsePayload, whole
<1>3. 0 \in offsets(data) /\ Len(data) \in Nat
  BY DEF offsets
<1>4. target.next \in offsets(data) /\ (target.next # Short => At(data, 0, target.val, target.next))
  BY <1>3, Widths, FixedWritten
<1> HIDE DEF target
<1>5. Took(data, target.next, seen, appendBool(seen.val))
  BY <1>4, BoolWritten
<1> HIDE DEF seen
<1>6. Took(data, seen.next, seenTime, appendUint(W64, seenTime.val))
  BY <1>5, Widths, IntWritten DEF Took
<1> HIDE DEF seenTime
<1>7. Took(data, seenTime.next, conflict, appendBool(conflict.val))
  BY <1>6, BoolWritten DEF Took
<1> HIDE DEF conflict
<1>8. Took(data, conflict.next, distance, appendUint(W64, distance.val))
  BY <1>7, Widths, IntWritten DEF Took
<1> HIDE DEF distance
<1> DEFINE a == target.val  b == appendBool(seen.val)  c == appendUint(W64, seenTime.val)
           d == appendBool(conflict.val)  e == appendUint(W64, distance.val)
<1>9. /\ target.next # Short => At(data, 0, a, target.next)
      /\ seen.next # Short => At(data, target.next, b, seen.next)
      /\ seenTime.next # Short => At(data, seen.next, c, seenTime.next)
      /\ conflict.next # Short => At(data, seenTime.next, d, conflict.next)
      /\ distance.next # Short => At(data, conflict.next, e, distance.next)
  BY <1>4, <1>5, <1>6, <1>7, <1>8 DEF Took
<1>10. p.target \o appendBool(p.seen) \o appendUint(W64, p.seenTime)
          \o appendBool(p.conflict) \o appendUint(W64, p.distance)
          = (((a \o b) \o c) \o d) \o e
  <2>1. p.target = a /\ p.seen = seen.val /\ p.seenTime = seenTime.val
        /\ p.conflict = conflict.val /\ p.distance = distance.val
    BY <1>2
  <2> QED BY <2>1, Zenon
<1> HIDE DEF a, b, c, d, e
<1>11. seen.next # Short => At(data, 0, a \o b, seen.next)
  BY <1>9, Chain
<1>12. seenTime.next # Short => At(data, 0, (a \o b) \o c, seenTime.next)
  BY <1>9, <1>11, Chain
<1>13. conflict.next # Short => At(data, 0, ((a \o b) \o c) \o d, conflict.next)
  BY <1>9, <1>12, Chain
<1>14. distance.next # Short => At(data, 0, (((a \o b) \o c) \o d) \o e, distance.next)
  BY <1>9, <1>13, Chain
<1>15. At(data, 0, (((a \o b) \o c) \o d) \o e, Len(data))
  BY <1>1, <1>3, <1>14 DEF Short
<1> QED BY <1>10, <1>15, Whole

(* ERROR. *)
LEMMA ErrorWritten ==
    ASSUME NEW data \in Seq(Byte), NEW p,
           DecodeErrorPayload(data).ok, p = DecodeErrorPayload(data).val
    PROVE  p.id \o appendBytes(p.code) = data
<1> DEFINE id   == fixedAt(IDLen, data, 0)
           code == decodeBytesAt(data, id.next)
<1>1. code.next = Len(data)
  BY Zenon DEF DecodeErrorPayload, whole
<1>2. p = [id |-> id.val, code |-> code.val]
  BY Zenon DEF DecodeErrorPayload, whole
<1>3. 0 \in offsets(data) /\ Len(data) \in Nat
  BY DEF offsets
<1>4. id.next \in offsets(data) /\ (id.next # Short => At(data, 0, id.val, id.next))
  BY <1>3, Widths, FixedWritten
<1> HIDE DEF id
<1>5. code.next # Short => At(data, id.next, appendBytes(code.val), code.next)
  BY <1>4, BytesWritten DEF Took
<1> HIDE DEF code
<1>6. code.next # Short => At(data, 0, id.val \o appendBytes(code.val), code.next)
  BY <1>4, <1>5, Chain
<1>7. At(data, 0, id.val \o appendBytes(code.val), Len(data))
  BY <1>1, <1>3, <1>6 DEF Short
<1>8. p.id = id.val /\ p.code = code.val
  BY <1>2
<1> QED BY <1>7, <1>8, Whole

(* A payload that is accepted is encoded to the bytes it was read from. *)
LEMMA PayloadWritten ==
    ASSUME NEW type, NEW data \in Seq(Byte), DecodePayload(type, data).ok
    PROVE  EncodePayload(type, DecodePayload(type, data).val) = data
<1> DEFINE p == DecodePayload(type, data).val
<1>1. CASE type = TXType
  <2>1. DecodePayload(type, data) = DecodeTXPayload(data)
        /\ EncodePayload(type, p) = appendBytes(EncodeTransfer(p.transfer)) \o appendBytes(p.sig)
    BY <1>1, Kinds, Zenon
  <2> QED BY <2>1, TXWritten, Zenon
<1>2. CASE type = PROOF_RESPType
  <2>1. DecodePayload(type, data) = DecodeProofResponsePayload(data)
        /\ EncodePayload(type, p) = p.target \o appendBool(p.seen) \o appendUint(W64, p.seenTime)
                                       \o appendBool(p.conflict) \o appendUint(W64, p.distance)
    BY <1>2, Kinds, Zenon
  <2> QED BY <2>1, ProofResponseWritten, Zenon
<1>3. CASE type = ERRORType
  <2>1. DecodePayload(type, data) = DecodeErrorPayload(data)
        /\ EncodePayload(type, p) = p.id \o appendBytes(p.code)
    BY <1>3, Kinds, Zenon
  <2> QED BY <2>1, ErrorWritten, Zenon
<1>4. CASE type = ACKType
  <2>1. DecodePayload(type, data) = whole(data, fixedAt(IDLen, data, 0))
        /\ EncodePayload(type, p) = p
    BY <1>4, Kinds, Zenon
  <2> QED BY <2>1, Widths, FieldWritten, Zenon
<1>5. CASE type \notin {TXType, PROOF_RESPType, ERRORType, ACKType}
  <2>1. DecodePayload(type, data) = whole(data, fixedAt(HashLen, data, 0))
        /\ EncodePayload(type, p) = p
    BY <1>5, Kinds, Zenon
  <2> QED BY <2>1, Widths, FieldWritten, Zenon
<1> QED BY <1>1, <1>2, <1>3, <1>4, <1>5

----------------------------------------------------------------------------
(* Streams.                                                                *)

(* What stands in the front of a stream stands in the stream, and nothing
   else stands there. *)
LEMMA Extend ==
    ASSUME NEW w \in Seq(Byte), NEW u \in Seq(Byte), NEW i, NEW j, NEW a, At(w, i, a, j)
    PROVE  At(w \o u, i, a, j)
<1> DEFINE full == w \o u  h == SubSeq(w, 1, i)  t == SubSeq(w, j + 1, Len(w))
<1>1. i \in Nat /\ a \in Seq(Byte) /\ j = i + Len(a) /\ j <= Len(w) /\ SubSeq(w, i + 1, j) = a
  BY DEF At
<1>2. Len(a) \in Nat /\ Len(w) \in Nat /\ Len(u) \in Nat
  BY <1>1
<1>3. full \in Seq(Byte) /\ Len(full) = Len(w) + Len(u)
      /\ \A x \in 1..Len(w) : full[x] = w[x]
  BY <1>2, ConcatProperties
<1> HIDE DEF full
<1>4. SubSeq(full, i + 1, j) = SubSeq(w, i + 1, j)
  <2> DEFINE p == SubSeq(full, i + 1, j)  q == SubSeq(w, i + 1, j)
  <2>1. p \in Seq(Byte) /\ Len(p) = Len(a) /\ \A x \in 1..Len(a) : p[x] = full[i + x]
    BY <1>1, <1>2, <1>3
  <2>2. q \in Seq(Byte) /\ Len(q) = Len(a) /\ \A x \in 1..Len(a) : q[x] = w[i + x]
    BY <1>1, <1>2
  <2>3. \A x \in 1..Len(a) : p[x] = q[x]
    <3> TAKE x \in 1..Len(a)
    <3>1. i + x \in 1..Len(w)
      BY <1>1, <1>2
    <3> QED BY <1>3, <2>1, <2>2, <3>1
  <2> HIDE DEF p, q
  <2>4. p = q
    BY <2>1, <2>2, <2>3, SeqEqual
  <2> QED BY <2>4 DEF p, q
<1> QED BY <1>1, <1>2, <1>3, <1>4 DEF At, full

(* The rest of a string. *)
LEMMA Remainder ==
    ASSUME NEW w \in Seq(Byte), NEW i \in 0..Len(w)
    PROVE  At(w, i, SubSeq(w, i + 1, Len(w)), Len(w))
<1>1. i \in Nat /\ Len(w) \in Nat /\ i <= Len(w)
  OBVIOUS
<1>2. SubSeq(w, i + 1, Len(w)) \in Seq(Byte) /\ Len(SubSeq(w, i + 1, Len(w))) = Len(w) - i
  BY <1>1
<1> QED BY <1>1, <1>2 DEF At

\* On the wire w, which u is to follow, stand the string e with its length and
\* then r: a length that has arrived is that of e, a body that has arrived is e,
\* and what is left of w goes on as r.
Fronts(w, u, e, r, length, body) ==
    /\ length.next # Short => length.val = Len(e)
    /\ body.next # Short => /\ body.val = e
                            /\ SubSeq(w, body.next + 1, Len(w)) \in Seq(Byte)
                            /\ SubSeq(w, body.next + 1, Len(w)) \o u = r

(* The front of a stream that goes on with a string and its length. *)
LEMMA StreamRead ==
    ASSUME NEW v \in Nat, v # 0, NEW w \in Seq(Byte), NEW u \in Seq(Byte),
           NEW e \in Seq(Byte), NEW r \in Seq(Byte), Len(e) \in Uints(v),
           w \o u = (appendUint(v, Len(e)) \o e) \o r,
           NEW length, length = decodeUintAt(v, w, 0),
           NEW body, body = fixedAt(length.val, w, length.next)
    PROVE  Fronts(w, u, e, r, length, body)
<1> DEFINE n == appendUint(v, Len(e))  full == w \o u  f == fixedAt(v, w, 0)
<1>1. Len(e) \in Nat /\ Len(e) \in Int /\ Len(w) \in Nat /\ Len(u) \in Nat /\ 0 \in offsets(w)
  BY DEF offsets
<1>2. n \in Seq(Byte) /\ Len(n) = v
  BY <1>1, Digits, DigitsWidth, Zenon
<1>3. full \in Seq(Byte) /\ Len(full) = Len(w) + Len(u)
  BY ConcatProperties
<1>4. number(n) = Len(e)
  BY UintReadBack
<1>5. full = (n \o e) \o r
  OBVIOUS
<1>6. length = [val |-> number(f.val), next |-> f.next]
  BY DEF decodeUintAt
<1>7. f.next \in offsets(w) /\ (f.next # Short => At(w, 0, f.val, f.next) /\ Len(f.val) = v)
  BY <1>1, FixedWritten
<1> HIDE DEF n, full, f
<1>9. n \o e \in Seq(Byte) /\ At(full, 0, (n \o e) \o r, Len(full))
  <2>1. n \o e \in Seq(Byte)
    BY <1>2, ConcatProperties
  <2>2. At(full, 0, full, Len(full))
    BY <1>3, Whole
  <2> QED BY <1>5, <2>1, <2>2, Zenon
<1> DEFINE ne == n \o e
<1>10. ne \in Seq(Byte) /\ At(full, 0, ne \o r, Len(full)) /\ Len(ne) = v + Len(e)
  BY <1>2, <1>9, ConcatProperties
<1>11. At(full, 0, ne, 0 + Len(ne)) /\ At(full, 0 + Len(ne), r, Len(full))
  <2> HIDE DEF ne
  <2> QED BY <1>3, <1>10, Split
<1>12. At(full, 0, n, 0 + Len(n)) /\ At(full, 0 + Len(n), e, 0 + Len(ne))
  BY <1>2, <1>3, <1>11, Split
<1> HIDE DEF ne
<1>13. At(full, 0, n, v) /\ At(full, v, e, v + Len(e)) /\ At(full, v + Len(e), r, Len(full))
  BY <1>2, <1>10, <1>11, <1>12
<1>14. ASSUME length.next # Short PROVE length.next = v /\ length.val = Len(e)
  <2>1. At(w, 0, f.val, f.next) /\ Len(f.val) = v /\ length.next = f.next
    BY <1>6, <1>7, <1>14
  <2>2. f.next = v
    BY <2>1 DEF At
  <2>3. At(full, 0, f.val, v)
    BY <2>1, <2>2, Extend DEF full
  <2>4. f.val = n
    BY <1>13, <2>3 DEF At
  <2> QED BY <1>4, <1>6, <2>1, <2>2, <2>4
<1>15. ASSUME body.next # Short
       PROVE  /\ length.next # Short /\ body.val = e
              /\ SubSeq(w, body.next + 1, Len(w)) \in Seq(Byte)
              /\ SubSeq(w, body.next + 1, Len(w)) \o u = r
  <2>1. length.next # Short
    BY <1>15 DEF fixedAt
  <2>2. length.next = v /\ length.val = Len(e) /\ v \in offsets(w)
    BY <1>6, <1>7, <1>14, <2>1
  <2>3. body = fixedAt(Len(e), w, v)
    BY <2>2
  <2>4. body.next \in offsets(w) /\ At(w, v, body.val, body.next) /\ Len(body.val) = Len(e)
    BY <1>1, <1>15, <2>2, <2>3, FixedWritten
  <2> DEFINE k == body.next  t == SubSeq(w, k + 1, Len(w))
  <2>5. k = v + Len(e) /\ k \in 0..Len(w)
    <3>1. k = v + Len(e)
      BY <2>4 DEF At
    <3> QED BY <1>1, <2>4, <3>1 DEF offsets, Short
  <2>6. At(full, v, body.val, k)
    BY <2>4, Extend DEF full
  <2>7. body.val = e
    BY <1>13, <2>5, <2>6 DEF At
  <2>8. At(w, k, t, Len(w)) /\ t \in Seq(Byte)
    <3>1. At(w, k, t, Len(w))
      BY <2>5, Remainder
    <3> QED BY <3>1 DEF At
  <2> HIDE DEF k, t
  <2>9. At(full, k, t, Len(w))
    BY <2>8, Extend DEF full
  <2>10. At(full, Len(w), u, Len(full))
    <3>1. At(full, 0, w \o u, Len(full))
      BY <1>3, Whole DEF full
    <3>2. At(full, 0 + Len(w), u, Len(full))
      BY <1>3, <3>1, Split
    <3> QED BY <1>1, <3>2
  <2>11. At(full, k, t \o u, Len(full))
    BY <1>3, <2>9, <2>10, Join
  <2>12. t \o u = r
    BY <1>13, <2>5, <2>11 DEF At
  <2> QED BY <2>1, <2>7, <2>8, <2>12 DEF k, t
<1> QED BY <1>14, <1>15, Zenon DEF Fronts

(* An empty stream. *)
LEMMA NothingRead ==
    ASSUME NEW v \in Nat, v # 0, NEW w, Len(w) = 0
    PROVE  decodeUintAt(v, w, 0).next = Short
              /\ \A n : fixedAt(n, w, Short).next = Short
<1>1. fixedAt(v, w, 0).next = Short
  BY DEF fixedAt
<1>2. decodeUintAt(v, w, 0).next = fixedAt(v, w, 0).next
  BY DEF decodeUintAt
<1>3. \A n : fixedAt(n, w, Short).next = Short
  BY DEF fixedAt
<1> QED BY <1>1, <1>2, <1>3

----------------------------------------------------------------------------
(* The frames of the messages of q, from the one with number k + 1.        *)

\* The messages that Send can encode.
Sendable == {m \in Messages : Len(EncodeMessage(m)) \in Uints(W32)}

Frames(q, k) == FlattenSeq([i \in 1..(Len(q) - k) |-> EncodeMessageFrame(q[k + i])])

(* A function on the first n positions is a list. *)
LEMMA FunctionIsSeq ==
    ASSUME NEW S, NEW n \in Nat, NEW l \in [1..n -> S]
    PROVE  l \in Seq(S) /\ Len(l) = n
  OBVIOUS

(* A frame is a nonempty byte string. *)
LEMMA FrameBytes ==
    ASSUME NEW m \in Sendable
    PROVE  EncodeMessageFrame(m) \in Seq(Byte) /\ Len(EncodeMessageFrame(m)) > 0
<1> DEFINE e == EncodeMessage(m)  n == appendUint(W32, Len(e))
<1>1. m \in Messages /\ Len(e) \in Uints(W32)
  BY DEF Sendable
<1>2. e \in Seq(Byte)
  BY <1>1, MessageRead
<1>3. EncodeMessageFrame(m) = n \o e
  BY Zenon DEF EncodeMessageFrame, appendBytes
<1> HIDE DEF e
<1>4. Len(e) \in Int /\ W32 \in Nat /\ W32 # 0
  BY <1>2, CodecAssumption
<1>5. n \in Seq(Byte) /\ Len(n) = W32
  BY <1>4, Digits, DigitsWidth, Zenon
<1> HIDE DEF n
<1>6. Len(n \o e) = Len(n) + Len(e) /\ Len(e) \in Nat
  BY <1>2, <1>5, ConcatProperties, LenProperties
<1>7. n \o e \in Seq(Byte)
  BY <1>2, <1>5, ConcatProperties, Zenon
<1> QED BY <1>3, <1>4, <1>5, <1>6, <1>7

(* The frames of the messages after the k-th, as a list. *)
LEMMA FramesList ==
    ASSUME NEW q \in Seq(Sendable), NEW k \in 0..Len(q),
           NEW l, l = [i \in 1..(Len(q) - k) |-> EncodeMessageFrame(q[k + i])]
    PROVE  /\ l \in Seq(Seq(Byte)) /\ Len(l) = Len(q) - k
           /\ \A i \in 1..(Len(q) - k) : l[i] = EncodeMessageFrame(q[k + i])
           /\ Len(q) \in Nat /\ k \in Nat
<1> DEFINE B == Seq(Byte)  n == Len(q) - k
<1>1. n \in Nat /\ Len(q) \in Nat /\ k \in Nat
  OBVIOUS
<1>2. \A i \in 1..n : EncodeMessageFrame(q[k + i]) \in B
  <2> TAKE i \in 1..n
  <2>1. q[k + i] \in Sendable
    BY <1>1
  <2> QED BY <2>1, FrameBytes
<1> HIDE DEF B, n
<1>3. l = [i \in 1..n |-> EncodeMessageFrame(q[k + i])]
  BY DEF n
<1>4. l \in Seq(B) /\ Len(l) = n /\ \A i \in 1..n : l[i] = EncodeMessageFrame(q[k + i])
  <2>1. \A i \in 1..n : l[i] = EncodeMessageFrame(q[k + i])
    BY <1>3
  <2>2. l \in [1..n -> B]
    BY <1>2, <1>3, Zenon
  <2> QED BY <1>1, <2>1, <2>2, FunctionIsSeq
<1> QED BY <1>1, <1>4 DEF B, n

(* One after the other they are bytes. *)
LEMMA FramesType ==
    ASSUME NEW q \in Seq(Sendable), NEW k \in 0..Len(q)
    PROVE  Frames(q, k) \in Seq(Byte)
<1> DEFINE l == [i \in 1..(Len(q) - k) |-> EncodeMessageFrame(q[k + i])]
<1>1. l \in Seq(Seq(Byte))
  BY FramesList
<1>2. Frames(q, k) = FlattenSeq(l)
  BY Zenon DEF Frames
<1> HIDE DEF l
<1> QED BY <1>1, <1>2, FlattenEnd

(* After the last message there are none. *)
LEMMA FramesNone ==
    ASSUME NEW q \in Seq(Sendable)
    PROVE  Frames(q, Len(q)) = <<>>
<1> DEFINE k == Len(q)  l == [i \in 1..(Len(q) - k) |-> EncodeMessageFrame(q[k + i])]
<1>1. k \in 0..Len(q)
  OBVIOUS
<1>2. l \in Seq(Seq(Byte)) /\ Len(l) = Len(q) - k /\ Len(q) \in Nat
  <2> HIDE DEF k
  <2> QED BY <1>1, FramesList
<1>3. Len(l) = 0
  <2> HIDE DEF l
  <2> QED BY <1>2
<1>4. Frames(q, k) = FlattenSeq(l)
  BY Zenon DEF Frames
<1> HIDE DEF l
<1>5. l = <<>>
  BY <1>2, <1>3
<1> QED BY <1>4, <1>5, FlattenEnd

(* The first of them stands in front. *)
LEMMA FramesFront ==
    ASSUME NEW q \in Seq(Sendable), NEW k \in Nat, k < Len(q)
    PROVE  Frames(q, k) = EncodeMessageFrame(q[k + 1]) \o Frames(q, k + 1)
<1> DEFINE l == [i \in 1..(Len(q) - k) |-> EncodeMessageFrame(q[k + i])]
           t == [i \in 1..(Len(q) - (k + 1)) |-> EncodeMessageFrame(q[(k + 1) + i])]
           B == Seq(Byte)
<1>1. k \in 0..Len(q) /\ k + 1 \in 0..Len(q)
  OBVIOUS
<1>2. l \in Seq(B) /\ Len(l) = Len(q) - k /\ Len(q) \in Nat
      /\ \A i \in 1..(Len(q) - k) : l[i] = EncodeMessageFrame(q[k + i])
  BY <1>1, FramesList
<1>3. t \in Seq(B) /\ Len(t) = Len(q) - (k + 1)
      /\ \A i \in 1..(Len(q) - (k + 1)) : t[i] = EncodeMessageFrame(q[(k + 1) + i])
  <2> DEFINE k1 == k + 1
  <2>1. k1 \in 0..Len(q)
    BY <1>1
  <2> HIDE DEF k1
  <2> DEFINE t1 == [i \in 1..(Len(q) - k1) |-> EncodeMessageFrame(q[k1 + i])]
  <2>2. t1 \in Seq(B) /\ Len(t1) = Len(q) - k1
        /\ \A i \in 1..(Len(q) - k1) : t1[i] = EncodeMessageFrame(q[k1 + i])
    BY <2>1, FramesList
  <2> QED BY <2>2 DEF k1
<1>4. Frames(q, k) = FlattenSeq(l) /\ Frames(q, k + 1) = FlattenSeq(t)
  BY Zenon DEF Frames
<1> HIDE DEF l, t, B
<1>5. Len(l) > 0 /\ l # <<>>
  BY <1>2, EmptySeq
<1>6. Head(l) = EncodeMessageFrame(q[k + 1])
  BY <1>2, <1>5, HeadTailProperties
<1>7. Tail(l) = t
  <2>1. Tail(l) \in Seq(B) /\ Len(Tail(l)) = Len(q) - (k + 1)
        /\ \A i \in 1..(Len(q) - (k + 1)) : Tail(l)[i] = l[i + 1]
    BY <1>2, <1>5, HeadTailProperties
  <2>2. \A i \in 1..(Len(q) - (k + 1)) : Tail(l)[i] = t[i]
    <3> TAKE i \in 1..(Len(q) - (k + 1))
    <3>1. i + 1 \in 1..(Len(q) - k) /\ k + (i + 1) = (k + 1) + i
      BY <1>2
    <3> QED BY <1>2, <1>3, <2>1, <3>1
  <2> DEFINE tl == Tail(l)
  <2>3. tl \in Seq(B) /\ Len(tl) = Len(t) /\ \A i \in 1..Len(tl) : tl[i] = t[i]
    BY <1>3, <2>1, <2>2
  <2> HIDE DEF tl
  <2>4. tl = t
    BY <1>3, <2>3, SeqEqual
  <2> QED BY <2>4 DEF tl
<1>8. FlattenSeq(l) = Head(l) \o FlattenSeq(Tail(l))
  BY <1>2, <1>5, FlattenFront DEF B
<1> QED BY <1>4, <1>6, <1>7, <1>8, Zenon

(* The frame of a further message comes last. *)
LEMMA FramesEnd ==
    ASSUME NEW q \in Seq(Sendable), NEW k \in 0..Len(q), NEW m \in Sendable
    PROVE  Frames(Append(q, m), k) = Frames(q, k) \o EncodeMessageFrame(m)
<1> DEFINE a == Append(q, m)  e == EncodeMessageFrame(m)
           l == [i \in 1..(Len(q) - k) |-> EncodeMessageFrame(q[k + i])]
           t == [i \in 1..(Len(a) - k) |-> EncodeMessageFrame(a[k + i])]
           B == Seq(Byte)
<1>1. a \in Seq(Sendable) /\ Len(a) = Len(q) + 1 /\ a[Len(q) + 1] = m /\ Len(q) \in Nat
      /\ \A i \in 1..Len(q) : a[i] = q[i]
  BY AppendProperties
<1>2. l \in Seq(B) /\ Len(l) = Len(q) - k /\ k \in Nat
      /\ \A i \in 1..(Len(q) - k) : l[i] = EncodeMessageFrame(q[k + i])
  BY FramesList
<1>3. Frames(q, k) = FlattenSeq(l) /\ Frames(a, k) = FlattenSeq(t)
  BY Zenon DEF Frames
<1>4. e \in B
  BY FrameBytes
<1> HIDE DEF a
<1>5. t \in Seq(B) /\ Len(t) = Len(a) - k
      /\ \A i \in 1..(Len(a) - k) : t[i] = EncodeMessageFrame(a[k + i])
  <2>1. k \in 0..Len(a)
    BY <1>1
  <2> QED BY <1>1, <2>1, FramesList
<1> HIDE DEF l, t, B, e
<1>6. Append(l, e) \in Seq(B) /\ Len(Append(l, e)) = Len(l) + 1 /\ Append(l, e)[Len(l) + 1] = e
      /\ \A i \in 1..Len(l) : Append(l, e)[i] = l[i]
  BY <1>2, <1>4, AppendProperties
<1>7. \A i \in 1..Len(t) : Append(l, e)[i] = t[i]
  <2> TAKE i \in 1..Len(t)
  <2>1. CASE i = Len(l) + 1
    <3>1. k + i = Len(q) + 1 /\ i \in 1..(Len(a) - k)
      BY <1>1, <1>2, <1>5, <2>1
    <3>2. t[i] = EncodeMessageFrame(m)
      BY <1>1, <1>5, <3>1
    <3> QED BY <1>6, <2>1, <3>2 DEF e
  <2>2. CASE i # Len(l) + 1
    <3>1. i \in 1..(Len(q) - k) /\ i \in 1..Len(l) /\ i \in 1..(Len(a) - k) /\ k + i \in 1..Len(q)
      BY <1>1, <1>2, <1>5, <2>2
    <3> QED BY <1>1, <1>2, <1>5, <1>6, <3>1
  <2> QED BY <2>1, <2>2
<1>8. Append(l, e) = t
  <2> DEFINE x == Append(l, e)
  <2>1. x \in Seq(B) /\ Len(x) = Len(t) /\ \A i \in 1..Len(x) : x[i] = t[i]
    BY <1>1, <1>2, <1>5, <1>6, <1>7
  <2> HIDE DEF x
  <2>2. x = t
    BY <1>5, <2>1, SeqEqual
  <2> QED BY <2>2 DEF x
<1>9. FlattenSeq(Append(l, e)) = FlattenSeq(l) \o e
  BY <1>2, <1>4, FlattenEnd DEF B
<1> QED BY <1>3, <1>8, <1>9, Zenon DEF a, e

----------------------------------------------------------------------------
(* The writing end: who holds writeMu, what each goroutine has to write,   *)
(* and what comes before what.                                             *)

\* Byte strings, and what the handler may get.
Bytes == Seq(Byte)
Decoded == {DecodeMessage(b).val : b \in Bytes}
Calls == Sendable \cup {<<>>}

Types ==
    /\ pc \in [Goroutines -> {"hello", "idle", "wait", "lock", "write"}]
    /\ msg \in [Senders -> Calls]
    /\ rest \in [Goroutines -> Bytes]
    /\ ready \in BOOLEAN /\ foreign \in BOOLEAN
    /\ writeMu \in Goroutines \cup {Nobody}
    /\ wire \in Bytes /\ from \in Bytes
    /\ state \in {"open", "broken", "refused"}
    /\ bodies \in Seq(Bytes) /\ got \in Seq(Decoded) /\ sent \in Seq(Sendable)

\* writeMu is held by the goroutine that writes.
Locks == \A g \in Goroutines : pc[g] = "write" <=> writeMu = g

\* Goroutines write what they were called with, senders after the opener.
Order ==
    /\ \A s \in Senders :
          /\ pc[s] # "hello"
          /\ pc[s] \in {"lock", "write"} => ready
          /\ pc[s] \in {"wait", "lock"} => /\ msg[s] \in Sendable
                                           /\ rest[s] = EncodeMessageFrame(msg[s])
    /\ pc[Opener] # "wait"
    /\ ready => pc[Opener] = "idle"
    /\ pc[Opener] = "lock" => rest[Opener] = encodeHandshake(Addr)
    /\ \A g \in Goroutines : pc[g] = "write" => Len(rest[g]) > 0

\* The opener has not begun to write the handshake.
Opening == pc[Opener] \in {"hello", "lock"}

\* Nothing goes before the handshake.
Silence == Opening => Len(wire) = 0 /\ Len(sent) = 0 /\ Len(got) = 0 /\ Len(from) = 0

Flow == Types /\ Locks /\ Order /\ Silence

(* The handshake of this end. *)
LEMMA HandshakeBytes ==
    /\ encodeHandshake(Addr) \in Bytes /\ Len(encodeHandshake(Addr)) > 0
    /\ Addr \in Bytes /\ Len(Addr) > 0 /\ Len(Addr) <= MaxAddr /\ Len(Addr) \in Uints(W16)
    /\ Opener \notin Senders /\ Nobody \notin Goroutines
    /\ Samples \subseteq Sendable
    /\ Noise \subseteq Bytes
<1> DEFINE n == appendUint(W16, Len(Addr))
<1>1. Addr \in Seq(Byte) /\ Len(Addr) \in 1..MaxAddr /\ Len(Addr) \in Uints(W16)
  BY WireAssumption
<1>2. Len(Addr) \in Int /\ W16 \in Nat /\ W16 # 0
  BY <1>1, CodecAssumption
<1>3. n \in Seq(Byte) /\ Len(n) = W16
  BY <1>2, Digits, DigitsWidth, Zenon
<1>4. encodeHandshake(Addr) = n \o Addr
  BY Zenon DEF encodeHandshake
<1> HIDE DEF n
<1>5. n \o Addr \in Seq(Byte) /\ Len(n \o Addr) = Len(n) + Len(Addr) /\ Len(Addr) \in Nat
  <2>1. n \o Addr \in Seq(Byte)
    BY <1>1, <1>3, ConcatProperties, Zenon
  <2>2. Len(n \o Addr) = Len(n) + Len(Addr)
    BY <1>1, <1>3, ConcatProperties, Zenon
  <2> QED BY <1>1, <2>1, <2>2, LenProperties
<1>6. Len(encodeHandshake(Addr)) > 0
  BY <1>2, <1>3, <1>4, <1>5
<1>7. Opener \notin Senders /\ Nobody \notin Goroutines
  BY WireAssumption DEF Goroutines
<1>8. Samples \subseteq Sendable /\ Noise \subseteq Bytes
  BY WireAssumption DEF Sendable, Bytes
<1> QED BY <1>1, <1>4, <1>5, <1>6, <1>7, <1>8 DEF Bytes

(* On an empty wire the read loop waits. *)
LEMMA EmptyWire ==
    ASSUME Len(wire) = 0
    PROVE  /\ ~decodeHandshake(wire).arrived /\ ~decodeHandshake(wire).refused
           /\ ~DecodeMessageFrame(wire).arrived /\ ~DecodeMessageFrame(wire).refused
<1>1. W16 \in Nat /\ W16 # 0 /\ W32 \in Nat /\ W32 # 0
  BY CodecAssumption
<1>2. \A v \in {W16, W32} : /\ decodeUintAt(v, wire, 0).next = Short
                            /\ \A n : fixedAt(n, wire, Short).next = Short
  BY <1>1, NothingRead
<1>3. decodeUintAt(W16, wire, 0).next = Short /\ decodeUintAt(W32, wire, 0).next = Short
      /\ \A n : fixedAt(n, wire, Short).next = Short
  BY <1>2
<1>4. ~decodeHandshake(wire).arrived /\ ~decodeHandshake(wire).refused
  BY <1>3, Zenon DEF decodeHandshake
<1>5. ~DecodeMessageFrame(wire).arrived /\ ~DecodeMessageFrame(wire).refused
  BY <1>3, Zenon DEF DecodeMessageFrame
<1> QED BY <1>4, <1>5

(* What the read loop takes off the wire. *)
LEMMA ReadTypes ==
    ASSUME wire \in Bytes
    PROVE  /\ decodeHandshake(wire).addr \in Bytes
           /\ DecodeMessageFrame(wire).body \in Bytes
           /\ \A i \in offsets(wire) : i # Short => SubSeq(wire, i + 1, Len(wire)) \in Bytes
           /\ decodeHandshake(wire).rest \in offsets(wire)
           /\ DecodeMessageFrame(wire).rest \in offsets(wire)
<1>1. wire \in Seq(Byte) /\ 0 \in offsets(wire) /\ Len(wire) \in Nat
  BY DEF Bytes, offsets
<1>2. \A v \in Nat : /\ decodeUintAt(v, wire, 0).next \in offsets(wire)
                     /\ decodeUintAt(v, wire, 0).val \in Nat
  BY <1>1, UintWritten DEF Took
<1>3. \A v \in Nat :
         LET length == decodeUintAt(v, wire, 0)
             body   == fixedAt(length.val, wire, length.next)
         IN  body.next \in offsets(wire) /\ body.val \in Seq(Byte)
  BY <1>1, <1>2, FixedWritten
<1>4. decodeHandshake(wire).addr \in Bytes /\ decodeHandshake(wire).rest \in offsets(wire)
  BY <1>3, Widths DEF decodeHandshake, Bytes
<1>5. DecodeMessageFrame(wire).body \in Bytes /\ DecodeMessageFrame(wire).rest \in offsets(wire)
  BY <1>3, Widths DEF DecodeMessageFrame, Bytes
<1>6. ASSUME NEW i \in offsets(wire), i # Short
      PROVE  SubSeq(wire, i + 1, Len(wire)) \in Bytes
  <2>1. i \in 0..Len(wire)
    BY <1>6 DEF offsets
  <2> QED BY <1>1, <2>1 DEF Bytes
<1> QED BY <1>4, <1>5, <1>6

(* Flow holds at the start. *)
LEMMA FlowInit ==
    Init => Flow
<1> SUFFICES ASSUME Init PROVE Flow
  OBVIOUS
<1>1. <<>> \in Bytes /\ <<>> \in Calls
  BY EmptySeq DEF Bytes, Calls
<1>2. <<>> \in Seq(Bytes) /\ <<>> \in Seq(Decoded) /\ <<>> \in Seq(Sendable)
  BY EmptySeq
<1>3. Opener \in Goroutines /\ \A s \in Senders : s \in Goroutines /\ s # Opener
  BY HandshakeBytes DEF Goroutines
<1>4. Types
  <2>1. pc \in [Goroutines -> {"hello", "idle", "wait", "lock", "write"}]
        /\ ready \in BOOLEAN /\ foreign \in BOOLEAN /\ writeMu \in Goroutines \cup {Nobody}
        /\ state \in {"open", "broken", "refused"}
    BY DEF Init
  <2>2. msg \in [Senders -> Calls] /\ rest \in [Goroutines -> Bytes]
    BY <1>1 DEF Init
  <2>3. wire \in Bytes /\ from \in Bytes
    BY <1>1, Zenon DEF Init
  <2>4. bodies \in Seq(Bytes) /\ got \in Seq(Decoded) /\ sent \in Seq(Sendable)
    BY <1>2, Zenon DEF Init
  <2> QED BY <2>1, <2>2, <2>3, <2>4, Zenon DEF Types
<1>5. pc[Opener] = "hello" /\ \A s \in Senders : pc[s] = "idle"
  BY <1>3 DEF Init
<1>6. Locks
  BY <1>5, HandshakeBytes DEF Init, Locks, Goroutines
<1>7. Order
  BY <1>5 DEF Init, Order, Goroutines
<1>8. Silence
  BY DEF Init, Silence
<1> QED BY <1>4, <1>6, <1>7, <1>8 DEF Flow

(* No step of the read loop disturbs the writing end. *)
LEMMA FlowRead ==
    ASSUME Flow, ReadHandshake \/ ReadFrame
    PROVE  Flow'
<1> DEFINE shake == decodeHandshake(wire)  frame == DecodeMessageFrame(wire)
           m == DecodeMessage(frame.body)
<1>1. UNCHANGED <<pc, msg, rest, ready, writeMu, sent, foreign>>
  BY DEF ReadHandshake, ReadFrame
<1>2. wire \in Bytes /\ from \in Bytes /\ state \in {"open", "broken", "refused"}
      /\ bodies \in Seq(Bytes) /\ got \in Seq(Decoded)
  BY DEF Flow, Types
<1>3. shake.addr \in Bytes /\ frame.body \in Bytes /\ m.val \in Decoded
  <2>1. shake.addr \in Bytes /\ frame.body \in Bytes
    BY <1>2, ReadTypes
  <2> QED BY <2>1 DEF Decoded
<1>4. /\ shake.arrived => SubSeq(wire, shake.rest + 1, Len(wire)) \in Bytes
      /\ frame.arrived => SubSeq(wire, frame.rest + 1, Len(wire)) \in Bytes
  <2>1. shake.arrived <=> shake.rest # Short
    BY Zenon DEF decodeHandshake
  <2>2. frame.arrived <=> frame.rest # Short
    BY Zenon DEF DecodeMessageFrame
  <2> HIDE DEF shake, frame
  <2> QED BY <1>2, <2>1, <2>2, ReadTypes DEF shake, frame
<1>5. \/ UNCHANGED <<wire, from, bodies, got>> /\ state' = "refused"
      \/ /\ shake.arrived /\ from' = shake.addr
         /\ wire' = SubSeq(wire, shake.rest + 1, Len(wire))
         /\ UNCHANGED <<state, bodies, got>>
      \/ /\ frame.arrived /\ bodies' = Append(bodies, frame.body) /\ got' = Append(got, m.val)
         /\ wire' = SubSeq(wire, frame.rest + 1, Len(wire))
         /\ UNCHANGED <<state, from>>
  <2>1. CASE ReadHandshake
    BY <2>1, Zenon DEF ReadHandshake, stop
  <2>2. CASE ReadFrame
    BY <2>2, Zenon DEF ReadFrame, stop
  <2> QED BY <2>1, <2>2
<1>6. (~shake.arrived /\ ~frame.arrived) \/ ~(Len(wire) = 0)
  BY EmptyWire
<1> HIDE DEF shake, frame, m
<1>7. wire' \in Bytes /\ from' \in Bytes /\ state' \in {"open", "broken", "refused"}
  BY <1>2, <1>3, <1>4, <1>5
<1>8. bodies' \in Seq(Bytes) /\ got' \in Seq(Decoded)
  <2>1. bodies' = bodies \/ bodies' = Append(bodies, frame.body)
    BY <1>5
  <2>2. got' = got \/ got' = Append(got, m.val)
    BY <1>5
  <2>3. bodies' \in Seq(Bytes)
    <3>1. Append(bodies, frame.body) \in Seq(Bytes)
      BY <1>2, <1>3, AppendProperties
    <3> QED BY <1>2, <2>1, <3>1
  <2>4. got' \in Seq(Decoded)
    <3>1. Append(got, m.val) \in Seq(Decoded)
      BY <1>2, <1>3, AppendProperties
    <3> QED BY <1>2, <2>2, <3>1
  <2> QED BY <2>3, <2>4
<1>9. Types'
  BY <1>1, <1>7, <1>8 DEF Flow, Types
<1>10. Locks' /\ Order'
  BY <1>1, Zenon DEF Flow, Locks, Order
<1>11. Silence'
  <2>1. ASSUME Opening PROVE UNCHANGED <<wire, from, got>>
    BY <1>5, <1>6, <2>1 DEF Flow, Silence
  <2> QED BY <1>1, <2>1 DEF Flow, Silence, Opening
<1> QED BY <1>9, <1>10, <1>11 DEF Flow

(* WriteHello and MarkReady. *)
LEMMA FlowOpener ==
    ASSUME Flow, WriteHello \/ MarkReady
    PROVE  Flow'
<1>0. Opener \in Goroutines /\ \A s \in Senders : s \in Goroutines /\ s # Opener
  BY HandshakeBytes DEF Goroutines
<1>1. CASE WriteHello
  <2>1. /\ pc[Opener] = "hello" /\ pc' = [pc EXCEPT ![Opener] = "lock"]
        /\ rest' = [rest EXCEPT ![Opener] = encodeHandshake(Addr)]
        /\ UNCHANGED <<msg, ready, writeMu, wire, state, from, bodies, got, sent, foreign>>
    BY <1>1 DEF WriteHello, goto, ends
  <2>2. Types'
    BY <2>1, HandshakeBytes DEF Flow, Types
  <2>3. pc'[Opener] = "lock" /\ rest'[Opener] = encodeHandshake(Addr)
        /\ \A g \in Goroutines : g # Opener => pc'[g] = pc[g] /\ rest'[g] = rest[g]
    BY <1>0, <2>1 DEF Flow, Types
  <2>4. Locks'
    BY <1>0, <2>1, <2>3 DEF Flow, Locks
  <2>5. Order'
    BY <1>0, <2>1, <2>3 DEF Flow, Order
  <2>6. Silence'
    BY <2>1 DEF Flow, Silence, Opening
  <2> QED BY <2>2, <2>4, <2>5, <2>6 DEF Flow
<1>2. CASE MarkReady
  <2>1. /\ pc[Opener] = "idle" /\ ready' = TRUE
        /\ UNCHANGED <<pc, msg, rest, writeMu, wire, state, from, bodies, got, sent, foreign>>
    BY <1>2 DEF MarkReady, ends
  <2>2. Types' /\ Locks' /\ Silence'
    BY <2>1 DEF Flow, Types, Locks, Silence, Opening
  <2>3. Order'
    BY <2>1 DEF Flow, Order
  <2> QED BY <2>2, <2>3 DEF Flow
<1> QED BY <1>1, <1>2

(* Send. *)
LEMMA FlowSend ==
    ASSUME Flow, NEW s \in Senders, NEW m \in Samples, Send(s, m)
    PROVE  Flow'
<1>0. Opener \in Goroutines /\ s \in Goroutines /\ \A t \in Senders : t \in Goroutines /\ t # Opener
  BY HandshakeBytes DEF Goroutines
<1>1. /\ pc[s] = "idle" /\ pc' = [pc EXCEPT ![s] = "wait"]
      /\ msg' = [msg EXCEPT ![s] = m] /\ rest' = [rest EXCEPT ![s] = EncodeMessageFrame(m)]
      /\ UNCHANGED <<ready, writeMu, wire, state, from, bodies, got, sent, foreign>>
  BY DEF Send, goto, ends
<1>2. m \in Sendable /\ m \in Calls
  BY HandshakeBytes DEF Calls
<1>3. EncodeMessageFrame(m) \in Bytes
  BY <1>2, FrameBytes DEF Bytes
<1>4. Types'
  BY <1>1, <1>2, <1>3 DEF Flow, Types
<1>5. /\ pc'[s] = "wait" /\ rest'[s] = EncodeMessageFrame(m) /\ msg'[s] = m
      /\ \A g \in Goroutines : g # s => pc'[g] = pc[g] /\ rest'[g] = rest[g]
      /\ \A g \in Senders : g # s => msg'[g] = msg[g]
  BY <1>0, <1>1 DEF Flow, Types
<1>6. Locks'
  BY <1>0, <1>1, <1>5 DEF Flow, Locks
<1>7. Order'
  BY <1>0, <1>1, <1>2, <1>5 DEF Flow, Order
<1>8. Silence'
  BY <1>0, <1>1, <1>5 DEF Flow, Silence, Opening
<1> QED BY <1>4, <1>6, <1>7, <1>8 DEF Flow

(* The steps of a goroutine with its frame or handshake. *)
LEMMA FlowSender ==
    ASSUME Flow, NEW g \in Goroutines, SenderStep(g)
    PROVE  Flow'
<1>0. Opener \in Goroutines /\ \A t \in Senders : t \in Goroutines /\ t # Opener
      /\ Nobody # g
  BY HandshakeBytes DEF Goroutines
<1>1. CASE WaitReady(g)
  <2>1. /\ pc[g] = "wait" /\ ready /\ pc' = [pc EXCEPT ![g] = "lock"]
        /\ UNCHANGED <<msg, rest, ready, writeMu, wire, state, from, bodies, got, sent, foreign>>
    BY <1>1 DEF WaitReady, goto, ends
  <2>2. pc'[g] = "lock" /\ \A h \in Goroutines : h # g => pc'[h] = pc[h]
    BY <2>1 DEF Flow, Types
  <2>3. g # Opener /\ g \in Senders
    BY <2>1 DEF Flow, Order, Goroutines
  <2>4. Types'
    BY <2>1 DEF Flow, Types
  <2>5. Locks'
    BY <2>1, <2>2 DEF Flow, Locks
  <2>6. Order'
    BY <1>0, <2>1, <2>2, <2>3 DEF Flow, Order
  <2>7. Silence'
    BY <1>0, <2>1, <2>2, <2>3 DEF Flow, Silence, Opening
  <2> QED BY <2>4, <2>5, <2>6, <2>7 DEF Flow
<1>2. CASE Lock(g)
  <2>1. /\ pc[g] = "lock" /\ writeMu = Nobody /\ writeMu' = g /\ pc' = [pc EXCEPT ![g] = "write"]
        /\ sent' = IF g = Opener THEN sent ELSE Append(sent, msg[g])
        /\ UNCHANGED <<msg, rest, ready, wire, state, from, bodies, got, foreign>>
    BY <1>2 DEF Lock, goto, ends
  <2>2. pc'[g] = "write" /\ \A h \in Goroutines : h # g => pc'[h] = pc[h]
    BY <2>1 DEF Flow, Types
  <2>3. g # Opener => g \in Senders /\ msg[g] \in Sendable /\ rest[g] = EncodeMessageFrame(msg[g])
                      /\ pc[Opener] = "idle"
    BY <2>1 DEF Flow, Order, Goroutines
  <2>4. sent' \in Seq(Sendable)
    BY <2>1, <2>3 DEF Flow, Types
  <2>5. Types'
    BY <2>1, <2>4 DEF Flow, Types
  <2>6. Locks'
    <3>1. \A h \in Goroutines : pc[h] # "write"
      BY <2>1, HandshakeBytes DEF Flow, Locks
    <3> QED BY <2>1, <2>2, <3>1 DEF Locks
  <2>7. Len(rest[g]) > 0
    <3>1. CASE g = Opener
      BY <2>1, <3>1, HandshakeBytes DEF Flow, Order
    <3>2. CASE g # Opener
      <4>1. Len(EncodeMessageFrame(msg[g])) > 0
        BY <2>3, <3>2, FrameBytes
      <4> QED BY <2>3, <3>2, <4>1, Zenon
    <3> QED BY <3>1, <3>2
  <2>8. Order'
    <3>1. \A t \in Senders : t # g => pc'[t] = pc[t]
      BY <1>0, <2>2
    <3>2. g # Opener => pc'[Opener] = pc[Opener]
      BY <1>0, <2>2
    <3>3. \A h \in Goroutines : pc'[h] = "write" => Len(rest[h]) > 0
      BY <2>2, <2>7 DEF Flow, Order
    <3> QED BY <1>0, <2>1, <2>2, <2>3, <3>1, <3>2, <3>3 DEF Flow, Order
  <2>9. Silence'
    BY <1>0, <2>1, <2>2, <2>3 DEF Flow, Silence, Opening
  <2> QED BY <2>5, <2>6, <2>8, <2>9 DEF Flow
<1>3. ASSUME NEW n \in Pieces(g), Write(g, n) PROVE Flow'
  <2>1. /\ pc[g] = "write"
        /\ wire' = wire \o SubSeq(rest[g], 1, n)
        /\ rest' = [rest EXCEPT ![g] = SubSeq(rest[g], n + 1, Len(rest[g]))]
        /\ IF n = Len(rest[g]) THEN pc' = [pc EXCEPT ![g] = "idle"] /\ writeMu' = Nobody
                               ELSE UNCHANGED <<pc, writeMu>>
        /\ UNCHANGED <<msg, ready, state, from, bodies, got, sent, foreign>>
    BY <1>3 DEF Write, goto, ends
  <2>2. rest[g] \in Seq(Byte) /\ Len(rest[g]) > 0 /\ writeMu = g /\ wire \in Seq(Byte)
    BY <2>1 DEF Flow, Types, Order, Locks, Bytes
  <2>3. n \in 1..Len(rest[g]) /\ Len(rest[g]) \in Nat
    BY <1>3, <2>2 DEF Pieces
  <2>4. SubSeq(rest[g], 1, n) \in Seq(Byte) /\ SubSeq(rest[g], n + 1, Len(rest[g])) \in Seq(Byte)
        /\ Len(SubSeq(rest[g], n + 1, Len(rest[g]))) = Len(rest[g]) - n
    BY <2>2, <2>3
  <2>5. wire' \in Bytes
    BY <2>1, <2>2, <2>4, ConcatProperties, Zenon DEF Bytes
  <2>6. rest' \in [Goroutines -> Bytes]
    BY <2>1, <2>4 DEF Flow, Types, Bytes
  <2>7. Types'
    BY <2>1, <2>5, <2>6 DEF Flow, Types
  <2>8. \A h \in Goroutines : h # g => pc'[h] = pc[h] /\ rest'[h] = rest[h] /\ pc[h] # "write"
    <3>1. \A h \in Goroutines : h # g => pc[h] # "write"
      BY <2>2 DEF Flow, Locks
    <3> QED BY <2>1, <3>1 DEF Flow, Types
  <2>9. /\ n = Len(rest[g]) => pc'[g] = "idle" /\ writeMu' = Nobody
        /\ n # Len(rest[g]) => pc' = pc /\ writeMu' = g /\ Len(rest'[g]) > 0
    <3>1. rest'[g] = SubSeq(rest[g], n + 1, Len(rest[g]))
      BY <2>1 DEF Flow, Types
    <3>2. n # Len(rest[g]) => Len(rest'[g]) > 0
      BY <2>3, <2>4, <3>1
    <3>3. pc' = [pc EXCEPT ![g] = "idle"] => pc'[g] = "idle"
      BY DEF Flow, Types
    <3> QED BY <2>1, <2>2, <3>2, <3>3
  <2>10. Locks'
    BY <1>0, <2>1, <2>8, <2>9, HandshakeBytes DEF Flow, Locks
  <2>11. pc[Opener] \in {"idle", "write"}
    <3>1. CASE g = Opener
      BY <2>1, <3>1
    <3>2. CASE g # Opener
      BY <2>1, <3>2 DEF Flow, Order, Goroutines
    <3> QED BY <3>1, <3>2
  <2>12. pc'[Opener] \in {"idle", "write"} /\ (pc[Opener] = "idle" => pc'[Opener] = "idle")
    BY <1>0, <2>1, <2>8, <2>9, <2>11
  <2>13. Order'
    <3>1. \A t \in Senders : (pc'[t] = pc[t] /\ rest'[t] = rest[t]) \/ t = g
      BY <1>0, <2>8
    <3>2. \A h \in Goroutines : pc'[h] = "write" => Len(rest'[h]) > 0
      BY <2>1, <2>8, <2>9
    <3>3. pc'[g] \in {"idle", "write"}
      BY <2>1, <2>9
    <3> QED BY <1>0, <2>1, <2>12, <3>1, <3>2, <3>3 DEF Flow, Order
  <2>14. Silence'
    BY <2>12 DEF Silence, Opening
  <2> QED BY <2>7, <2>10, <2>13, <2>14 DEF Flow
<1>4. CASE SendFails(g)
  <2>1. /\ pc[g] \in {"wait", "lock", "write"} /\ writeMu \in {g, Nobody} /\ writeMu' = Nobody
        /\ pc' = [pc EXCEPT ![g] = "idle"] /\ rest' = [rest EXCEPT ![g] = <<>>]
        /\ UNCHANGED <<msg, ready, wire, state, from, bodies, got, sent, foreign>>
    BY <1>4 DEF SendFails, goto, ends
  <2>2. <<>> \in Bytes
    BY EmptySeq DEF Bytes
  <2>3. Types'
    BY <2>1, <2>2 DEF Flow, Types
  <2>4. pc'[g] = "idle" /\ \A h \in Goroutines : h # g => pc'[h] = pc[h] /\ rest'[h] = rest[h]
    BY <2>1 DEF Flow, Types
  <2>5. \A h \in Goroutines : h # g => pc[h] # "write"
    BY <1>0, <2>1, HandshakeBytes DEF Flow, Locks
  <2>6. Locks'
    BY <2>1, <2>4, <2>5, HandshakeBytes DEF Locks
  <2>7. Order'
    BY <1>0, <2>1, <2>4, <2>5 DEF Flow, Order
  <2>8. Silence'
    BY <1>0, <2>1, <2>4 DEF Flow, Silence, Opening
  <2> QED BY <2>3, <2>6, <2>7, <2>8 DEF Flow
<1> QED BY <1>1, <1>2, <1>3, <1>4 DEF SenderStep

(* The connection breaks, or another implementation writes. *)
LEMMA FlowOutside ==
    ASSUME Flow,
           \/ \E b \in Noise : WriteNoise(b)
           \/ \E k \in {0, 1} : k <= Len(wire) /\ Break(k)
    PROVE  Flow'
<1>1. UNCHANGED <<pc, msg, rest, ready, writeMu, from, bodies, got, sent>>
  BY DEF WriteNoise, Break, ends
<1>2. /\ wire' \in Bytes /\ foreign' \in BOOLEAN /\ state' \in {"open", "broken", "refused"}
      /\ Len(wire) = 0 /\ ~ready => Len(wire') = 0
  <2>1. wire \in Seq(Byte) /\ Len(wire) \in Nat /\ foreign \in BOOLEAN
        /\ state \in {"open", "broken", "refused"}
    BY DEF Flow, Types, Bytes
  <2>2. ASSUME NEW b \in Noise, WriteNoise(b) PROVE  <1>2!:
    <3>1. b \in Seq(Byte)
      BY HandshakeBytes DEF Bytes
    <3>2. wire' = wire \o b /\ foreign' = TRUE /\ state' = state /\ ready
      BY <2>2 DEF WriteNoise, ends
    <3>3. wire' \in Seq(Byte)
      BY <2>1, <3>1, <3>2, ConcatProperties, Zenon
    <3> QED BY <2>1, <3>2, <3>3 DEF Bytes
  <2>3. ASSUME NEW k \in {0, 1}, k <= Len(wire), Break(k) PROVE  <1>2!:
    <3>1. wire' = SubSeq(wire, 1, Len(wire) - k) /\ foreign' = foreign /\ state' = "broken"
      BY <2>3 DEF Break
    <3>2. wire' \in Seq(Byte) /\ Len(wire') = Len(wire) - k
      BY <2>1, <2>3, <3>1
    <3> QED BY <2>1, <2>3, <3>1, <3>2 DEF Bytes
  <2> QED BY <2>2, <2>3
<1>3. Types'
  BY <1>1, <1>2 DEF Flow, Types
<1>4. Locks' /\ Order'
  BY <1>1, Zenon DEF Flow, Locks, Order
<1>5. Silence'
  <2>1. Opening => ~ready
    BY DEF Flow, Order, Opening
  <2> QED BY <1>1, <1>2, <2>1 DEF Flow, Silence, Opening
<1> QED BY <1>3, <1>4, <1>5 DEF Flow

(* Flow is inductive. *)
LEMMA FlowNext ==
    ASSUME Flow, [Next]_vars
    PROVE  Flow'
<1>1. CASE Next
  BY <1>1, FlowRead, FlowOpener, FlowSend, FlowSender, FlowOutside DEF Next
<1>2. CASE UNCHANGED vars
  <2>1. UNCHANGED <<pc, msg, rest, ready, writeMu, wire, state, from, bodies, got, sent, foreign>>
    BY <1>2 DEF vars, ends
  <2> QED BY <2>1, Zenon DEF Flow, Types, Locks, Order, Silence, Opening
<1> QED BY <1>1, <1>2

----------------------------------------------------------------------------
(* The reading end: what has been read, and what is still to come.         *)

\* The handler gets what the bodies stand for.
Reads ==
    /\ Len(bodies) = Len(got)
    /\ \A i \in 1..Len(got) : DecodeMessage(bodies[i]).ok /\ got[i] = DecodeMessage(bodies[i]).val

\* What the writing end has begun to write.
Pending ==
    IF Opening THEN encodeHandshake(Addr) ELSE IF writeMu = Nobody THEN <<>> ELSE rest[writeMu]

\* What the read loop has to read before it has got all of q, when it has read
\* the address f and k messages.
Coming(f, q, k) ==
    IF Len(f) = 0 THEN encodeHandshake(Addr) \o Frames(q, k) ELSE Frames(q, k)

\* The handler has got what was sent.
Handed ==
    ~foreign => /\ Len(from) = 0 \/ from = Addr
                /\ Len(got) <= Len(sent)
                /\ \A i \in 1..Len(got) : got[i] = sent[i]

\* The wire holds the front of what is to come; on an open connection the rest
\* is with the goroutine that writes.
Stream ==
    ~foreign /\ state # "refused" =>
        \E u \in Bytes : /\ wire \o u = Coming(from, sent, Len(got))
                         /\ state = "open" => u = Pending

\* The read loop has given up for a reason.
Reason ==
    state = "refused" =>
        foreign \/ \E i \in 1..Len(sent) : Len(EncodeMessage(sent[i])) > MaxFrame

WireInv == Flow /\ Reads /\ Handed /\ Stream /\ Reason

(* Reads is inductive. *)
LEMMA ReadsNext ==
    ASSUME Flow, Reads, [Next]_vars
    PROVE  Reads'
<1>1. CASE UNCHANGED <<bodies, got>>
  BY <1>1 DEF Reads
<1>2. CASE ReadFrame /\ ~UNCHANGED <<bodies, got>>
  <2> DEFINE frame == DecodeMessageFrame(wire)  m == DecodeMessage(frame.body)
             n == Len(got)
  <2>1. m.ok /\ bodies' = Append(bodies, frame.body) /\ got' = Append(got, m.val)
    BY <1>2, Zenon DEF ReadFrame, stop
  <2>2. wire \in Bytes /\ bodies \in Seq(Bytes) /\ got \in Seq(Decoded)
    BY DEF Flow, Types
  <2>3. frame.body \in Bytes
    BY <2>2, ReadTypes
  <2>4. m.val \in Decoded
    BY <2>3 DEF Decoded
  <2> HIDE DEF frame, m
  <2>5. Len(bodies) = n /\ n \in Nat
    BY <2>2 DEF Reads
  <2>6. Len(bodies') = n + 1 /\ bodies'[n + 1] = frame.body /\ \A i \in 1..n : bodies'[i] = bodies[i]
    <3>1. Len(Append(bodies, frame.body)) = n + 1 /\ Append(bodies, frame.body)[n + 1] = frame.body
          /\ \A i \in 1..n : Append(bodies, frame.body)[i] = bodies[i]
      BY <2>2, <2>3, <2>5, AppendProperties
    <3> QED BY <2>1, <3>1, Zenon
  <2>7. Len(got') = n + 1 /\ got'[n + 1] = m.val /\ \A i \in 1..n : got'[i] = got[i]
    <3>1. Len(Append(got, m.val)) = n + 1 /\ Append(got, m.val)[n + 1] = m.val
          /\ \A i \in 1..n : Append(got, m.val)[i] = got[i]
      BY <2>2, <2>4, AppendProperties
    <3> QED BY <2>1, <3>1, Zenon
  <2> HIDE DEF n
  <2>8. \A i \in 1..(n + 1) : DecodeMessage(bodies'[i]).ok /\ got'[i] = DecodeMessage(bodies'[i]).val
    <3> TAKE i \in 1..(n + 1)
    <3>1. CASE i = n + 1
      BY <2>1, <2>6, <2>7, <3>1, Zenon DEF m
    <3>2. CASE i # n + 1
      <4>1. i \in 1..n
        BY <2>5, <3>2
      <4>2. bodies'[i] = bodies[i] /\ got'[i] = got[i]
        BY <2>6, <2>7, <4>1
      <4>3. DecodeMessage(bodies[i]).ok /\ got[i] = DecodeMessage(bodies[i]).val
        BY <4>1, Zenon DEF Reads, n
      <4> QED BY <4>2, <4>3, Zenon
    <3> QED BY <3>1, <3>2
  <2> QED BY <2>6, <2>7, <2>8 DEF Reads
<1>3. UNCHANGED <<bodies, got>> \/ ReadFrame
  BY DEF Next, vars, ends, WriteHello, MarkReady, Send, SenderStep, WaitReady, Lock, Write,
         SendFails, WriteNoise, ReadHandshake, stop, Break
<1> QED BY <1>1, <1>2, <1>3

(* The steps that leave the stream alone. *)
LEMMA StreamSame ==
    ASSUME Handed, Stream, Reason,
           UNCHANGED <<wire, state, from, got, sent, foreign>>,
           state = "open" => Pending' = Pending
    PROVE  Handed' /\ Stream' /\ Reason'
<1>1. Handed' /\ Reason'
  BY Zenon DEF Handed, Reason
<1>2. Stream'
  <2> SUFFICES ASSUME ~foreign, state # "refused"
               PROVE  \E u \in Bytes : /\ wire \o u = Coming(from, sent, Len(got))
                                       /\ state = "open" => u = Pending'
    BY Zenon DEF Stream, Coming
  <2>1. PICK u \in Bytes : wire \o u = Coming(from, sent, Len(got)) /\ (state = "open" => u = Pending)
    BY Zenon DEF Stream
  <2> QED BY <2>1, Zenon
<1> QED BY <1>1, <1>2

(* WriteHello, MarkReady, Send, WaitReady and a failed write leave what is on the
   wire and what is to come alone. *)
LEMMA StreamQuiet ==
    ASSUME Flow, Handed, Stream, Reason,
           \/ WriteHello \/ MarkReady
           \/ \E s \in Senders, m \in Samples : Send(s, m)
           \/ \E g \in Goroutines : WaitReady(g) \/ SendFails(g)
    PROVE  Handed' /\ Stream' /\ Reason'
<1>0. Opener \in Goroutines /\ Nobody \notin Goroutines
      /\ \A s \in Senders : s \in Goroutines /\ s # Opener
  BY HandshakeBytes DEF Goroutines
<1>1. UNCHANGED <<wire, state, from, got, sent, foreign>>
  BY DEF WriteHello, MarkReady, Send, WaitReady, SendFails, ends
<1>2. CASE WriteHello
  <2>1. Opening /\ Opening'
    BY <1>0, <1>2 DEF WriteHello, goto, Opening, Flow, Types
  <2> QED BY <1>1, <2>1, StreamSame DEF Pending
<1>3. CASE MarkReady
  <2>1. Pending' = Pending
    BY <1>3 DEF MarkReady, Pending, Opening
  <2> QED BY <1>1, <2>1, StreamSame
<1>4. ASSUME NEW s \in Senders, NEW m \in Samples, Send(s, m)
      PROVE  Handed' /\ Stream' /\ Reason'
  <2>1. /\ pc[s] = "idle" /\ pc' = [pc EXCEPT ![s] = "wait"] /\ writeMu' = writeMu
        /\ rest' = [rest EXCEPT ![s] = EncodeMessageFrame(m)]
    BY <1>4 DEF Send, goto
  <2>2. pc'[Opener] = pc[Opener]
    BY <1>0, <2>1 DEF Flow, Types
  <2>3. writeMu # s
    BY <1>0, <2>1 DEF Flow, Locks
  <2>4. writeMu # Nobody => rest'[writeMu] = rest[writeMu]
    BY <2>1, <2>3 DEF Flow, Types
  <2>5. Pending' = Pending
    BY <2>1, <2>2, <2>4 DEF Pending, Opening
  <2> QED BY <1>1, <2>5, StreamSame
<1>5. ASSUME NEW g \in Goroutines, WaitReady(g) PROVE Handed' /\ Stream' /\ Reason'
  <2>1. pc[g] = "wait" /\ pc' = [pc EXCEPT ![g] = "lock"] /\ UNCHANGED <<rest, writeMu>>
    BY <1>5 DEF WaitReady, goto
  <2>2. g # Opener
    BY <2>1 DEF Flow, Order
  <2>3. pc'[Opener] = pc[Opener]
    BY <1>0, <2>1, <2>2 DEF Flow, Types
  <2>4. Pending' = Pending
    BY <2>1, <2>3 DEF Pending, Opening
  <2> QED BY <1>1, <2>4, StreamSame
<1>6. ASSUME NEW g \in Goroutines, SendFails(g) PROVE Handed' /\ Stream' /\ Reason'
  <2>1. state # "open"
    BY <1>6 DEF SendFails
  <2> QED BY <1>1, <2>1, StreamSame
<1> QED BY <1>2, <1>3, <1>4, <1>5, <1>6

(* Types of what is to come. *)
LEMMA ComingType ==
    ASSUME Types, Len(got) <= Len(sent)
    PROVE  /\ Len(got) \in Nat /\ Len(sent) \in Nat /\ Len(got) \in 0..Len(sent)
           /\ Frames(sent, Len(got)) \in Bytes /\ Coming(from, sent, Len(got)) \in Bytes
<1>1. Len(got) \in Nat /\ Len(sent) \in Nat
  BY LenProperties DEF Types
<1>2. Frames(sent, Len(got)) \in Bytes
  BY <1>1, FramesType DEF Types, Bytes
<1>3. \A a, b \in Bytes : a \o b \in Bytes
  BY ConcatProperties DEF Bytes
<1>4. encodeHandshake(Addr) \o Frames(sent, Len(got)) \in Bytes
  BY <1>2, <1>3, HandshakeBytes
<1> QED BY <1>1, <1>2, <1>4 DEF Coming

(* Byte strings under concatenation. *)
LEMMA ConcatFacts ==
    /\ <<>> \in Bytes
    /\ \A a, b \in Bytes : a \o b \in Bytes
    /\ \A a, b, c \in Bytes : (a \o b) \o c = a \o (b \o c)
    /\ \A a \in Bytes : a \o <<>> = a /\ <<>> \o a = a
<1>1. <<>> \in Bytes
  BY EmptySeq DEF Bytes
<1>2. \A a, b \in Bytes : a \o b \in Bytes
  BY ConcatProperties DEF Bytes
<1>3. \A a, b, c \in Bytes : (a \o b) \o c = a \o (b \o c)
  <2> TAKE a, b, c \in Bytes
  <2> QED BY ConcatAssociative DEF Bytes
<1>4. \A a \in Bytes : a \o <<>> = a /\ <<>> \o a = a
  <2> TAKE a \in Bytes
  <2> QED BY ConcatEmptySeq DEF Bytes
<1> QED BY <1>1, <1>2, <1>3, <1>4

(* A message that is sent comes last. *)
LEMMA ComingLast ==
    ASSUME Types, Len(got) <= Len(sent), NEW m \in Sendable
    PROVE  Coming(from, Append(sent, m), Len(got))
              = Coming(from, sent, Len(got)) \o EncodeMessageFrame(m)
<1> DEFINE k == Len(got)  h == encodeHandshake(Addr)  f == Frames(sent, k)
           e == EncodeMessageFrame(m)
<1>1. k \in 0..Len(sent) /\ f \in Bytes /\ sent \in Seq(Sendable)
  BY ComingType DEF Types
<1>2. Frames(Append(sent, m), k) = f \o e
  <2> HIDE DEF k
  <2> QED BY <1>1, FramesEnd
<1>3. h \in Bytes /\ e \in Bytes
  BY HandshakeBytes, FrameBytes DEF Bytes
<1> HIDE DEF h, f, e
<1>4. (h \o f) \o e = h \o (f \o e)
  BY <1>1, <1>3, ConcatFacts
<1>5. CASE Len(from) = 0
  <2>1. Coming(from, Append(sent, m), k) = h \o Frames(Append(sent, m), k)
    BY <1>5 DEF Coming, h
  <2>2. Coming(from, sent, k) = h \o f
    BY <1>5 DEF Coming, h, f
  <2> QED BY <1>2, <1>4, <2>1, <2>2, Zenon DEF e, k
<1>6. CASE Len(from) # 0
  <2>1. Coming(from, Append(sent, m), k) = Frames(Append(sent, m), k)
    BY <1>6 DEF Coming
  <2>2. Coming(from, sent, k) = f
    BY <1>6 DEF Coming, f
  <2> QED BY <1>2, <2>1, <2>2, Zenon DEF e, k
<1> QED BY <1>5, <1>6

(* Whoever takes writeMu appends his frame to what is to come. *)
LEMMA StreamLock ==
    ASSUME Flow, Handed, Stream, Reason, NEW g \in Goroutines, Lock(g)
    PROVE  Handed' /\ Stream' /\ Reason'
<1>0. Opener \in Goroutines /\ Nobody \notin Goroutines /\ Types
  BY HandshakeBytes DEF Goroutines, Flow
<1>1. /\ pc[g] = "lock" /\ writeMu = Nobody /\ writeMu' = g /\ pc' = [pc EXCEPT ![g] = "write"]
      /\ sent' = IF g = Opener THEN sent ELSE Append(sent, msg[g])
      /\ UNCHANGED <<msg, rest, ready, wire, state, from, bodies, got, foreign>>
  BY DEF Lock, goto, ends
<1>2. pc'[g] = "write" /\ \A h \in Goroutines : h # g => pc'[h] = pc[h]
  BY <1>0, <1>1 DEF Types
<1>3. CASE g = Opener
  <2>1. Pending = encodeHandshake(Addr)
    BY <1>1, <1>3 DEF Pending, Opening
  <2>2. ~Opening'
    BY <1>2, <1>3 DEF Opening
  <2>3. Pending' = rest[g]
    BY <1>0, <1>1, <2>2 DEF Pending
  <2>4. rest[g] = encodeHandshake(Addr)
    BY <1>1, <1>3 DEF Flow, Order
  <2> QED BY <1>1, <1>3, <2>1, <2>3, <2>4, StreamSame
<1>4. CASE g # Opener
  <2> DEFINE e == EncodeMessageFrame(msg[g])  n == Len(sent)  k == Len(got)
             q == Append(sent, msg[g])
  <2>1. msg[g] \in Sendable /\ rest[g] = e /\ pc[Opener] = "idle"
    BY <1>1, <1>4 DEF Flow, Order, Goroutines
  <2>2. e \in Bytes
    BY <2>1, FrameBytes DEF Bytes
  <2>3. Pending = <<>> /\ Pending' = e
    <3>1. ~Opening /\ ~Opening'
      BY <1>0, <1>2, <1>4, <2>1 DEF Opening
    <3>2. Pending = <<>>
      BY <1>1, <3>1 DEF Pending
    <3>3. Pending' = rest'[g]
      BY <1>0, <1>1, <3>1 DEF Pending
    <3> QED BY <1>1, <2>1, <3>2, <3>3
  <2>4. sent' = q
    BY <1>1, <1>4
  <2>5. Len(q) = n + 1 /\ n \in Nat /\ k \in Nat /\ \A i \in 1..n : q[i] = sent[i]
    BY <1>0, <2>1, AppendProperties, LenProperties DEF Types
  <2>6. Handed'
    <3> SUFFICES ASSUME ~foreign
                 PROVE  /\ Len(from) = 0 \/ from = Addr
                        /\ Len(got) <= Len(q)
                        /\ \A i \in 1..Len(got) : got[i] = q[i]
      BY <1>1, <2>4, Zenon DEF Handed
    <3> HIDE DEF q
    <3> QED BY <2>5 DEF Handed
  <2>7. Reason'
    <3>1. ASSUME NEW i \in 1..n, Len(EncodeMessage(sent[i])) > MaxFrame
          PROVE  \E j \in 1..Len(q) : Len(EncodeMessage(q[j])) > MaxFrame
      <4> HIDE DEF q
      <4>1. i \in 1..Len(q) /\ q[i] = sent[i]
        BY <2>5
      <4>2. Len(EncodeMessage(q[i])) > MaxFrame
        BY <3>1, <4>1, Zenon
      <4> QED BY <4>1, <4>2
    <3> HIDE DEF q
    <3>2. state = "refused" => foreign \/ \E j \in 1..Len(q) : Len(EncodeMessage(q[j])) > MaxFrame
      BY <3>1, Zenon DEF Reason
    <3> QED BY <1>1, <2>4, <3>2, Zenon DEF Reason
  <2>8. Stream'
    <3> SUFFICES ASSUME ~foreign, state # "refused"
                 PROVE  \E u \in Bytes : /\ wire \o u = Coming(from, q, k)
                                         /\ state = "open" => u = e
      BY <1>1, <2>3, <2>4, Zenon DEF Stream
    <3>1. PICK u \in Bytes : wire \o u = Coming(from, sent, k) /\ (state = "open" => u = Pending)
      BY Zenon DEF Stream
    <3>2. wire \in Bytes
      BY <1>0 DEF Types
    <3>3. Coming(from, q, k) = Coming(from, sent, k) \o e
      BY <1>0, <2>1, ComingLast DEF Handed
    <3> HIDE DEF e, q, k
    <3>4. wire \o (u \o e) = Coming(from, q, k)
      <4>1. (wire \o u) \o e = wire \o (u \o e)
        BY <2>2, <3>2, ConcatFacts
      <4> QED BY <3>1, <3>3, <4>1, Zenon
    <3>5. state = "open" => u \o e = e
      BY <2>2, <2>3, <3>1, ConcatFacts, Zenon
    <3>6. u \o e \in Bytes
      BY <2>2, ConcatFacts
    <3> QED BY <3>4, <3>5, <3>6
  <2> QED BY <2>6, <2>7, <2>8
<1> QED BY <1>3, <1>4

(* A piece that is written moves from what is to come to the wire. *)
LEMMA StreamWrite ==
    ASSUME Flow, Handed, Stream, Reason, NEW g \in Goroutines, NEW n \in Pieces(g), Write(g, n)
    PROVE  Handed' /\ Stream' /\ Reason'
<1> DEFINE a == SubSeq(rest[g], 1, n)  b == SubSeq(rest[g], n + 1, Len(rest[g]))
<1>0. Opener \in Goroutines /\ Nobody \notin Goroutines /\ Types
  BY HandshakeBytes DEF Goroutines, Flow
<1>1. /\ pc[g] = "write" /\ state = "open"
      /\ wire' = wire \o a /\ rest' = [rest EXCEPT ![g] = b]
      /\ IF n = Len(rest[g]) THEN pc' = [pc EXCEPT ![g] = "idle"] /\ writeMu' = Nobody
                             ELSE UNCHANGED <<pc, writeMu>>
      /\ UNCHANGED <<msg, ready, state, from, bodies, got, sent, foreign>>
  BY DEF Write, goto, ends
<1>2. rest[g] \in Seq(Byte) /\ Len(rest[g]) > 0 /\ writeMu = g /\ wire \in Bytes /\ Len(rest[g]) \in Nat
  BY <1>1 DEF Flow, Types, Order, Locks, Bytes
<1>3. n \in 1..Len(rest[g])
  BY <1>2 DEF Pieces
<1>4. a \in Bytes /\ b \in Bytes /\ Len(b) = Len(rest[g]) - n
  BY <1>2, <1>3 DEF Bytes
<1>5. rest[g] = a \o b
  <2>1. SubSeq(rest[g], 1, Len(rest[g])) = rest[g]
    BY <1>2, SubSeqFull
  <2>2. a \o b = SubSeq(rest[g], 1, Len(rest[g]))
    <3> DEFINE o == 1
    <3>1. o \in 1..(Len(rest[g]) + 1) /\ n \in (o - 1)..Len(rest[g])
          /\ Len(rest[g]) \in n..Len(rest[g])
      BY <1>2, <1>3
    <3> HIDE DEF o
    <3>2. SubSeq(rest[g], o, n) \o b = SubSeq(rest[g], o, Len(rest[g]))
      BY <1>2, <3>1, ConcatAdjacentSubSeq
    <3> QED BY <3>2 DEF o
  <2> QED BY <2>1, <2>2
<1>6. pc[Opener] \notin {"hello", "lock"} /\ pc'[Opener] \notin {"hello", "lock"}
  <2>1. CASE g = Opener
    BY <1>0, <1>1, <2>1 DEF Types
  <2>2. CASE g # Opener
    <3>1. pc[Opener] = "idle"
      BY <1>1, <2>2 DEF Flow, Order, Goroutines
    <3> QED BY <1>0, <1>1, <3>1 DEF Types
  <2> QED BY <2>1, <2>2
<1>7. Pending = rest[g] /\ Pending' = b
  <2>1. Pending = rest[g]
    BY <1>0, <1>2, <1>6 DEF Pending, Opening
  <2>2. rest'[g] = b
    BY <1>0, <1>1 DEF Types
  <2>3. CASE n = Len(rest[g])
    <3>1. Len(b) = 0
      BY <1>2, <1>4, <2>3
    <3>2. b = <<>>
      <4> HIDE DEF b
      <4> QED BY <1>4, <3>1 DEF Bytes
    <3>3. Pending' = <<>>
      BY <1>1, <1>6, <2>3 DEF Pending, Opening
    <3> QED BY <2>1, <3>2, <3>3
  <2>4. CASE n # Len(rest[g])
    <3>1. Pending' = rest'[g]
      BY <1>0, <1>1, <1>2, <1>6, <2>4 DEF Pending, Opening
    <3> QED BY <2>1, <2>2, <3>1
  <2> QED BY <2>3, <2>4
<1> HIDE DEF a, b
<1>8. Handed' /\ Reason'
  BY <1>1, Zenon DEF Handed, Reason
<1>9. Stream'
  <2> SUFFICES ASSUME ~foreign, state # "refused"
               PROVE  \E u \in Bytes : /\ wire' \o u = Coming(from, sent, Len(got))
                                       /\ state = "open" => u = b
    BY <1>1, <1>7, Zenon DEF Stream
  <2>1. PICK u \in Bytes : wire \o u = Coming(from, sent, Len(got)) /\ (state = "open" => u = Pending)
    BY Zenon DEF Stream
  <2>2. u = a \o b
    BY <1>1, <1>5, <1>7, <2>1, Zenon
  <2>3. (wire \o a) \o b = wire \o (a \o b)
    BY <1>2, <1>4, ConcatFacts
  <2>4. wire' \o b = Coming(from, sent, Len(got))
    BY <1>1, <2>1, <2>2, <2>3, Zenon
  <2> QED BY <1>4, <2>4
<1> QED BY <1>8, <1>9

(* A broken connection and a foreign writer end the promise about the stream. *)
LEMMA StreamOutside ==
    ASSUME Flow, Handed, Stream, Reason,
           \/ \E b \in Noise : WriteNoise(b)
           \/ \E k \in {0, 1} : k <= Len(wire) /\ Break(k)
    PROVE  Handed' /\ Stream' /\ Reason'
<1>1. CASE \E b \in Noise : WriteNoise(b)
  <2>1. foreign' = TRUE /\ state' = "open"
    BY <1>1 DEF WriteNoise, ends
  <2> QED BY <2>1 DEF Handed, Stream, Reason
<1>2. ASSUME NEW k \in {0, 1}, k <= Len(wire), Break(k) PROVE Handed' /\ Stream' /\ Reason'
  <2> DEFINE a == SubSeq(wire, 1, Len(wire) - k)  b == SubSeq(wire, (Len(wire) - k) + 1, Len(wire))
  <2>1. /\ state = "open" /\ state' = "broken" /\ wire' = a
        /\ UNCHANGED <<from, got, sent, foreign>>
    BY <1>2 DEF Break
  <2>2. Handed' /\ Reason'
    BY <2>1, Zenon DEF Handed, Reason
  <2>3. wire \in Seq(Byte) /\ Len(wire) \in Nat
    BY DEF Flow, Types, Bytes
  <2>4. wire = a \o b /\ a \in Bytes /\ b \in Bytes
    <3>1. SubSeq(wire, 1, Len(wire)) = wire
      BY <2>3, SubSeqFull
    <3>2. a \o b = SubSeq(wire, 1, Len(wire))
      <4> DEFINE o == 1  m == Len(wire) - k
      <4>1. o \in 1..(Len(wire) + 1) /\ m \in (o - 1)..Len(wire) /\ Len(wire) \in m..Len(wire)
        BY <1>2, <2>3
      <4> HIDE DEF o, m
      <4>2. SubSeq(wire, o, m) \o SubSeq(wire, m + 1, Len(wire)) = SubSeq(wire, o, Len(wire))
        BY <2>3, <4>1, ConcatAdjacentSubSeq
      <4> QED BY <4>2 DEF o, m
    <3>3. a \in Bytes /\ b \in Bytes
      BY <1>2, <2>3 DEF Bytes
    <3> QED BY <3>1, <3>2, <3>3
  <2> HIDE DEF a, b
  <2>5. Stream'
    <3> SUFFICES ASSUME ~foreign
                 PROVE  \E u \in Bytes : a \o u = Coming(from, sent, Len(got))
      BY <2>1, Zenon DEF Stream
    <3>1. PICK u \in Bytes : wire \o u = Coming(from, sent, Len(got))
      BY <2>1, Zenon DEF Stream
    <3>2. (a \o b) \o u = a \o (b \o u) /\ b \o u \in Bytes
      BY <2>4, ConcatFacts
    <3>3. a \o (b \o u) = Coming(from, sent, Len(got))
      BY <2>4, <3>1, <3>2, Zenon
    <3> QED BY <3>2, <3>3
  <2> QED BY <2>2, <2>5
<1> QED BY <1>1, <1>2

(* The read loop takes the handshake of this code off the wire and the address
   from it, or refuses a stranger. *)
LEMMA StreamHandshake ==
    ASSUME Flow, Handed, Stream, Reason, ReadHandshake
    PROVE  Handed' /\ Stream' /\ Reason'
<1> DEFINE length == decodeUintAt(W16, wire, 0)
           body   == fixedAt(length.val, wire, length.next)
           shake  == decodeHandshake(wire)
           f      == Frames(sent, Len(got))
           h      == encodeHandshake(Addr)
           tail   == SubSeq(wire, body.next + 1, Len(wire))
<1>1. /\ from = <<>> /\ state # "refused"
      /\ \/ /\ shake.arrived /\ from' = shake.addr
            /\ wire' = SubSeq(wire, shake.rest + 1, Len(wire))
            /\ UNCHANGED <<state, bodies, got>>
         \/ /\ shake.refused /\ state' = "refused" /\ UNCHANGED <<from, bodies, got, wire>>
      /\ UNCHANGED <<pc, msg, rest, ready, writeMu, sent, foreign>>
  BY Zenon DEF ReadHandshake, stop
<1>2. CASE foreign
  BY <1>1, <1>2, Zenon DEF Handed, Stream, Reason
<1>3. CASE ~foreign
  <2>1. PICK u \in Bytes : wire \o u = Coming(from, sent, Len(got)) /\ (state = "open" => u = Pending)
    BY <1>1, <1>3, Zenon DEF Stream
  <2>2. Len(from) = 0
    BY <1>1
  <2>3. Types /\ Len(got) <= Len(sent) /\ \A i \in 1..Len(got) : got[i] = sent[i]
    BY <1>3 DEF Flow, Handed
  <2>4. wire \in Bytes /\ f \in Bytes /\ h \in Bytes
    BY <2>3, ComingType, HandshakeBytes DEF Types
  <2>5. wire \o u = h \o f
    BY <2>1, <2>2 DEF Coming
  <2>6. h = appendUint(W16, Len(Addr)) \o Addr
    BY Zenon DEF encodeHandshake
  <2>7. /\ length.next # Short => length.val = Len(Addr)
        /\ body.next # Short => body.val = Addr /\ tail \in Bytes /\ tail \o u = f
    <3>1. W16 \in Nat /\ W16 # 0
      BY CodecAssumption
    <3>2. wire \o u = (appendUint(W16, Len(Addr)) \o Addr) \o f
      BY <2>5, <2>6, Zenon
    <3>3. wire \in Seq(Byte) /\ u \in Seq(Byte) /\ Addr \in Seq(Byte) /\ f \in Seq(Byte)
          /\ Len(Addr) \in Uints(W16)
      BY <2>4, HandshakeBytes DEF Bytes
    <3> DEFINE l == length  b == body
    <3>4. l = decodeUintAt(W16, wire, 0) /\ b = fixedAt(l.val, wire, l.next)
      OBVIOUS
    <3> HIDE DEF f, l, b, length, body
    <3>5. Fronts(wire, u, Addr, f, l, b)
      BY <3>1, <3>2, <3>3, <3>4, StreamRead
    <3> QED BY <3>5, Zenon DEF l, b, Bytes, Fronts
  <2>8. /\ shake.arrived <=> body.next # Short
        /\ shake.refused <=> length.next # Short /\ (length.val = 0 \/ length.val > MaxAddr)
        /\ shake.addr = body.val /\ shake.rest = body.next
    BY Zenon DEF decodeHandshake
  <2> HIDE DEF length, shake, body, f, h
  <2>9. ~shake.refused
    <3>1. Len(Addr) # 0 /\ ~(Len(Addr) > MaxAddr)
      <4>1. Len(Addr) \in 1..MaxAddr /\ MaxAddr \in Nat
        BY WireAssumption, CodecAssumption
      <4> QED BY <4>1
    <3> QED BY <2>7, <2>8, <3>1, Zenon
  <2>10. /\ from' = Addr /\ wire' = tail /\ tail \in Bytes /\ tail \o u = f
         /\ UNCHANGED <<state, got>>
    BY <1>1, <2>7, <2>8, <2>9, Zenon
  <2>11. Handed'
    BY <1>1, <2>3, <2>10, Zenon DEF Handed
  <2>12. Reason'
    BY <1>1, <2>10, Zenon DEF Reason
  <2>13. Stream'
    <3>1. Len(Addr) # 0
      BY HandshakeBytes
    <3>2. Coming(Addr, sent, Len(got)) = f
      BY <3>1, Zenon DEF Coming, f
    <3>3. Pending' = Pending
      BY <1>1, Zenon DEF Pending, Opening
    <3>4. tail \o u = Coming(Addr, sent, Len(got)) /\ (state = "open" => u = Pending)
      BY <2>1, <2>10, <3>2, Zenon
    <3> HIDE DEF tail
    <3> SUFFICES ASSUME ~foreign, state # "refused"
                 PROVE  \E x \in Bytes : /\ tail \o x = Coming(Addr, sent, Len(got))
                                         /\ state = "open" => x = Pending
      BY <1>1, <2>10, <3>3, Zenon DEF Stream
    <3> QED BY <3>4, Zenon
  <2> QED BY <2>11, <2>12, <2>13
<1> QED BY <1>2, <1>3

(* The read loop takes the next frame off the wire and hands on its message, or
   gives up with a reason. *)
LEMMA StreamFrame ==
    ASSUME Flow, Handed, Stream, Reason, ReadFrame
    PROVE  Handed' /\ Stream' /\ Reason'
<1> DEFINE length == decodeUintAt(W32, wire, 0)
           body   == fixedAt(length.val, wire, length.next)
           frame  == DecodeMessageFrame(wire)
           d      == DecodeMessage(frame.body)
           k      == Len(got)
           tail   == SubSeq(wire, body.next + 1, Len(wire))
<1>1. /\ from # <<>> /\ state # "refused"
      /\ \/ /\ frame.arrived /\ ~frame.refused /\ d.ok
            /\ got' = Append(got, d.val)
            /\ wire' = SubSeq(wire, frame.rest + 1, Len(wire))
            /\ UNCHANGED <<state, from>>
         \/ /\ frame.refused \/ (frame.arrived /\ ~d.ok)
            /\ state' = "refused" /\ UNCHANGED <<from, bodies, got, wire>>
      /\ UNCHANGED <<pc, msg, rest, ready, writeMu, sent, foreign>>
  BY Zenon DEF ReadFrame, stop
<1>2. CASE foreign
  BY <1>1, <1>2, Zenon DEF Handed, Stream, Reason
<1>3. CASE ~foreign
  <2>1. PICK u \in Bytes : wire \o u = Coming(from, sent, k) /\ (state = "open" => u = Pending)
    BY <1>1, <1>3, Zenon DEF Stream
  <2>2. Types /\ k <= Len(sent) /\ \A i \in 1..k : got[i] = sent[i]
    BY <1>3 DEF Flow, Handed
  <2>3. wire \in Bytes /\ sent \in Seq(Sendable) /\ got \in Seq(Decoded) /\ k \in Nat /\ Len(sent) \in Nat
    BY <2>2, ComingType DEF Types
  <2>4. Len(from) # 0 /\ from = Addr
    <3>1. Len(from) # 0
      BY <1>1, <2>2 DEF Types, Bytes
    <3> QED BY <1>3, <3>1 DEF Handed
  <2>5. wire \o u = Frames(sent, k)
    BY <2>1, <2>4 DEF Coming
  <2>6. frame.arrived \/ frame.refused
    BY <1>1, Zenon
  <2>7. k < Len(sent)
    <3>1. Len(wire) # 0
      BY <2>6, EmptyWire
    <3>2. ASSUME k = Len(sent) PROVE FALSE
      <4>1. wire \o u = <<>>
        BY <2>3, <2>5, <3>2, FramesNone
      <4>2. Len(wire \o u) = Len(wire) + Len(u) /\ Len(wire) \in Nat /\ Len(u) \in Nat
        BY <2>3, ConcatProperties, LenProperties DEF Bytes
      <4>3. Len(wire \o u) = 0
        <5>1. Len(<<>>) = 0
          OBVIOUS
        <5> QED BY <4>1, <5>1, Zenon
      <4> QED BY <3>1, <4>2, <4>3
    <3> QED BY <2>2, <2>3, <3>2
  <2> DEFINE m == sent[k + 1]  e == EncodeMessage(m)  f == Frames(sent, k + 1)
  <2>8. m \in Sendable /\ k + 1 \in 1..Len(sent) /\ k + 1 \in 0..Len(sent)
    BY <2>3, <2>7
  <2>9. m \in Messages /\ Len(e) \in Uints(W32)
    BY <2>8 DEF Sendable
  <2>10. e \in Seq(Byte) /\ DecodeMessage(e).ok /\ DecodeMessage(e).val = m
    BY <2>9, MessageRead
  <2>11. Frames(sent, k) = (appendUint(W32, Len(e)) \o e) \o f
    <3>1. Frames(sent, k) = EncodeMessageFrame(m) \o f
      <4> HIDE DEF k
      <4> QED BY <2>3, <2>7, FramesFront
    <3>2. EncodeMessageFrame(m) = appendUint(W32, Len(e)) \o e
      BY Zenon DEF EncodeMessageFrame, appendBytes
    <3> QED BY <3>1, <3>2, Zenon
  <2>12. f \in Bytes
    <3> DEFINE k1 == k + 1
    <3>1. k1 \in 0..Len(sent)
      BY <2>8
    <3> HIDE DEF k1
    <3>2. Frames(sent, k1) \in Seq(Byte)
      BY <2>3, <3>1, FramesType
    <3> QED BY <3>2 DEF k1, Bytes
  <2> HIDE DEF m, e, f
  <2>13. /\ length.next # Short => length.val = Len(e)
         /\ body.next # Short => body.val = e /\ tail \in Bytes /\ tail \o u = f
    <3>1. W32 \in Nat /\ W32 # 0
      BY CodecAssumption
    <3>2. wire \o u = (appendUint(W32, Len(e)) \o e) \o f
      BY <2>5, <2>11, Zenon
    <3>3. wire \in Seq(Byte) /\ u \in Seq(Byte) /\ f \in Seq(Byte)
      BY <2>3, <2>12 DEF Bytes
    <3> DEFINE l == length  b == body
    <3>4. l = decodeUintAt(W32, wire, 0) /\ b = fixedAt(l.val, wire, l.next)
      OBVIOUS
    <3>5. Len(e) \in Uints(W32)
      BY <2>9 DEF e
    <3> HIDE DEF l, b, length, body
    <3>6. Fronts(wire, u, e, f, l, b)
      BY <2>10, <3>1, <3>2, <3>3, <3>4, <3>5, StreamRead
    <3> QED BY <3>6, Zenon DEF l, b, Bytes, Fronts
  <2>14. /\ frame.arrived <=> body.next # Short
         /\ frame.refused <=> length.next # Short /\ length.val > MaxFrame
         /\ frame.body = body.val /\ frame.rest = body.next
    BY Zenon DEF DecodeMessageFrame
  <2>15. d = DecodeMessage(frame.body)
    OBVIOUS
  <2> HIDE DEF length, frame, body, d
  <2>16. CASE state' = "refused"
    <3>1. frame.refused
      <4>1. frame.arrived => d.ok
        BY <2>10, <2>13, <2>14, <2>15, Zenon
      <4> QED BY <1>1, <2>16, <4>1, Zenon
    <3>2. Len(EncodeMessage(sent[k + 1])) > MaxFrame
      BY <2>13, <2>14, <3>1, Zenon DEF e, m
    <3>3. Reason'
      <4>1. sent' = sent
        BY <1>1
      <4> QED BY <2>8, <3>2, <4>1, Zenon DEF Reason
    <3>4. UNCHANGED <<from, got>>
      BY <1>1, <2>16, Zenon
    <3>5. Handed'
      BY <1>1, <3>4, Zenon DEF Handed
    <3>6. Stream'
      BY <2>16 DEF Stream
    <3> QED BY <3>3, <3>5, <3>6
  <2>17. CASE state' # "refused"
    <3>1. /\ got' = Append(got, d.val) /\ wire' = SubSeq(wire, frame.rest + 1, Len(wire))
          /\ UNCHANGED <<state, from>> /\ frame.arrived
      BY <1>1, <2>17, Zenon
    <3>2. d.val = m /\ wire' = tail /\ tail \in Bytes /\ tail \o u = f
      BY <2>10, <2>13, <2>14, <2>15, <3>1, Zenon
    <3>3. Len(got') = k + 1 /\ got'[k + 1] = m /\ \A i \in 1..k : got'[i] = got[i]
      <4>1. m \in Decoded
        BY <2>10 DEF Decoded, Bytes
      <4>2. Len(Append(got, m)) = k + 1 /\ Append(got, m)[k + 1] = m
            /\ \A i \in 1..k : Append(got, m)[i] = got[i]
        BY <2>3, <4>1, AppendProperties
      <4>3. got' = Append(got, m)
        BY <3>1, <3>2
      <4> QED BY <4>2, <4>3, Zenon
    <3> HIDE DEF k
    <3>4. \A i \in 1..(k + 1) : got'[i] = sent[i]
      <4> TAKE i \in 1..(k + 1)
      <4>1. i = k + 1 \/ i \in 1..k
        BY <2>3
      <4> QED BY <2>2, <3>3, <4>1, Zenon DEF m
    <3>5. Handed'
      <4>1. k + 1 <= Len(sent)
        BY <2>3, <2>7
      <4>2. from' = Addr /\ sent' = sent /\ Len(got') = k + 1
        BY <1>1, <2>4, <3>1, <3>3, Zenon
      <4> QED BY <3>4, <4>1, <4>2, Zenon DEF Handed
    <3>6. Reason'
      BY <2>17 DEF Reason
    <3>7. Stream'
      <4>1. Coming(from, sent, k + 1) = f
        BY <2>4, Zenon DEF Coming, f
      <4>2. Pending' = Pending
        BY <1>1, Zenon DEF Pending, Opening
      <4>3. tail \o u = Coming(from, sent, k + 1) /\ (state = "open" => u = Pending)
        BY <2>1, <3>2, <4>1, Zenon
      <4> HIDE DEF tail
      <4> SUFFICES ASSUME ~foreign, state # "refused"
                   PROVE  \E x \in Bytes : /\ tail \o x = Coming(from, sent, k + 1)
                                           /\ state = "open" => x = Pending
        BY <1>1, <3>1, <3>2, <3>3, <4>2, Zenon DEF Stream
      <4> QED BY <4>3, Zenon
    <3> QED BY <3>5, <3>6, <3>7
  <2> QED BY <2>16, <2>17
<1> QED BY <1>2, <1>3

----------------------------------------------------------------------------
(* The invariant and what follows from it.                                 *)

(* The invariant holds at the start. *)
LEMMA WireInit ==
    Init => WireInv
<1> SUFFICES ASSUME Init PROVE WireInv
  OBVIOUS
<1>1. Flow
  BY FlowInit
<1>2. /\ got = <<>> /\ bodies = <<>> /\ sent = <<>> /\ wire = <<>> /\ from = <<>>
      /\ state = "open" /\ pc[Opener] = "hello"
  BY DEF Init, Goroutines
<1>3. Len(got) = 0 /\ Len(bodies) = 0 /\ Len(sent) = 0 /\ Len(from) = 0
  BY <1>2
<1>4. Reads
  BY <1>3 DEF Reads
<1>5. Handed /\ Reason
  BY <1>2, <1>3 DEF Handed, Reason
<1>6. Stream
  <2> DEFINE h == encodeHandshake(Addr)
  <2>1. Frames(sent, Len(got)) = <<>>
    <3>1. Frames(sent, Len(sent)) = <<>>
      BY <1>1, FramesNone DEF Flow, Types
    <3>2. Len(got) = Len(sent)
      BY <1>3
    <3> QED BY <3>1, <3>2, Zenon
  <2>2. h \in Bytes
    BY HandshakeBytes
  <2>3. Coming(from, sent, Len(got)) = h \o <<>>
    BY <1>3, <2>1 DEF Coming
  <2>4. Pending = h
    BY <1>2 DEF Pending, Opening
  <2> HIDE DEF h
  <2>5. wire \o h = Coming(from, sent, Len(got))
    <3>1. <<>> \o h = h /\ h \o <<>> = h
      BY <2>2, ConcatFacts
    <3> QED BY <1>2, <2>3, <3>1, Zenon
  <2> QED BY <2>2, <2>4, <2>5, Zenon DEF Stream
<1> QED BY <1>1, <1>4, <1>5, <1>6 DEF WireInv

(* Every step keeps it. *)
LEMMA WireNext ==
    ASSUME WireInv, [Next]_vars
    PROVE  WireInv'
<1>1. Flow' /\ Reads'
  BY FlowNext, ReadsNext DEF WireInv
<1>2. CASE Next
  <2>1. Handed' /\ Stream' /\ Reason'
    <3>1. CASE WriteHello \/ MarkReady \/ \E s \in Senders, m \in Samples : Send(s, m)
      BY <3>1, StreamQuiet DEF WireInv
    <3>2. ASSUME NEW g \in Goroutines, SenderStep(g) PROVE Handed' /\ Stream' /\ Reason'
      <4>1. CASE WaitReady(g) \/ SendFails(g)
        BY <4>1, StreamQuiet DEF WireInv
      <4>2. CASE Lock(g)
        BY <4>2, StreamLock DEF WireInv
      <4>3. CASE \E n \in Pieces(g) : Write(g, n)
        BY <4>3, StreamWrite DEF WireInv
      <4> QED BY <3>2, <4>1, <4>2, <4>3 DEF SenderStep
    <3>3. CASE \/ \E b \in Noise : WriteNoise(b)
               \/ \E k \in {0, 1} : k <= Len(wire) /\ Break(k)
      BY <3>3, StreamOutside DEF WireInv
    <3>4. CASE ReadHandshake
      BY <3>4, StreamHandshake DEF WireInv
    <3>5. CASE ReadFrame
      BY <3>5, StreamFrame DEF WireInv
    <3> QED BY <1>2, <3>1, <3>2, <3>3, <3>4, <3>5 DEF Next
  <2> QED BY <1>1, <2>1 DEF WireInv
<1>3. CASE UNCHANGED vars
  <2>1. UNCHANGED <<pc, rest, writeMu, wire, state, from, got, sent, foreign>>
    BY <1>3 DEF vars, ends
  <2>2. Pending' = Pending
    BY <2>1, Zenon DEF Pending, Opening
  <2>3. Handed' /\ Stream' /\ Reason'
    BY <2>1, <2>2, StreamSame DEF WireInv
  <2> QED BY <1>1, <2>3 DEF WireInv
<1> QED BY <1>2, <1>3

(* What is at each end of the wire, what each goroutine has to write, and what
   is still to come, in every state that is reached. *)
THEOREM WireInvariant ==
    Spec => []WireInv
<1> QED BY WireInit, WireNext, PTL DEF Spec

(* The handler gets what was sent: unless something foreign was written, the
   messages that the read loop passes on are those that Send was called with,
   complete and in the order in which their writers got writeMu, under the
   address of the sender (tcpConn.send, sendHandshake and readLoop). *)
THEOREM DeliveredAsSentHolds ==
    Spec => []DeliveredAsSent
<1>1. WireInv => DeliveredAsSent
  <2> SUFFICES ASSUME WireInv, ~foreign
               PROVE  from \in {<<>>, Addr} /\ IsPrefix(got, sent)
    BY DEF DeliveredAsSent
  <2>1. /\ Len(from) = 0 \/ from = Addr
        /\ Len(got) <= Len(sent)
        /\ \A i \in 1..Len(got) : got[i] = sent[i]
    BY DEF WireInv, Handed
  <2>2. from \in {<<>>, Addr}
    <3>1. from \in Seq(Byte)
      BY DEF WireInv, Flow, Types, Bytes
    <3> QED BY <2>1, <3>1
  <2>3. got \in Seq(Decoded) /\ sent \in Seq(Sendable)
    BY DEF WireInv, Flow, Types
  <2>4. Len(got) \in Nat /\ Len(sent) \in Nat
    BY <2>3, LenProperties
  <2> DEFINE n == Len(got)  a == SubSeq(got, 1, n)  b == SubSeq(sent, 1, n)
  <2>5. a = got
    BY <2>3, SubSeqFull
  <2>6. b \in Seq(Sendable) /\ Len(b) = n /\ \A i \in 1..n : b[i] = sent[i]
    BY <2>1, <2>3, <2>4
  <2>7. got = b
    <3> HIDE DEF b, n
    <3>1. DOMAIN got = 1..n /\ DOMAIN b = 1..n
      BY <2>3, <2>6, LenProperties DEF n
    <3>2. got = [i \in 1..n |-> got[i]] /\ b = [i \in 1..n |-> b[i]]
      BY <2>3, <2>6, <3>1, LenProperties
    <3>3. \A i \in 1..n : got[i] = b[i]
      BY <2>1, <2>6, Zenon DEF n
    <3> QED BY <3>2, <3>3, Zenon
  <2> QED BY <2>1, <2>2, <2>5, <2>7, Zenon DEF IsPrefix
<1> QED BY <1>1, WireInvariant, PTL

(* One encoding per content: a frame body that the read loop accepts, and a
   payload that its handler accepts, are exactly what the encoder makes of the
   decoded value, whoever wrote them (DecodeMessage, the payload decoders and
   DecodeTransfer reject trailing bytes, short fields and other booleans). *)
THEOREM OneEncodingHolds ==
    Spec => []OneEncoding
<1>1. WireInv => OneEncoding
  <2> SUFFICES ASSUME WireInv, NEW i \in DOMAIN got
               PROVE  /\ EncodeMessage(got[i]) = bodies[i]
                      /\ DecodePayload(got[i].type, got[i].payload).ok =>
                            EncodePayload(got[i].type,
                                          DecodePayload(got[i].type, got[i].payload).val)
                               = got[i].payload
    BY Zenon DEF OneEncoding
  <2>1. got \in Seq(Decoded) /\ bodies \in Seq(Bytes)
    BY DEF WireInv, Flow, Types
  <2>2. i \in 1..Len(got)
    BY <2>1, LenProperties
  <2>3. i \in 1..Len(bodies) /\ DecodeMessage(bodies[i]).ok /\ got[i] = DecodeMessage(bodies[i]).val
    BY <2>2, Zenon DEF WireInv, Reads
  <2>4. bodies[i] \in Seq(Byte)
    BY <2>1, <2>3, ElementOfSeq DEF Bytes
  <2> DEFINE data == bodies[i]  m == got[i]
  <2> HIDE DEF data, m
  <2>5. EncodeMessage(m) = data /\ m.payload \in Seq(Byte)
    BY <2>3, <2>4, MessageWritten, Zenon DEF data, m
  <2>6. DecodePayload(m.type, m.payload).ok =>
            EncodePayload(m.type, DecodePayload(m.type, m.payload).val) = m.payload
    BY <2>5, PayloadWritten, Zenon
  <2> QED BY <2>5, <2>6, Zenon DEF data, m
<1> QED BY <1>1, WireInvariant, PTL

(* The read loop gives up on a connection only for a reason: a peer that runs
   this code and keeps its messages below maxFrameSize is never refused
   (decodeHandshake, DecodeMessageFrame and DecodeMessage on what
   encodeHandshake and EncodeMessageFrame have written, cut anywhere). *)
THEOREM RefusesOnlyStrangersHolds ==
    Spec => []RefusesOnlyStrangers
<1>1. WireInv => RefusesOnlyStrangers
  <2> SUFFICES ASSUME WireInv PROVE RefusesOnlyStrangers
    OBVIOUS
  <2>1. DOMAIN sent = 1..Len(sent)
    BY LenProperties DEF WireInv, Flow, Types
  <2> QED BY <2>1, Zenon DEF WireInv, Reason, RefusesOnlyStrangers
<1> QED BY <1>1, WireInvariant, PTL

=============================================================================
