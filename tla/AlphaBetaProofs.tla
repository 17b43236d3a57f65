---------------------------- MODULE AlphaBetaProofs ----------------------------
(***************************************************************************)
(* Proofs about the alpha-beta search, for every game, depth, aspiration   *)
(* window, number of helpers and interleaving of the workers: what stands  *)
(* in the transposition table is true of its position, and a mate score    *)
(* that is published is a forced mate.                                     *)
(*                                                                         *)
(* The argument.  The references are settled: every move fills a cell, so  *)
(* as many rounds as there are cells work a position out, whatever they    *)
(* start from (RoundsSettle), and its value is then the best over its      *)
(* moves (QuietSettles, WorthSettles).  A mate in a value is one its empty *)
(* cells allow (Worthy), so scores keep their order between the table, a   *)
(* ply and the ply of a child (AtPly, FromChildAt).                        *)
(* The invariant follows the stack of each worker: a frame is Placed in    *)
(* the game; the top one is Current, every other one Waits for the one it  *)
(* Called.  What the flags of a node claim is kept while its moves are     *)
(* tried (InnerTruth): "lower" that the best score is no more than the     *)
(* position may be worth, "upper" that every move not open any more is     *)
(* worth no more than the best score in one way of playing on.  A leaf     *)
(* knows it of its window (QuietTruth).  A result is Truthful about its    *)
(* position, and so Answers the caller's question; reductions, razoring,   *)
(* pruning and the other shortcuts give evidence away, never invent it.    *)
(* When all moves are counted, a store is what the flags support           *)
(* (FinishStores).  The other actions do not touch a stack.                *)
(*                                                                         *)
(* The second half follows mate scores (MatesForced), where every move of  *)
(* a node is looked at (Sighted).  Entries that show a mate show a forced  *)
(* one (MateEntry).  A stack is Chained: a frame Finds what its best score *)
(* says of the moves counted, Pauses for the one it called, whose window   *)
(* Covers what it was asked; a result is a Verdict on its position, and    *)
(* the engine Announces it.                                                *)
(***************************************************************************)
EXTENDS AlphaBeta, FiniteSetTheorems, SequenceTheorems, WellFoundedInduction, TLAPS

USE GameTreeAssumption

(* Every nonempty set of naturals has a least element. *)
LEMMA LeastNatural ==
  ASSUME NEW T \in SUBSET Nat, T # {}
  PROVE  \E n \in T : \A m \in T : n <= m
<1>1. PICK n \in T : \A m \in T : <<m, n>> \notin OpToRel(<, Nat)
  BY WFMin, NatLessThanWellFounded, Zenon
<1>2. \A m \in T : ~ (m < n)
  BY <1>1, Zenon DEF OpToRel
<1> QED BY <1>2

(* A finite set of numbers has a greatest element, and a least. *)
LEMMA Extremes ==
  ASSUME NEW S \in SUBSET Int, IsFiniteSet(S), S # {}
  PROVE  /\ \E a \in S : \A x \in S : x <= a
         /\ \E a \in S : \A x \in S : a <= x
<1> DEFINE Good(s) == (\E a \in s : \A x \in s : x <= a) /\ (\E a \in s : \A x \in s : a <= x)
           Bad == {k \in Nat : \E s \in SUBSET S : s # {} /\ Cardinality(s) = k /\ ~Good(s)}
<1>1. \A s \in SUBSET S : IsFiniteSet(s) /\ Cardinality(s) \in Nat
  BY FS_Subset, FS_CardinalityType
<1>2. ASSUME Bad # {} PROVE FALSE
  <2>1. PICK k \in Bad : \A j \in Bad : k <= j
    <3>1. Bad \in SUBSET Nat
      OBVIOUS
    <3> HIDE DEF Bad
    <3> QED BY <1>2, <3>1, LeastNatural
  <2>2. PICK s \in SUBSET S : s # {} /\ Cardinality(s) = k /\ ~Good(s)
    BY <2>1
  <2>3. PICK x \in s : TRUE
    BY <2>2
  <2> DEFINE t == s \ {x}
  <2>4. t \in SUBSET S /\ Cardinality(t) = k - 1 /\ k \in Nat /\ k - 1 \in Nat
    <3>1. IsFiniteSet(s)
      BY <1>1
    <3>2. Cardinality(t) = Cardinality(s) - 1 /\ IsFiniteSet(t)
      BY <3>1, <2>3, FS_RemoveElement
    <3>3. Cardinality(t) \in Nat
      BY <3>2, FS_CardinalityType
    <3> QED BY <2>2, <3>2, <3>3
  <2>5. k - 1 \notin Bad
    BY <2>1, <2>4
  <2>6. t = {} \/ Good(t)
    <3> HIDE DEF Good, t
    <3> QED BY <2>4, <2>5
  <2>7. CASE t = {}
    <3>1. s = {x}
      BY <2>3, <2>7
    <3>2. x \in Int
      BY <2>3
    <3>3. Good(s)
      BY <3>1, <3>2
    <3> QED BY <3>3, <2>2
  <2>8. CASE Good(t)
    <3>1. PICK a \in t : \A y \in t : y <= a
      BY <2>8
    <3>2. PICK b \in t : \A y \in t : b <= y
      BY <2>8
    <3>3. x \in Int /\ a \in Int /\ b \in Int /\ x \in s /\ a \in s /\ b \in s
      BY <2>3, <3>1, <3>2
    <3>4. \A y \in s : y = x \/ y \in t
      OBVIOUS
    <3>5. \A y \in s : y \in Int
      OBVIOUS
    <3>6. \E c \in s : \A y \in s : y <= c
      <4>1. CASE x <= a
        BY <4>1, <3>1, <3>3, <3>4
      <4>2. CASE a <= x
        <5>1. \A y \in s : y <= x
          <6> HIDE DEF t
          <6> QED BY <4>2, <3>1, <3>3, <3>4, <3>5
        <5> QED BY <5>1, <3>3
      <4> QED BY <3>3, <4>1, <4>2
    <3>7. \E c \in s : \A y \in s : c <= y
      <4>1. CASE b <= x
        BY <4>1, <3>2, <3>3, <3>4
      <4>2. CASE x <= b
        <5>1. \A y \in s : x <= y
          <6> HIDE DEF t
          <6> QED BY <4>2, <3>2, <3>3, <3>4, <3>5
        <5> QED BY <5>1, <3>3
      <4> QED BY <3>3, <4>1, <4>2
    <3> QED BY <2>2, <3>6, <3>7
  <2> QED BY <2>6, <2>7, <2>8
<1>3. Cardinality(S) \in Nat /\ Cardinality(S) \notin Bad
  BY <1>1, <1>2
<1>4. Good(S)
  <2> HIDE DEF Good
  <2> QED BY <1>3
<1> QED BY <1>4

(* A finite set of integers has a largest element. *)
LEMMA MaxIs ==
  ASSUME NEW S \in SUBSET Int, IsFiniteSet(S), S # {}
  PROVE  Max(S) \in S /\ Max(S) \in Int /\ \A x \in S : x <= Max(S)
<1>1. \E a \in S : \A x \in S : a >= x
  <2>1. PICK a \in S : \A x \in S : x <= a
    BY Extremes
  <2>2. \A x \in S : a >= x
    BY <2>1
  <2> QED BY <2>2
<1>2. Max(S) \in S /\ \A x \in S : Max(S) >= x
  BY <1>1, Zenon DEF Max
<1>3. Max(S) \in Int
  BY <1>2
<1> QED BY <1>2, <1>3

(* A finite set of integers has a smallest element. *)
LEMMA MinIs ==
  ASSUME NEW S \in SUBSET Int, IsFiniteSet(S), S # {}
  PROVE  Min(S) \in S /\ Min(S) \in Int /\ \A x \in S : Min(S) <= x
<1>1. \E a \in S : \A x \in S : a <= x
  BY Extremes
<1>2. Min(S) \in S /\ \A x \in S : Min(S) <= x
  BY <1>1, Zenon DEF Min
<1>3. Min(S) \in Int
  BY <1>2
<1> QED BY <1>2, <1>3

--------------------------------------------------
(* Scores. *)

(* A score that can occur p plies from the root with r cells left. *)
Plausible(s, p, r) ==
  /\ s \in Int
  /\ s >= Threshold => Mate - p - r <= s /\ s <= Mate - p
  /\ s <= -Threshold => -Mate + p <= s /\ s <= -Mate + p + r

(* What a position with r cells left may be worth. *)
Worthy(v, r) ==
  /\ v \in Int
  /\ v >= Threshold => Mate - r <= v /\ v <= Mate - 1
  /\ v <= -Threshold => -Mate + 1 <= v /\ v <= -Mate + r

AtPly(v, p) == ScoreFromTt(v, p)

(* A score of the position is a score at any ply the game reaches. *)
LEMMA AtPlyIs ==
  ASSUME NEW v, NEW r \in Nat, NEW p \in Nat, p + r <= CellCount, Plausible(v, 0, r)
  PROVE  AtPly(v, p) \in Int /\ Plausible(AtPly(v, p), p, r)
BY DEF Plausible, AtPly, ScoreFromTt, Threshold

(* The ply keeps the order of scores. *)
LEMMA AtPlyMonotone ==
  ASSUME NEW v, NEW u, NEW r \in Nat, NEW p \in Nat, p + r <= CellCount,
         Plausible(v, 0, r), Plausible(u, 0, r), v <= u
  PROVE  AtPly(v, p) <= AtPly(u, p)
BY DEF Plausible, AtPly, ScoreFromTt, Threshold

(* store_tt and a probe at the same ply undo one another. *)
LEMMA ToTt ==
  ASSUME NEW s, NEW r \in Nat, NEW p \in Nat, p + r <= CellCount, Plausible(s, p, r)
  PROVE  Plausible(ScoreToTt(s, p), 0, r) /\ AtPly(ScoreToTt(s, p), p) = s
BY DEF Plausible, AtPly, ScoreFromTt, ScoreToTt, Threshold

(* What bounds a score at its ply bounds what is stored of it. *)
LEMMA ToTtOrder ==
  ASSUME NEW s, NEW v, NEW r \in Nat, NEW p \in Nat, p + r <= CellCount, Plausible(s, p, r), Plausible(v, 0, r)
  PROVE  /\ s <= AtPly(v, p) => ScoreToTt(s, p) <= v
         /\ AtPly(v, p) <= s => v <= ScoreToTt(s, p)
BY DEF Plausible, AtPly, ScoreFromTt, ScoreToTt, Threshold

(* What a position may be worth is a plausible score of it. *)
LEMMA WorthyIs ==
  ASSUME NEW v, NEW r \in Nat, r <= CellCount, Worthy(v, r)
  PROVE  Plausible(v, 0, r) /\ v \in Int
BY DEF Plausible, Worthy, Threshold

(* The value of a move is one of the position it is made in. *)
LEMMA FromChildIs ==
  ASSUME NEW v, NEW r \in Nat, NEW q \in Nat, q < r, r <= CellCount, Worthy(v, q)
  PROVE  Worthy(FromChild(v), r)
BY DEF Worthy, FromChild, Threshold

(* Negating a child's score is FromChild, seen at the plies. *)
LEMMA FromChildAt ==
  ASSUME NEW v, NEW q \in Nat, NEW p \in Nat, p + 1 + q <= CellCount, Worthy(v, q)
  PROVE  AtPly(FromChild(v), p) = -AtPly(v, p + 1)
BY DEF Worthy, FromChild, AtPly, ScoreFromTt, Threshold

(* A child's score is plausible for the position, negated. *)
LEMMA Negation ==
  ASSUME NEW s, NEW r \in Nat, NEW q \in Nat, NEW p \in Nat, q < r, Plausible(s, p + 1, q)
  PROVE  Plausible(-s, p, r)
BY DEF Plausible, Threshold

--------------------------------------------------
(* Working out a reference in rounds. *)

(* Each level follows from its number and the one before. *)
Levelled(f, N, B, st, b) ==
  f \in [0..N -> B] /\ f = [k \in 0..N |-> IF k = 0 THEN b ELSE st[<<k, f[k - 1]>>]]

(* A definition by levels, each from the one before, has a solution. *)
LEMMA LevelsExist ==
  ASSUME NEW B, NEW st \in [Nat \X B -> B], NEW b \in B, NEW N \in Nat
  PROVE  \E f : Levelled(f, N, B, st, b)
<1> DEFINE Good(n) == \E f : Levelled(f, n, B, st, b)
           Bad == {n \in Nat : ~Good(n)}
<1>1. ASSUME Bad # {} PROVE FALSE
  <2>1. PICK n \in Bad : \A k \in Bad : n <= k
    <3>1. Bad \in SUBSET Nat
      OBVIOUS
    <3> HIDE DEF Bad
    <3> QED BY <1>1, <3>1, LeastNatural
  <2>2. n \in Nat /\ ~Good(n)
    OBVIOUS
  <2>3. CASE n = 0
    <3> DEFINE f == [k \in 0..0 |-> b]
    <3>1. Levelled(f, 0, B, st, b)
      BY DEF Levelled
    <3> QED BY <3>1, <2>2, <2>3
  <2>4. CASE n # 0
    <3>1. n - 1 \in Nat /\ ~(n <= n - 1)
      BY <2>2, <2>4
    <3>2. Good(n - 1)
      <4> HIDE DEF Good
      <4> QED BY <2>1, <3>1
    <3>3. PICK h : Levelled(h, n - 1, B, st, b)
      BY <3>2
    <3> DEFINE f == [k \in 0..n |-> IF k = n THEN st[<<n, h[n - 1]>>] ELSE h[k]]
    <3>4. \A k \in 0..n - 1 : h[k] = IF k = 0 THEN b ELSE st[<<k, h[k - 1]>>]
      BY <3>3 DEF Levelled
    <3>5. n - 1 \in 0..n - 1
      BY <3>1
    <3>6. f \in [0..n -> B]
      <4>1. st[<<n, h[n - 1]>>] \in B /\ \A k \in 0..n - 1 : h[k] \in B
        BY <2>2, <3>3, <3>5 DEF Levelled
      <4>2. \A k \in 0..n : k # n => k \in 0..n - 1
        BY <2>2
      <4> QED BY <4>1, <4>2
    <3>7. ASSUME NEW k \in 0..n PROVE f[k] = IF k = 0 THEN b ELSE st[<<k, f[k - 1]>>]
      <4>1. CASE k = n
        <5>1. k # 0 /\ k - 1 \in 0..n /\ k - 1 # n
          BY <4>1, <2>2, <2>4
        <5>2. f[k - 1] = h[n - 1] /\ f[k] = st[<<n, h[n - 1]>>]
          BY <5>1, <4>1
        <5> QED BY <5>1, <5>2, <4>1
      <4>2. CASE k # n
        <5>1. k \in 0..n - 1 /\ f[k] = h[k]
          BY <4>2, <2>2
        <5>2. k # 0 => k - 1 \in 0..n /\ k - 1 # n /\ f[k - 1] = h[k - 1]
          BY <4>2, <2>2
        <5> QED BY <5>1, <5>2, <3>4
      <4> QED BY <4>1, <4>2
    <3>8. Levelled(f, n, B, st, b)
      <4>1. f = [k \in 0..n |-> f[k]]
        OBVIOUS
      <4> HIDE DEF f
      <4> QED BY <3>6, <3>7, <4>1 DEF Levelled
    <3> QED BY <3>8, <2>2
  <2> QED BY <2>3, <2>4
<1>2. N \notin Bad
  BY <1>1
<1>3. Good(N)
  <2> HIDE DEF Good
  <2> QED BY <1>2
<1> QED BY <1>3

(* A step that maps what has been worked out to what follows from it. *)
Rounds(f, N, B, st, b) ==
  f \in [0..N -> B] /\ f = [k \in 0..N |-> st[IF k = 0 THEN b ELSE f[k - 1]]]

(* As many rounds as one likes can be worked out. *)
LEMMA RoundsExist ==
  ASSUME NEW B, NEW st \in [B -> B], NEW b \in B, NEW N \in Nat
  PROVE  \E f : Rounds(f, N, B, st, b)
<1> DEFINE s == [x \in Nat \X B |-> st[x[2]]]
<1>1. st[b] \in B /\ s \in [Nat \X B -> B]
  OBVIOUS
<1>2. PICK f : Levelled(f, N, B, s, st[b])
  <2> HIDE DEF s
  <2> QED BY <1>1, LevelsExist
<1>3. \A k \in 0..N : k # 0 => s[<<k, f[k - 1]>>] = st[f[k - 1]]
  BY <1>2 DEF Levelled
<1> HIDE DEF s
<1> QED BY <1>2, <1>3 DEF Levelled, Rounds

(* Where each round goes by what is there, all of them are of their kind. *)
LEMMA RoundsOf ==
  ASSUME NEW B, NEW st \in [B -> B], NEW b \in B, NEW N \in Nat, NEW f, f = [k \in 0..N |-> f[k]],
         \A k \in 0..N : (IF k = 0 THEN b ELSE f[k - 1]) \in B => f[k] = st[IF k = 0 THEN b ELSE f[k - 1]]
  PROVE  Rounds(f, N, B, st, b)
<1>1. PICK h : Rounds(h, N, B, st, b)
  BY RoundsExist
<1> DEFINE Bad == {k \in Nat : k \in 0..N /\ f[k] # h[k]}
<1>2. ASSUME Bad # {} PROVE FALSE
  <2>1. PICK k \in Bad : \A j \in Bad : k <= j
    <3>1. Bad \in SUBSET Nat
      OBVIOUS
    <3> HIDE DEF Bad
    <3> QED BY <1>2, <3>1, LeastNatural
  <2>2. k \in 0..N /\ f[k] # h[k] /\ (k # 0 => k - 1 \in 0..N /\ ~(k <= k - 1) /\ k - 1 \in Nat)
    OBVIOUS
  <2>3. k # 0 => f[k - 1] = h[k - 1]
    BY <2>1, <2>2
  <2> HIDE DEF Bad
  <2> QED BY <1>1, <2>2, <2>3 DEF Rounds
<1>3. \A k \in 0..N : f[k] = h[k]
  BY <1>2
<1> QED BY <1>1, <1>3 DEF Rounds

(* What follows for a position rests on positions with fewer cells left. *)
Settling(D, B, st, N, free, to) ==
  /\ st \in [B -> B] /\ free \in [D -> 0..N] /\ to \in [D -> SUBSET D]
  /\ \A n \in D : \A m \in to[n] : free[m] < free[n]
  /\ \A x, y \in B, n \in D : (\A m \in to[n] : x[m] = y[m]) => st[x][n] = st[y][n]

(* Another round after all of them changes nothing. *)
LEMMA RoundsSettle ==
  ASSUME NEW D, NEW B, NEW st, NEW N \in Nat, NEW free, NEW to, Settling(D, B, st, N, free, to),
         NEW b \in B, NEW f, Rounds(f, N, B, st, b)
  PROVE  \A n \in D : f[N][n] = st[f[N]][n]
<1>0. /\ st \in [B -> B] /\ free \in [D -> 0..N] /\ to \in [D -> SUBSET D]
      /\ \A n \in D : \A m \in to[n] : free[m] < free[n]
      /\ \A x, y \in B, n \in D : (\A m \in to[n] : x[m] = y[m]) => st[x][n] = st[y][n]
  BY DEF Settling
<1> DEFINE Good(k) == k < N => \A n \in D : free[n] <= k => f[k + 1][n] = f[k][n]
           Bad == {k \in Nat : ~Good(k)}
<1>1. \A k \in 0..N : f[k] = st[IF k = 0 THEN b ELSE f[k - 1]] /\ f[k] \in B
  BY DEF Rounds
<1>2. ASSUME Bad # {} PROVE FALSE
  <2>1. PICK k \in Bad : \A j \in Bad : k <= j
    <3>1. Bad \in SUBSET Nat
      OBVIOUS
    <3> HIDE DEF Bad
    <3> QED BY <1>0, <1>2, <3>1, LeastNatural
  <2>2. k \in Nat /\ k < N
    BY <1>0
  <2>3. PICK n \in D : free[n] <= k /\ f[k + 1][n] # f[k][n]
    BY <1>0, <2>1
  <2>4. f[k + 1] = st[f[k]] /\ k \in 0..N /\ f[k] \in B
    BY <1>0, <1>1, <2>2
  <2>5. CASE k = 0
    <3>1. \A m \in to[n] : FALSE
      <4>1. \A m \in to[n] : free[m] < free[n] /\ free[m] \in Nat
        BY <1>0
      <4> QED BY <1>0, <4>1, <2>3, <2>5
    <3>2. f[k] = st[b]
      BY <1>0, <1>1, <2>4, <2>5
    <3>3. st[f[k]][n] = st[b][n]
      BY <1>0, <3>1, <2>4
    <3> QED BY <1>0, <3>2, <3>3, <2>3, <2>4
  <2>6. CASE k # 0
    <3>1. k - 1 \in Nat /\ k - 1 < N /\ ~(k <= k - 1) /\ k - 1 \in 0..N /\ (k - 1) + 1 = k
      BY <1>0, <2>2, <2>6
    <3>2. Good(k - 1)
      <4> HIDE DEF Good
      <4> QED BY <1>0, <2>1, <3>1
    <3>3. \A m \in D : free[m] <= k - 1 => f[k][m] = f[k - 1][m]
      BY <1>0, <3>1, <3>2
    <3>4. \A m \in to[n] : m \in D /\ free[m] <= k - 1
      <4>1. \A m \in to[n] : m \in D /\ free[m] < free[n] /\ free[m] \in Nat /\ free[n] \in Nat
        BY <1>0
      <4> QED BY <1>0, <4>1, <2>2, <2>3
    <3>5. f[k] = st[f[k - 1]] /\ f[k - 1] \in B
      BY <1>0, <1>1, <2>4, <2>6, <3>1
    <3>6. st[f[k]][n] = st[f[k - 1]][n]
      BY <1>0, <3>3, <3>4, <3>5, <2>4
    <3> QED BY <1>0, <3>5, <3>6, <2>3, <2>4
  <2> QED BY <1>0, <2>5, <2>6
<1>3. ASSUME NEW n \in D PROVE f[N][n] = st[f[N]][n]
  <2>1. N \in 0..N /\ f[N] \in B
    BY <1>1
  <2>2. CASE N = 0
    <3>1. \A m \in to[n] : FALSE
      <4>1. \A m \in to[n] : free[m] < free[n] /\ free[m] \in Nat /\ free[n] \in 0..N
        BY <1>0
      <4> QED BY <1>0, <4>1, <2>2
    <3>2. f[N] = st[b]
      BY <1>0, <1>1, <2>1, <2>2
    <3> QED BY <1>0, <2>1, <3>1, <3>2
  <2>3. CASE N # 0
    <3>1. N - 1 \in Nat /\ N - 1 < N /\ N - 1 \in 0..N /\ (N - 1) + 1 = N
      BY <1>0, <2>3
    <3>2. Good(N - 1)
      <4> HIDE DEF Good
      <4> QED BY <1>0, <1>2, <3>1
    <3>3. \A m \in D : free[m] <= N - 1 => f[N][m] = f[N - 1][m]
      BY <1>0, <3>1, <3>2
    <3>4. \A m \in to[n] : m \in D /\ free[m] <= N - 1
      <4>1. \A m \in to[n] : m \in D /\ free[m] < free[n] /\ free[m] \in Nat /\ free[n] \in 0..N
        BY <1>0
      <4> QED BY <1>0, <4>1
    <3>5. f[N] = st[f[N - 1]] /\ f[N - 1] \in B
      BY <1>0, <1>1, <2>1, <2>3, <3>1
    <3> QED
      <4>1. f[N] \in B /\ \A m \in to[n] : f[N][m] = f[N - 1][m]
        BY <2>1, <3>3, <3>4
      <4>2. \A x, y \in B : (\A m \in to[n] : x[m] = y[m]) => st[x][n] = st[y][n]
        BY <1>0
      <4> QED BY <3>5, <4>1, <4>2
  <2> QED BY <1>0, <2>2, <2>3
<1> QED BY <1>0, <1>3

--------------------------------------------------
(* The games. *)

(* Where the moves of a position lead. *)
Reach(g, n) == {g.next[n][m] : m \in DOMAIN g.next[n]}

(* What IsGame says of one position and its moves. *)
LEMMA GameIs ==
  ASSUME NEW g, IsGame(g), NEW n \in DOMAIN g.kind
  PROVE  /\ g.kind[n] \in {"open", "win", "loss", "block", "draw"}
         /\ DOMAIN g.next[n] = 1..Len(g.next[n]) /\ Len(g.next[n]) \in Nat
         /\ g.near[n] \in 0..Len(g.next[n]) /\ g.static[n] \in Int /\ ~IsMate(g.static[n])
         /\ Worthy(g.static[n], g.free[n])
         /\ g.free[n] \in 0..CellCount /\ g.free[n] \in Nat /\ g.free[n] <= CellCount
         /\ \A m \in DOMAIN g.next[n] :
              /\ g.next[n][m] \in DOMAIN g.kind /\ g.free[g.next[n][m]] \in 0..CellCount
              /\ g.free[g.next[n][m]] \in Nat /\ g.free[g.next[n][m]] < g.free[n]
         /\ g.kind[n] = "loss" => g.free[n] >= 2
         /\ g.kind[n] # "draw" => g.free[n] >= 1
         /\ g.kind[n] = "block" => 1 \in DOMAIN g.next[n]
         /\ \A wide \in BOOLEAN : Moves(g, n, wide) \subseteq DOMAIN g.next[n]
                                  /\ IsFiniteSet(Moves(g, n, wide))
         /\ Forcing(g, n) \subseteq DOMAIN g.next[n] /\ IsFiniteSet(Forcing(g, n))
         /\ Forcing(g, n) \subseteq 1..g.near[n]
<1> DEFINE s == g.next[n]
<1>1. /\ g.kind[n] \in {"open", "win", "loss", "block", "draw"} /\ s \in Seq(DOMAIN g.kind)
      /\ g.near[n] \in Nat /\ g.static[n] \in Int /\ g.free[n] \in Nat
      /\ g.near[n] <= Len(s) /\ ~IsMate(g.static[n]) /\ g.free[n] <= CellCount
      /\ g.kind[n] = "loss" => g.free[n] >= 2
      /\ g.kind[n] # "draw" => g.free[n] >= 1
      /\ g.kind[n] = "block" => s # <<>>
  BY Zenon DEF IsGame
<1>2. \A m \in DOMAIN s : g.free[s[m]] < g.free[n]
  BY Zenon DEF IsGame
<1>3. \A m \in DOMAIN g.kind : g.free[m] \in Nat /\ g.free[m] <= CellCount
  BY Zenon DEF IsGame
<1>4. DOMAIN s = 1..Len(s) /\ Len(s) \in Nat /\ \A m \in DOMAIN s : s[m] \in DOMAIN g.kind
  BY <1>1
<1>5. g.near[n] \in 0..Len(s) /\ g.free[n] \in 0..CellCount
  BY <1>1, <1>4
<1>6. \A m \in DOMAIN s : g.free[s[m]] \in 0..CellCount /\ g.free[s[m]] \in Nat
  BY <1>3, <1>4
<1>7. Worthy(g.static[n], g.free[n])
  BY <1>1 DEF IsMate, Worthy
<1>8. g.kind[n] = "block" => 1 \in DOMAIN s
  <2>1. s # <<>> => Len(s) # 0
    BY <1>1, EmptySeq
  <2> QED BY <2>1, <1>1, <1>4
<1>9. 1..g.near[n] \subseteq DOMAIN s
  BY <1>4, <1>5
<1>10. IsFiniteSet(DOMAIN s)
  <2>1. 1 \in Int /\ Len(s) \in Int
    BY <1>4
  <2>2. IsFiniteSet(1..Len(s))
    BY <2>1, FS_Interval
  <2> QED BY <2>2, <1>4
<1>11. \A wide \in BOOLEAN : Moves(g, n, wide) \subseteq DOMAIN s
  BY <1>8, <1>9 DEF Moves
<1>12. Forcing(g, n) \subseteq DOMAIN s /\ Forcing(g, n) \subseteq 1..g.near[n]
  BY <1>9 DEF Forcing
<1>13. \A T \in SUBSET (DOMAIN s) : IsFiniteSet(T)
  BY <1>10, FS_Subset
<1> QED BY <1>1, <1>2, <1>4, <1>5, <1>6, <1>7, <1>8, <1>11, <1>12, <1>13

(* The positions a move leads to, with fewer cells left. *)
LEMMA ReachIs ==
  ASSUME NEW g, IsGame(g)
  PROVE  /\ g.free \in [DOMAIN g.kind -> 0..CellCount]
         /\ [n \in DOMAIN g.kind |-> Reach(g, n)] \in [DOMAIN g.kind -> SUBSET (DOMAIN g.kind)]
         /\ \A n \in DOMAIN g.kind : \A m \in Reach(g, n) : g.free[m] < g.free[n]
<1>1. \A n \in DOMAIN g.kind : g.free[n] \in 0..CellCount
  BY GameIs
<1>2. g.free \in [DOMAIN g.kind -> Nat]
  BY Zenon DEF IsGame
<1>3. \A n \in DOMAIN g.kind : \A m \in DOMAIN g.next[n] :
        g.next[n][m] \in DOMAIN g.kind /\ g.free[g.next[n][m]] < g.free[n]
  BY GameIs
<1> QED BY <1>1, <1>2, <1>3 DEF Reach

(* The image of a finite set is finite. *)
LEMMA FiniteImage ==
  ASSUME NEW S, IsFiniteSet(S), NEW f, f = [x \in S |-> f[x]]
  PROVE  IsFiniteSet({f[x] : x \in S})
<1> DEFINE T == {f[x] : x \in S}
<1>1. f \in Surjection(S, T)
  BY DEF Surjection
<1> QED BY <1>1, FS_Surjection

(* A position settled by the rules. *)
LEMMA FactIs ==
  ASSUME NEW g, IsGame(g), NEW n \in DOMAIN g.kind, IsFact(g, n), NEW p \in Nat, p + g.free[n] <= CellCount
  PROVE  /\ Worthy(Fact(g, n, 0), g.free[n])
         /\ Fact(g, n, p) = AtPly(Fact(g, n, 0), p)
<1>1. /\ g.kind[n] \in {"win", "loss", "draw"} /\ g.free[n] \in Nat
      /\ g.kind[n] = "loss" => g.free[n] >= 2
      /\ g.kind[n] # "draw" => g.free[n] >= 1
  BY GameIs DEF IsFact
<1>2. CASE g.kind[n] = "win"
  <2>1. Fact(g, n, 0) = Mate - 0 - 1 /\ Fact(g, n, p) = Mate - p - 1
    BY <1>2, Zenon DEF Fact
  <2> QED BY <2>1, <1>1, <1>2 DEF Worthy, AtPly, ScoreFromTt, Threshold
<1>3. CASE g.kind[n] = "loss"
  <2>1. Fact(g, n, 0) = -Mate + 0 + 2 /\ Fact(g, n, p) = -Mate + p + 2
    BY <1>3 DEF Fact
  <2> QED BY <2>1, <1>1, <1>3 DEF Worthy, AtPly, ScoreFromTt, Threshold
<1>4. CASE g.kind[n] = "draw"
  <2>1. Fact(g, n, 0) = 0 /\ Fact(g, n, p) = 0
    BY <1>4 DEF Fact
  <2> QED BY <2>1, <1>1 DEF Worthy, AtPly, ScoreFromTt, Threshold
<1> QED BY <1>1, <1>2, <1>3, <1>4

(* What an immediate tactic is worth is a number. *)
LEMMA FactInt ==
  ASSUME NEW g, IsGame(g), NEW n \in DOMAIN g.kind, IsFact(g, n)
  PROVE  Fact(g, n, 0) \in Int
<1>1. g.free[n] \in Nat /\ 0 + g.free[n] <= CellCount
  BY GameIs
<1>2. Worthy(Fact(g, n, 0), g.free[n])
  BY <1>1, FactIs
<1> QED BY <1>2 DEF Worthy

(* A number stays one. *)
LEMMA FromChildInt ==
  ASSUME NEW v \in Int
  PROVE  FromChild(v) \in Int
BY DEF FromChild, Threshold

--------------------------------------------------
(* What qsearch looks for. *)

QuietArrays(g) == [DOMAIN g.kind -> [0..MaxQsearchPly -> Int]]

QuietScores(g, b, n, q) == {g.static[n]} \cup {FromChild(b[g.next[n][m]][q + 1]) : m \in Forcing(g, n)}
QuietOne(g, b, n, q) ==
  IF IsFact(g, n) THEN Fact(g, n, 0)
  ELSE IF g.kind[n] = "block" THEN FromChild(b[g.next[n][1]][Quieter(q)])
  ELSE IF q = MaxQsearchPly THEN g.static[n]
  ELSE Max(QuietScores(g, b, n, q))

(* One round of qsearch's reference, position by position. *)
LEMMA QuietRoundIs ==
  ASSUME NEW g, NEW b
  PROVE  QuietRound(g, b) = [n \in DOMAIN g.kind |-> [q \in 0..MaxQsearchPly |-> QuietOne(g, b, n, q)]]
BY Zenon DEF QuietRound, QuietOne, QuietScores

(* The plies of qsearch stop at the cap. *)
LEMMA QuieterIs ==
  ASSUME NEW q \in 0..MaxQsearchPly
  PROVE  /\ Quieter(q) \in 0..MaxQsearchPly
         /\ q # MaxQsearchPly => q + 1 \in 0..MaxQsearchPly /\ Quieter(q) = q + 1 /\ q < MaxQsearchPly
<1>1. MaxQsearchPly \in Nat /\ q \in Int /\ 0 <= q /\ q <= MaxQsearchPly
  OBVIOUS
<1> QED BY <1>1 DEF Quieter, Smaller

(* The scores to choose from. *)
LEMMA QuietScoresAre ==
  ASSUME NEW g, IsGame(g), NEW b \in QuietArrays(g), NEW n \in DOMAIN g.kind,
         NEW q \in 0..MaxQsearchPly, q # MaxQsearchPly
  PROVE  /\ QuietScores(g, b, n, q) \in SUBSET Int /\ IsFiniteSet(QuietScores(g, b, n, q))
         /\ QuietScores(g, b, n, q) # {}
<1> DEFINE F == [m \in Forcing(g, n) |-> FromChild(b[g.next[n][m]][q + 1])]
           S == {F[m] : m \in Forcing(g, n)}
<1>1. q + 1 \in 0..MaxQsearchPly
  BY QuieterIs
<1>2. \A m \in Forcing(g, n) : g.next[n][m] \in DOMAIN g.kind
  BY GameIs
<1>3. \A m \in Forcing(g, n) : b[g.next[n][m]][q + 1] \in Int
  BY <1>1, <1>2 DEF QuietArrays
<1>4. \A m \in Forcing(g, n) : F[m] \in Int
  BY <1>3, FromChildInt
<1>5. IsFiniteSet(S)
  <2>1. IsFiniteSet(Forcing(g, n)) /\ F = [m \in Forcing(g, n) |-> F[m]]
    BY GameIs
  <2> HIDE DEF F
  <2> QED BY <2>1, FiniteImage
<1>6. QuietScores(g, b, n, q) = S \cup {g.static[n]}
  BY DEF QuietScores
<1>7. g.static[n] \in Int
  BY GameIs
<1>8. IsFiniteSet(S \cup {g.static[n]})
  BY <1>5, FS_AddElement
<1> HIDE DEF S
<1> QED
  <2>1. S \in SUBSET Int
    BY <1>4 DEF S
  <2> QED BY <2>1, <1>6, <1>7, <1>8

(* A round maps values to values. *)
LEMMA QuietTyped ==
  ASSUME NEW g, IsGame(g), NEW b \in QuietArrays(g)
  PROVE  QuietRound(g, b) \in QuietArrays(g)
<1>1. ASSUME NEW n \in DOMAIN g.kind, NEW q \in 0..MaxQsearchPly PROVE QuietOne(g, b, n, q) \in Int
  <2>1. CASE IsFact(g, n)
    BY <2>1, FactInt DEF QuietOne
  <2>2. CASE ~IsFact(g, n) /\ g.kind[n] = "block"
    <3>1. g.next[n][1] \in DOMAIN g.kind /\ Quieter(q) \in 0..MaxQsearchPly
      BY <2>2, GameIs, QuieterIs
    <3>2. b[g.next[n][1]][Quieter(q)] \in Int
      BY <3>1 DEF QuietArrays
    <3> QED BY <2>2, <3>2, FromChildInt DEF QuietOne
  <2>3. CASE ~IsFact(g, n) /\ g.kind[n] # "block" /\ q = MaxQsearchPly
    BY <2>3, GameIs DEF QuietOne
  <2>4. CASE ~IsFact(g, n) /\ g.kind[n] # "block" /\ q # MaxQsearchPly
    <3>1. Max(QuietScores(g, b, n, q)) \in Int
      BY <2>4, QuietScoresAre, MaxIs
    <3> QED BY <2>4, <3>1 DEF QuietOne
  <2> QED BY <2>1, <2>2, <2>3, <2>4
<1> QED BY <1>1, QuietRoundIs DEF QuietArrays

(* A round looks no further than one ply. *)
LEMMA QuietLocal ==
  ASSUME NEW g, IsGame(g), NEW b, NEW c, NEW n \in DOMAIN g.kind, \A m \in Reach(g, n) : b[m] = c[m]
  PROVE  QuietRound(g, b)[n] = QuietRound(g, c)[n]
<1>1. \A m \in DOMAIN g.next[n] : b[g.next[n][m]] = c[g.next[n][m]]
  BY DEF Reach
<1>2. ASSUME NEW q \in 0..MaxQsearchPly PROVE QuietOne(g, b, n, q) = QuietOne(g, c, n, q)
  <2>1. Forcing(g, n) \subseteq DOMAIN g.next[n]
    BY GameIs
  <2>2. QuietScores(g, b, n, q) = QuietScores(g, c, n, q)
    BY <1>1, <2>1 DEF QuietScores
  <2>3. g.kind[n] = "block" => b[g.next[n][1]] = c[g.next[n][1]]
    BY <1>1, GameIs
  <2> QED BY <2>2, <2>3 DEF QuietOne
<1> QED BY <1>2, QuietRoundIs, Zenon

(* The values are typed, and another round changes none of them. *)
LEMMA QuietSettles ==
  ASSUME NEW g, IsGame(g)
  PROVE  /\ QuietValues(g) \in QuietArrays(g)
         /\ \A n \in DOMAIN g.kind, q \in 0..MaxQsearchPly :
              QuietValues(g)[n][q] = QuietOne(g, QuietValues(g), n, q)
<1> DEFINE N == CellCount
           base == [n \in DOMAIN g.kind |-> [q \in 0..MaxQsearchPly |-> 0]]
           H(f) == [k \in 0..N |-> QuietRound(g, IF k = 0 THEN base ELSE f[k - 1])]
           u == CHOOSE f : f = H(f)
           st == [b \in QuietArrays(g) |-> QuietRound(g, b)]
<1>1. N \in Nat /\ base \in QuietArrays(g) /\ st \in [QuietArrays(g) -> QuietArrays(g)]
  BY QuietTyped DEF QuietArrays
<1>2. PICK h : Rounds(h, N, QuietArrays(g), st, base)
  <2> HIDE DEF st, base, N
  <2> QED BY <1>1, RoundsExist
<1>3. \A k \in 0..N : k # 0 => k - 1 \in 0..N
  OBVIOUS
<1>4. h = H(h)
  <2>1. \A k \in 0..N : (IF k = 0 THEN base ELSE h[k - 1]) \in QuietArrays(g)
    <3> HIDE DEF base
    <3> QED BY <1>1, <1>2, <1>3 DEF Rounds
  <2>2. h = [k \in 0..N |-> st[IF k = 0 THEN base ELSE h[k - 1]]]
    BY <1>2 DEF Rounds
  <2>3. \A b \in QuietArrays(g) : st[b] = QuietRound(g, b)
    OBVIOUS
  <2> HIDE DEF st, base
  <2> QED BY <2>1, <2>2, <2>3
<1>5. u = H(u)
  <2> HIDE DEF H
  <2> QED BY <1>4, Zenon
<1>6. QuietValues(g) = u[N]
  BY DEF QuietValues
<1> HIDE DEF u
<1>7. \A k \in 0..N : u[k] = QuietRound(g, IF k = 0 THEN base ELSE u[k - 1])
  <2> HIDE DEF base
  <2> QED BY <1>5
<1>8. Rounds(u, N, QuietArrays(g), st, base)
  <2>1. \A b \in QuietArrays(g) : st[b] = QuietRound(g, b)
    OBVIOUS
  <2>2. u = [k \in 0..N |-> u[k]]
    <3> HIDE DEF base
    <3> QED BY <1>5
  <2> HIDE DEF st, base, N
  <2> QED BY <1>1, <1>7, <2>1, <2>2, RoundsOf
<1>9. \A k \in 0..N : u[k] \in QuietArrays(g)
  BY <1>8 DEF Rounds
<1> DEFINE to == [n \in DOMAIN g.kind |-> Reach(g, n)]
<1>11. \A x, y \in QuietArrays(g), n \in DOMAIN g.kind :
         (\A m \in to[n] : x[m] = y[m]) => st[x][n] = st[y][n]
  <2>1. ASSUME NEW x \in QuietArrays(g), NEW y \in QuietArrays(g), NEW n \in DOMAIN g.kind,
               \A m \in to[n] : x[m] = y[m]
        PROVE  st[x][n] = st[y][n]
    <3>1. \A m \in Reach(g, n) : x[m] = y[m]
      BY <2>1
    <3>2. QuietRound(g, x)[n] = QuietRound(g, y)[n]
      BY <3>1, QuietLocal
    <3> QED BY <3>2
  <2> HIDE DEF st, to
  <2> QED BY <2>1
<1>12. /\ g.free \in [DOMAIN g.kind -> 0..N] /\ to \in [DOMAIN g.kind -> SUBSET (DOMAIN g.kind)]
       /\ \A n \in DOMAIN g.kind : \A m \in to[n] : g.free[m] < g.free[n]
  BY ReachIs
<1>13. \A n \in DOMAIN g.kind : u[N][n] = st[u[N]][n]
  <2> DEFINE D == DOMAIN g.kind  B == QuietArrays(g)  free == g.free
  <2>1. Settling(D, B, st, N, free, to)
    <3> HIDE DEF st, to
    <3> QED BY <1>1, <1>11, <1>12 DEF Settling
  <2>2. base \in B /\ N \in Nat /\ Rounds(u, N, B, st, base)
    BY <1>1, <1>8
  <2> HIDE DEF st, base, to, N, D, B, free, H
  <2>3. \A n \in D : u[N][n] = st[u[N]][n]
    BY <2>1, <2>2, RoundsSettle, SMTT(30)
  <2> QED BY <2>3 DEF D
<1>14. u[N] \in QuietArrays(g)
  BY <1>9, <1>1
<1>15. ASSUME NEW n \in DOMAIN g.kind, NEW q \in 0..MaxQsearchPly
       PROVE  u[N][n][q] = QuietOne(g, u[N], n, q)
  <2>1. st[u[N]] = QuietRound(g, u[N])
    BY <1>14
  <2> HIDE DEF st, N
  <2>2. u[N][n] = QuietRound(g, u[N])[n]
    BY <1>13, <2>1
  <2>3. QuietRound(g, u[N])[n][q] = QuietOne(g, u[N], n, q)
    BY QuietRoundIs
  <2> QED BY <2>2, <2>3
<1> QED BY <1>6, <1>14, <1>15

--------------------------------------------------
(* What a position may be worth. *)

WorthArrays(g, deepest) == [DOMAIN g.kind -> [0..deepest -> [least : Int, most : Int]]]

(* What a move is worth at least, and at most, for each of its options. *)
Falls(g, b, x, n, d, m) == {FromChild(v.most) : v \in Options(g, b, x, n, d, m)}
Rises(g, b, x, n, d, m) == {FromChild(v.least) : v \in Options(g, b, x, n, d, m)}
Chosen(g, n) == Moves(g, n, g.domain = "teacher")
Lows(g, b, x, n, d) == {Min(Falls(g, b, x, n, d, m)) : m \in Chosen(g, n)}
Highs(g, b, x, n, d) == {Max(Rises(g, b, x, n, d, m)) : m \in Chosen(g, n)}

WorthOne(g, quiet, b, x, n, d) ==
  IF IsFact(g, n) THEN [least |-> Fact(g, n, 0), most |-> Fact(g, n, 0)]
  ELSE IF d = 0 THEN [least |-> quiet[n][0], most |-> quiet[n][0]]
  ELSE IF Chosen(g, n) = {} THEN [least |-> 0, most |-> 0]
  ELSE [least |-> Max(Lows(g, b, x, n, d)), most |-> Max(Highs(g, b, x, n, d))]

(* One round of the reference, position by position. *)
LEMMA WorthRoundIs ==
  ASSUME NEW g, NEW quiet, NEW b, NEW x, NEW deepest
  PROVE  WorthRound(g, quiet, b, x, deepest)
           = [n \in DOMAIN g.kind |-> [d \in 0..deepest |-> WorthOne(g, quiet, b, x, n, d)]]
BY Zenon DEF WorthRound, WorthOne, Falls, Rises, Lows, Highs, Chosen

(* The moves the reference chooses from are moves. *)
LEMMA ChosenAre ==
  ASSUME NEW g, IsGame(g), NEW n \in DOMAIN g.kind
  PROVE  /\ Chosen(g, n) \subseteq DOMAIN g.next[n] /\ IsFiniteSet(Chosen(g, n))
         /\ \A m \in Chosen(g, n) : m \in DOMAIN g.next[n] /\ g.next[n][m] \in DOMAIN g.kind
<1>1. (g.domain = "teacher") \in BOOLEAN
  OBVIOUS
<1>2. Chosen(g, n) \subseteq DOMAIN g.next[n] /\ IsFiniteSet(Chosen(g, n))
  BY <1>1, GameIs DEF Chosen
<1> QED BY <1>2, GameIs

(* The options of a move are one or two, and so are what they are worth. *)
LEMMA OptionsAre ==
  ASSUME NEW g, IsGame(g), NEW D \in Nat, NEW b \in WorthArrays(g, D), NEW x, NEW n \in DOMAIN g.kind,
         NEW d \in 0..D, d # 0, NEW m \in DOMAIN g.next[n]
  PROVE  /\ b[g.next[n][m]][d - 1] \in [least : Int, most : Int]
         /\ b[g.next[n][m]][d] \in [least : Int, most : Int]
         /\ FromChild(b[g.next[n][m]][d - 1].most) \in Falls(g, b, x, n, d, m)
         /\ FromChild(b[g.next[n][m]][d - 1].least) \in Rises(g, b, x, n, d, m)
         /\ x /\ m \in Forcing(g, n) =>
              /\ FromChild(b[g.next[n][m]][d].most) \in Falls(g, b, x, n, d, m)
              /\ FromChild(b[g.next[n][m]][d].least) \in Rises(g, b, x, n, d, m)
         /\ Falls(g, b, x, n, d, m) \subseteq
              {FromChild(b[g.next[n][m]][d - 1].most), FromChild(b[g.next[n][m]][d].most)}
         /\ Rises(g, b, x, n, d, m) \subseteq
              {FromChild(b[g.next[n][m]][d - 1].least), FromChild(b[g.next[n][m]][d].least)}
         /\ Falls(g, b, x, n, d, m) \in SUBSET Int /\ IsFiniteSet(Falls(g, b, x, n, d, m))
         /\ Rises(g, b, x, n, d, m) \in SUBSET Int /\ IsFiniteSet(Rises(g, b, x, n, d, m))
<1> DEFINE k == g.next[n][m]
           F == Falls(g, b, x, n, d, m)
           R == Rises(g, b, x, n, d, m)
           O == Options(g, b, x, n, d, m)
<1>1. k \in DOMAIN g.kind /\ d - 1 \in 0..D
  BY GameIs
<1>2. b[k][d - 1] \in [least : Int, most : Int] /\ b[k][d] \in [least : Int, most : Int]
  <2>1. b[k] \in [0..D -> [least : Int, most : Int]]
    BY <1>1 DEF WorthArrays
  <2> QED BY <1>1, <2>1
<1>3. b[k][d - 1] \in O /\ O \subseteq {b[k][d - 1], b[k][d]} /\ (x /\ m \in Forcing(g, n) => b[k][d] \in O)
  BY Zenon DEF Options
<1>4. \A v \in [least : Int, most : Int] : FromChild(v.most) \in Int /\ FromChild(v.least) \in Int
  BY FromChildInt
<1>5. F \subseteq {FromChild(b[k][d - 1].most), FromChild(b[k][d].most)}
  BY <1>3 DEF Falls
<1>6. R \subseteq {FromChild(b[k][d - 1].least), FromChild(b[k][d].least)}
  BY <1>3 DEF Rises
<1>7. \A u, v : IsFiniteSet({u, v})
  <2> TAKE u, v
  <2>1. IsFiniteSet({u} \cup {v})
    BY FS_Singleton, FS_AddElement
  <2>2. {u, v} = {u} \cup {v}
    OBVIOUS
  <2> QED BY <2>1, <2>2
<1>8. IsFiniteSet(F)
  <2>1. IsFiniteSet({FromChild(b[k][d - 1].most), FromChild(b[k][d].most)})
    BY <1>7
  <2> QED BY <2>1, <1>5, FS_Subset
<1>9. IsFiniteSet(R)
  <2>1. IsFiniteSet({FromChild(b[k][d - 1].least), FromChild(b[k][d].least)})
    BY <1>7
  <2> QED BY <2>1, <1>6, FS_Subset
<1>10. /\ FromChild(b[k][d - 1].most) \in F /\ FromChild(b[k][d - 1].least) \in R
       /\ x /\ m \in Forcing(g, n) => FromChild(b[k][d].most) \in F /\ FromChild(b[k][d].least) \in R
  BY <1>3 DEF Falls, Rises
<1>11. F \in SUBSET Int /\ R \in SUBSET Int
  <2>1. /\ FromChild(b[k][d - 1].most) \in Int /\ FromChild(b[k][d].most) \in Int
        /\ FromChild(b[k][d - 1].least) \in Int /\ FromChild(b[k][d].least) \in Int
    BY <1>2, <1>4
  <2> HIDE DEF F, R
  <2> QED BY <2>1, <1>5, <1>6
<1> QED BY <1>2, <1>5, <1>6, <1>8, <1>9, <1>10, <1>11

(* The worst option of a move, and its best one. *)
LEMMA MoveIs ==
  ASSUME NEW g, IsGame(g), NEW D \in Nat, NEW b \in WorthArrays(g, D), NEW x, NEW n \in DOMAIN g.kind,
         NEW d \in 0..D, d # 0, NEW m \in DOMAIN g.next[n]
  PROVE  /\ Min(Falls(g, b, x, n, d, m)) \in Falls(g, b, x, n, d, m)
         /\ Min(Falls(g, b, x, n, d, m)) \in Int
         /\ \A v \in Falls(g, b, x, n, d, m) : Min(Falls(g, b, x, n, d, m)) <= v
         /\ Max(Rises(g, b, x, n, d, m)) \in Rises(g, b, x, n, d, m)
         /\ Max(Rises(g, b, x, n, d, m)) \in Int
         /\ \A v \in Rises(g, b, x, n, d, m) : v <= Max(Rises(g, b, x, n, d, m))
<1> DEFINE F == Falls(g, b, x, n, d, m)
           R == Rises(g, b, x, n, d, m)
<1>1. F \in SUBSET Int /\ IsFiniteSet(F) /\ R \in SUBSET Int /\ IsFiniteSet(R) /\ F # {} /\ R # {}
  BY OptionsAre
<1> HIDE DEF F, R
<1>2. /\ Min(F) \in F /\ Min(F) \in Int /\ \A v \in F : Min(F) <= v
      /\ Max(R) \in R /\ Max(R) \in Int /\ \A v \in R : v <= Max(R)
  BY <1>1, MinIs, MaxIs
<1> QED BY <1>2 DEF F, R

(* The best of the moves' bounds exists. *)
LEMMA LowsAre ==
  ASSUME NEW g, IsGame(g), NEW D \in Nat, NEW b \in WorthArrays(g, D), NEW x, NEW n \in DOMAIN g.kind,
         NEW d \in 0..D, d # 0, Chosen(g, n) # {}
  PROVE  /\ Max(Lows(g, b, x, n, d)) \in Lows(g, b, x, n, d) /\ Max(Lows(g, b, x, n, d)) \in Int
         /\ \A v \in Lows(g, b, x, n, d) : v <= Max(Lows(g, b, x, n, d))
         /\ Max(Highs(g, b, x, n, d)) \in Highs(g, b, x, n, d) /\ Max(Highs(g, b, x, n, d)) \in Int
         /\ \A v \in Highs(g, b, x, n, d) : v <= Max(Highs(g, b, x, n, d))
<1> DEFINE C == Chosen(g, n)
           P == [m \in C |-> Min(Falls(g, b, x, n, d, m))]
           R == [m \in C |-> Max(Rises(g, b, x, n, d, m))]
           L == Lows(g, b, x, n, d)
           H == Highs(g, b, x, n, d)
<1>1. IsFiniteSet(C) /\ C # {} /\ \A m \in C : m \in DOMAIN g.next[n]
  BY ChosenAre
<1>2. L = {P[m] : m \in C} /\ H = {R[m] : m \in C}
  BY DEF Lows, Highs
<1>3. \A m \in C : P[m] \in Int /\ R[m] \in Int
  <2>1. \A m \in C : Min(Falls(g, b, x, n, d, m)) \in Int /\ Max(Rises(g, b, x, n, d, m)) \in Int
    BY <1>1, MoveIs
  <2> QED BY <2>1
<1>4. P = [m \in C |-> P[m]] /\ R = [m \in C |-> R[m]]
  OBVIOUS
<1> HIDE DEF P, R, C
<1>5. IsFiniteSet({P[m] : m \in C}) /\ IsFiniteSet({R[m] : m \in C})
  BY <1>1, <1>4, FiniteImage
<1>6. L \in SUBSET Int /\ H \in SUBSET Int /\ IsFiniteSet(L) /\ IsFiniteSet(H) /\ L # {} /\ H # {}
  <2> HIDE DEF L, H
  <2> QED BY <1>1, <1>2, <1>3, <1>5
<1> HIDE DEF L, H
<1>7. /\ Max(L) \in L /\ Max(L) \in Int /\ \A v \in L : v <= Max(L)
      /\ Max(H) \in H /\ Max(H) \in Int /\ \A v \in H : v <= Max(H)
  BY <1>6, MaxIs
<1> QED BY <1>7 DEF L, H

(* A round maps intervals to intervals. *)
LEMMA WorthTyped ==
  ASSUME NEW g, IsGame(g), NEW D \in Nat, NEW quiet \in QuietArrays(g), NEW x, NEW b \in WorthArrays(g, D)
  PROVE  WorthRound(g, quiet, b, x, D) \in WorthArrays(g, D)
<1>1. ASSUME NEW n \in DOMAIN g.kind, NEW d \in 0..D
      PROVE  WorthOne(g, quiet, b, x, n, d) \in [least : Int, most : Int]
  <2>1. CASE IsFact(g, n)
    BY <2>1, FactInt DEF WorthOne
  <2>2. CASE ~IsFact(g, n) /\ d = 0
    <3>1. quiet[n][0] \in Int
      BY DEF QuietArrays
    <3> QED BY <2>2, <3>1 DEF WorthOne
  <2>3. CASE ~IsFact(g, n) /\ d # 0 /\ Chosen(g, n) = {}
    BY <2>3 DEF WorthOne
  <2>4. CASE ~IsFact(g, n) /\ d # 0 /\ Chosen(g, n) # {}
    <3>1. Max(Lows(g, b, x, n, d)) \in Int /\ Max(Highs(g, b, x, n, d)) \in Int
      BY <2>4, LowsAre
    <3> QED BY <2>4, <3>1 DEF WorthOne
  <2> QED BY <2>1, <2>2, <2>3, <2>4
<1> QED BY <1>1, WorthRoundIs DEF WorthArrays

(* A round looks at the positions the moves reach, and at no other. *)
LEMMA WorthLocal ==
  ASSUME NEW g, IsGame(g), NEW D, NEW quiet, NEW x, NEW b, NEW c, NEW n \in DOMAIN g.kind,
         \A m \in Reach(g, n) : b[m] = c[m]
  PROVE  WorthRound(g, quiet, b, x, D)[n] = WorthRound(g, quiet, c, x, D)[n]
<1>1. \A m \in DOMAIN g.next[n] : b[g.next[n][m]] = c[g.next[n][m]]
  BY DEF Reach
<1>2. \A m \in Chosen(g, n) : m \in DOMAIN g.next[n]
  BY ChosenAre
<1>3. ASSUME NEW d \in 0..D PROVE WorthOne(g, quiet, b, x, n, d) = WorthOne(g, quiet, c, x, n, d)
  <2>1. \A m \in Chosen(g, n) : Options(g, b, x, n, d, m) = Options(g, c, x, n, d, m)
    BY <1>1, <1>2, Zenon DEF Options
  <2>2. \A m \in Chosen(g, n) :
          Falls(g, b, x, n, d, m) = Falls(g, c, x, n, d, m) /\ Rises(g, b, x, n, d, m) = Rises(g, c, x, n, d, m)
    BY <2>1, Zenon DEF Falls, Rises
  <2>3. Lows(g, b, x, n, d) = Lows(g, c, x, n, d) /\ Highs(g, b, x, n, d) = Highs(g, c, x, n, d)
    BY <2>2 DEF Lows, Highs
  <2> QED BY <2>3 DEF WorthOne
<1> QED BY <1>3, WorthRoundIs, Zenon

(* The values are typed, and another round changes none of them. *)
LEMMA WorthSettles ==
  ASSUME NEW g, IsGame(g), NEW D \in Nat, NEW x
  PROVE  /\ Worth(g, x, D) \in WorthArrays(g, D)
         /\ \A n \in DOMAIN g.kind, d \in 0..D :
              Worth(g, x, D)[n][d] = WorthOne(g, QuietValues(g), Worth(g, x, D), x, n, d)
<1> DEFINE N == CellCount
           base == [n \in DOMAIN g.kind |-> [d \in 0..D |-> [least |-> 0, most |-> 0]]]
           quiet == QuietValues(g)
           H(f) == [k \in 0..N |-> WorthRound(g, quiet, IF k = 0 THEN base ELSE f[k - 1], x, D)]
           u == CHOOSE f : f = H(f)
           st == [b \in WorthArrays(g, D) |-> WorthRound(g, quiet, b, x, D)]
<1>0. quiet \in QuietArrays(g)
  BY QuietSettles
<1>1. N \in Nat /\ base \in WorthArrays(g, D) /\ st \in [WorthArrays(g, D) -> WorthArrays(g, D)]
  <2>1. base \in WorthArrays(g, D)
    BY DEF WorthArrays
  <2>2. \A b \in WorthArrays(g, D) : WorthRound(g, quiet, b, x, D) \in WorthArrays(g, D)
    <3> HIDE DEF quiet
    <3> QED BY <1>0, WorthTyped
  <2> HIDE DEF quiet, base
  <2> QED BY <2>1, <2>2
<1>2. PICK h : Rounds(h, N, WorthArrays(g, D), st, base)
  <2> HIDE DEF st, base, N
  <2> QED BY <1>1, RoundsExist
<1>3. \A k \in 0..N : k # 0 => k - 1 \in 0..N
  OBVIOUS
<1>4. h = H(h)
  <2>1. \A k \in 0..N : (IF k = 0 THEN base ELSE h[k - 1]) \in WorthArrays(g, D)
    <3> HIDE DEF base
    <3> QED BY <1>1, <1>2, <1>3 DEF Rounds
  <2>2. h = [k \in 0..N |-> st[IF k = 0 THEN base ELSE h[k - 1]]]
    BY <1>2 DEF Rounds
  <2>3. \A b \in WorthArrays(g, D) : st[b] = WorthRound(g, quiet, b, x, D)
    OBVIOUS
  <2> HIDE DEF st, base
  <2> QED BY <2>1, <2>2, <2>3
<1>5. u = H(u)
  <2> HIDE DEF H
  <2> QED BY <1>4, Zenon
<1>6. Worth(g, x, D) = u[N]
  BY DEF Worth
<1> HIDE DEF u
<1>7. \A k \in 0..N : u[k] = WorthRound(g, quiet, IF k = 0 THEN base ELSE u[k - 1], x, D)
  <2> HIDE DEF base
  <2> QED BY <1>5
<1>8. Rounds(u, N, WorthArrays(g, D), st, base)
  <2>1. \A b \in WorthArrays(g, D) : st[b] = WorthRound(g, quiet, b, x, D)
    OBVIOUS
  <2>2. u = [k \in 0..N |-> u[k]]
    <3> HIDE DEF base
    <3> QED BY <1>5
  <2> HIDE DEF st, base, N, quiet
  <2> QED BY <1>1, <1>7, <2>1, <2>2, RoundsOf
<1>9. \A k \in 0..N : u[k] \in WorthArrays(g, D)
  BY <1>8 DEF Rounds
<1> DEFINE to == [n \in DOMAIN g.kind |-> Reach(g, n)]
<1>11. \A y, z \in WorthArrays(g, D), n \in DOMAIN g.kind :
         (\A m \in to[n] : y[m] = z[m]) => st[y][n] = st[z][n]
  <2>1. ASSUME NEW y \in WorthArrays(g, D), NEW z \in WorthArrays(g, D), NEW n \in DOMAIN g.kind,
               \A m \in to[n] : y[m] = z[m]
        PROVE  st[y][n] = st[z][n]
    <3>1. \A m \in Reach(g, n) : y[m] = z[m]
      BY <2>1
    <3>2. WorthRound(g, quiet, y, x, D)[n] = WorthRound(g, quiet, z, x, D)[n]
      BY <3>1, WorthLocal
    <3> QED BY <3>2
  <2> HIDE DEF st, to
  <2> QED BY <2>1
<1>12. /\ g.free \in [DOMAIN g.kind -> 0..N] /\ to \in [DOMAIN g.kind -> SUBSET (DOMAIN g.kind)]
       /\ \A n \in DOMAIN g.kind : \A m \in to[n] : g.free[m] < g.free[n]
  BY ReachIs
<1>13. \A n \in DOMAIN g.kind : u[N][n] = st[u[N]][n]
  <2> DEFINE S == DOMAIN g.kind  B == WorthArrays(g, D)  free == g.free
  <2>1. Settling(S, B, st, N, free, to)
    <3> HIDE DEF st, to
    <3> QED BY <1>1, <1>11, <1>12 DEF Settling
  <2>2. base \in B /\ N \in Nat /\ Rounds(u, N, B, st, base)
    BY <1>1, <1>8
  <2> HIDE DEF st, base, to, N, S, B, free, H
  <2>3. \A n \in S : u[N][n] = st[u[N]][n]
    BY <2>1, <2>2, RoundsSettle, SMTT(30)
  <2> QED BY <2>3 DEF S
<1>14. u[N] \in WorthArrays(g, D)
  BY <1>9, <1>1
<1>15. ASSUME NEW n \in DOMAIN g.kind, NEW d \in 0..D
       PROVE  u[N][n][d] = WorthOne(g, quiet, u[N], x, n, d)
  <2>1. st[u[N]] = WorthRound(g, quiet, u[N], x, D)
    BY <1>14
  <2> HIDE DEF st, N
  <2>2. u[N][n] = WorthRound(g, quiet, u[N], x, D)[n]
    BY <1>13, <2>1
  <2>3. WorthRound(g, quiet, u[N], x, D)[n][d] = WorthOne(g, quiet, u[N], x, n, d)
    BY WorthRoundIs
  <2> QED BY <2>2, <2>3
<1> QED BY <1>6, <1>14, <1>15

--------------------------------------------------
(* What the references say of a position and of where its moves lead. *)

(* Among some positions there is one whose moves lead out of them. *)
LEMMA LeastFree ==
  ASSUME NEW g, IsGame(g), NEW T \in SUBSET (DOMAIN g.kind), T # {}
  PROVE  \E n \in T : \A m \in DOMAIN g.next[n] : g.next[n][m] \notin T
<1> DEFINE F == {g.free[n] : n \in T}
<1>1. \A n \in DOMAIN g.kind : g.free[n] \in Nat
  BY GameIs
<1>2. F \in SUBSET Nat /\ F # {}
  BY <1>1
<1>3. PICK k \in F : \A j \in F : k <= j
  <2> HIDE DEF F
  <2> QED BY <1>2, LeastNatural
<1>4. PICK n \in T : g.free[n] = k
  BY <1>3
<1>5. ASSUME NEW m \in DOMAIN g.next[n] PROVE g.next[n][m] \notin T
  <2>1. /\ g.free[g.next[n][m]] < g.free[n] /\ g.free[g.next[n][m]] \in Nat
        /\ g.free[n] \in Nat
    BY <1>4, GameIs
  <2>2. g.next[n][m] \in T => k <= g.free[g.next[n][m]]
    BY <1>3
  <2> QED BY <2>1, <2>2, <1>4
<1> QED BY <1>4, <1>5

(* A draw is worth nothing at any ply. *)
LEMMA ZeroIs ==
  ASSUME NEW r \in Nat, r <= CellCount
  PROVE  Worthy(0, r) /\ \A p \in Nat : AtPly(0, p) = 0
BY DEF Worthy, AtPly, ScoreFromTt, Threshold

(* The ply keeps the order of what positions are worth. *)
LEMMA WorthyAt ==
  ASSUME NEW v, NEW u, NEW r \in Nat, NEW p \in Nat, p + r <= CellCount, Worthy(v, r), Worthy(u, r), v <= u
  PROVE  AtPly(v, p) <= AtPly(u, p)
<1>1. r <= CellCount
  OBVIOUS
<1>2. Plausible(v, 0, r) /\ Plausible(u, 0, r)
  BY <1>1, WorthyIs
<1> QED BY <1>2, AtPlyMonotone

(* A move of a game is worth something plausible. *)
LEMMA ChildIs ==
  ASSUME NEW g, IsGame(g), NEW n \in DOMAIN g.kind, NEW m \in DOMAIN g.next[n], NEW v,
         Worthy(v, g.free[g.next[n][m]])
  PROVE  Worthy(FromChild(v), g.free[n])
<1>1. /\ g.free[g.next[n][m]] \in Nat /\ g.free[n] \in Nat /\ g.free[n] <= CellCount
      /\ g.free[g.next[n][m]] < g.free[n]
  BY GameIs
<1> QED BY <1>1, FromChildIs

(* qsearch's reference knows mates only where the cells suffice. *)
LEMMA QuietWorthy ==
  ASSUME NEW g, IsGame(g), NEW n \in DOMAIN g.kind, NEW q \in 0..MaxQsearchPly
  PROVE  Worthy(QuietValues(g)[n][q], g.free[n])
<1> DEFINE V == QuietValues(g)
           T == {k \in DOMAIN g.kind : \E j \in 0..MaxQsearchPly : ~Worthy(V[k][j], g.free[k])}
<1>0. V \in QuietArrays(g) /\ \A k \in DOMAIN g.kind, j \in 0..MaxQsearchPly : V[k][j] = QuietOne(g, V, k, j)
  BY QuietSettles
<1> HIDE DEF V
<1>1. ASSUME T # {} PROVE FALSE
  <2>1. PICK k \in T : \A m \in DOMAIN g.next[k] : g.next[k][m] \notin T
    BY <1>1, LeastFree
  <2>2. PICK j \in 0..MaxQsearchPly : ~Worthy(V[k][j], g.free[k])
    BY <2>1
  <2>3. k \in DOMAIN g.kind
    BY <2>1
  <2>4. \A m \in DOMAIN g.next[k], i \in 0..MaxQsearchPly : Worthy(FromChild(V[g.next[k][m]][i]), g.free[k])
    <3> TAKE m \in DOMAIN g.next[k], i \in 0..MaxQsearchPly
    <3>1. g.next[k][m] \in DOMAIN g.kind
      BY <2>3, GameIs
    <3>2. Worthy(V[g.next[k][m]][i], g.free[g.next[k][m]])
      BY <2>1, <3>1
    <3> QED BY <2>3, <3>2, ChildIs
  <2>5. V[k][j] = QuietOne(g, V, k, j)
    BY <1>0, <2>3
  <2>6. Worthy(g.static[k], g.free[k]) /\ g.free[k] \in Nat /\ 0 + g.free[k] <= CellCount
    BY <2>3, GameIs
  <2> HIDE DEF T
  <2>7. CASE IsFact(g, k)
    BY <2>2, <2>3, <2>5, <2>6, <2>7, FactIs DEF QuietOne
  <2>8. CASE ~IsFact(g, k) /\ g.kind[k] = "block"
    <3>1. 1 \in DOMAIN g.next[k] /\ Quieter(j) \in 0..MaxQsearchPly
      BY <2>3, <2>8, GameIs, QuieterIs
    <3> QED BY <2>2, <2>4, <2>5, <2>8, <3>1 DEF QuietOne
  <2>9. CASE ~IsFact(g, k) /\ g.kind[k] # "block" /\ j = MaxQsearchPly
    BY <2>2, <2>5, <2>6, <2>9 DEF QuietOne
  <2>10. CASE ~IsFact(g, k) /\ g.kind[k] # "block" /\ j # MaxQsearchPly
    <3>1. j + 1 \in 0..MaxQsearchPly
      BY <2>10, QuieterIs
    <3>2. Max(QuietScores(g, V, k, j)) \in QuietScores(g, V, k, j)
      BY <1>0, <2>3, <2>10, QuietScoresAre, MaxIs
    <3>3. Forcing(g, k) \subseteq DOMAIN g.next[k]
      BY <2>3, GameIs
    <3>4. \A v \in QuietScores(g, V, k, j) : Worthy(v, g.free[k])
      BY <2>4, <2>6, <3>1, <3>3 DEF QuietScores
    <3> QED BY <2>2, <2>5, <2>10, <3>2, <3>4 DEF QuietOne
  <2> QED BY <2>7, <2>8, <2>9, <2>10
<1> QED BY <1>1 DEF V

(* So does the interval of a position. *)
LEMMA WorthWorthy ==
  ASSUME NEW g, IsGame(g), NEW D \in Nat, NEW x, NEW n \in DOMAIN g.kind, NEW d \in 0..D
  PROVE  Worthy(Worth(g, x, D)[n][d].least, g.free[n]) /\ Worthy(Worth(g, x, D)[n][d].most, g.free[n])
<1> DEFINE V == Worth(g, x, D)
           Good(k, j) == Worthy(V[k][j].least, g.free[k]) /\ Worthy(V[k][j].most, g.free[k])
           T == {k \in DOMAIN g.kind : \E j \in 0..D : ~Good(k, j)}
<1>0. V \in WorthArrays(g, D) /\ \A k \in DOMAIN g.kind, j \in 0..D : V[k][j] = WorthOne(g, QuietValues(g), V, x, k, j)
  BY WorthSettles
<1> HIDE DEF V
<1>1. ASSUME T # {} PROVE FALSE
  <2>1. PICK k \in T : \A m \in DOMAIN g.next[k] : g.next[k][m] \notin T
    BY <1>1, LeastFree
  <2>2. PICK j \in 0..D : ~Good(k, j)
    BY <2>1
  <2>3. k \in DOMAIN g.kind
    BY <2>1
  <2>4. \A m \in DOMAIN g.next[k], i \in 0..D :
          /\ Worthy(FromChild(V[g.next[k][m]][i].least), g.free[k])
          /\ Worthy(FromChild(V[g.next[k][m]][i].most), g.free[k])
    <3> TAKE m \in DOMAIN g.next[k], i \in 0..D
    <3>1. g.next[k][m] \in DOMAIN g.kind
      BY <2>3, GameIs
    <3>2. Good(g.next[k][m], i)
      BY <2>1, <3>1
    <3> QED BY <2>3, <3>2, ChildIs
  <2>5. V[k][j] = WorthOne(g, QuietValues(g), V, x, k, j)
    BY <1>0, <2>3
  <2>6. g.free[k] \in Nat /\ 0 + g.free[k] <= CellCount /\ g.free[k] <= CellCount
    BY <2>3, GameIs
  <2> HIDE DEF T
  <2>7. CASE IsFact(g, k)
    <3>1. Worthy(Fact(g, k, 0), g.free[k])
      BY <2>3, <2>6, <2>7, FactIs
    <3>2. V[k][j].least = Fact(g, k, 0) /\ V[k][j].most = Fact(g, k, 0)
      BY <2>5, <2>7 DEF WorthOne
    <3> QED BY <2>2, <3>1, <3>2
  <2>8. CASE ~IsFact(g, k) /\ j = 0
    <3>1. V[k][j].least = QuietValues(g)[k][0] /\ V[k][j].most = QuietValues(g)[k][0]
      BY <2>5, <2>8 DEF WorthOne
    <3>2. 0 \in 0..MaxQsearchPly
      OBVIOUS
    <3>3. Worthy(QuietValues(g)[k][0], g.free[k])
      BY <2>3, <3>2, QuietWorthy
    <3> QED BY <2>2, <3>1, <3>3
  <2>9. CASE ~IsFact(g, k) /\ j # 0 /\ Chosen(g, k) = {}
    <3>1. V[k][j].least = 0 /\ V[k][j].most = 0
      BY <2>5, <2>9 DEF WorthOne
    <3> QED BY <2>2, <2>6, <3>1, ZeroIs
  <2>10. CASE ~IsFact(g, k) /\ j # 0 /\ Chosen(g, k) # {}
    <3>1. V[k][j].least = Max(Lows(g, V, x, k, j)) /\ V[k][j].most = Max(Highs(g, V, x, k, j))
      BY <2>5, <2>10 DEF WorthOne
    <3>2. Max(Lows(g, V, x, k, j)) \in Lows(g, V, x, k, j) /\ Max(Highs(g, V, x, k, j)) \in Highs(g, V, x, k, j)
      BY <1>0, <2>3, <2>10, LowsAre
    <3>3. PICK m \in Chosen(g, k) : Max(Lows(g, V, x, k, j)) = Min(Falls(g, V, x, k, j, m))
      BY <3>2 DEF Lows
    <3>4. PICK o \in Chosen(g, k) : Max(Highs(g, V, x, k, j)) = Max(Rises(g, V, x, k, j, o))
      BY <3>2 DEF Highs
    <3>5. m \in DOMAIN g.next[k] /\ o \in DOMAIN g.next[k]
      BY <2>3, ChosenAre
    <3>6. Min(Falls(g, V, x, k, j, m)) \in Falls(g, V, x, k, j, m)
      BY <1>0, <2>3, <2>10, <3>5, MoveIs
    <3>7. Max(Rises(g, V, x, k, j, o)) \in Rises(g, V, x, k, j, o)
      BY <1>0, <2>3, <2>10, <3>5, MoveIs
    <3>8. Falls(g, V, x, k, j, m) \subseteq
            {FromChild(V[g.next[k][m]][j - 1].most), FromChild(V[g.next[k][m]][j].most)}
      BY <1>0, <2>3, <2>10, <3>5, OptionsAre
    <3>9. Rises(g, V, x, k, j, o) \subseteq
            {FromChild(V[g.next[k][o]][j - 1].least), FromChild(V[g.next[k][o]][j].least)}
      BY <1>0, <2>3, <2>10, <3>5, OptionsAre
    <3>10. j - 1 \in 0..D
      BY <2>10
    <3>11. Worthy(Min(Falls(g, V, x, k, j, m)), g.free[k])
      BY <2>4, <3>5, <3>6, <3>8, <3>10
    <3>12. Worthy(Max(Rises(g, V, x, k, j, o)), g.free[k])
      BY <2>4, <3>5, <3>7, <3>9, <3>10
    <3> QED BY <2>2, <3>1, <3>3, <3>4, <3>11, <3>12
  <2> QED BY <2>7, <2>8, <2>9, <2>10
<1> QED BY <1>1 DEF V

(* A leaf p plies from the root, and where its moves lead. *)
LEMMA QuietAt ==
  ASSUME NEW g, IsGame(g), NEW n \in DOMAIN g.kind, ~IsFact(g, n), NEW q \in 0..MaxQsearchPly,
         NEW p \in Nat, p + g.free[n] <= CellCount
  PROVE  /\ g.kind[n] = "block" => QuietValues(g)[n][q] = FromChild(QuietValues(g)[g.next[n][1]][Quieter(q)])
         /\ g.kind[n] # "block" /\ q = MaxQsearchPly => QuietValues(g)[n][q] = g.static[n]
         /\ g.kind[n] # "block" /\ q # MaxQsearchPly =>
              /\ AtPly(g.static[n], p) <= AtPly(QuietValues(g)[n][q], p)
              /\ \A m \in Forcing(g, n) :
                   AtPly(FromChild(QuietValues(g)[g.next[n][m]][Quieter(q)]), p) <= AtPly(QuietValues(g)[n][q], p)
              /\ \/ QuietValues(g)[n][q] = g.static[n]
                 \/ \E m \in Forcing(g, n) :
                      QuietValues(g)[n][q] = FromChild(QuietValues(g)[g.next[n][m]][Quieter(q)])
         /\ AtPly(g.static[n], p) = g.static[n]
<1> DEFINE V == QuietValues(g)
<1>0. V \in QuietArrays(g) /\ \A k \in DOMAIN g.kind, j \in 0..MaxQsearchPly : V[k][j] = QuietOne(g, V, k, j)
  BY QuietSettles
<1>1. V[n][q] = QuietOne(g, V, n, q)
  BY <1>0
<1>2. \A k \in DOMAIN g.kind, j \in 0..MaxQsearchPly : Worthy(V[k][j], g.free[k])
  BY QuietWorthy
<1> HIDE DEF V
<1>3. /\ Worthy(g.static[n], g.free[n]) /\ g.free[n] \in Nat /\ g.static[n] \in Int /\ ~IsMate(g.static[n])
      /\ Forcing(g, n) \subseteq DOMAIN g.next[n]
      /\ \A m \in DOMAIN g.next[n] : g.next[n][m] \in DOMAIN g.kind
  BY GameIs
<1>4. AtPly(g.static[n], p) = g.static[n]
  BY <1>3 DEF AtPly, ScoreFromTt, IsMate
<1>5. g.kind[n] = "block" => V[n][q] = FromChild(V[g.next[n][1]][Quieter(q)])
  BY <1>1 DEF QuietOne
<1>6. g.kind[n] # "block" /\ q = MaxQsearchPly => V[n][q] = g.static[n]
  BY <1>1 DEF QuietOne
<1>7. ASSUME g.kind[n] # "block", q # MaxQsearchPly
      PROVE  /\ AtPly(g.static[n], p) <= AtPly(V[n][q], p)
             /\ \A m \in Forcing(g, n) : AtPly(FromChild(V[g.next[n][m]][Quieter(q)]), p) <= AtPly(V[n][q], p)
             /\ \/ V[n][q] = g.static[n]
                \/ \E m \in Forcing(g, n) : V[n][q] = FromChild(V[g.next[n][m]][Quieter(q)])
  <2>1. Quieter(q) = q + 1 /\ q + 1 \in 0..MaxQsearchPly
    BY <1>7, QuieterIs
  <2>2. V[n][q] = Max(QuietScores(g, V, n, q))
    BY <1>1, <1>7 DEF QuietOne
  <2>3. V[n][q] \in QuietScores(g, V, n, q) /\ \A v \in QuietScores(g, V, n, q) : v <= V[n][q]
    BY <1>0, <1>7, <2>2, QuietScoresAre, MaxIs
  <2>4. Worthy(V[n][q], g.free[n])
    BY <1>2
  <2>5. AtPly(g.static[n], p) <= AtPly(V[n][q], p)
    <3>1. g.static[n] <= V[n][q]
      BY <2>3 DEF QuietScores
    <3> QED BY <1>3, <2>4, <3>1, WorthyAt
  <2>6. ASSUME NEW m \in Forcing(g, n)
        PROVE  AtPly(FromChild(V[g.next[n][m]][Quieter(q)]), p) <= AtPly(V[n][q], p)
    <3>1. FromChild(V[g.next[n][m]][Quieter(q)]) <= V[n][q]
      BY <2>1, <2>3 DEF QuietScores
    <3>2. Worthy(V[g.next[n][m]][Quieter(q)], g.free[g.next[n][m]]) /\ m \in DOMAIN g.next[n]
      BY <1>2, <1>3, <2>1
    <3>3. Worthy(FromChild(V[g.next[n][m]][Quieter(q)]), g.free[n])
      BY <3>2, ChildIs
    <3> QED BY <1>3, <2>4, <3>1, <3>3, WorthyAt
  <2>7. V[n][q] = g.static[n] \/ \E m \in Forcing(g, n) : V[n][q] = FromChild(V[g.next[n][m]][Quieter(q)])
    BY <2>1, <2>3 DEF QuietScores
  <2> QED BY <2>5, <2>6, <2>7
<1> QED BY <1>4, <1>5, <1>6, <1>7 DEF V

(* An inner position p plies from the root, and where its moves lead. *)
LEMMA WorthAt ==
  ASSUME NEW g, IsGame(g), NEW D \in Nat, NEW x, NEW n \in DOMAIN g.kind, ~IsFact(g, n),
         NEW d \in 0..D, d # 0, NEW p \in Nat, p + g.free[n] <= CellCount
  PROVE  /\ Chosen(g, n) = {} => Worth(g, x, D)[n][d].least = 0 /\ Worth(g, x, D)[n][d].most = 0
         /\ \A m \in Chosen(g, n) : \A v \in Rises(g, Worth(g, x, D), x, n, d, m) :
              AtPly(v, p) <= AtPly(Worth(g, x, D)[n][d].most, p)
         /\ Chosen(g, n) # {} =>
              \E m \in Chosen(g, n) : \A v \in Falls(g, Worth(g, x, D), x, n, d, m) :
                AtPly(Worth(g, x, D)[n][d].least, p) <= AtPly(v, p)
<1> DEFINE V == Worth(g, x, D)
<1>0. V \in WorthArrays(g, D) /\ \A k \in DOMAIN g.kind, j \in 0..D : V[k][j] = WorthOne(g, QuietValues(g), V, x, k, j)
  BY WorthSettles
<1>1. V[n][d] = WorthOne(g, QuietValues(g), V, x, n, d)
  BY <1>0
<1>2. \A k \in DOMAIN g.kind, j \in 0..D : Worthy(V[k][j].least, g.free[k]) /\ Worthy(V[k][j].most, g.free[k])
  BY WorthWorthy
<1> HIDE DEF V
<1>3. g.free[n] \in Nat /\ d - 1 \in 0..D
  BY GameIs
<1>4. Chosen(g, n) = {} => V[n][d].least = 0 /\ V[n][d].most = 0
  BY <1>1 DEF WorthOne
<1>5. ASSUME NEW m \in Chosen(g, n)
      PROVE  /\ \A v \in Rises(g, V, x, n, d, m) : v \in Int /\ Worthy(v, g.free[n])
             /\ \A v \in Falls(g, V, x, n, d, m) : v \in Int /\ Worthy(v, g.free[n])
  <2>1. m \in DOMAIN g.next[n] /\ g.next[n][m] \in DOMAIN g.kind
    BY ChosenAre
  <2>2. /\ Worthy(FromChild(V[g.next[n][m]][d - 1].least), g.free[n])
        /\ Worthy(FromChild(V[g.next[n][m]][d].least), g.free[n])
        /\ Worthy(FromChild(V[g.next[n][m]][d - 1].most), g.free[n])
        /\ Worthy(FromChild(V[g.next[n][m]][d].most), g.free[n])
    BY <1>2, <1>3, <2>1, ChildIs
  <2>3. /\ Falls(g, V, x, n, d, m) \subseteq
             {FromChild(V[g.next[n][m]][d - 1].most), FromChild(V[g.next[n][m]][d].most)}
        /\ Rises(g, V, x, n, d, m) \subseteq
             {FromChild(V[g.next[n][m]][d - 1].least), FromChild(V[g.next[n][m]][d].least)}
    BY <1>0, <2>1, OptionsAre
  <2>4. \A v : Worthy(v, g.free[n]) => v \in Int
    BY DEF Worthy
  <2> QED BY <2>2, <2>3, <2>4
<1>6. ASSUME NEW m \in Chosen(g, n), NEW v \in Rises(g, V, x, n, d, m)
      PROVE  AtPly(v, p) <= AtPly(V[n][d].most, p)
  <2>1. m \in DOMAIN g.next[n]
    BY ChosenAre
  <2>2. V[n][d].most = Max(Highs(g, V, x, n, d))
    BY <1>1, <1>6 DEF WorthOne
  <2>3. Max(Rises(g, V, x, n, d, m)) <= V[n][d].most /\ V[n][d].most \in Int
    <3>1. Max(Rises(g, V, x, n, d, m)) \in Highs(g, V, x, n, d) /\ Chosen(g, n) # {}
      BY DEF Highs
    <3>2. /\ Max(Highs(g, V, x, n, d)) \in Int
          /\ \A u \in Highs(g, V, x, n, d) : u <= Max(Highs(g, V, x, n, d))
      BY <1>0, <3>1, LowsAre
    <3> QED BY <2>2, <3>1, <3>2
  <2>4. v <= Max(Rises(g, V, x, n, d, m)) /\ Max(Rises(g, V, x, n, d, m)) \in Int
    BY <1>0, <2>1, MoveIs
  <2>5. v <= V[n][d].most
    BY <1>5, <2>3, <2>4
  <2>6. Worthy(v, g.free[n]) /\ Worthy(V[n][d].most, g.free[n])
    BY <1>2, <1>5
  <2> QED BY <1>3, <2>5, <2>6, WorthyAt
<1>7. ASSUME Chosen(g, n) # {}
      PROVE  \E m \in Chosen(g, n) : \A v \in Falls(g, V, x, n, d, m) : AtPly(V[n][d].least, p) <= AtPly(v, p)
  <2>1. V[n][d].least = Max(Lows(g, V, x, n, d))
    BY <1>1, <1>7 DEF WorthOne
  <2>2. V[n][d].least \in Lows(g, V, x, n, d)
    BY <1>0, <1>7, <2>1, LowsAre
  <2>3. PICK m \in Chosen(g, n) : V[n][d].least = Min(Falls(g, V, x, n, d, m))
    BY <2>2 DEF Lows
  <2>4. m \in DOMAIN g.next[n]
    BY ChosenAre
  <2>5. \A v \in Falls(g, V, x, n, d, m) : V[n][d].least <= v
    BY <1>0, <2>3, <2>4, MoveIs
  <2>6. Worthy(V[n][d].least, g.free[n])
    BY <1>2
  <2>7. \A v \in Falls(g, V, x, n, d, m) : AtPly(V[n][d].least, p) <= AtPly(v, p)
    BY <1>3, <1>5, <2>5, <2>6, WorthyAt
  <2> QED BY <2>7
<1> QED BY <1>4, <1>6, <1>7 DEF V

--------------------------------------------------
(* The stack of a worker. *)

Fields == {"kind", "node", "depth", "alpha", "beta", "ply", "used", "qply", "begun", "alpha0", "left",
           "tried", "best", "at", "exact", "lower", "upper", "call", "child", "hint", "reduced", "layer"}

Shaped(f) ==
  /\ DOMAIN f = Fields
  /\ f.depth \in 0..MaxDepth /\ f.alpha \in Int /\ f.beta \in Int /\ f.alpha0 \in Int /\ f.best \in Int
  /\ f.ply \in Nat /\ f.tried \in Nat /\ f.qply \in 0..MaxQsearchPly /\ f.left \in Seq(Nat)

Flags(f) == f.lower \in BOOLEAN /\ f.upper \in BOOLEAN

(* The references, for a game g. *)
Extends(g) == "extensions" \in g.shortcuts
Values(g) == Worth(g, Extends(g), MaxDepth)

Most(g, f) == IF f.kind = "quiet" THEN QuietValues(g)[f.node][f.qply] ELSE Values(g)[f.node][f.depth].most
Least(g, f) == IF f.kind = "quiet" THEN QuietValues(g)[f.node][f.qply] ELSE Values(g)[f.node][f.depth].least

(* Where a frame looks next, and how deep. *)
NextOf(g, f) == g.next[f.node][f.child]
Extra(g, f, m) == IF Extends(g) /\ f.kind = "inner" /\ f.used = 0 /\ m \in Forcing(g, f.node) THEN 1 ELSE 0
Deeper(g, f) == f.depth - 1 + Extra(g, f, f.child)

(* What a leaf chooses from. *)
QuietMoves(g, n) == IF g.kind[n] = "block" THEN {1} ELSE Forcing(g, n)
QuietOf(g, f, m) == FromChild(QuietValues(g)[g.next[f.node][m]][Quieter(f.qply)])

(* The moves that have not been counted. *)
Open(f, pending) == ToSet(f.left) \cup (IF pending THEN {f.child} ELSE {})

(* Every frame has its place in the game: mates it can see are in range. *)
Placed(g, f) ==
  /\ Shaped(f) /\ Flags(f) /\ f.kind \in {"root", "inner", "quiet"}
  /\ f.node \in DOMAIN g.kind /\ f.ply + g.free[f.node] <= CellCount
  /\ -Infinity <= f.alpha /\ -Infinity <= f.alpha0 /\ f.beta <= Infinity
  /\ IF f.kind = "quiet" THEN f.alpha0 < f.beta /\ ~f.reduced ELSE f.qply = 0

(* A frame whose moves are being tried; one of them may be pending. *)
Goes(g, f, pending) ==
  /\ ~IsFact(g, f.node)
  /\ Open(f, pending) \subseteq DOMAIN g.next[f.node]
  /\ f.best = -Infinity \/ Plausible(f.best, f.ply, g.free[f.node])
  /\ f.best = -Infinity => f.tried = (IF pending THEN 1 ELSE 0)
  /\ f.tried = 0 => f.left # <<>>
  /\ pending => f.tried >= 1
  /\ pending \/ f.left # <<>> => f.alpha < f.beta
  /\ f.kind # "quiet" => f.depth >= 1

(* A leaf knows what its best score says on either side of its window. *)
QuietTruth(g, f, pending) ==
  /\ f.alpha = Larger(f.alpha0, f.best)
  /\ f.best > f.alpha0 => f.best <= AtPly(QuietValues(g)[f.node][f.qply], f.ply)
  /\ f.best < f.beta =>
       /\ g.kind[f.node] # "block" => g.static[f.node] <= f.best
       /\ \A m \in QuietMoves(g, f.node) \ Open(f, pending) : AtPly(QuietOf(g, f, m), f.ply) <= f.best
  /\ g.kind[f.node] # "block" => f.qply # MaxQsearchPly
  /\ Open(f, pending) \subseteq QuietMoves(g, f.node)

(* What the flags of an inner frame say of its best score. *)
InnerTruth(g, f, pending) ==
  /\ f.lower => f.best <= AtPly(Values(g)[f.node][f.depth].most, f.ply)
  /\ f.upper => \A m \in Chosen(g, f.node) \ Open(f, pending) :
                  \E v \in Falls(g, Values(g), Extends(g), f.node, f.depth, m) : AtPly(v, f.ply) <= f.best
  /\ Open(f, pending) \subseteq Chosen(g, f.node)
  /\ Chosen(g, f.node) # {}

(* The wider root of the principal may see what the reference does not. *)
Knows(g, w, f) == f.kind = "inner" \/ (f.kind = "root" /\ ~(g.adaptive /\ w = Principal))

Tries(g, w, f, pending) ==
  /\ Goes(g, f, pending)
  /\ f.kind = "quiet" => QuietTruth(g, f, pending)
  /\ Knows(g, w, f) => InnerTruth(g, f, pending)

Unbegun(f) ==
  /\ f.alpha < f.beta /\ f.alpha0 = f.alpha /\ f.best = -Infinity /\ ~f.lower /\ f.upper
  /\ f.tried = 0 /\ ~f.reduced

Waits(g, w, f) ==
  IF f.call = "razor"
  THEN f.kind = "inner" /\ ~f.begun /\ Unbegun(f) /\ ~IsFact(g, f.node) /\ ~Closed(f) /\ f.depth >= 1
  ELSE /\ f.begun /\ f.call # "none" /\ f.child \in DOMAIN g.next[f.node]
       /\ (f.kind = "quiet" <=> f.call = "quiet") /\ Tries(g, w, f, TRUE)

Current(g, w, f) ==
  IF f.begun THEN Tries(g, w, f, FALSE)
  ELSE Unbegun(f) /\ (f.kind = "root" => g.kind[f.node] = "open" /\ g.near[f.node] >= 1 /\ f.depth >= 1)

(* A frame and the one it called. *)
Called(g, f, c) ==
  IF f.call = "razor" THEN c.kind = "quiet" /\ c.node = f.node /\ c.ply = f.ply
  ELSE /\ c.node = NextOf(g, f) /\ c.ply = f.ply + 1
       /\ f.kind = "quiet" =>
            c.kind = "quiet" /\ c.qply = Quieter(f.qply) /\ c.alpha0 = -f.beta /\ c.beta = -f.alpha
       /\ f.kind # "quiet" /\ f.call # "reduced" /\ ~c.reduced =>
            /\ Most(g, c) = Values(g)[NextOf(g, f)][Deeper(g, f)].most
            /\ Least(g, c) = Values(g)[NextOf(g, f)][Deeper(g, f)].least

(* What a result says of the position it was found for. *)
Truthful(g, f, r) ==
  /\ r \in Results /\ Plausible(r.score, f.ply, g.free[f.node])
  /\ f.kind = "quiet" =>
       /\ r.score > f.alpha0 => r.score <= AtPly(Most(g, f), f.ply)
       /\ r.score < f.beta => AtPly(Most(g, f), f.ply) <= r.score
  /\ r.lower => ~f.reduced /\ r.score <= AtPly(Most(g, f), f.ply)
  /\ r.upper => ~f.reduced /\ AtPly(Least(g, f), f.ply) <= r.score

(* What it says of the position it was asked for. *)
Answers(g, f, r) ==
  /\ r \in Results
  /\ IF f.call = "razor" THEN Plausible(r.score, f.ply, g.free[f.node])
     ELSE /\ Plausible(-r.score, f.ply, g.free[f.node])
          /\ f.kind = "quiet" =>
               /\ -r.score > f.alpha => -r.score <= AtPly(QuietOf(g, f, f.child), f.ply)
               /\ -r.score < f.beta => AtPly(QuietOf(g, f, f.child), f.ply) <= -r.score
          /\ f.kind # "quiet" /\ f.call # "reduced" =>
               /\ r.upper => -r.score <= AtPly(FromChild(Values(g)[NextOf(g, f)][Deeper(g, f)].least), f.ply)
               /\ r.lower => AtPly(FromChild(Values(g)[NextOf(g, f)][Deeper(g, f)].most), f.ply) <= -r.score

IsSeq(s) == \E S : s \in Seq(S)

(* The frames of a worker, each waiting for the next; r is what the last *)
(* one was told, if it was. *)
Stacked(g, w, s, r) ==
  /\ IsSeq(s) /\ s # <<>>
  /\ \A i \in 1..Len(s) : Placed(g, s[i]) /\ (s[i].kind = "root" <=> i = 1)
  /\ \A i \in 1..Len(s) - 1 : Waits(g, w, s[i]) /\ Called(g, s[i], s[i + 1])
  /\ IF r = Nothing THEN Current(g, w, Last(s)) ELSE Waits(g, w, Last(s)) /\ Answers(g, Last(s), r)

--------------------------------------------------
(* Workers, the table, and the engine. *)

WorkerFields == {"phase", "depth", "previous", "delta", "window", "returned", "stack"}
Sane(score) == score \in Int /\ -Infinity < score /\ score < Infinity

Works(g, w, k) ==
  /\ DOMAIN k = WorkerFields
  /\ k.phase \in {"idle", "boundary", "search", "judge"} /\ k.depth \in 0..MaxDepth /\ Sane(k.previous)
  /\ k.phase \in {"search", "judge"} => k.depth >= 1 /\ k.delta \in Nat \ {0}
  /\ k.phase = "judge" => Sane(k.returned.score)
  /\ k.phase = "search" => Stacked(g, w, k.stack, k.returned)

TrueEntry(g, n, e) ==
  /\ e.depth \in 0..MaxDepth /\ e.score \in Int
  /\ e.bound \in {"Empty", "Lower", "Upper", "Exact"}
  /\ e.bound # "Empty" => Plausible(e.score, 0, g.free[n])
  /\ e.bound \in {"Lower", "Exact"} => e.score <= Values(g)[n][e.depth].most
  /\ e.bound \in {"Upper", "Exact"} => Values(g)[n][e.depth].least <= e.score
TableTrue(g, t) == DOMAIN t = DOMAIN g.kind /\ \A n \in DOMAIN g.kind : TrueEntry(g, n, t[n])

IInv ==
  /\ game \in DOMAIN AllGames /\ search \in Nat
  /\ DOMAIN worker = Workers
  /\ team = "idle" => \A w \in Workers : worker[w].phase = "idle"
  /\ ~G.competitive => TableTrue(G, table)
  /\ Normal /\ ~G.competitive /\ team # "idle" =>
       /\ search \in DOMAIN G.roots /\ G.kind[Root] = "open"
       /\ \A w \in Workers : Works(G, w, worker[w])

--------------------------------------------------
(* Stacks. *)

(* All but the last element of a sequence. *)
LEMMA FrontIs ==
  ASSUME NEW S, NEW s \in Seq(S), s # <<>>
  PROVE  /\ Len(s) \in Nat \ {0} /\ Front(s) \in Seq(S) /\ Len(Front(s)) = Len(s) - 1
         /\ \A i \in 1..Len(s) - 1 : Front(s)[i] = s[i]
<1> DEFINE n == Len(s) - 1
<1>1. Len(s) \in Nat \ {0} /\ \A i \in 1..Len(s) : s[i] \in S
  <2>1. Len(s) \in Nat /\ s \in [1..Len(s) -> S]
    BY LenProperties
  <2>2. Len(s) # 0
    BY EmptySeq
  <2> QED BY <2>1, <2>2
<1>2. n \in Int /\ 1 \in Int /\ n >= 0 /\ \A i \in 1..n : s[i] \in S
  BY <1>1
<1>3. Front(s) = SubSeq(s, 1, n)
  BY DEF Front
<1> HIDE DEF n
<1>4. /\ SubSeq(s, 1, n) \in Seq(S) /\ Len(SubSeq(s, 1, n)) = IF 1 <= n THEN n - 1 + 1 ELSE 0
      /\ \A i \in 1..n - 1 + 1 : SubSeq(s, 1, n)[i] = s[1 + i - 1]
  BY <1>2, SubSeqProperties
<1>5. Len(Front(s)) = n
  BY <1>2, <1>3, <1>4
<1>6. \A i \in 1..n : Front(s)[i] = s[i]
  <2> TAKE i \in 1..n
  <2>1. i \in 1..n - 1 + 1 /\ 1 + i - 1 = i
    BY <1>2
  <2> QED BY <2>1, <1>3, <1>4
<1> QED BY <1>1, <1>3, <1>4, <1>5, <1>6 DEF n

(* What replacing, pushing and popping do to a stack. *)
Replaced(s, h, t) ==
  /\ IsSeq(t) /\ t # <<>> /\ Len(s) \in Nat \ {0} /\ Len(t) = Len(s) /\ t[Len(s)] = h /\ Last(t) = h
  /\ \A i \in 1..Len(s) - 1 : t[i] = s[i]
Pushed(s, h, c, t) ==
  /\ IsSeq(t) /\ t # <<>> /\ Len(s) \in Nat \ {0} /\ Len(t) = Len(s) + 1 /\ t[Len(s)] = h /\ t[Len(s) + 1] = c
  /\ Last(t) = c /\ \A i \in 1..Len(s) - 1 : t[i] = s[i]

(* Replace, seen on a stack. *)
LEMMA ReplacedTop ==
  ASSUME NEW s, IsSeq(s), s # <<>>, NEW h
  PROVE  Replaced(s, h, Append(Front(s), h))
<1> DEFINE t == Append(Front(s), h)
<1>0. PICK S : s \in Seq(S)
  BY DEF IsSeq
<1>1. Len(s) \in Nat \ {0} /\ Front(s) \in Seq(S) /\ Len(Front(s)) = Len(s) - 1
      /\ \A i \in 1..Len(s) - 1 : Front(s)[i] = s[i]
  BY <1>0, FrontIs
<1> DEFINE F == Front(s)  T == S \cup {h}
<1>2. F \in Seq(T) /\ h \in T
  <2>1. S \subseteq T
    OBVIOUS
  <2> QED BY <1>1, <2>1, SeqMonotonic
<1> HIDE DEF F, T
<1>3. t = Append(F, h)
  BY DEF F
<1>4. t \in Seq(T) /\ Len(t) = Len(F) + 1 /\ t[Len(F) + 1] = h /\ \A i \in 1..Len(F) : t[i] = F[i]
  BY <1>2, <1>3, AppendProperties
<1>5. Len(t) = Len(s)
  BY <1>1, <1>4 DEF F
<1>6. t # <<>>
  BY <1>1, <1>4, <1>5
<1>7. Replaced(s, h, t)
  BY <1>1, <1>4, <1>5, <1>6 DEF Replaced, IsSeq, F, Last
<1> QED BY <1>7

(* Push, seen on a stack. *)
LEMMA PushedTop ==
  ASSUME NEW s, IsSeq(s), s # <<>>, NEW h, NEW c
  PROVE  Pushed(s, h, c, Append(Append(Front(s), h), c))
<1> DEFINE t == Append(Append(Front(s), h), c)
<1>0. PICK S : s \in Seq(S)
  BY DEF IsSeq
<1> DEFINE u == Append(Front(s), h)
<1>1. /\ IsSeq(u)
      /\ u # <<>> /\ Len(s) \in Nat \ {0} /\ Len(u) = Len(s) /\ u[Len(s)] = h
      /\ \A i \in 1..Len(s) - 1 : u[i] = s[i]
  <2>1. Replaced(s, h, u)
    BY ReplacedTop
  <2> HIDE DEF u
  <2> QED BY <2>1 DEF Replaced
<1> HIDE DEF u
<1>2. PICK T : u \in Seq(T)
  BY <1>1 DEF IsSeq
<1> DEFINE X == T \cup {c}
<1>3. u \in Seq(X) /\ c \in X
  <2>1. T \subseteq X
    OBVIOUS
  <2> QED BY <1>2, <2>1, SeqMonotonic
<1> HIDE DEF X
<1>4. t = Append(u, c)
  BY DEF u
<1>5. t \in Seq(X) /\ Len(t) = Len(u) + 1 /\ t[Len(u) + 1] = c /\ \A i \in 1..Len(u) : t[i] = u[i]
  BY <1>3, <1>4, AppendProperties
<1>6. t # <<>>
  BY <1>1, <1>5
<1>7. Pushed(s, h, c, t)
  BY <1>1, <1>5, <1>6 DEF Pushed, IsSeq, Last
<1> QED BY <1>7

(* Pop, seen on a stack. *)
LEMMA PoppedTop ==
  ASSUME NEW s, IsSeq(s), Len(s) # 1, s # <<>>, NEW t, t = Front(s)
  PROVE  /\ IsSeq(t)
         /\ t # <<>> /\ Len(s) \in Nat /\ Len(s) > 1 /\ Len(t) = Len(s) - 1 /\ Last(t) = s[Len(s) - 1]
         /\ \A i \in 1..Len(s) - 1 : t[i] = s[i]
<1>0. PICK S : s \in Seq(S)
  BY DEF IsSeq
<1>1. Len(s) \in Nat \ {0} /\ t \in Seq(S) /\ Len(t) = Len(s) - 1
      /\ \A i \in 1..Len(s) - 1 : t[i] = s[i]
  BY <1>0, FrontIs
<1>2. t # <<>> /\ Len(s) > 1
  BY <1>1
<1> QED BY <1>1, <1>2 DEF IsSeq, Last

(* Another frame in the place of the last one, of which its caller can say *)
(* the same. *)
Follows(g, f, h) ==
  /\ Placed(g, h) /\ (h.kind = "root" <=> f.kind = "root")
  /\ \A p : Called(g, p, f) => Called(g, p, h)

(* The stack stays sound when its top goes on. *)
LEMMA ReplaceOk ==
  ASSUME NEW g, NEW w, NEW s, NEW r, Stacked(g, w, s, r), NEW h, Follows(g, Last(s), h), Current(g, w, h)
  PROVE  Stacked(g, w, Append(Front(s), h), Nothing)
<1> DEFINE t == Append(Front(s), h)  n == Len(s)
<1>1. /\ IsSeq(s) /\ s # <<>>
      /\ \A i \in 1..n : Placed(g, s[i]) /\ (s[i].kind = "root" <=> i = 1)
      /\ \A i \in 1..n - 1 : Waits(g, w, s[i]) /\ Called(g, s[i], s[i + 1])
  BY DEF Stacked
<1>2. /\ IsSeq(t)
      /\ t # <<>> /\ n \in Nat \ {0} /\ Len(t) = n /\ t[n] = h /\ Last(t) = h
      /\ \A i \in 1..n - 1 : t[i] = s[i]
  <2>1. Replaced(s, h, t)
    BY <1>1, ReplacedTop
  <2> HIDE DEF t
  <2> QED BY <2>1 DEF Replaced
<1>3. /\ Placed(g, h) /\ (h.kind = "root" <=> s[n].kind = "root")
      /\ \A p : Called(g, p, s[n]) => Called(g, p, h)
  BY DEF Follows, Last
<1> HIDE DEF t
<1>4. \A i \in 1..n : Placed(g, t[i]) /\ (t[i].kind = "root" <=> i = 1)
  <2> TAKE i \in 1..n
  <2>1. i = n \/ i \in 1..n - 1
    BY <1>2
  <2>2. CASE i = n
    BY <1>1, <1>2, <1>3, <2>2
  <2>3. CASE i \in 1..n - 1
    BY <1>1, <1>2, <2>3
  <2> QED BY <2>1, <2>2, <2>3
<1>5. \A i \in 1..n - 1 : Waits(g, w, t[i]) /\ Called(g, t[i], t[i + 1])
  <2> TAKE i \in 1..n - 1
  <2>1. t[i] = s[i] /\ Waits(g, w, s[i]) /\ Called(g, s[i], s[i + 1])
    BY <1>1, <1>2
  <2>2. (i + 1 = n /\ t[i + 1] = h) \/ t[i + 1] = s[i + 1]
    <3>1. i + 1 = n \/ i + 1 \in 1..n - 1
      BY <1>2
    <3> QED BY <3>1, <1>2
  <2> QED BY <2>1, <2>2, <1>3
<1>6. Stacked(g, w, t, Nothing)
  BY <1>2, <1>4, <1>5, Zenon DEF Stacked
<1> QED BY <1>6 DEF t

(* The stack stays sound when its top calls. *)
LEMMA PushOk ==
  ASSUME NEW g, NEW w, NEW s, NEW r, Stacked(g, w, s, r), NEW h, Follows(g, Last(s), h), Waits(g, w, h),
         NEW c, Placed(g, c), c.kind # "root", Current(g, w, c), Called(g, h, c)
  PROVE  Stacked(g, w, Append(Append(Front(s), h), c), Nothing)
<1> DEFINE t == Append(Append(Front(s), h), c)  n == Len(s)
<1>1. /\ IsSeq(s) /\ s # <<>>
      /\ \A i \in 1..n : Placed(g, s[i]) /\ (s[i].kind = "root" <=> i = 1)
      /\ \A i \in 1..n - 1 : Waits(g, w, s[i]) /\ Called(g, s[i], s[i + 1])
  BY DEF Stacked
<1>2. /\ IsSeq(t)
      /\ t # <<>> /\ n \in Nat \ {0} /\ Len(t) = n + 1 /\ t[n] = h /\ t[n + 1] = c /\ Last(t) = c
      /\ \A i \in 1..n - 1 : t[i] = s[i]
  <2>1. Pushed(s, h, c, t)
    BY <1>1, PushedTop
  <2> HIDE DEF t
  <2> QED BY <2>1 DEF Pushed
<1>3. /\ Placed(g, h) /\ (h.kind = "root" <=> s[n].kind = "root")
      /\ \A p : Called(g, p, s[n]) => Called(g, p, h)
  BY DEF Follows, Last
<1> HIDE DEF t
<1>4. \A i \in 1..n + 1 : Placed(g, t[i]) /\ (t[i].kind = "root" <=> i = 1)
  <2> TAKE i \in 1..n + 1
  <2>1. i = n + 1 \/ i = n \/ i \in 1..n - 1
    BY <1>2
  <2>2. CASE i = n + 1
    BY <1>2, <2>2
  <2>3. CASE i = n
    BY <1>1, <1>2, <1>3, <2>3
  <2>4. CASE i \in 1..n - 1
    BY <1>1, <1>2, <2>4
  <2> QED BY <2>1, <2>2, <2>3, <2>4
<1>5. \A i \in 1..n : Waits(g, w, t[i]) /\ Called(g, t[i], t[i + 1])
  <2> TAKE i \in 1..n
  <2>1. i = n \/ i \in 1..n - 1
    BY <1>2
  <2>2. CASE i = n
    BY <1>2, <2>2
  <2>3. CASE i \in 1..n - 1
    <3>1. t[i] = s[i] /\ Waits(g, w, s[i]) /\ Called(g, s[i], s[i + 1])
      BY <1>1, <1>2, <2>3
    <3>2. (i + 1 = n /\ t[i + 1] = h) \/ t[i + 1] = s[i + 1]
      <4>1. i + 1 = n \/ i + 1 \in 1..n - 1
        BY <1>2, <2>3
      <4> QED BY <4>1, <1>2
    <3> QED BY <3>1, <3>2, <1>3
  <2> QED BY <2>1, <2>2, <2>3
<1>6. Len(t) = n + 1 /\ Len(t) - 1 = n
  BY <1>2
<1>7. Stacked(g, w, t, Nothing)
  BY <1>2, <1>4, <1>5, <1>6, Zenon DEF Stacked
<1> QED BY <1>7 DEF t

(* The stack stays sound when its top returns what it owes its caller. *)
LEMMA PopOk ==
  ASSUME NEW g, NEW w, NEW s, NEW r, Stacked(g, w, s, r), Last(s).kind # "root", NEW a, a # Nothing,
         \A p : Placed(g, p) /\ Waits(g, w, p) /\ Called(g, p, Last(s)) => Answers(g, p, a)
  PROVE  Stacked(g, w, Front(s), a)
<1> DEFINE t == Front(s)  n == Len(s)
<1>1. /\ IsSeq(s) /\ s # <<>>
      /\ \A i \in 1..n : Placed(g, s[i]) /\ (s[i].kind = "root" <=> i = 1)
      /\ \A i \in 1..n - 1 : Waits(g, w, s[i]) /\ Called(g, s[i], s[i + 1])
  BY DEF Stacked
<1>2. n # 1
  BY <1>1 DEF Last
<1>3. /\ IsSeq(t)
      /\ t # <<>> /\ n \in Nat /\ n > 1 /\ Len(t) = n - 1 /\ Last(t) = s[n - 1]
      /\ \A i \in 1..n - 1 : t[i] = s[i]
  BY <1>1, <1>2, PoppedTop
<1> HIDE DEF t
<1>4. \A i \in 1..n - 1 : Placed(g, t[i]) /\ (t[i].kind = "root" <=> i = 1)
  BY <1>1, <1>3
<1>5. \A i \in 1..n - 1 - 1 : Waits(g, w, t[i]) /\ Called(g, t[i], t[i + 1])
  <2> TAKE i \in 1..n - 1 - 1
  <2>1. i \in 1..n - 1 /\ i + 1 \in 1..n - 1
    BY <1>3
  <2> QED BY <2>1, <1>1, <1>3
<1>6. Waits(g, w, Last(t)) /\ Answers(g, Last(t), a)
  <2>1. n - 1 \in 1..n /\ n - 1 \in 1..n - 1 /\ (n - 1) + 1 = n
    BY <1>3
  <2>2. Placed(g, s[n - 1]) /\ Waits(g, w, s[n - 1]) /\ Called(g, s[n - 1], Last(s))
    BY <2>1, <1>1 DEF Last
  <2> QED BY <2>2, <1>3
<1>7. Stacked(g, w, t, a)
  BY <1>3, <1>4, <1>5, <1>6, Zenon DEF Stacked
<1> QED BY <1>7 DEF t

(* The last frame of a stack. *)
LEMMA TopIs ==
  ASSUME NEW g, NEW w, NEW s, NEW r, Stacked(g, w, s, r)
  PROVE  /\ Placed(g, Last(s)) /\ s # <<>> /\ (Last(s).kind = "root" => Len(s) = 1)
         /\ r = Nothing => Current(g, w, Last(s))
         /\ r # Nothing => Waits(g, w, Last(s)) /\ Answers(g, Last(s), r)
<1>1. /\ IsSeq(s) /\ s # <<>>
      /\ \A i \in 1..Len(s) : Placed(g, s[i]) /\ (s[i].kind = "root" <=> i = 1)
  BY DEF Stacked
<1>2. Len(s) \in 1..Len(s)
  BY <1>1 DEF IsSeq
<1>3. Placed(g, Last(s)) /\ s # <<>> /\ (Last(s).kind = "root" => Len(s) = 1)
  BY <1>1, <1>2 DEF Last
<1> QED BY <1>3, Zenon DEF Stacked

--------------------------------------------------
(* Orders of moves. *)

(* The head of what is left, and the rest. *)
LEMMA LeftIs ==
  ASSUME NEW s \in Seq(Nat), s # <<>>
  PROVE  /\ Tail(s) \in Seq(Nat) /\ Head(s) \in Nat
         /\ ToSet(Tail(s)) \cup {Head(s)} = ToSet(s)
<1>1. /\ Head(s) \in Nat /\ Tail(s) \in Seq(Nat) /\ Len(Tail(s)) = Len(s) - 1
      /\ \A i \in 1..Len(Tail(s)) : Tail(s)[i] = s[i + 1]
  BY HeadTailProperties
<1>2. Len(s) \in Nat /\ DOMAIN s = 1..Len(s) /\ DOMAIN Tail(s) = 1..Len(Tail(s)) /\ Len(s) # 0
  BY <1>1, LenProperties, EmptySeq
<1>3. Head(s) = s[1]
  BY <1>2
<1> DEFINE t == Tail(s)
<1>4. /\ Len(t) = Len(s) - 1 /\ \A i \in 1..Len(t) : t[i] = s[i + 1]
      /\ DOMAIN t = 1..Len(t)
  BY <1>1, <1>2
<1> HIDE DEF t
<1>5. ToSet(t) \cup {s[1]} = ToSet(s)
  <2>1. ASSUME NEW x \in ToSet(t) PROVE x \in ToSet(s)
    <3>1. PICK i \in 1..Len(t) : x = t[i]
      BY <1>4 DEF ToSet
    <3>2. i + 1 \in DOMAIN s /\ x = s[i + 1]
      BY <1>2, <1>4, <3>1
    <3> QED BY <3>2 DEF ToSet
  <2>2. s[1] \in ToSet(s)
    <3>1. 1 \in DOMAIN s
      BY <1>2
    <3> QED BY <3>1 DEF ToSet
  <2>3. ASSUME NEW x \in ToSet(s) PROVE x = s[1] \/ x \in ToSet(t)
    <3>1. PICK i \in 1..Len(s) : x = s[i]
      BY <1>2 DEF ToSet
    <3>2. CASE i = 1
      BY <3>1, <3>2
    <3>3. CASE i # 1
      <4>1. i - 1 \in DOMAIN t /\ t[i - 1] = s[i - 1 + 1] /\ i - 1 + 1 = i
        BY <1>2, <1>4, <3>3
      <4> QED BY <3>1, <4>1 DEF ToSet
    <3> QED BY <3>2, <3>3
  <2> QED BY <2>1, <2>2, <2>3
<1> QED BY <1>1, <1>3, <1>5 DEF t

(* No moves are left. *)
LEMMA NothingLeft == ToSet(<<>>) = {} /\ <<>> \in Seq(Nat)
BY DEF ToSet

(* An order of some moves has these moves. *)
LEMMA OrderIs ==
  ASSUME NEW S \in SUBSET Nat, IsFiniteSet(S), NEW s \in SetToSeqs(S)
  PROVE  s \in Seq(Nat) /\ ToSet(s) = S /\ (S # {} => s # <<>>)
<1> DEFINE n == Cardinality(S)
<1>1. n \in Nat
  BY FS_CardinalityType
<1>2. s \in [1..n -> S] /\ \A i, j \in 1..n : i # j => s[i] # s[j]
  BY DEF SetToSeqs
<1>3. s \in Injection(1..n, S)
  BY <1>2 DEF Injection, IsInjective
<1>4. Cardinality(1..n) = n
  BY <1>1, FS_Interval
<1>5. s \in Surjection(1..n, S)
  BY <1>3, <1>4, FS_Injection
<1>6. ToSet(s) = S
  BY <1>2, <1>5 DEF Surjection, ToSet
<1>7. s \in Seq(Nat)
  <2> HIDE DEF n
  <2>1. s \in [1..n -> Nat]
    BY <1>2
  <2> QED BY <1>1, <2>1, SeqDef
<1> QED BY <1>6, <1>7, NothingLeft

(* So has an order of move_ordering. *)
LEMMA OrdersAre ==
  ASSUME NEW n, NEW S \in SUBSET Nat, IsFiniteSet(S), NEW hint, NEW s \in Orders(n, S, hint)
  PROVE  s \in Seq(Nat) /\ ToSet(s) = S /\ (S # {} => s # <<>>)
<1>1. s \in SetToSeqs(S)
  BY DEF Orders
<1> QED BY <1>1, OrderIs

(* And one of a helper. *)
LEMMA RotatedIs ==
  ASSUME NEW s \in Seq(Nat), NEW w
  PROVE  /\ Rotated(s, w) \in Seq(Nat) /\ ToSet(Rotated(s, w)) = ToSet(s)
         /\ s # <<>> => Rotated(s, w) # <<>>
<1>1. CASE w = Principal \/ s = <<>>
  BY <1>1 DEF Rotated
<1>2. CASE ~(w = Principal \/ s = <<>>)
  <2> DEFINE t == Tail(s)  h == Head(s)  u == Append(t, h)
  <2>1. Rotated(s, w) = u
    BY <1>2 DEF Rotated
  <2>2. t \in Seq(Nat) /\ h \in Nat /\ ToSet(t) \cup {h} = ToSet(s)
    BY <1>2, LeftIs
  <2> HIDE DEF t, h
  <2>3. /\ u \in Seq(Nat) /\ u # <<>> /\ Len(u) = Len(t) + 1 /\ \A i \in 1..Len(t) : u[i] = t[i]
        /\ u[Len(t) + 1] = h
    BY <2>2, AppendProperties, SMTT(30)
  <2>4. Len(t) \in Nat /\ DOMAIN t = 1..Len(t) /\ DOMAIN u = 1..Len(t) + 1
    BY <2>2, <2>3, LenProperties
  <2> HIDE DEF u
  <2>5. ToSet(u) = ToSet(t) \cup {h}
    <3>1. \A i \in 1..Len(t) + 1 : i = Len(t) + 1 \/ i \in 1..Len(t)
      BY <2>4
    <3>2. \A i \in 1..Len(t) : i \in 1..Len(t) + 1
      BY <2>4
    <3>3. Len(t) + 1 \in 1..Len(t) + 1
      BY <2>4
    <3>4. \A x \in ToSet(u) : x \in ToSet(t) \cup {h}
      BY <2>3, <2>4, <3>1 DEF ToSet
    <3>5. \A x \in ToSet(t) : x \in ToSet(u)
      BY <2>3, <2>4, <3>2 DEF ToSet
    <3>6. h \in ToSet(u)
      BY <2>3, <2>4, <3>3 DEF ToSet
    <3> QED BY <3>4, <3>5, <3>6
  <2> QED BY <2>1, <2>2, <2>3, <2>5
<1> QED BY <1>1, <1>2

--------------------------------------------------
(* What a worker does to its own state. *)

Searching(w) ==
  /\ game \in DOMAIN AllGames /\ Normal /\ ~G.competitive /\ w \in Workers
  /\ DOMAIN worker = Workers /\ Works(G, w, worker[w]) /\ TableTrue(G, table)

Stepped(w) ==
  /\ DOMAIN worker' = Workers /\ Works(G, w, worker'[w])
  /\ \A v \in Workers : v # w => worker'[v] = worker[v]

(* The game of a search is a game. *)
LEMMA GameOk ==
  ASSUME game \in DOMAIN AllGames
  PROVE  IsGame(G) /\ G.depth \in 0..MaxDepth /\ MaxDepth \in Nat /\ Aspiration \in Nat \ {0}
BY AlphaBetaAssumption DEF G, AllGames

Restacked(w, s, r) ==
  /\ DOMAIN worker' = Workers /\ \A v \in Workers : v # w => worker'[v] = worker[v]
  /\ DOMAIN worker'[w] = WorkerFields
  /\ worker'[w].phase = worker[w].phase /\ worker'[w].depth = worker[w].depth
  /\ worker'[w].previous = worker[w].previous /\ worker'[w].delta = worker[w].delta
  /\ worker'[w].stack = s /\ worker'[w].returned = r

(* Other workers, and what a worker iterates over, stay. *)
LEMMA WorkerIs ==
  ASSUME NEW w \in Workers, DOMAIN worker = Workers, DOMAIN worker[w] = WorkerFields, NEW s, NEW r,
         worker' = [worker EXCEPT ![w].stack = s, ![w].returned = r]
  PROVE  Restacked(w, s, r)
<1>1. DOMAIN worker' = Workers /\ \A v \in Workers : v # w => worker'[v] = worker[v]
  OBVIOUS
<1> DEFINE k == worker[w]
           j == [[k EXCEPT !.stack = s] EXCEPT !.returned = r]
<1>2. worker'[w] = j
  OBVIOUS
<1>3. DOMAIN j = DOMAIN k
  BY Zenon
<1>4. DOMAIN k = WorkerFields =>
        /\ j.phase = k.phase /\ j.depth = k.depth /\ j.previous = k.previous /\ j.delta = k.delta
        /\ j.stack = s /\ j.returned = r
  <2> HIDE DEF k
  <2> QED BY DEF WorkerFields
<1> QED BY <1>1, <1>2, <1>3, <1>4 DEF Restacked

(* A sound stack is all a step within an iteration owes. *)
LEMMA RestackWorks ==
  ASSUME NEW w, Searching(w), worker[w].phase = "search", NEW s, NEW r,
         worker' = [worker EXCEPT ![w].stack = s, ![w].returned = r], Stacked(G, w, s, r)
  PROVE  Stepped(w)
<1>1. w \in Workers /\ DOMAIN worker = Workers /\ Works(G, w, worker[w])
  BY DEF Searching
<1>2. DOMAIN worker[w] = WorkerFields
  BY <1>1 DEF Works
<1>3. /\ DOMAIN worker' = Workers /\ \A v \in Workers : v # w => worker'[v] = worker[v]
      /\ DOMAIN worker'[w] = WorkerFields
      /\ worker'[w].phase = worker[w].phase /\ worker'[w].depth = worker[w].depth
      /\ worker'[w].previous = worker[w].previous /\ worker'[w].delta = worker[w].delta
      /\ worker'[w].stack = s /\ worker'[w].returned = r
  <2>1. Restacked(w, s, r)
    BY <1>1, <1>2, WorkerIs
  <2> QED BY <2>1 DEF Restacked
<1>4. Works(G, w, worker'[w])
  <2> DEFINE k == worker[w]  j == worker'[w]
  <2>1. /\ DOMAIN j = WorkerFields /\ j.phase = "search" /\ j.depth = k.depth /\ j.previous = k.previous
        /\ j.delta = k.delta /\ Stacked(G, w, j.stack, j.returned)
    BY <1>3
  <2>2. Works(G, w, k) /\ k.phase = "search"
    BY <1>1
  <2> HIDE DEF k, j
  <2>3. Works(G, w, j)
    BY <2>1, <2>2, Zenon DEF Works
  <2> QED BY <2>3 DEF j
<1> QED BY <1>3, <1>4 DEF Stepped

(* What a worker that searches may rely on. *)
LEMMA SearchIs ==
  ASSUME NEW w, Searching(w), worker[w].phase = "search"
  PROVE  /\ Stacked(G, w, Stack(w), Returned(w)) /\ IsGame(G)
         /\ Placed(G, Top(w)) /\ Stack(w) # <<>> /\ (Top(w).kind = "root" => Len(Stack(w)) = 1)
         /\ Returned(w) = Nothing => Current(G, w, Top(w))
         /\ Returned(w) # Nothing => Waits(G, w, Top(w)) /\ Answers(G, Top(w), Returned(w))
<1>1. Stacked(G, w, Stack(w), Returned(w))
  BY Zenon DEF Searching, Works, Stack, Returned
<1>2. IsGame(G)
  BY GameOk DEF Searching
<1> QED BY <1>1, <1>2, TopIs DEF Top

(* A step that goes on in its frame. *)
LEMMA ReplaceWorks ==
  ASSUME NEW w, Searching(w), worker[w].phase = "search", NEW h, worker' = Replace(w, h),
         Follows(G, Top(w), h), Current(G, w, h)
  PROVE  Stepped(w)
<1>1. Stacked(G, w, Stack(w), Returned(w))
  BY SearchIs
<1>2. Stacked(G, w, Append(Front(Stack(w)), h), Nothing)
  BY <1>1, ReplaceOk DEF Top
<1>3. worker' = [worker EXCEPT ![w].stack = Append(Front(@), h), ![w].returned = Nothing]
  BY DEF Replace
<1>4. worker' = [worker EXCEPT ![w].stack = Append(Front(Stack(w)), h), ![w].returned = Nothing]
  BY <1>3 DEF Stack
<1> QED BY <1>2, <1>4, RestackWorks

(* A step that calls. *)
LEMMA PushWorks ==
  ASSUME NEW w, Searching(w), worker[w].phase = "search", NEW h, NEW c, worker' = Push(w, h, c),
         Follows(G, Top(w), h), Waits(G, w, h), Placed(G, c), c.kind # "root", Current(G, w, c), Called(G, h, c)
  PROVE  Stepped(w)
<1>1. Stacked(G, w, Stack(w), Returned(w))
  BY SearchIs
<1>2. Stacked(G, w, Append(Append(Front(Stack(w)), h), c), Nothing)
  BY <1>1, PushOk DEF Top
<1>3. worker' = [worker EXCEPT ![w].stack = Append(Append(Front(Stack(w)), h), c), ![w].returned = Nothing]
  BY DEF Push, Stack
<1> QED BY <1>2, <1>3, RestackWorks

(* A result that is true of its own frame answers the one that asked. *)
LEMMA TruthAnswers ==
  ASSUME NEW g, IsGame(g), NEW w, NEW p, NEW f, NEW r,
         Placed(g, p), Waits(g, w, p), Called(g, p, f), Placed(g, f), Truthful(g, f, r)
  PROVE  Answers(g, p, r)
<1>1. r \in Results /\ r.score \in Int
  BY DEF Truthful, Results
<1>2. CASE p.call = "razor"
  BY <1>2 DEF Answers, Called, Truthful
<1>3. CASE p.call # "razor"
  <2> DEFINE n == NextOf(g, p)
  <2>1. /\ p.node \in DOMAIN g.kind /\ p.child \in DOMAIN g.next[p.node] /\ p.ply \in Nat
        /\ p.ply + g.free[p.node] <= CellCount /\ f.node = n /\ f.ply = p.ply + 1
    BY <1>3 DEF Placed, Shaped, Waits, Called
  <2>2. /\ n \in DOMAIN g.kind /\ g.free[n] \in Nat /\ g.free[p.node] \in Nat /\ g.free[n] < g.free[p.node]
    BY <2>1, GameIs DEF NextOf
  <2>3. p.ply + 1 + g.free[n] <= CellCount
    BY <2>1, <2>2
  <2>4. Plausible(-r.score, p.ply, g.free[p.node])
    BY <2>1, <2>2, Negation DEF Truthful
  <2>5. \A v : Worthy(v, g.free[n]) => AtPly(FromChild(v), p.ply) = -AtPly(v, p.ply + 1) /\ AtPly(v, p.ply + 1) \in Int
    <3> TAKE v
    <3> HAVE Worthy(v, g.free[n])
    <3>1. AtPly(FromChild(v), p.ply) = -AtPly(v, p.ply + 1)
      BY <2>1, <2>2, <2>3, FromChildAt
    <3>2. Plausible(v, 0, g.free[n])
      BY <2>1, <2>2, <2>3, WorthyIs
    <3>3. AtPly(v, p.ply + 1) \in Int
      BY <2>1, <2>2, <2>3, <3>2, AtPlyIs
    <3> QED BY <3>1, <3>3
  <2>6. ASSUME p.kind = "quiet"
        PROVE  /\ -r.score > p.alpha => -r.score <= AtPly(QuietOf(g, p, p.child), p.ply)
               /\ -r.score < p.beta => AtPly(QuietOf(g, p, p.child), p.ply) <= -r.score
    <3>1. /\ f.kind = "quiet" /\ f.qply = Quieter(p.qply) /\ f.alpha0 = -p.beta /\ f.beta = -p.alpha
          /\ p.alpha \in Int /\ p.beta \in Int /\ f.qply \in 0..MaxQsearchPly
      BY <1>3, <2>6 DEF Called, Placed, Shaped
    <3> DEFINE v == QuietValues(g)[n][f.qply]
    <3>2. Worthy(v, g.free[n])
      BY <2>2, <3>1, QuietWorthy
    <3>3. AtPly(FromChild(v), p.ply) = -AtPly(v, f.ply) /\ AtPly(v, f.ply) \in Int
      BY <2>1, <2>5, <3>2
    <3>4. QuietOf(g, p, p.child) = FromChild(v)
      BY <3>1 DEF QuietOf, NextOf
    <3>5. Most(g, f) = v
      BY <2>1, <3>1 DEF Most
    <3>6. /\ r.score > f.alpha0 => r.score <= AtPly(v, f.ply)
          /\ r.score < f.beta => AtPly(v, f.ply) <= r.score
      BY <3>1, <3>5 DEF Truthful
    <3> HIDE DEF v
    <3> QED BY <1>1, <3>1, <3>3, <3>4, <3>6
  <2>7. ASSUME p.kind # "quiet", p.call # "reduced"
        PROVE  /\ r.upper => -r.score <= AtPly(FromChild(Values(g)[n][Deeper(g, p)].least), p.ply)
               /\ r.lower => AtPly(FromChild(Values(g)[n][Deeper(g, p)].most), p.ply) <= -r.score
    <3> DEFINE most == Values(g)[n][Deeper(g, p)].most  least == Values(g)[n][Deeper(g, p)].least
    <3>1. ~f.reduced => Most(g, f) = most /\ Least(g, f) = least
      BY <1>3, <2>7 DEF Called
    <3>2. /\ r.lower => ~f.reduced /\ r.score <= AtPly(Most(g, f), f.ply)
          /\ r.upper => ~f.reduced /\ AtPly(Least(g, f), f.ply) <= r.score
      BY DEF Truthful
    <3>3. ~f.reduced => Worthy(Most(g, f), g.free[n]) /\ Worthy(Least(g, f), g.free[n])
      <4>1. f.qply \in 0..MaxQsearchPly /\ f.depth \in 0..MaxDepth /\ MaxDepth \in Nat
        BY AlphaBetaAssumption DEF Placed, Shaped
      <4>2. Worthy(QuietValues(g)[n][f.qply], g.free[n])
        BY <2>2, <4>1, QuietWorthy
      <4>3. Worthy(Values(g)[n][f.depth].most, g.free[n]) /\ Worthy(Values(g)[n][f.depth].least, g.free[n])
        BY <2>2, <4>1, WorthWorthy DEF Values
      <4> QED BY <2>1, <4>2, <4>3 DEF Most, Least
    <3> HIDE DEF most, least
    <3>4. r.upper => -r.score <= AtPly(FromChild(least), p.ply)
      BY <1>1, <2>1, <2>5, <3>1, <3>2, <3>3
    <3>5. r.lower => AtPly(FromChild(most), p.ply) <= -r.score
      BY <1>1, <2>1, <2>5, <3>1, <3>2, <3>3
    <3> QED BY <3>4, <3>5 DEF most, least
  <2> QED BY <1>1, <1>3, <2>4, <2>6, <2>7 DEF Answers
<1> QED BY <1>2, <1>3

(* A step that returns what is true of its position. *)
LEMMA PopWorks ==
  ASSUME NEW w, Searching(w), worker[w].phase = "search", NEW r, worker' = Pop(w, r),
         Top(w).kind # "root", Truthful(G, Top(w), r)
  PROVE  Stepped(w)
<1>1. Stacked(G, w, Stack(w), Returned(w)) /\ Placed(G, Top(w)) /\ IsGame(G)
  BY SearchIs
<1>2. r # Nothing
  BY AlphaBetaAssumption DEF Truthful
<1>3. \A p : Placed(G, p) /\ Waits(G, w, p) /\ Called(G, p, Top(w)) => Answers(G, p, r)
  BY <1>1, TruthAnswers
<1>4. Stacked(G, w, Front(Stack(w)), r)
  BY <1>1, <1>2, <1>3, PopOk DEF Top
<1>5. worker' = [worker EXCEPT ![w].stack = Front(Stack(w)), ![w].returned = r]
  BY DEF Pop, Stack
<1> QED BY <1>4, <1>5, RestackWorks

--------------------------------------------------
(* Results. *)

(* BoundResult::verified, by its parts. *)
LEMMA VerifiedParts ==
  ASSUME NEW s, NEW a, NEW b
  PROVE  /\ Verified(s, a, b).score = s
         /\ Verified(s, a, b).lower <=> Classify(s, a, b) # "Upper"
         /\ Verified(s, a, b).upper <=> Classify(s, a, b) # "Lower"
BY Zenon DEF Verified, Result

(* The flags say on which side of the window the score is. *)
LEMMA VerifiedIs ==
  ASSUME NEW s \in Int, NEW a \in Int, NEW b \in Int, a < b
  PROVE  /\ Verified(s, a, b) \in Results /\ Verified(s, a, b).score = s
         /\ Verified(s, a, b).lower <=> s > a
         /\ Verified(s, a, b).upper <=> s < b
<1> DEFINE c == Classify(s, a, b)  r == Verified(s, a, b)
<1>1. (c # "Upper" <=> s > a) /\ (c # "Lower" <=> s < b)
  BY DEF Classify
<1>2. r = [score |-> s, lower |-> c # "Upper", upper |-> c # "Lower"]
  BY DEF Verified, Result
<1>3. r.score = s /\ (r.lower <=> c # "Upper") /\ (r.upper <=> c # "Lower")
  BY VerifiedParts
<1> HIDE DEF c, r
<1>4. [score |-> s, lower |-> c # "Upper", upper |-> c # "Lower"] \in Results
  <2>1. (c # "Upper") \in BOOLEAN /\ (c # "Lower") \in BOOLEAN
    OBVIOUS
  <2> QED BY <2>1 DEF Results
<1>5. r \in Results
  BY <1>2, <1>4
<1>6. (r.lower <=> s > a) /\ (r.upper <=> s < b)
  BY <1>1, <1>3
<1> QED BY <1>3, <1>5, <1>6 DEF r

(* What has no evidence, and what has all. *)
LEMMA UnverifiedIs ==
  ASSUME NEW s \in Int
  PROVE  /\ Unverified(s) \in Results /\ Unverified(s).score = s /\ ~Unverified(s).lower /\ ~Unverified(s).upper
         /\ Complete(s) \in Results /\ Complete(s).score = s
BY DEF Unverified, Complete, Result, Results

(* A position p plies from the root, seen from there. *)
LEMMA MostIs ==
  ASSUME NEW g, IsGame(g), NEW f, Placed(g, f)
  PROVE  /\ Worthy(Most(g, f), g.free[f.node]) /\ Worthy(Least(g, f), g.free[f.node])
         /\ g.free[f.node] \in Nat /\ f.ply \in Nat /\ f.node \in DOMAIN g.kind
         /\ f.ply + g.free[f.node] <= CellCount /\ g.free[f.node] <= CellCount
         /\ AtPly(Most(g, f), f.ply) \in Int /\ AtPly(Least(g, f), f.ply) \in Int
         /\ Plausible(AtPly(Most(g, f), f.ply), f.ply, g.free[f.node])
         /\ Plausible(AtPly(Least(g, f), f.ply), f.ply, g.free[f.node])
<1> DEFINE n == f.node
<1>1. /\ n \in DOMAIN g.kind /\ f.ply \in Nat /\ f.ply + g.free[n] <= CellCount
      /\ f.qply \in 0..MaxQsearchPly /\ f.depth \in 0..MaxDepth /\ MaxDepth \in Nat
  BY AlphaBetaAssumption DEF Placed, Shaped
<1>2. g.free[n] \in Nat /\ g.free[n] <= CellCount
  BY <1>1, GameIs
<1>3. Worthy(QuietValues(g)[n][f.qply], g.free[n])
  BY <1>1, QuietWorthy
<1>4. Worthy(Values(g)[n][f.depth].most, g.free[n]) /\ Worthy(Values(g)[n][f.depth].least, g.free[n])
  BY <1>1, WorthWorthy DEF Values
<1>5. Worthy(Most(g, f), g.free[n]) /\ Worthy(Least(g, f), g.free[n])
  BY <1>3, <1>4 DEF Most, Least
<1>6. Plausible(Most(g, f), 0, g.free[n]) /\ Plausible(Least(g, f), 0, g.free[n])
  BY <1>2, <1>5, WorthyIs
<1>7. /\ AtPly(Most(g, f), f.ply) \in Int /\ Plausible(AtPly(Most(g, f), f.ply), f.ply, g.free[n])
      /\ AtPly(Least(g, f), f.ply) \in Int /\ Plausible(AtPly(Least(g, f), f.ply), f.ply, g.free[n])
  BY <1>1, <1>2, <1>6, AtPlyIs
<1> QED BY <1>1, <1>2, <1>5, <1>7

(* qsearch's result is true of the leaf. *)
LEMMA LeafTruth ==
  ASSUME NEW g, NEW f, Placed(g, f), f.kind = "quiet", NEW s \in Int, Plausible(s, f.ply, g.free[f.node]),
         s > f.alpha0 => s <= AtPly(Most(g, f), f.ply),
         s < f.beta => AtPly(Most(g, f), f.ply) <= s
  PROVE  Truthful(g, f, Verified(s, f.alpha0, f.beta))
<1>1. f.alpha0 \in Int /\ f.beta \in Int /\ f.alpha0 < f.beta /\ ~f.reduced
  BY DEF Placed, Shaped
<1> DEFINE r == Verified(s, f.alpha0, f.beta)
<1>2. r \in Results /\ r.score = s /\ (r.lower <=> s > f.alpha0) /\ (r.upper <=> s < f.beta)
  BY <1>1, VerifiedIs
<1> HIDE DEF r
<1>3. Least(g, f) = Most(g, f)
  BY DEF Least, Most
<1>4. Truthful(g, f, r)
  BY <1>1, <1>2, <1>3 DEF Truthful
<1> QED BY <1>4 DEF r

(* A result without evidence says nothing but that it can occur. *)
LEMMA BareTruth ==
  ASSUME NEW g, NEW f, f.kind # "quiet", NEW s, Plausible(s, f.ply, g.free[f.node])
  PROVE  Truthful(g, f, Unverified(s))
<1>1. s \in Int
  BY DEF Plausible
<1>2. Unverified(s) \in Results /\ Unverified(s).score = s /\ ~Unverified(s).lower /\ ~Unverified(s).upper
  BY <1>1, UnverifiedIs
<1> QED BY <1>2 DEF Truthful

(* What holds of a position before its visit. *)
LEMMA FreshIs ==
  ASSUME NEW w, Searching(w), Fresh(w)
  PROVE  /\ worker[w].phase = "search" /\ IsGame(G) /\ Placed(G, Top(w)) /\ Unbegun(Top(w)) /\ ~Top(w).begun
         /\ Top(w).kind = "root" => G.kind[Top(w).node] = "open" /\ G.near[Top(w).node] >= 1 /\ Top(w).depth >= 1
         /\ Top(w).node \in DOMAIN G.kind
<1>1. worker[w].phase = "search" /\ Returned(w) = Nothing /\ ~Top(w).begun
  BY DEF Fresh
<1>2. Current(G, w, Top(w)) /\ Placed(G, Top(w)) /\ IsGame(G)
  BY <1>1, SearchIs
<1> QED BY <1>1, <1>2 DEF Current, Placed

(* An immediate tactic at a leaf. *)
LEMMA QuietFactKeeps ==
  ASSUME NEW w, Searching(w), QuietFact(w)
  PROVE  Stepped(w)
<1> DEFINE f == Top(w)  s == Fact(G, f.node, f.ply)
<1>1. Fresh(w) /\ f.kind = "quiet" /\ IsFact(G, f.node) /\ worker' = Pop(w, Verified(s, f.alpha, f.beta))
  BY DEF QuietFact, Quiet, Finishes
<1>2. /\ worker[w].phase = "search" /\ IsGame(G) /\ Placed(G, f) /\ Unbegun(f) /\ f.node \in DOMAIN G.kind
  BY <1>1, FreshIs
<1> DEFINE n == f.node  g == G
<1>3. /\ f.ply \in Nat /\ f.ply + g.free[n] <= CellCount /\ f.qply \in 0..MaxQsearchPly
      /\ Plausible(AtPly(Most(g, f), f.ply), f.ply, g.free[n]) /\ AtPly(Most(g, f), f.ply) \in Int
  BY <1>2, MostIs DEF Placed, Shaped
<1>4. s = AtPly(Fact(g, n, 0), f.ply)
  BY <1>1, <1>2, <1>3, FactIs
<1>5. Most(g, f) = Fact(g, n, 0)
  BY <1>1, <1>2, <1>3, QuietSettles DEF Most, QuietOne
<1>6. f.alpha = f.alpha0
  BY <1>2 DEF Unbegun
<1> HIDE DEF f, s, n, g
<1>7. s \in Int /\ Plausible(s, f.ply, g.free[f.node]) /\ s = AtPly(Most(g, f), f.ply)
  BY <1>3, <1>4, <1>5 DEF n
<1>8. Placed(g, f)
  BY <1>2 DEF g
<1>9. Truthful(g, f, Verified(s, f.alpha0, f.beta))
  BY <1>1, <1>7, <1>8, LeafTruth
<1> QED BY <1>1, <1>2, <1>6, <1>9, PopWorks DEF f, g

(* Standing pat at a leaf. *)
LEMMA StandPatKeeps ==
  ASSUME NEW w, Searching(w), StandPat(w)
  PROVE  Stepped(w)
<1> DEFINE f == Top(w)  n == f.node  g == G  s == g.static[n]
<1>1. /\ Fresh(w) /\ f.kind = "quiet" /\ ~IsFact(g, n) /\ worker' = Pop(w, Verified(s, f.alpha, f.beta))
      /\ g.kind[n] # "block" /\ (f.qply >= MaxQsearchPly \/ s >= f.beta \/ Forcing(g, n) = {})
  BY DEF StandPat, Quiet, Finishes, StandsPat
<1>2. /\ worker[w].phase = "search" /\ IsGame(g) /\ Placed(g, f) /\ Unbegun(f) /\ n \in DOMAIN g.kind
  BY <1>1, FreshIs
<1>3. /\ f.ply \in Nat /\ f.ply + g.free[n] <= CellCount /\ f.qply \in 0..MaxQsearchPly
      /\ AtPly(Most(g, f), f.ply) \in Int /\ f.beta \in Int
  BY <1>2, MostIs DEF Placed, Shaped
<1>4. f.alpha = f.alpha0
  BY <1>2 DEF Unbegun
<1>5. s \in Int /\ Worthy(s, g.free[n]) /\ ~IsMate(s) /\ g.free[n] \in Nat
  BY <1>2, GameIs
<1>6. Plausible(s, f.ply, g.free[n])
  BY <1>5 DEF Plausible, IsMate
<1>7. Most(g, f) = QuietValues(g)[n][f.qply]
  BY <1>1 DEF Most
<1> HIDE DEF f, g, n, s
<1>8. AtPly(s, f.ply) = s
  BY <1>5 DEF AtPly, ScoreFromTt, IsMate
<1>9. s <= AtPly(Most(g, f), f.ply) /\ (s < f.beta => AtPly(Most(g, f), f.ply) <= s)
  <2>0. s = g.static[n]
    BY DEF s
  <2>1. CASE f.qply = MaxQsearchPly
    <3>1. Most(g, f) = s
      BY <1>1, <1>2, <1>3, <1>7, <2>0, <2>1, QuietAt
    <3> QED BY <3>1, <1>8, <1>5
  <2>2. CASE f.qply # MaxQsearchPly
    <3>1. /\ AtPly(s, f.ply) <= AtPly(Most(g, f), f.ply)
          /\ \/ Most(g, f) = s
             \/ \E m \in Forcing(g, n) : TRUE
      BY <1>1, <1>2, <1>3, <1>7, <2>0, <2>2, QuietAt
    <3>2. f.qply < MaxQsearchPly
      BY <1>3, <2>2
    <3>3. s < f.beta => Forcing(g, n) = {}
      BY <1>1, <1>3, <1>5, <3>2
    <3>4. s < f.beta => Most(g, f) = s
      BY <3>1, <3>3
    <3> QED BY <3>1, <3>4, <1>5, <1>8
  <2> QED BY <2>1, <2>2
<1>10. Plausible(s, f.ply, g.free[f.node])
  BY <1>6 DEF n
<1>11. Truthful(g, f, Verified(s, f.alpha0, f.beta))
  BY <1>1, <1>2, <1>5, <1>9, <1>10, LeafTruth
<1> QED BY <1>1, <1>2, <1>4, <1>11, PopWorks DEF f, g

(* An inner frame above the horizon. *)
LEMMA InnerIs ==
  ASSUME NEW w, Searching(w), Inner(w)
  PROVE  /\ worker[w].phase = "search" /\ IsGame(G) /\ Placed(G, Top(w)) /\ Unbegun(Top(w)) /\ ~Top(w).begun
         /\ Top(w).kind = "inner" /\ Top(w).depth \in 0..MaxDepth /\ Top(w).depth # 0 /\ Top(w).depth >= 1
         /\ Top(w).node \in DOMAIN G.kind /\ MaxDepth \in Nat
         /\ Most(G, Top(w)) = Values(G)[Top(w).node][Top(w).depth].most
         /\ Least(G, Top(w)) = Values(G)[Top(w).node][Top(w).depth].least
<1>1. Fresh(w) /\ Top(w).kind = "inner" /\ Top(w).depth > 0
  BY DEF Inner
<1>2. /\ worker[w].phase = "search" /\ IsGame(G) /\ Placed(G, Top(w)) /\ Unbegun(Top(w)) /\ ~Top(w).begun
      /\ Top(w).node \in DOMAIN G.kind
  BY <1>1, FreshIs
<1>3. Top(w).depth \in 0..MaxDepth /\ MaxDepth \in Nat
  BY <1>2, AlphaBetaAssumption DEF Placed, Shaped
<1>4. Top(w).depth # 0 /\ Top(w).depth >= 1
  BY <1>1, <1>3
<1> QED BY <1>1, <1>2, <1>3, <1>4 DEF Most, Least

(* An immediate tactic at a node. *)
LEMMA VisitFactKeeps ==
  ASSUME NEW w, Searching(w), VisitFact(w)
  PROVE  Stepped(w)
<1> DEFINE f == Top(w)  n == f.node  g == G  s == Fact(g, n, f.ply)
<1>1. Inner(w) /\ IsFact(g, n) /\ worker' = Pop(w, Complete(s))
  BY DEF VisitFact, Finishes
<1>2. /\ worker[w].phase = "search" /\ IsGame(g) /\ Placed(g, f) /\ Unbegun(f) /\ f.kind = "inner"
      /\ f.depth \in 0..MaxDepth /\ n \in DOMAIN g.kind /\ MaxDepth \in Nat
      /\ Most(g, f) = Values(g)[n][f.depth].most /\ Least(g, f) = Values(g)[n][f.depth].least
  BY <1>1, InnerIs
<1>3. /\ f.ply \in Nat /\ f.ply + g.free[n] <= CellCount
      /\ Plausible(AtPly(Most(g, f), f.ply), f.ply, g.free[n]) /\ AtPly(Most(g, f), f.ply) \in Int
  BY <1>2, MostIs
<1>4. s = AtPly(Fact(g, n, 0), f.ply)
  BY <1>1, <1>2, <1>3, FactIs
<1>5. Most(g, f) = Fact(g, n, 0) /\ Least(g, f) = Fact(g, n, 0)
  <2>1. Values(g)[n][f.depth] = WorthOne(g, QuietValues(g), Values(g), Extends(g), n, f.depth)
    BY <1>2, WorthSettles DEF Values
  <2> QED BY <1>1, <1>2, <2>1 DEF WorthOne
<1>6. ~f.reduced
  BY <1>2 DEF Unbegun
<1> HIDE DEF f, g, s, n
<1>7. s \in Int /\ s = AtPly(Most(g, f), f.ply) /\ s = AtPly(Least(g, f), f.ply) /\ Plausible(s, f.ply, g.free[f.node])
  BY <1>3, <1>4, <1>5 DEF n
<1>8. Complete(s) \in Results /\ Complete(s).score = s
  BY <1>7, UnverifiedIs
<1>9. Truthful(g, f, Complete(s))
  BY <1>2, <1>6, <1>7, <1>8 DEF Truthful
<1> QED BY <1>1, <1>2, <1>9, PopWorks DEF f, g

(* A window that no mate in reach can enter. *)
LEMMA VisitClosedKeeps ==
  ASSUME NEW w, Searching(w), VisitClosed(w)
  PROVE  Stepped(w)
<1> DEFINE f == Top(w)  n == f.node  g == G  s == IF Low(f) >= f.beta THEN Low(f) ELSE High(f)
<1>1. Inner(w) /\ ~IsFact(g, n) /\ Closed(f) /\ worker' = Pop(w, Verified(s, f.alpha, f.beta))
  BY DEF VisitClosed, Finishes
<1>2. /\ worker[w].phase = "search" /\ IsGame(g) /\ Placed(g, f) /\ Unbegun(f) /\ f.kind = "inner"
      /\ n \in DOMAIN g.kind
  BY <1>1, InnerIs
<1> DEFINE most == AtPly(Most(g, f), f.ply)  least == AtPly(Least(g, f), f.ply)  r == g.free[n]  p == f.ply
<1>3. /\ p \in Nat /\ r \in Nat /\ p + r <= CellCount
      /\ Worthy(Most(g, f), r) /\ Worthy(Least(g, f), r) /\ most \in Int /\ least \in Int
  BY <1>2, MostIs
<1>4. r >= 1
  <2>1. g.kind[n] # "draw"
    BY <1>1 DEF IsFact
  <2> QED BY <1>2, <2>1, GameIs
<1>5. f.alpha \in Int /\ f.beta \in Int /\ f.alpha < f.beta /\ ~f.reduced
  BY <1>2 DEF Placed, Shaped, Unbegun
<1>6. -Mate + p < least /\ most <= Mate - p - 1
  <2>1. \A v : Worthy(v, r) => -Mate + p < AtPly(v, p) /\ AtPly(v, p) <= Mate - p - 1
    BY <1>3 DEF Worthy, AtPly, ScoreFromTt, Threshold
  <2> QED BY <1>3, <2>1
<1>7. -Mate + p < most /\ least <= Mate - p - 1
  <2>1. \A v : Worthy(v, r) => -Mate + p < AtPly(v, p) /\ AtPly(v, p) <= Mate - p - 1
    BY <1>3 DEF Worthy, AtPly, ScoreFromTt, Threshold
  <2> QED BY <1>3, <2>1
<1>8. \/ s = -Mate + p /\ s > f.alpha /\ s >= f.beta
      \/ s = Mate - p - 1 /\ s <= f.alpha /\ s < f.beta
  BY <1>1, <1>3, <1>5 DEF Closed, Low, High, Larger, Smaller
<1> HIDE DEF f, g, n, s, most, least, r, p
<1>9. s \in Int /\ Plausible(s, p, r)
  BY <1>3, <1>4, <1>8 DEF Plausible, Threshold
<1> DEFINE a == Verified(s, f.alpha, f.beta)
<1>10. a \in Results /\ a.score = s /\ (a.lower <=> s > f.alpha) /\ (a.upper <=> s < f.beta)
  BY <1>5, <1>9, VerifiedIs
<1>11. (a.lower => s <= most) /\ (a.upper => least <= s)
  <2> HIDE DEF a
  <2> QED BY <1>3, <1>5, <1>6, <1>7, <1>8, <1>9, <1>10
<1>12. Truthful(g, f, a)
  <2> HIDE DEF a
  <2> QED BY <1>2, <1>5, <1>9, <1>10, <1>11 DEF Truthful, most, least, p, r, n
<1> QED BY <1>1, <1>2, <1>12, PopWorks DEF f, g

(* A frame that is neither decided nor closed. *)
LEMMA WindowIs ==
  ASSUME NEW g, NEW f, Placed(g, f), Unbegun(f), ~Closed(f)
  PROVE  /\ Low(f) \in Int /\ High(f) \in Int /\ Low(f) < High(f)
         /\ -Infinity <= Low(f) /\ High(f) <= Infinity
<1>1. /\ f.alpha \in Int /\ f.beta \in Int /\ f.ply \in Nat /\ -Infinity <= f.alpha /\ f.beta <= Infinity
  BY DEF Placed, Shaped
<1> QED BY <1>1 DEF Closed, Low, High, Larger, Smaller

(* A cutoff by the table: the entry is true, so is the result. *)
LEMMA VisitHitKeeps ==
  ASSUME NEW w, Searching(w), VisitHit(w)
  PROVE  Stepped(w)
<1> DEFINE f == Top(w)  n == f.node  g == G  e == table[n]  s == AtPly(e.score, f.ply)
           a == Verified(s, Low(f), High(f))
<1>1. /\ Inner(w) /\ ~IsFact(g, n) /\ ~Closed(f) /\ Cuts(e, f.depth, Low(f), High(f), f.ply)
      /\ worker' = Pop(w, a)
  BY DEF VisitHit, Undecided, Finishes, AtPly
<1>2. /\ worker[w].phase = "search" /\ IsGame(g) /\ Placed(g, f) /\ Unbegun(f) /\ f.kind = "inner"
      /\ n \in DOMAIN g.kind
      /\ Most(g, f) = Values(g)[n][f.depth].most /\ Least(g, f) = Values(g)[n][f.depth].least
  BY <1>1, InnerIs
<1>3. ~g.competitive /\ TrueEntry(g, n, e)
  BY <1>2 DEF Searching, TableTrue
<1>4. /\ e.bound # "Empty" /\ e.depth = f.depth
      /\ e.bound = "Lower" => s >= High(f)
      /\ e.bound = "Upper" => s <= Low(f)
  BY <1>1, <1>3 DEF Cuts, AtPly
<1>5. Low(f) \in Int /\ High(f) \in Int /\ Low(f) < High(f) /\ ~f.reduced
  BY <1>1, <1>2, WindowIs DEF Unbegun
<1>6. /\ f.ply \in Nat /\ g.free[n] \in Nat /\ f.ply + g.free[n] <= CellCount /\ g.free[n] <= CellCount
      /\ Worthy(Most(g, f), g.free[n]) /\ Worthy(Least(g, f), g.free[n])
      /\ AtPly(Most(g, f), f.ply) \in Int /\ AtPly(Least(g, f), f.ply) \in Int
  BY <1>2, MostIs
<1>7. /\ Plausible(e.score, 0, g.free[n]) /\ e.bound \in {"Lower", "Upper", "Exact"}
      /\ e.bound \in {"Lower", "Exact"} => e.score <= Most(g, f)
      /\ e.bound \in {"Upper", "Exact"} => Least(g, f) <= e.score
  BY <1>2, <1>3, <1>4 DEF TrueEntry
<1>8. Plausible(Most(g, f), 0, g.free[n]) /\ Plausible(Least(g, f), 0, g.free[n])
  BY <1>6, WorthyIs
<1> HIDE DEF f, n, g, e
<1>9. s \in Int /\ Plausible(s, f.ply, g.free[n])
  BY <1>6, <1>7, AtPlyIs
<1>10. /\ e.bound \in {"Lower", "Exact"} => s <= AtPly(Most(g, f), f.ply)
       /\ e.bound \in {"Upper", "Exact"} => AtPly(Least(g, f), f.ply) <= s
  BY <1>6, <1>7, <1>8, AtPlyMonotone
<1> HIDE DEF s
<1>11. a \in Results /\ a.score = s /\ (a.lower <=> s > Low(f)) /\ (a.upper <=> s < High(f))
  BY <1>5, <1>9, VerifiedIs
<1> HIDE DEF a
<1>12. (a.lower => s <= AtPly(Most(g, f), f.ply)) /\ (a.upper => AtPly(Least(g, f), f.ply) <= s)
  BY <1>4, <1>5, <1>7, <1>9, <1>10, <1>11
<1>13. Truthful(g, f, a)
  BY <1>2, <1>5, <1>9, <1>11, <1>12 DEF Truthful, n
<1> QED BY <1>1, <1>2, <1>13, PopWorks DEF f, g

(* A selective cutoff claims nothing. *)
LEMMA SelectiveCutKeeps ==
  ASSUME NEW w, Searching(w), SelectiveCut(w)
  PROVE  Stepped(w)
<1> DEFINE f == Top(w)  n == f.node  g == G
<1>1. PICK score \in ReverseFutile(f) \cup Nulled(f, Analysed(f, f.depth)) \cup Probed(f) :
        worker' = Pop(w, Unverified(score))
  BY DEF SelectiveCut, Finishes
<1>2. Inner(w) /\ ~IsFact(g, n) /\ ~Closed(f) /\ Selective(f)
  BY DEF SelectiveCut, Missed, Undecided
<1>3. /\ worker[w].phase = "search" /\ IsGame(g) /\ Placed(g, f) /\ Unbegun(f) /\ f.kind = "inner"
      /\ n \in DOMAIN g.kind /\ f.depth \in 0..MaxDepth /\ MaxDepth \in Nat
  BY <1>2, InnerIs
<1>4. Low(f) \in Int /\ High(f) \in Int /\ ~IsMate(High(f))
  BY <1>2, <1>3, WindowIs DEF Selective, QuietScout
<1>5. g.static[n] \in Int /\ ~IsMate(g.static[n])
  BY <1>3, GameIs
<1>6. Analysed(f, f.depth) \in Int
  <2>1. game \in DOMAIN AllGames
    BY DEF Searching
  <2>2. Exactly[game] = Worth(g, FALSE, MaxDepth)
    BY <2>1 DEF Exactly, G
  <2>3. Worthy(Worth(g, FALSE, MaxDepth)[n][f.depth].least, g.free[n])
    BY <1>3, WorthWorthy
  <2> QED BY <2>2, <2>3 DEF Analysed, Worthy
<1>7. score \in Int /\ ~IsMate(score)
  <2>1. CASE score \in ReverseFutile(f)
    BY <2>1, <1>5 DEF ReverseFutile
  <2>2. CASE score \in Nulled(f, Analysed(f, f.depth))
    <3>1. score \in {High(f), Analysed(f, f.depth)} /\ ~IsMate(score)
      BY <2>2 DEF Nulled
    <3> QED BY <3>1, <1>4, <1>6
  <2>3. CASE score \in Probed(f)
    BY <2>3, <1>4 DEF Probed
  <2> QED BY <1>1, <2>1, <2>2, <2>3
<1>8. Plausible(score, f.ply, g.free[n])
  BY <1>7 DEF Plausible, IsMate
<1> HIDE DEF f, g
<1>9. Truthful(g, f, Unverified(score))
  BY <1>3, <1>8, BareTruth
<1> QED BY <1>1, <1>3, <1>9, PopWorks DEF f, g

--------------------------------------------------
(* Frames. *)

(* A frame that has gone on looking at the same place. *)
Linked(f, h) ==
  /\ h.kind = f.kind /\ h.node = f.node /\ h.ply = f.ply /\ h.qply = f.qply
  /\ f.kind = "quiet" => h.alpha0 = f.alpha0 /\ h.beta = f.beta
  /\ f.reduced => h.reduced
  /\ h.reduced \/ h.depth = f.depth

(* A frame that keeps its place is called as before. *)
LEMMA LinkedFollows ==
  ASSUME NEW g, NEW f, NEW h, Placed(g, h), Linked(f, h)
  PROVE  Follows(g, f, h)
<1>1. (h.kind = "root" <=> f.kind = "root")
  BY DEF Linked
<1>2. ASSUME NEW p, Called(g, p, f)
      PROVE  Called(g, p, h)
  <2>1. CASE p.call = "razor"
    BY <1>2, <2>1 DEF Called, Linked
  <2>2. CASE p.call # "razor"
    <3>1. h.node = NextOf(g, p) /\ h.ply = p.ply + 1
      BY <1>2, <2>2 DEF Called, Linked
    <3>2. p.kind = "quiet" =>
            h.kind = "quiet" /\ h.qply = Quieter(p.qply) /\ h.alpha0 = -p.beta /\ h.beta = -p.alpha
      BY <1>2, <2>2 DEF Called, Linked
    <3>3. ASSUME p.kind # "quiet", p.call # "reduced", ~h.reduced
          PROVE  /\ Most(g, h) = Values(g)[NextOf(g, p)][Deeper(g, p)].most
                 /\ Least(g, h) = Values(g)[NextOf(g, p)][Deeper(g, p)].least
      <4>1. ~f.reduced /\ h.depth = f.depth /\ h.kind = f.kind /\ h.node = f.node /\ h.qply = f.qply
        BY <3>3 DEF Linked
      <4>2. Most(g, h) = Most(g, f) /\ Least(g, h) = Least(g, f)
        BY <4>1 DEF Most, Least
      <4> QED BY <4>1, <4>2, <1>2, <2>2, <3>3 DEF Called
    <3> QED BY <2>2, <3>1, <3>2, <3>3 DEF Called
  <2> QED BY <2>1, <2>2
<1> QED BY <1>1, <1>2 DEF Follows

(* A call that has not begun. *)
Framed(c, kind, n, d, a, b, p, q) ==
  /\ DOMAIN c = Fields /\ c.kind = kind /\ c.node = n /\ c.depth = d /\ c.alpha = a /\ c.beta = b
  /\ c.ply = p /\ c.qply = q /\ c.alpha0 = a /\ c.left = <<>> /\ c.tried = 0 /\ c.best = -Infinity
  /\ ~c.begun /\ c.lower = FALSE /\ c.upper = TRUE /\ ~c.reduced

(* The fields of a new frame. *)
LEMMA FrameIs ==
  ASSUME NEW kind, NEW n, NEW d, NEW a, NEW b, NEW p, NEW u
  PROVE  Framed(Frame(kind, n, d, a, b, p, u), kind, n, d, a, b, p, 0)
BY DEF Frame, Framed, Fields

(* A place in a game, with a window. *)
Place(g, n, d, a, b, p) ==
  /\ n \in DOMAIN g.kind /\ d \in 0..MaxDepth /\ p \in Nat /\ p + g.free[n] <= CellCount
  /\ a \in Int /\ b \in Int /\ a < b /\ -Infinity <= a /\ b <= Infinity

(* A new frame is in its place and unbegun. *)
LEMMA FramedOk ==
  ASSUME NEW g, NEW w, NEW c, NEW kind, kind \in {"root", "inner", "quiet"}, NEW n, NEW d, NEW a, NEW b, NEW p,
         NEW q, q \in 0..MaxQsearchPly, kind # "quiet" => q = 0,
         Framed(c, kind, n, d, a, b, p, q), Place(g, n, d, a, b, p),
         kind = "root" => g.kind[n] = "open" /\ g.near[n] >= 1 /\ d >= 1
  PROVE  Placed(g, c) /\ Current(g, w, c)
<1>1. /\ DOMAIN c = Fields /\ c.kind = kind /\ c.node = n /\ c.depth = d /\ c.alpha = a /\ c.beta = b
      /\ c.ply = p /\ c.qply = q /\ c.alpha0 = a /\ c.left = <<>> /\ c.tried = 0 /\ c.best = -Infinity
      /\ ~c.begun /\ c.lower = FALSE /\ c.upper = TRUE /\ ~c.reduced
  BY DEF Framed
<1>2. /\ n \in DOMAIN g.kind /\ d \in 0..MaxDepth /\ p \in Nat /\ p + g.free[n] <= CellCount
      /\ a \in Int /\ b \in Int /\ a < b /\ -Infinity <= a /\ b <= Infinity /\ -Infinity \in Int
  BY DEF Place
<1>3. Shaped(c)
  BY <1>1, <1>2, NothingLeft DEF Shaped
<1>4. Flags(c)
  BY <1>1 DEF Flags
<1>5. Placed(g, c)
  BY <1>1, <1>2, <1>3, <1>4 DEF Placed
<1>6. Unbegun(c)
  BY <1>1, <1>2 DEF Unbegun
<1> QED BY <1>1, <1>5, <1>6 DEF Current

(* So is one that Frame makes. *)
LEMMA FrameOk ==
  ASSUME NEW g, NEW w, NEW kind, kind \in {"root", "inner", "quiet"}, NEW n, NEW d, NEW a, NEW b, NEW p, NEW u,
         Place(g, n, d, a, b, p), kind = "root" => g.kind[n] = "open" /\ g.near[n] >= 1 /\ d >= 1
  PROVE  Placed(g, Frame(kind, n, d, a, b, p, u)) /\ Current(g, w, Frame(kind, n, d, a, b, p, u))
<1>1. Framed(Frame(kind, n, d, a, b, p, u), kind, n, d, a, b, p, 0)
  BY FrameIs
<1>2. 0 \in 0..MaxQsearchPly
  OBVIOUS
<1> QED BY <1>1, <1>2, FramedOk

(* The same, some plies into qsearch. *)
LEMMA QuietFrameOk ==
  ASSUME NEW g, NEW w, NEW n, NEW a, NEW b, NEW p, NEW q, q \in 0..MaxQsearchPly, Place(g, n, 0, a, b, p)
  PROVE  /\ Framed([Frame("quiet", n, 0, a, b, p, 0) EXCEPT !.qply = q], "quiet", n, 0, a, b, p, q)
         /\ Placed(g, [Frame("quiet", n, 0, a, b, p, 0) EXCEPT !.qply = q])
         /\ Current(g, w, [Frame("quiet", n, 0, a, b, p, 0) EXCEPT !.qply = q])
<1> DEFINE e == Frame("quiet", n, 0, a, b, p, 0)  c == [e EXCEPT !.qply = q]
<1>1. Framed(e, "quiet", n, 0, a, b, p, 0)
  BY FrameIs
<1> HIDE DEF e
<1>2. Framed(c, "quiet", n, 0, a, b, p, q)
  BY <1>1 DEF Framed, Fields
<1> HIDE DEF c
<1>3. Placed(g, c) /\ Current(g, w, c)
  BY <1>2, FramedOk
<1> QED BY <1>2, <1>3 DEF c, e

--------------------------------------------------
(* Moves that are asked for. *)

(* A frame that differs in nothing but what it goes on to look at. *)
Alike(f, h) ==
  /\ DOMAIN h = Fields
  /\ h.kind = f.kind /\ h.node = f.node /\ h.depth = f.depth /\ h.ply = f.ply /\ h.qply = f.qply
  /\ h.alpha = f.alpha /\ h.alpha0 = f.alpha0 /\ h.beta = f.beta /\ h.best = f.best
  /\ h.lower = f.lower /\ h.upper = f.upper /\ h.reduced = f.reduced

(* A frame that differs in its moves only keeps its place. *)
LEMMA AlikeFollows ==
  ASSUME NEW g, NEW f, NEW h, Placed(g, f), Alike(f, h), h.left \in Seq(Nat), h.tried \in Nat
  PROVE  Placed(g, h) /\ Follows(g, f, h)
<1>1. Shaped(f) /\ Flags(f)
  BY DEF Placed
<1>2. Shaped(h)
  BY <1>1 DEF Shaped, Alike
<1>3. Flags(h)
  BY <1>1, Zenon DEF Flags, Alike
<1>4. Placed(g, h)
  BY <1>2, <1>3 DEF Placed, Alike
<1>5. Linked(f, h)
  BY DEF Linked, Alike
<1> QED BY <1>4, <1>5, LinkedFollows

(* What the flags say depends on the moves not counted yet. *)
LEMMA TriesAgain ==
  ASSUME NEW g, NEW w, NEW f, NEW h, NEW p, NEW q, Tries(g, w, f, p), Alike(f, h), Open(h, q) = Open(f, p),
         h.best = -Infinity => h.tried = (IF q THEN 1 ELSE 0),
         h.tried = 0 => h.left # <<>>,
         q => h.tried >= 1,
         q \/ h.left # <<>> => h.alpha < h.beta
  PROVE  Tries(g, w, h, q)
<1>1. Goes(g, h, q)
  BY DEF Tries, Goes, Alike
<1>2. h.kind = "quiet" => QuietTruth(g, h, q)
  <2>1. HAVE h.kind = "quiet"
  <2>2. QuietTruth(g, f, p)
    BY <2>1 DEF Tries, Alike
  <2>3. \A m : QuietOf(g, h, m) = QuietOf(g, f, m)
    BY DEF QuietOf, Alike
  <2> QED BY <2>2, <2>3 DEF QuietTruth, Alike
<1>3. Knows(g, w, h) => InnerTruth(g, h, q)
  <2>1. HAVE Knows(g, w, h)
  <2>2. InnerTruth(g, f, p)
    BY <2>1 DEF Tries, Alike, Knows
  <2> QED BY <2>2 DEF InnerTruth, Alike
<1> QED BY <1>1, <1>2, <1>3 DEF Tries

(* A frame that asks for a move. *)
Asks(f, h, m, call, left, tried) ==
  /\ Alike(f, h) /\ h.begun = f.begun /\ h.used = f.used
  /\ h.call = call /\ h.child = m /\ h.left = left /\ h.tried = tried

(* The next move of a node is asked for. *)
LEMMA AsksNext ==
  ASSUME NEW f, DOMAIN f = Fields, NEW m, NEW call
  PROVE  Asks(f, [[f EXCEPT !.left = Tail(@), !.tried = @ + 1] EXCEPT !.call = call, !.child = m],
              m, call, Tail(f.left), f.tried + 1)
BY DEF Asks, Alike, Fields

(* The next move of a leaf is asked for. *)
LEMMA AsksQuiet ==
  ASSUME NEW f, DOMAIN f = Fields, NEW m
  PROVE  Asks(f, [f EXCEPT !.left = Tail(@), !.tried = @ + 1, !.call = "quiet", !.child = m],
              m, "quiet", Tail(f.left), f.tried + 1)
BY DEF Asks, Alike, Fields

(* The same move is asked for again. *)
LEMMA AsksAgain ==
  ASSUME NEW f, DOMAIN f = Fields, NEW m, NEW call
  PROVE  Asks(f, [f EXCEPT !.call = call, !.child = m], m, call, f.left, f.tried)
BY DEF Asks, Alike, Fields

(* A move taken from those left becomes the pending one. *)
LEMMA NextMove ==
  ASSUME NEW g, IsGame(g), NEW w, NEW f, Placed(g, f), Current(g, w, f), f.begun, f.left # <<>>,
         NEW call, call \notin {"none", "razor"}, f.kind = "quiet" <=> call = "quiet",
         NEW h, Asks(f, h, Head(f.left), call, Tail(f.left), f.tried + 1)
  PROVE  /\ Follows(g, f, h) /\ Waits(g, w, h) /\ f.alpha < f.beta /\ Head(f.left) \in DOMAIN g.next[f.node]
         /\ Tries(g, w, f, FALSE)
<1>1. Tries(g, w, f, FALSE) /\ Shaped(f)
  BY DEF Current, Placed
<1>2. f.left \in Seq(Nat) /\ f.tried \in Nat
  BY <1>1 DEF Shaped
<1>3. Tail(f.left) \in Seq(Nat) /\ ToSet(Tail(f.left)) \cup {Head(f.left)} = ToSet(f.left)
  BY <1>2, LeftIs
<1>4. /\ Alike(f, h) /\ h.begun /\ h.call = call /\ h.child = Head(f.left)
      /\ h.left = Tail(f.left) /\ h.tried = f.tried + 1
  BY DEF Asks
<1>5. Follows(g, f, h)
  <2>1. h.left \in Seq(Nat) /\ h.tried \in Nat
    BY <1>2, <1>3, <1>4
  <2> QED BY <1>4, <2>1, AlikeFollows
<1>6. Open(h, TRUE) = Open(f, FALSE)
  BY <1>3, <1>4 DEF Open
<1>7. f.alpha < f.beta /\ (f.best = -Infinity => f.tried = 0)
  BY <1>1 DEF Tries, Goes
<1>8. Tries(g, w, h, TRUE)
  <2>1. h.best = f.best /\ h.alpha = f.alpha /\ h.beta = f.beta
    BY <1>4 DEF Alike
  <2>2. /\ h.best = -Infinity => h.tried = (IF TRUE THEN 1 ELSE 0)
        /\ h.tried = 0 => h.left # <<>>
        /\ TRUE => h.tried >= 1
        /\ TRUE \/ h.left # <<>> => h.alpha < h.beta
    BY <1>2, <1>4, <1>7, <2>1
  <2> QED BY <1>1, <1>4, <1>6, <2>2, TriesAgain
<1>9. Head(f.left) \in DOMAIN g.next[f.node]
  <2>1. ToSet(f.left) \subseteq DOMAIN g.next[f.node]
    BY <1>1 DEF Tries, Goes, Open
  <2> QED BY <1>3, <2>1
<1>10. Waits(g, w, h)
  <2>1. h.kind = f.kind /\ h.node = f.node
    BY <1>4 DEF Alike
  <2> QED BY <1>4, <1>8, <1>9, <2>1 DEF Waits
<1> QED BY <1>1, <1>5, <1>7, <1>9, <1>10

(* The same move again, with another window. *)
LEMMA SameMove ==
  ASSUME NEW g, IsGame(g), NEW w, NEW f, Placed(g, f), Waits(g, w, f), f.call \notin {"razor", "quiet"},
         NEW call, call \notin {"none", "razor", "quiet"},
         NEW h, Asks(f, h, f.child, call, f.left, f.tried)
  PROVE  /\ Follows(g, f, h) /\ Waits(g, w, h) /\ f.alpha < f.beta /\ f.child \in DOMAIN g.next[f.node]
         /\ Tries(g, w, f, TRUE) /\ f.kind # "quiet"
<1>1. /\ f.begun /\ f.child \in DOMAIN g.next[f.node] /\ f.kind # "quiet" /\ Tries(g, w, f, TRUE)
  BY DEF Waits
<1>2. f.left \in Seq(Nat) /\ f.tried \in Nat
  BY DEF Placed, Shaped
<1>3. /\ Alike(f, h) /\ h.begun /\ h.call = call /\ h.child = f.child /\ h.left = f.left /\ h.tried = f.tried
  BY <1>1 DEF Asks
<1>4. Follows(g, f, h)
  BY <1>2, <1>3, AlikeFollows
<1>5. Open(h, TRUE) = Open(f, TRUE)
  BY <1>3 DEF Open
<1>6. /\ f.alpha < f.beta /\ (f.best = -Infinity => f.tried = 1) /\ f.tried >= 1
      /\ (f.tried = 0 => f.left # <<>>)
  BY <1>1 DEF Tries, Goes
<1>7. Tries(g, w, h, TRUE)
  <2>1. h.best = f.best /\ h.alpha = f.alpha /\ h.beta = f.beta
    BY <1>3 DEF Alike
  <2>2. /\ h.best = -Infinity => h.tried = (IF TRUE THEN 1 ELSE 0)
        /\ h.tried = 0 => h.left # <<>>
        /\ TRUE => h.tried >= 1
        /\ TRUE \/ h.left # <<>> => h.alpha < h.beta
    BY <1>2, <1>3, <1>6, <2>1
  <2> QED BY <1>1, <1>3, <1>5, <2>2, TriesAgain
<1>8. Waits(g, w, h)
  <2>1. h.kind = f.kind /\ h.node = f.node
    BY <1>3 DEF Alike
  <2> QED BY <1>1, <1>3, <1>7, <2>1 DEF Waits
<1> QED BY <1>1, <1>4, <1>6, <1>8

(* How deep the moves of a frame are looked at. *)
LEMMA ExtensionIs ==
  ASSUME NEW f, NEW m, Normal
  PROVE  Extension(f, m) = Extra(G, f, m) /\ Extra(G, f, m) \in {0, 1}
BY DEF Extension, Extra, Shortcut, Extends, Normal

(* A call for a move, from a frame that waits for it. *)
LEMMA CallKeeps ==
  ASSUME NEW w, Searching(w), worker[w].phase = "search", NEW h, Follows(G, Top(w), h), Waits(G, w, h),
         h.kind # "quiet", h.call # "razor", NEW d \in 0..MaxDepth, h.call # "reduced" => d = Deeper(G, h),
         NEW a \in Int, NEW b \in Int, a < b, -Infinity <= a, b <= Infinity, NEW u,
         worker' = Push(w, h, Frame("inner", G.next[h.node][h.child], d, -b, -a, h.ply + 1, u))
  PROVE  Stepped(w)
<1> DEFINE n == NextOf(G, h)  c == Frame("inner", n, d, -b, -a, h.ply + 1, u)  g == G
<1>1. IsGame(g) /\ Placed(g, h)
  BY SearchIs DEF Follows
<1>2. /\ h.node \in DOMAIN g.kind /\ h.ply \in Nat /\ h.ply + g.free[h.node] <= CellCount
      /\ h.child \in DOMAIN g.next[h.node]
  BY <1>1 DEF Placed, Shaped, Waits
<1>3. /\ n \in DOMAIN g.kind /\ g.free[n] \in Nat /\ g.free[h.node] \in Nat /\ g.free[n] < g.free[h.node]
  BY <1>1, <1>2, GameIs DEF NextOf
<1> HIDE DEF g, n
<1>4. Place(g, n, d, -b, -a, h.ply + 1)
  BY <1>2, <1>3 DEF Place
<1>5. Placed(g, c) /\ Current(g, w, c)
  BY <1>4, FrameOk
<1>6. Framed(c, "inner", n, d, -b, -a, h.ply + 1, 0)
  BY FrameIs
<1> HIDE DEF c
<1>7. c.kind = "inner" /\ c.node = n /\ c.depth = d /\ c.ply = h.ply + 1
  BY <1>6 DEF Framed
<1>8. Called(g, h, c)
  BY <1>7 DEF Called, Most, Least, n, g
<1> QED BY <1>1, <1>5, <1>7, <1>8, PushWorks DEF c, n, g, NextOf

(* What holds when a frame has moves left. *)
LEMMA AdvancesIs ==
  ASSUME NEW w, Searching(w), Advances(w)
  PROVE  /\ worker[w].phase = "search" /\ IsGame(G) /\ Placed(G, Top(w)) /\ Current(G, w, Top(w))
         /\ Top(w).begun /\ Top(w).left # <<>> /\ Normal
         /\ DOMAIN Top(w) = Fields /\ Top(w).alpha \in Int /\ Top(w).beta \in Int /\ Top(w).depth \in 0..MaxDepth
         /\ -Infinity <= Top(w).alpha /\ Top(w).beta <= Infinity /\ MaxDepth \in Nat
         /\ Top(w).left \in Seq(Nat) /\ Top(w).tried \in Nat
<1>1. worker[w].phase = "search" /\ Returned(w) = Nothing /\ Top(w).begun /\ Top(w).left # <<>>
  BY DEF Advances
<1>2. IsGame(G) /\ Placed(G, Top(w)) /\ Current(G, w, Top(w)) /\ Normal
  BY <1>1, SearchIs DEF Searching
<1> QED BY <1>1, <1>2, AlphaBetaAssumption DEF Placed, Shaped

(* Every call for a next move keeps the stack sound. *)
LEMMA TryCall ==
  ASSUME NEW w, Searching(w), Advances(w), Top(w).kind # "quiet",
         NEW call, call \notin {"none", "razor", "quiet"}, NEW d, NEW a, NEW b, NEW u,
         Top(w).depth >= 1 => d \in 0..MaxDepth,
         call # "reduced" => d = Top(w).depth - 1 + Extension(Top(w), Head(Top(w).left)),
         a \in Int /\ b \in Int /\ -Infinity <= a /\ (Top(w).alpha < Top(w).beta => a < b /\ b <= Infinity),
         Call(w, [Top(w) EXCEPT !.left = Tail(@), !.tried = @ + 1], Head(Top(w).left), call, d, a, b, u)
  PROVE  Stepped(w)
<1> DEFINE f == Top(w)  m == Head(f.left)  e == [f EXCEPT !.left = Tail(@), !.tried = @ + 1]
           h == [e EXCEPT !.call = call, !.child = m]
<1>1. /\ worker[w].phase = "search" /\ IsGame(G) /\ Placed(G, f) /\ Current(G, w, f) /\ f.begun /\ f.left # <<>>
      /\ DOMAIN f = Fields /\ Normal
  BY AdvancesIs
<1>2. worker' = Push(w, h, Frame("inner", G.next[e.node][m], d, -b, -a, e.ply + 1, u))
  BY DEF Call
<1>3. Asks(f, h, m, call, Tail(f.left), f.tried + 1)
  <2> HIDE DEF f
  <2> QED BY <1>1, AsksNext
<1>4. e.node = f.node /\ e.ply = f.ply
  <2> HIDE DEF f
  <2> QED BY <1>1 DEF Fields
<1> HIDE DEF h, e
<1>5. /\ Follows(G, f, h) /\ Waits(G, w, h) /\ f.alpha < f.beta /\ Tries(G, w, f, FALSE)
  BY <1>1, <1>3, NextMove
<1>6. /\ h.kind = f.kind /\ h.node = f.node /\ h.ply = f.ply /\ h.call = call /\ h.child = m
      /\ h.depth = f.depth /\ h.used = f.used
  BY <1>3 DEF Asks, Alike
<1>7. f.depth >= 1
  BY <1>5 DEF Tries, Goes
<1>8. call # "reduced" => d = Deeper(G, h)
  <2>1. Extension(f, m) = Extra(G, f, m)
    BY <1>1, ExtensionIs
  <2>2. Extra(G, f, m) = Extra(G, h, m)
    BY <1>6 DEF Extra
  <2> QED BY <1>6, <2>1, <2>2 DEF Deeper
<1>9. worker' = Push(w, h, Frame("inner", G.next[h.node][h.child], d, -b, -a, h.ply + 1, u))
  BY <1>2, <1>4, <1>6
<1>10. d \in 0..MaxDepth
  BY <1>7
<1>11. a \in Int /\ b \in Int /\ a < b /\ b <= Infinity /\ -Infinity <= a
  BY <1>5
<1>12. h.kind # "quiet" /\ h.call # "razor" /\ (h.call # "reduced" => d = Deeper(G, h))
  BY <1>6, <1>8
<1> HIDE DEF f, m
<1> QED BY <1>1, <1>5, <1>9, <1>10, <1>11, <1>12, CallKeeps DEF f

(* The first call for a move of a node. *)
LEMMA TryKeeps ==
  ASSUME NEW w, Searching(w), Try(w)
  PROVE  Stepped(w)
<1> DEFINE f == Top(w)  m == Head(f.left)  e == [f EXCEPT !.left = Tail(@), !.tried = @ + 1]
           x == Extension(f, m)
<1>1. Advances(w) /\ f.kind # "quiet"
  BY DEF Try
<1>2. /\ f.alpha \in Int /\ f.beta \in Int /\ f.depth \in 0..MaxDepth /\ Normal /\ MaxDepth \in Nat
      /\ -Infinity <= f.alpha /\ f.beta <= Infinity
  BY <1>1, AdvancesIs
<1>3. x \in {0, 1}
  BY <1>2, ExtensionIs
<1>4. f.depth >= 1 => f.depth - 1 + x \in 0..MaxDepth
  <2> HIDE DEF x
  <2> QED BY <1>2, <1>3
<1>5. CASE Call(w, e, m, "full", f.depth - 1 + x, f.alpha, f.beta, f.used + x)
  <2>1. "full" \notin {"none", "razor", "quiet"}
    OBVIOUS
  <2> QED BY <1>1, <1>2, <1>4, <1>5, <2>1, TryCall
<1>6. CASE Call(w, e, m, "scout", f.depth - 1 + x, f.alpha, f.alpha + 1, f.used + x)
  <2>1. "scout" \notin {"none", "razor", "quiet"}
    OBVIOUS
  <2>2. /\ f.alpha \in Int /\ f.alpha + 1 \in Int /\ -Infinity <= f.alpha
        /\ f.alpha < f.beta => f.alpha < f.alpha + 1 /\ f.alpha + 1 <= Infinity
    BY <1>2
  <2> QED BY <1>1, <1>4, <1>6, <2>1, <2>2, TryCall
<1>7. ASSUME NEW d \in ReducedDepths(f, m), Call(w, e, m, "reduced", d, f.alpha, f.alpha + 1, f.used)
      PROVE  Stepped(w)
  <2>1. "reduced" \notin {"none", "razor", "quiet"}
    OBVIOUS
  <2>2. /\ f.alpha \in Int /\ f.alpha + 1 \in Int /\ -Infinity <= f.alpha
        /\ f.alpha < f.beta => f.alpha < f.alpha + 1 /\ f.alpha + 1 <= Infinity
    BY <1>2
  <2>3. f.depth >= 1 => d \in 0..MaxDepth
    <3>1. \E r \in 1..f.depth - 1 : d = f.depth - 1 - r
      BY DEF ReducedDepths, LmrReductions
    <3> HIDE DEF f
    <3> QED BY <1>2, <3>1
  <2> QED BY <1>1, <1>7, <2>1, <2>2, <2>3, TryCall
<1> QED BY <1>5, <1>6, <1>7 DEF Try

(* The call for a move of a leaf. *)
LEMMA TryQuietKeeps ==
  ASSUME NEW w, Searching(w), TryQuiet(w)
  PROVE  Stepped(w)
<1> DEFINE f == Top(w)  m == Head(f.left)  g == G  n == g.next[f.node][m]  q == Quieter(f.qply)
           h == [f EXCEPT !.left = Tail(@), !.tried = @ + 1, !.call = "quiet", !.child = m]
           c == [Frame("quiet", n, 0, -f.beta, -f.alpha, f.ply + 1, 0) EXCEPT !.qply = q]
<1>1. /\ Advances(w) /\ f.kind = "quiet" /\ worker' = Push(w, h, c)
  BY DEF TryQuiet
<1>2. /\ worker[w].phase = "search" /\ IsGame(g) /\ Placed(g, f) /\ Current(g, w, f) /\ f.begun /\ f.left # <<>>
      /\ DOMAIN f = Fields
  BY <1>1, AdvancesIs
<1>3. Asks(f, h, m, "quiet", Tail(f.left), f.tried + 1)
  <2> HIDE DEF f
  <2> QED BY <1>2, AsksQuiet
<1> HIDE DEF h
<1>4. /\ Follows(g, f, h) /\ Waits(g, w, h) /\ f.alpha < f.beta /\ m \in DOMAIN g.next[f.node]
  BY <1>1, <1>2, <1>3, NextMove
<1>5. /\ h.kind = f.kind /\ h.node = f.node /\ h.ply = f.ply /\ h.call = "quiet" /\ h.child = m /\ h.qply = f.qply
      /\ h.alpha = f.alpha /\ h.beta = f.beta
  BY <1>3 DEF Asks, Alike
<1>6. /\ f.node \in DOMAIN g.kind /\ f.ply \in Nat /\ f.ply + g.free[f.node] <= CellCount
      /\ f.qply \in 0..MaxQsearchPly /\ f.alpha \in Int /\ f.beta \in Int /\ -Infinity <= f.alpha /\ f.beta <= Infinity
  BY <1>2 DEF Placed, Shaped
<1>7. /\ n \in DOMAIN g.kind /\ g.free[n] \in Nat /\ g.free[f.node] \in Nat /\ g.free[n] < g.free[f.node]
  BY <1>2, <1>4, <1>6, GameIs
<1>8. q \in 0..MaxQsearchPly
  BY <1>6, QuieterIs
<1>9. Place(g, n, 0, -f.beta, -f.alpha, f.ply + 1)
  <2> HIDE DEF n, f, g
  <2> QED BY <1>4, <1>6, <1>7, AlphaBetaAssumption DEF Place
<1> HIDE DEF f, m, n, q, g
<1>10. /\ Framed(c, "quiet", n, 0, -f.beta, -f.alpha, f.ply + 1, q) /\ Placed(g, c) /\ Current(g, w, c)
  BY <1>8, <1>9, QuietFrameOk
<1> HIDE DEF c
<1>11. c.kind = "quiet" /\ c.node = n /\ c.ply = f.ply + 1 /\ c.qply = q /\ c.alpha0 = -f.beta /\ c.beta = -f.alpha
  BY <1>10 DEF Framed
<1>12. Called(g, h, c)
  BY <1>1, <1>5, <1>11 DEF Called, NextOf, n, q
<1> QED BY <1>1, <1>2, <1>4, <1>10, <1>11, <1>12, PushWorks DEF g, f

(* What holds when a frame has its answer. *)
LEMMA AnsweredIs ==
  ASSUME NEW w, Searching(w), Answered(w)
  PROVE  /\ worker[w].phase = "search" /\ IsGame(G) /\ Placed(G, Top(w)) /\ Waits(G, w, Top(w))
         /\ Answers(G, Top(w), Returned(w)) /\ Normal /\ Returned(w).score \in Int
         /\ DOMAIN Top(w) = Fields /\ Top(w).alpha \in Int /\ Top(w).beta \in Int /\ Top(w).depth \in 0..MaxDepth
         /\ -Infinity <= Top(w).alpha /\ Top(w).beta <= Infinity /\ MaxDepth \in Nat
<1>1. worker[w].phase = "search" /\ Returned(w) # Nothing
  BY DEF Answered
<1>2. IsGame(G) /\ Placed(G, Top(w)) /\ Waits(G, w, Top(w)) /\ Answers(G, Top(w), Returned(w)) /\ Normal
  BY <1>1, SearchIs DEF Searching
<1>3. Returned(w).score \in Int
  BY <1>2 DEF Answers, Results
<1> QED BY <1>1, <1>2, <1>3, AlphaBetaAssumption DEF Placed, Shaped

(* What a move of a root or an inner frame was answered, as that frame *)
(* counts it. *)
LEMMA AnswerIs ==
  ASSUME NEW w, Searching(w), Answered(w)
  PROVE  /\ Answer(w).score = -Returned(w).score /\ Answer(w).score \in Int
         /\ Answer(w).lower <=> Returned(w).upper
         /\ Answer(w).upper <=> Returned(w).lower
<1>1. Returned(w).score \in Int
  BY AnsweredIs
<1>2. \A r : /\ Negated(r).score = -r.score
             /\ Negated(r).lower <=> r.upper
             /\ Negated(r).upper <=> r.lower
  BY Zenon DEF Negated, Result
<1>3. -Returned(w).score \in Int
  BY <1>1
<1> QED BY <1>2, <1>3, Zenon DEF Answer

(* Every further call for the same move keeps the stack sound. *)
LEMMA AgainCall ==
  ASSUME NEW w, Searching(w), Answered(w), Top(w).call \notin {"razor", "quiet"},
         NEW call, call \notin {"none", "razor", "quiet", "reduced"}, NEW d, NEW a, NEW b, NEW u,
         d = Top(w).depth - 1 + Extension(Top(w), Top(w).child),
         a \in Int /\ b \in Int /\ -Infinity <= a /\ (Top(w).alpha < Top(w).beta => a < b /\ b <= Infinity),
         Call(w, Top(w), Top(w).child, call, d, a, b, u)
  PROVE  Stepped(w)
<1> DEFINE f == Top(w)  m == f.child  h == [f EXCEPT !.call = call, !.child = m]
<1>1. /\ worker[w].phase = "search" /\ IsGame(G) /\ Placed(G, f) /\ Waits(G, w, f) /\ DOMAIN f = Fields /\ Normal
      /\ f.depth \in 0..MaxDepth /\ MaxDepth \in Nat
  BY AnsweredIs
<1>2. worker' = Push(w, h, Frame("inner", G.next[f.node][m], d, -b, -a, f.ply + 1, u))
  BY DEF Call
<1>3. Asks(f, h, m, call, f.left, f.tried)
  <2> HIDE DEF f
  <2> QED BY <1>1, AsksAgain
<1> HIDE DEF h
<1>4. /\ Follows(G, f, h) /\ Waits(G, w, h) /\ f.alpha < f.beta /\ Tries(G, w, f, TRUE) /\ f.kind # "quiet"
  BY <1>1, <1>3, SameMove
<1>5. /\ h.kind = f.kind /\ h.node = f.node /\ h.ply = f.ply /\ h.call = call /\ h.child = m
      /\ h.depth = f.depth /\ h.used = f.used
  BY <1>3 DEF Asks, Alike
<1>6. f.depth >= 1
  BY <1>4 DEF Tries, Goes
<1>7. Extension(f, m) = Extra(G, f, m) /\ Extension(f, m) \in {0, 1}
  BY <1>1, ExtensionIs
<1>8. d = Deeper(G, h)
  <2>1. Extra(G, f, m) = Extra(G, h, m)
    BY <1>5 DEF Extra
  <2> QED BY <1>5, <1>7, <2>1 DEF Deeper
<1>9. worker' = Push(w, h, Frame("inner", G.next[h.node][h.child], d, -b, -a, h.ply + 1, u))
  BY <1>2, <1>5
<1>10. d \in 0..MaxDepth
  <2> DEFINE x == Extension(f, m)
  <2>1. x \in {0, 1} /\ d = f.depth - 1 + x
    BY <1>7
  <2> HIDE DEF x, f
  <2> QED BY <1>1, <1>6, <2>1
<1>11. a \in Int /\ b \in Int /\ a < b /\ b <= Infinity /\ -Infinity <= a
  BY <1>4
<1>12. h.kind # "quiet" /\ h.call # "razor" /\ (h.call # "reduced" => d = Deeper(G, h))
  BY <1>4, <1>5, <1>8
<1> HIDE DEF f, m
<1> QED BY <1>1, <1>4, <1>9, <1>10, <1>11, <1>12, CallKeeps DEF f

(* The search in all of the window. *)
LEMMA ResearchKeeps ==
  ASSUME NEW w, Searching(w), Research(w)
  PROVE  Stepped(w)
<1> DEFINE f == Top(w)  x == Extension(f, f.child)
<1>1. Answered(w) /\ f.call = "scout" /\ Call(w, f, f.child, "full", f.depth - 1 + x, f.alpha, f.beta, f.used + x)
  BY DEF Research, Again, Improves
<1>2. f.alpha \in Int /\ f.beta \in Int /\ -Infinity <= f.alpha /\ f.beta <= Infinity
  BY <1>1, AnsweredIs
<1>3. "full" \notin {"none", "razor", "quiet", "reduced"} /\ f.call \notin {"razor", "quiet"}
  BY <1>1
<1> QED BY <1>1, <1>2, <1>3, AgainCall

(* The search for the exact score of a tie. *)
LEMMA ResolveTieKeeps ==
  ASSUME NEW w, Searching(w), ResolveTie(w)
  PROVE  Stepped(w)
<1> DEFINE f == Top(w)  x == Extension(f, f.child)
<1>1. /\ Answered(w) /\ f.call \in {"scout", "full"} /\ f.kind = "root"
      /\ Call(w, f, f.child, "tie", f.depth - 1, -Infinity, Infinity, f.used)
  BY DEF ResolveTie, Ties
<1>2. f.depth \in 0..MaxDepth /\ MaxDepth \in Nat /\ Infinity \in Int /\ -Infinity \in Int /\ -Infinity < Infinity
  BY <1>1, AnsweredIs
<1>3. "tie" \notin {"none", "razor", "quiet", "reduced"} /\ f.call \notin {"razor", "quiet"}
  BY <1>1
<1>4. x = 0
  BY <1>1 DEF Extension
<1>5. f.depth - 1 = f.depth - 1 + x
  <2> HIDE DEF f, x
  <2> QED BY <1>2, <1>4
<1>6. /\ -Infinity \in Int /\ Infinity \in Int /\ -Infinity <= -Infinity
      /\ f.alpha < f.beta => -Infinity < Infinity /\ Infinity <= Infinity
  BY <1>2
<1>7. f.depth - 1 = f.depth - 1 + Extension(f, f.child)
  BY <1>5
<1> QED BY <1>1, <1>3, <1>6, <1>7, AgainCall

--------------------------------------------------
(* A frame that goes on with what it has left. *)

GoesOnWith(f, h, tried, best, lower, upper, alpha, left) ==
  /\ DOMAIN h = Fields /\ h.begun = f.begun /\ h.kind = f.kind /\ h.node = f.node /\ h.depth = f.depth
  /\ h.ply = f.ply /\ h.qply = f.qply /\ h.alpha0 = f.alpha0 /\ h.beta = f.beta /\ h.reduced = f.reduced
  /\ h.tried = tried /\ h.best = best /\ h.alpha = alpha /\ h.left = left
  /\ h.lower <=> lower
  /\ h.upper <=> upper
  /\ Flags(h)

(* A frame that goes on stays the callee it was. *)
LEMMA GoesOnFollows ==
  ASSUME NEW g, NEW f, NEW h, Placed(g, f), NEW tried \in Nat, NEW best \in Int, NEW lower, NEW upper,
         NEW alpha \in Int, -Infinity <= alpha, NEW left \in Seq(Nat),
         GoesOnWith(f, h, tried, best, lower, upper, alpha, left)
  PROVE  Follows(g, f, h)
<1>1. Shaped(f)
  BY DEF Placed
<1>2. Shaped(h)
  BY <1>1 DEF Shaped, GoesOnWith
<1>3. Placed(g, h)
  BY <1>2 DEF Placed, GoesOnWith
<1>4. Linked(f, h)
  BY DEF Linked, GoesOnWith
<1> QED BY <1>3, <1>4, LinkedFollows

(* A move left out takes the upper evidence away. *)
LEMMA PruneKeeps ==
  ASSUME NEW w, Searching(w), Prune(w)
  PROVE  Stepped(w)
<1> DEFINE f == Top(w)  g == G  h == [f EXCEPT !.left = Tail(@), !.tried = @ + 1, !.upper = FALSE]
<1>1. Advances(w) /\ f.kind = "inner" /\ f.tried > 0 /\ worker' = Replace(w, h)
  BY DEF Prune
<1>2. /\ worker[w].phase = "search" /\ IsGame(g) /\ Placed(g, f) /\ Current(g, w, f) /\ f.begun /\ f.left # <<>>
      /\ DOMAIN f = Fields /\ f.left \in Seq(Nat) /\ f.tried \in Nat /\ f.alpha \in Int /\ -Infinity <= f.alpha
  BY <1>1, AdvancesIs
<1>3. Tries(g, w, f, FALSE) /\ Shaped(f) /\ Flags(f)
  BY <1>2 DEF Current, Placed
<1>4. Tail(f.left) \in Seq(Nat) /\ ToSet(Tail(f.left)) \subseteq ToSet(f.left)
  BY <1>2, LeftIs
<1>5. GoesOnWith(f, h, f.tried + 1, f.best, f.lower, FALSE, f.alpha, Tail(f.left))
  <2> HIDE DEF f
  <2>1. /\ DOMAIN h = Fields /\ h.begun = f.begun /\ h.kind = f.kind /\ h.node = f.node /\ h.depth = f.depth
        /\ h.ply = f.ply /\ h.qply = f.qply /\ h.alpha0 = f.alpha0 /\ h.beta = f.beta /\ h.reduced = f.reduced
        /\ h.tried = f.tried + 1 /\ h.best = f.best /\ h.alpha = f.alpha /\ h.left = Tail(f.left)
        /\ h.lower = f.lower /\ h.upper = FALSE
    BY <1>2 DEF Fields
  <2> HIDE DEF h
  <2>2. Flags(h)
    BY <2>1, <1>3, ZenonT(60) DEF Flags
  <2> QED BY <2>1, <2>2 DEF GoesOnWith
<1> HIDE DEF h, f, g
<1>6. Follows(g, f, h)
  <2>1. f.tried + 1 \in Nat
    BY <1>2
  <2>2. f.best \in Int
    BY <1>3 DEF Shaped
  <2> QED BY <1>2, <1>4, <1>5, <2>1, <2>2, GoesOnFollows
<1>7. Open(h, FALSE) \subseteq Open(f, FALSE)
  BY <1>4, <1>5 DEF Open, GoesOnWith
<1>8. Tries(g, w, h, FALSE)
  <2>1. Goes(g, h, FALSE)
    <3>1. /\ h.kind = f.kind /\ h.node = f.node /\ h.depth = f.depth /\ h.ply = f.ply /\ h.beta = f.beta
          /\ h.tried = f.tried + 1 /\ h.best = f.best /\ h.alpha = f.alpha
      BY <1>5 DEF GoesOnWith
    <3>2. /\ ~IsFact(g, f.node) /\ Open(f, FALSE) \subseteq DOMAIN g.next[f.node]
          /\ f.best = -Infinity \/ Plausible(f.best, f.ply, g.free[f.node])
          /\ f.best = -Infinity => f.tried = 0
          /\ f.alpha < f.beta /\ (f.kind # "quiet" => f.depth >= 1)
      BY <1>2, <1>3 DEF Tries, Goes
    <3>3. h.best # -Infinity /\ h.tried # 0
      BY <1>1, <1>2, <3>1, <3>2
    <3> QED BY <1>7, <3>1, <3>2, <3>3 DEF Goes
  <2>2. InnerTruth(g, f, FALSE)
    BY <1>1, <1>3 DEF Tries, Knows, f
  <2>3. InnerTruth(g, h, FALSE)
    BY <1>5, <1>7, <2>2 DEF InnerTruth, GoesOnWith
  <2>4. h.kind = "inner"
    BY <1>1, <1>5 DEF GoesOnWith, f
  <2> QED BY <2>1, <2>3, <2>4 DEF Tries
<1>9. Current(g, w, h)
  BY <1>2, <1>5, <1>8 DEF Current, GoesOnWith
<1> QED BY <1>1, <1>2, <1>6, <1>9, ReplaceWorks DEF f, g

--------------------------------------------------
(* Counting an answer. *)

(* A plausible score is a number inside the infinite window. *)
LEMMA PlausibleInt ==
  ASSUME NEW s, NEW p \in Nat, NEW r \in Nat, p + r <= CellCount, Plausible(s, p, r)
  PROVE  s \in Int /\ -Infinity < s /\ s < Infinity
BY DEF Plausible, Threshold

(* The larger of two numbers. *)
LEMMA LargerIs ==
  ASSUME NEW a \in Int, NEW b \in Int
  PROVE  Larger(a, b) \in Int /\ Larger(a, b) >= a /\ Larger(a, b) >= b /\ Larger(a, b) \in {a, b}
BY DEF Larger

(* The least values of a move are numbers at any ply. *)
LEMMA FallsInt ==
  ASSUME NEW g, IsGame(g), NEW n \in DOMAIN g.kind, NEW m \in DOMAIN g.next[n], NEW d \in 0..MaxDepth, d # 0, NEW p \in Nat
  PROVE  \A v \in Falls(g, Values(g), Extends(g), n, d, m) : AtPly(v, p) \in Int
<1>1. MaxDepth \in Nat /\ Values(g) \in WorthArrays(g, MaxDepth)
  BY AlphaBetaAssumption, WorthSettles DEF Values
<1>2. Falls(g, Values(g), Extends(g), n, d, m) \in SUBSET Int
  BY <1>1, OptionsAre
<1>3. \A v \in Int : AtPly(v, p) \in Int
  BY DEF AtPly, ScoreFromTt
<1> QED BY <1>2, <1>3

(* A root or an inner frame whose pending move has been counted. *)
LEMMA Counted ==
  ASSUME NEW g, IsGame(g), NEW w, NEW f, Placed(g, f), Waits(g, w, f), f.kind # "quiet", f.call # "razor",
         NEW h, NEW best, NEW lower, NEW upper, NEW alpha \in Int, NEW left,
         GoesOnWith(f, h, f.tried, best, lower, upper, alpha, left),
         Plausible(best, f.ply, g.free[f.node]), -Infinity <= alpha,
         left \in {f.left, <<>>}, left # <<>> => alpha < f.beta,
         Knows(g, w, f) /\ lower => best <= AtPly(Values(g)[f.node][f.depth].most, f.ply),
         Knows(g, w, f) /\ upper =>
           /\ left = f.left /\ f.upper /\ f.best <= best
           /\ f.child \in Chosen(g, f.node) =>
                \E v \in Falls(g, Values(g), Extends(g), f.node, f.depth, f.child) : AtPly(v, f.ply) <= best
  PROVE  Follows(g, f, h) /\ Current(g, w, h)
<1>1. /\ f.begun /\ f.child \in DOMAIN g.next[f.node] /\ Tries(g, w, f, TRUE)
  BY DEF Waits
<1>2. /\ f.left \in Seq(Nat) /\ f.tried \in Nat /\ f.ply \in Nat /\ f.node \in DOMAIN g.kind
      /\ f.ply + g.free[f.node] <= CellCount /\ f.depth \in 0..MaxDepth /\ f.best \in Int
  BY DEF Placed, Shaped
<1>3. g.free[f.node] \in Nat
  BY <1>2, GameIs
<1>4. best \in Int /\ -Infinity < best
  BY <1>2, <1>3, PlausibleInt
<1>5. left \in Seq(Nat) /\ ToSet(left) \subseteq ToSet(f.left)
  BY <1>2, NothingLeft
<1>6. Follows(g, f, h)
  BY <1>2, <1>4, <1>5, GoesOnFollows
<1>7. /\ h.kind = f.kind /\ h.node = f.node /\ h.depth = f.depth /\ h.ply = f.ply /\ h.beta = f.beta
      /\ h.tried = f.tried /\ h.best = best /\ h.alpha = alpha /\ h.left = left /\ h.begun
      /\ h.lower <=> lower
      /\ h.upper <=> upper
  BY <1>1 DEF GoesOnWith
<1>8. /\ ~IsFact(g, f.node) /\ Open(f, TRUE) \subseteq DOMAIN g.next[f.node] /\ f.tried >= 1 /\ f.depth >= 1
  BY <1>1 DEF Tries, Goes
<1>9. Open(h, FALSE) = ToSet(left) /\ Open(f, TRUE) = ToSet(f.left) \cup {f.child}
  BY <1>7 DEF Open
<1>10. Goes(g, h, FALSE)
  <2>1. /\ h.kind = f.kind /\ h.node = f.node /\ h.depth = f.depth /\ h.ply = f.ply /\ h.beta = f.beta
        /\ h.tried = f.tried /\ h.best = best /\ h.alpha = alpha /\ h.left = left
    BY <1>7
  <2>2. Open(h, FALSE) \subseteq DOMAIN g.next[f.node]
    BY <1>5, <1>8, <1>9
  <2>3. h.best # -Infinity /\ h.tried # 0
    BY <1>2, <1>4, <1>8, <2>1
  <2> QED BY <1>8, <2>1, <2>2, <2>3 DEF Goes
<1>11. ASSUME Knows(g, w, f)
       PROVE  InnerTruth(g, h, FALSE)
  <2>1. InnerTruth(g, f, TRUE)
    BY <1>1, <1>11 DEF Tries
  <2>2. /\ Open(f, TRUE) \subseteq Chosen(g, f.node) /\ Chosen(g, f.node) # {}
        /\ f.upper => \A m \in Chosen(g, f.node) \ Open(f, TRUE) :
             \E v \in Falls(g, Values(g), Extends(g), f.node, f.depth, m) : AtPly(v, f.ply) <= f.best
    BY <2>1 DEF InnerTruth
  <2>3. ASSUME upper, NEW m \in Chosen(g, f.node) \ Open(h, FALSE)
        PROVE  \E v \in Falls(g, Values(g), Extends(g), f.node, f.depth, m) : AtPly(v, f.ply) <= best
    <3>1. /\ left = f.left /\ f.upper /\ f.best <= best
          /\ f.child \in Chosen(g, f.node) =>
               \E v \in Falls(g, Values(g), Extends(g), f.node, f.depth, f.child) : AtPly(v, f.ply) <= best
      BY <1>11, <2>3
    <3>2. CASE m = f.child
      BY <2>3, <3>1, <3>2
    <3>3. CASE m # f.child
      <4>1. m \notin Open(f, TRUE)
        BY <1>9, <2>3, <3>1, <3>3
      <4>2. PICK v \in Falls(g, Values(g), Extends(g), f.node, f.depth, m) : AtPly(v, f.ply) <= f.best
        BY <2>2, <2>3, <3>1, <4>1
      <4>3. m \in DOMAIN g.next[f.node]
        BY <1>2, <2>3, ChosenAre
      <4>4. f.depth # 0
        BY <1>2, <1>8
      <4>5. AtPly(v, f.ply) \in Int
        BY <1>2, <4>2, <4>3, <4>4, FallsInt
      <4>6. AtPly(v, f.ply) <= best
        BY <1>2, <1>4, <3>1, <4>2, <4>5
      <4> QED BY <4>2, <4>6
    <3> QED BY <3>2, <3>3
  <2>4. lower => best <= AtPly(Values(g)[f.node][f.depth].most, f.ply)
    BY <1>11
  <2>5. Open(h, FALSE) \subseteq Chosen(g, f.node)
    BY <1>5, <1>9, <2>2
  <2> QED BY <1>7, <2>2, <2>3, <2>4, <2>5 DEF InnerTruth
<1>12. Knows(g, w, h) => Knows(g, w, f)
  BY <1>7 DEF Knows
<1>13. Tries(g, w, h, FALSE)
  BY <1>7, <1>10, <1>11, <1>12 DEF Tries
<1> QED BY <1>6, <1>7, <1>13 DEF Current

(* What an answer says of the move, and of the frame. *)
LEMMA AnswerSays ==
  ASSUME NEW g, IsGame(g), NEW w, NEW f, Placed(g, f), Waits(g, w, f), NEW r, Answers(g, f, r),
         f.kind # "quiet", f.call \notin {"razor", "reduced"}, Knows(g, w, f)
  PROVE  /\ r.upper => -r.score <= AtPly(Values(g)[f.node][f.depth].most, f.ply)
         /\ r.lower => \E v \in Falls(g, Values(g), Extends(g), f.node, f.depth, f.child) : AtPly(v, f.ply) <= -r.score
<1> DEFINE n == f.node  d == f.depth  m == f.child  V == Values(g)  e == Extends(g)  x == Extra(g, f, m)
           k == NextOf(g, f)
<1>1. /\ Tries(g, w, f, TRUE) /\ m \in DOMAIN g.next[n]
  BY DEF Waits
<1>2. /\ n \in DOMAIN g.kind /\ d \in 0..MaxDepth /\ f.ply \in Nat /\ f.ply + g.free[n] <= CellCount /\ d # 0
      /\ ~IsFact(g, n)
  BY <1>1 DEF Placed, Shaped, Tries, Goes
<1>3. m \in Chosen(g, n)
  BY <1>1 DEF Tries, InnerTruth, Open
<1>4. MaxDepth \in Nat /\ V \in WorthArrays(g, MaxDepth)
  BY AlphaBetaAssumption, WorthSettles DEF Values
<1>5. /\ FromChild(V[g.next[n][m]][d - 1].most) \in Falls(g, V, e, n, d, m)
      /\ FromChild(V[g.next[n][m]][d - 1].least) \in Rises(g, V, e, n, d, m)
      /\ e /\ m \in Forcing(g, n) =>
           /\ FromChild(V[g.next[n][m]][d].most) \in Falls(g, V, e, n, d, m)
           /\ FromChild(V[g.next[n][m]][d].least) \in Rises(g, V, e, n, d, m)
  <2> HIDE DEF n, d, m, V, e
  <2> QED BY <1>1, <1>2, <1>4, OptionsAre
<1>6. Deeper(g, f) = d - 1 + x /\ ((x = 1 /\ e /\ m \in Forcing(g, n)) \/ x = 0)
  BY DEF Deeper, Extra
<1>7. /\ FromChild(V[k][Deeper(g, f)].most) \in Falls(g, V, e, n, d, m)
      /\ FromChild(V[k][Deeper(g, f)].least) \in Rises(g, V, e, n, d, m)
  <2>1. k = g.next[n][m] /\ d \in Int
    BY <1>2 DEF NextOf
  <2>2. Deeper(g, f) = d - 1 + x
    BY DEF Deeper
  <2> HIDE DEF k, V, e, n, d, m, x
  <2>3. Deeper(g, f) = d - 1 \/ (Deeper(g, f) = d /\ e /\ m \in Forcing(g, n))
    BY <1>6, <2>1, <2>2
  <2> QED BY <1>5, <2>1, <2>3
<1>8. /\ r.upper => -r.score <= AtPly(FromChild(V[k][Deeper(g, f)].least), f.ply)
      /\ r.lower => AtPly(FromChild(V[k][Deeper(g, f)].most), f.ply) <= -r.score
  BY DEF Answers
<1>9. \A v \in Rises(g, V, e, n, d, m) : AtPly(v, f.ply) <= AtPly(V[n][d].most, f.ply)
  BY <1>2, <1>3, <1>4, WorthAt DEF Values
<1>10. r.upper => -r.score <= AtPly(V[n][d].most, f.ply)
  <2> DEFINE v == FromChild(V[k][Deeper(g, f)].least)
  <2>1. AtPly(v, f.ply) <= AtPly(V[n][d].most, f.ply)
    BY <1>7, <1>9
  <2>2. r.score \in Int
    BY DEF Answers, Results
  <2>3. V[n][d].most \in Int
    BY <1>2, <1>4, WorthWorthy DEF Values, Worthy
  <2>4. v \in Int
    <3>1. Rises(g, V, e, n, d, m) \in SUBSET Int
      <4> HIDE DEF V, e, n, d, m
      <4> QED BY <1>1, <1>2, <1>4, OptionsAre
    <3> QED BY <1>7, <3>1
  <2>5. \A u \in Int : AtPly(u, f.ply) \in Int
    BY <1>2 DEF AtPly, ScoreFromTt
  <2>6. AtPly(v, f.ply) \in Int /\ AtPly(V[n][d].most, f.ply) \in Int
    BY <2>3, <2>4, <2>5
  <2>7. r.upper => -r.score <= AtPly(v, f.ply)
    BY <1>8
  <2> HIDE DEF v, V, n, d
  <2> QED BY <2>1, <2>2, <2>6, <2>7
<1> QED BY <1>7, <1>8, <1>10

(* The fields of a frame that has counted an answer, one by one. *)
Turned(f, h, best, lower, upper, alpha, left) ==
  /\ DOMAIN h = Fields /\ h.begun = f.begun /\ h.kind = f.kind /\ h.node = f.node /\ h.depth = f.depth
  /\ h.ply = f.ply /\ h.qply = f.qply /\ h.alpha0 = f.alpha0 /\ h.beta = f.beta /\ h.reduced = f.reduced
  /\ h.tried = f.tried /\ h.best = best /\ h.alpha = alpha /\ h.left = left /\ h.lower = lower /\ h.upper = upper

(* Taking an answer goes on in the frame. *)
LEMMA TurnedGoesOn ==
  ASSUME NEW f, NEW h, NEW best, NEW lower, lower \in BOOLEAN, NEW upper, upper \in BOOLEAN, NEW alpha, NEW left,
         Turned(f, h, best, lower, upper, alpha, left)
  PROVE  GoesOnWith(f, h, f.tried, best, lower, upper, alpha, left)
<1>1. Flags(h)
  BY Zenon DEF Flags, Turned
<1> QED BY <1>1, Zenon DEF Turned, GoesOnWith

(* Taking an answer into the flags. *)
LEMMA TurnedFlags ==
  ASSUME NEW f, DOMAIN f = Fields, NEW lower, NEW upper
  PROVE  Turned(f, [f EXCEPT !.upper = upper, !.lower = lower], f.best, lower, upper, f.alpha, f.left)
BY DEF Turned, Fields

(* Taking an answer for the best. *)
LEMMA TurnedBest ==
  ASSUME NEW f, NEW h, NEW best, NEW lower, NEW upper, NEW alpha, NEW left,
         Turned(f, h, best, lower, upper, alpha, left), NEW s, NEW at, NEW exact
  PROVE  Turned(f, [h EXCEPT !.best = s, !.at = at, !.exact = exact], s, lower, upper, alpha, left)
BY DEF Turned, Fields

(* Raising alpha. *)
LEMMA TurnedAlpha ==
  ASSUME NEW f, NEW h, NEW best, NEW lower, NEW upper, NEW alpha, NEW left,
         Turned(f, h, best, lower, upper, alpha, left), NEW s
  PROVE  Turned(f, [h EXCEPT !.alpha = s], best, lower, upper, s, left)
BY DEF Turned, Fields

(* A cutoff drops the moves left, and the upper evidence. *)
LEMMA TurnedCut ==
  ASSUME NEW f, NEW h, NEW best, NEW lower, NEW upper, NEW alpha, NEW left,
         Turned(f, h, best, lower, upper, alpha, left)
  PROVE  Turned(f, [h EXCEPT !.left = <<>>, !.upper = FALSE], best, lower, FALSE, alpha, <<>>)
BY DEF Turned, Fields

(* A reduced search that fails low. *)
LEMMA TurnedScore ==
  ASSUME NEW f, DOMAIN f = Fields, NEW lower, NEW upper, NEW best
  PROVE  Turned(f, [f EXCEPT !.upper = upper, !.lower = lower, !.best = best], best, lower, upper, f.alpha, f.left)
BY DEF Turned, Fields

(* An answer to a leaf. *)
LEMMA TurnedQuiet ==
  ASSUME NEW f, DOMAIN f = Fields, NEW best, NEW alpha, NEW left
  PROVE  Turned(f, [f EXCEPT !.best = best, !.alpha = alpha, !.left = left], best, f.lower, f.upper, alpha, left)
BY DEF Turned, Fields

(* The best score so far and the answer make one that can occur. *)
LEMMA BestIs ==
  ASSUME NEW w, Searching(w), Answered(w), Top(w).call # "razor"
  PROVE  /\ Top(w).best \in Int /\ Top(w).begun /\ Flags(Top(w)) /\ Top(w).child \in DOMAIN G.next[Top(w).node]
         /\ Plausible(Larger(Top(w).best, Answer(w).score), Top(w).ply, G.free[Top(w).node])
         /\ Tries(G, w, Top(w), TRUE) /\ Top(w).alpha < Top(w).beta
         /\ (Top(w).kind = "quiet" <=> Top(w).call = "quiet")
         /\ Returned(w).lower \in BOOLEAN /\ Returned(w).upper \in BOOLEAN
<1> DEFINE f == Top(w)  r == Returned(w)  s == Answer(w).score  g == G  b == f.best
<1>1. /\ IsGame(g) /\ Placed(g, f) /\ Waits(g, w, f) /\ Answers(g, f, r)
  BY AnsweredIs
<1>2. s = -r.score /\ s \in Int
  BY AnswerIs
<1>3. /\ f.begun /\ f.child \in DOMAIN g.next[f.node] /\ Tries(g, w, f, TRUE) /\ (f.kind = "quiet" <=> f.call = "quiet")
  BY <1>1 DEF Waits
<1>4. Plausible(s, f.ply, g.free[f.node])
  BY <1>1, <1>2 DEF Answers
<1>5. b = -Infinity \/ Plausible(b, f.ply, g.free[f.node])
  BY <1>3 DEF Tries, Goes
<1>6. f.ply \in Nat /\ f.ply + g.free[f.node] <= CellCount /\ b \in Int /\ f.node \in DOMAIN g.kind /\ Flags(f)
  BY <1>1 DEF Placed, Shaped
<1>7. g.free[f.node] \in Nat
  BY <1>1, <1>6, GameIs
<1>8. -Infinity < s
  BY <1>4, <1>6, <1>7, PlausibleInt
<1>9. Plausible(Larger(b, s), f.ply, g.free[f.node])
  <2> HIDE DEF b, s, f, g
  <2> QED BY <1>2, <1>4, <1>5, <1>6, <1>8 DEF Larger
<1>10. f.alpha < f.beta
  BY <1>3 DEF Tries, Goes
<1>11. r.lower \in BOOLEAN /\ r.upper \in BOOLEAN
  <2>1. r \in Results
    BY <1>1 DEF Answers
  <2> QED BY <2>1 DEF Results
<1> QED BY <1>1, <1>3, <1>6, <1>9, <1>10, <1>11

(* A reduced search that fails low gives its evidence away. *)
LEMMA ReducedFails ==
  ASSUME NEW w, TakeReduced(w), Answer(w).score <= Top(w).alpha, DOMAIN Top(w) = Fields, Flags(Top(w)),
         Top(w).best \in Int, Answer(w).score \in Int
  PROVE  \E h, lower :
           /\ lower \in BOOLEAN /\ worker' = Replace(w, h) /\ (lower => Top(w).lower /\ Larger(Top(w).best, Answer(w).score) = Top(w).best)
           /\ GoesOnWith(Top(w), h, Top(w).tried, Larger(Top(w).best, Answer(w).score), lower, FALSE, Top(w).alpha, Top(w).left)
<1> DEFINE f == Top(w)  s == Answer(w).score  best == Larger(f.best, s)
           lower == IF s > f.best THEN FALSE ELSE f.lower
           h == [f EXCEPT !.upper = FALSE, !.lower = lower, !.best = best]
<1>1. worker' = Replace(w, h)
  BY DEF TakeReduced, FailLow
<1>2. Turned(f, h, best, lower, FALSE, f.alpha, f.left)
  <2> HIDE DEF f, best, lower
  <2> QED BY TurnedScore DEF f
<1>3. lower \in BOOLEAN
  <2>1. f.lower \in BOOLEAN
    BY DEF Flags
  <2> QED BY <2>1, Zenon
<1>4. lower => f.lower /\ best = f.best
  <2>1. lower => ~(s > f.best) /\ f.lower
    BY Zenon
  <2>2. ~(s > f.best) => best = f.best
    BY DEF Larger
  <2> QED BY <2>1, <2>2
<1> HIDE DEF h, lower, best
<1>5. GoesOnWith(f, h, f.tried, best, lower, FALSE, f.alpha, f.left)
  BY <1>2, <1>3, TurnedGoesOn
<1> QED BY <1>1, <1>3, <1>4, <1>5 DEF best

(* A reduced answer counts as no evidence, or is searched again. *)
LEMMA TakeReducedKeeps ==
  ASSUME NEW w, Searching(w), TakeReduced(w)
  PROVE  Stepped(w)
<1> DEFINE f == Top(w)  r == Answer(w)  g == G  x == Extension(f, f.child)
<1>1. Answered(w) /\ f.call = "reduced" /\ f.call # "razor"
  BY DEF TakeReduced
<1>2. /\ worker[w].phase = "search" /\ IsGame(g) /\ Placed(g, f) /\ Waits(g, w, f) /\ DOMAIN f = Fields
      /\ f.alpha \in Int /\ f.beta \in Int /\ -Infinity <= f.alpha /\ f.beta <= Infinity
  BY <1>1, AnsweredIs
<1>3. r.score \in Int
  BY <1>1, AnswerIs
<1>4. /\ f.best \in Int /\ f.begun /\ Flags(f) /\ Plausible(Larger(f.best, r.score), f.ply, g.free[f.node])
      /\ Tries(g, w, f, TRUE) /\ f.alpha < f.beta /\ f.kind # "quiet"
  BY <1>1, BestIs
<1>5. CASE r.score <= f.alpha
  <2> DEFINE best == Larger(f.best, r.score)
  <2>1. PICK h, lower :
          /\ lower \in BOOLEAN /\ worker' = Replace(w, h) /\ (lower => f.lower /\ best = f.best)
          /\ GoesOnWith(f, h, f.tried, best, lower, FALSE, f.alpha, f.left)
    BY <1>2, <1>3, <1>4, <1>5, ReducedFails
  <2> HIDE DEF best, f, g
  <2>2. Knows(g, w, f) /\ lower => best <= AtPly(Values(g)[f.node][f.depth].most, f.ply)
    BY <1>4, <2>1 DEF Tries, InnerTruth
  <2>3. Plausible(best, f.ply, g.free[f.node])
    BY <1>4 DEF best
  <2>4. Follows(g, f, h) /\ Current(g, w, h)
    BY <1>1, <1>2, <1>4, <2>1, <2>2, <2>3, Counted
  <2> QED BY <1>2, <2>1, <2>4, ReplaceWorks DEF f, g
<1>6. CASE ~(r.score <= f.alpha)
  <2>1. Call(w, f, f.child, "scout", f.depth - 1 + x, f.alpha, f.alpha + 1, f.used + x)
    BY <1>6 DEF TakeReduced, Again
  <2>2. "scout" \notin {"none", "razor", "quiet", "reduced"} /\ f.call \notin {"razor", "quiet"}
    BY <1>1
  <2>3. /\ f.alpha \in Int /\ f.alpha + 1 \in Int /\ -Infinity <= f.alpha
        /\ f.alpha < f.beta => f.alpha < f.alpha + 1 /\ f.alpha + 1 <= Infinity
    BY <1>2
  <2> QED BY <1>1, <2>1, <2>2, <2>3, AgainCall
<1> QED BY <1>5, <1>6

(* The values of a leaf's moves are numbers. *)
LEMMA QuietOfInt ==
  ASSUME NEW g, IsGame(g), NEW f, Placed(g, f), NEW m \in DOMAIN g.next[f.node]
  PROVE  /\ AtPly(QuietOf(g, f, m), f.ply) \in Int
         /\ AtPly(QuietValues(g)[f.node][f.qply], f.ply) \in Int
<1>1. f.node \in DOMAIN g.kind /\ f.qply \in 0..MaxQsearchPly
  BY DEF Placed, Shaped
<1>2. g.next[f.node][m] \in DOMAIN g.kind /\ Quieter(f.qply) \in 0..MaxQsearchPly
  BY <1>1, GameIs, QuieterIs
<1>3. QuietValues(g)[g.next[f.node][m]][Quieter(f.qply)] \in Int /\ QuietValues(g)[f.node][f.qply] \in Int
  BY <1>1, <1>2, QuietWorthy DEF Worthy
<1>4. QuietOf(g, f, m) \in Int
  BY <1>3, FromChildInt DEF QuietOf
<1>5. f.ply \in Nat
  BY DEF Placed, Shaped
<1>6. \A v \in Int : AtPly(v, f.ply) \in Int
  BY <1>5 DEF AtPly, ScoreFromTt
<1> QED BY <1>3, <1>4, <1>6

(* What the best score of a leaf says once one more move has been counted. *)
LEMMA QuietCounted ==
  ASSUME NEW g, IsGame(g), NEW f, Placed(g, f), f.kind = "quiet", ~IsFact(g, f.node), QuietTruth(g, f, TRUE),
         f.child \in DOMAIN g.next[f.node], f.alpha < f.beta,
         NEW s \in Int,
         s > f.alpha => s <= AtPly(QuietOf(g, f, f.child), f.ply),
         s < f.beta => AtPly(QuietOf(g, f, f.child), f.ply) <= s,
         NEW h, NEW best, best = Larger(f.best, s), NEW alpha, alpha = Larger(f.alpha, best), NEW left,
         left = IF alpha >= f.beta THEN <<>> ELSE f.left,
         h.alpha0 = f.alpha0, h.best = best, h.alpha = alpha, h.left = left, h.node = f.node, h.qply = f.qply,
         h.ply = f.ply, h.beta = f.beta
  PROVE  QuietTruth(g, h, FALSE)
<1> DEFINE n == f.node  V == AtPly(QuietValues(g)[n][f.qply], f.ply)  C(m) == AtPly(QuietOf(g, f, m), f.ply)
<1>1. /\ f.alpha \in Int /\ f.alpha0 \in Int /\ f.best \in Int /\ f.beta \in Int /\ f.alpha0 < f.beta
      /\ n \in DOMAIN g.kind /\ f.qply \in 0..MaxQsearchPly /\ f.ply \in Nat /\ f.ply + g.free[n] <= CellCount
      /\ f.left \in Seq(Nat)
  BY DEF Placed, Shaped
<1>2. /\ f.alpha = Larger(f.alpha0, f.best)
      /\ f.best > f.alpha0 => f.best <= V
      /\ f.best < f.beta =>
           /\ g.kind[n] # "block" => g.static[n] <= f.best
           /\ \A m \in QuietMoves(g, n) \ Open(f, TRUE) : C(m) <= f.best
      /\ g.kind[n] # "block" => f.qply # MaxQsearchPly
      /\ Open(f, TRUE) \subseteq QuietMoves(g, n)
  BY Zenon DEF QuietTruth
<1>3. g.static[n] \in Int /\ V \in Int /\ C(f.child) \in Int
  BY <1>1, GameIs, QuietOfInt
<1>4. f.child \in QuietMoves(g, n)
  BY <1>2 DEF Open
<1>5. C(f.child) <= V
  <2>1. CASE g.kind[n] = "block"
    <3>1. f.child = 1
      BY <1>4, <2>1 DEF QuietMoves
    <3>2. QuietValues(g)[n][f.qply] = QuietOf(g, f, 1)
      BY <1>1, <2>1, QuietAt, SMTT(30) DEF QuietOf
    <3>3. C(f.child) = V
      BY <3>1, <3>2
    <3> QED BY <1>3, <3>3
  <2>2. CASE g.kind[n] # "block"
    <3>1. f.child \in Forcing(g, n) /\ f.qply # MaxQsearchPly
      BY <1>2, <1>4, <2>2 DEF QuietMoves
    <3> QED BY <1>1, <2>2, <3>1, QuietAt DEF QuietOf
  <2> QED BY <2>1, <2>2
<1>6. \A m \in QuietMoves(g, n) : C(m) \in Int
  <2>1. ASSUME NEW m \in QuietMoves(g, n) PROVE m \in DOMAIN g.next[n]
    <3>1. CASE g.kind[n] = "block"
      <4>1. f.child = 1 /\ m = 1
        BY <1>4, <3>1 DEF QuietMoves
      <4> QED BY <4>1
    <3>2. CASE g.kind[n] # "block"
      <4>1. m \in 1..g.near[n]
        BY <3>2 DEF QuietMoves, Forcing
      <4>2. DOMAIN g.next[n] = 1..Len(g.next[n]) /\ Len(g.next[n]) \in Nat /\ g.near[n] \in 0..Len(g.next[n])
        BY <1>1, GameIs
      <4> HIDE DEF n
      <4> QED BY <4>1, <4>2
    <3> QED BY <3>1, <3>2
  <2> QED BY <2>1, QuietOfInt
<1>7. Open(h, FALSE) \subseteq Open(f, TRUE) /\ (alpha < f.beta => Open(f, TRUE) = Open(h, FALSE) \cup {f.child})
  <2>1. alpha \in Int
    BY <1>1 DEF Larger
  <2>2. Open(h, FALSE) = ToSet(left) /\ Open(f, TRUE) = ToSet(f.left) \cup {f.child}
    BY DEF Open
  <2>3. (alpha < f.beta => left = f.left) /\ left \in {<<>>, f.left}
    BY <1>1, <2>1
  <2> QED BY <2>2, <2>3, NothingLeft
<1>8. best \in Int /\ f.best <= best /\ s <= best /\ (best = f.best \/ best = s)
  BY <1>1, SMTT(30) DEF Larger
<1>9. h.alpha = Larger(h.alpha0, h.best)
  BY <1>1, <1>2 DEF Larger
<1>10. best > f.alpha0 => best <= V
  <2>1. CASE best = f.best
    BY <1>2, <2>1
  <2>2. CASE best # f.best
    <3>1. best = s /\ s > f.best
      BY <1>1, <1>8, <2>2
    <3>2. best > f.alpha0 => s > f.alpha
      BY <1>1, <1>2, <3>1 DEF Larger
    <3> HIDE DEF V, C
    <3> QED BY <1>3, <1>5, <3>1, <3>2 DEF C
  <2> QED BY <2>1, <2>2
<1>11. ASSUME best < f.beta
       PROVE  /\ g.kind[n] # "block" => g.static[n] <= best
              /\ \A m \in QuietMoves(g, n) \ Open(h, FALSE) : C(m) <= best
  <2>1. f.best < f.beta /\ s < f.beta
    BY <1>1, <1>8, <1>11
  <2>2. alpha < f.beta
    BY <1>1, <1>8, <1>11 DEF Larger
  <2>3. g.kind[n] # "block" => g.static[n] <= best
    <3>1. g.kind[n] # "block" => g.static[n] <= f.best
      BY <1>2, <2>1
    <3> DEFINE x == f.best
    <3>2. x \in Int /\ x <= best /\ g.static[n] \in Int /\ best \in Int /\ (g.kind[n] # "block" => g.static[n] <= x)
      BY <1>1, <1>3, <1>8, <3>1
    <3> HIDE DEF x, n
    <3> QED BY <3>2
  <2>4. ASSUME NEW m \in QuietMoves(g, n) \ Open(h, FALSE) PROVE C(m) <= best
    <3>1. C(m) \in Int
      BY <1>6
    <3>2. CASE m = f.child
      <4>1. C(m) <= s
        BY <2>1, <3>2
      <4> HIDE DEF C
      <4> QED BY <1>8, <3>1, <4>1
    <3>3. CASE m # f.child
      <4>1. m \notin Open(f, TRUE)
        BY <1>7, <2>2, <2>4, <3>3
      <4>2. C(m) <= f.best
        BY <1>2, <2>1, <2>4, <4>1
      <4> HIDE DEF C
      <4> QED BY <1>1, <1>8, <3>1, <4>2
    <3> QED BY <3>2, <3>3
  <2> QED BY <2>3, <2>4
<1>12. \A m : QuietOf(g, h, m) = QuietOf(g, f, m)
  BY DEF QuietOf
<1>13. Open(h, FALSE) \subseteq QuietMoves(g, n)
  BY <1>2, <1>7
<1> HIDE DEF n
<1>14. h.node = n
  BY DEF n
<1> QED BY <1>2, <1>9, <1>10, <1>11, <1>12, <1>13, <1>14, Zenon DEF QuietTruth

(* An answer to a leaf keeps what its best score says. *)
LEMMA TakeQuietKeeps ==
  ASSUME NEW w, Searching(w), TakeQuiet(w)
  PROVE  Stepped(w)
<1> DEFINE f == Top(w)  s == Answer(w).score  g == G  best == Larger(f.best, s)  alpha == Larger(f.alpha, best)
           left == IF alpha >= f.beta THEN <<>> ELSE f.left
           h == [f EXCEPT !.best = best, !.alpha = alpha, !.left = left]
<1>1. Answered(w) /\ f.kind = "quiet" /\ worker' = Replace(w, h)
  BY DEF TakeQuiet
<1>2. /\ worker[w].phase = "search" /\ IsGame(g) /\ Placed(g, f) /\ Waits(g, w, f) /\ DOMAIN f = Fields
      /\ f.alpha \in Int /\ f.beta \in Int /\ -Infinity <= f.alpha /\ Answers(g, f, Returned(w))
  BY <1>1, AnsweredIs
<1>3. f.call # "razor" /\ s \in Int /\ s = -Returned(w).score
  BY <1>1, <1>2, AnswerIs DEF Waits
<1>4. /\ f.best \in Int /\ f.begun /\ Flags(f) /\ f.child \in DOMAIN g.next[f.node]
      /\ Plausible(best, f.ply, g.free[f.node]) /\ Tries(g, w, f, TRUE) /\ f.alpha < f.beta
  BY <1>1, <1>3, BestIs
<1>5. /\ s > f.alpha => s <= AtPly(QuietOf(g, f, f.child), f.ply)
      /\ s < f.beta => AtPly(QuietOf(g, f, f.child), f.ply) <= s
  BY <1>1, <1>2, <1>3 DEF Answers
<1>6. Turned(f, h, best, f.lower, f.upper, alpha, left)
  <2> HIDE DEF f, best, alpha, left
  <2> QED BY <1>2, TurnedQuiet
<1> HIDE DEF h
<1>7. /\ f.left \in Seq(Nat) /\ f.tried \in Nat /\ f.ply \in Nat /\ f.node \in DOMAIN g.kind
      /\ f.ply + g.free[f.node] <= CellCount
  BY <1>2 DEF Placed, Shaped
<1>8. best \in Int /\ alpha \in Int /\ alpha >= f.alpha /\ -Infinity < best
  <2>1. g.free[f.node] \in Nat
    BY <1>2, <1>7, GameIs
  <2>2. best \in Int /\ -Infinity < best
    BY <1>4, <1>7, <2>1, PlausibleInt
  <2> HIDE DEF f, best
  <2> QED BY <1>2, <2>2, LargerIs
<1>9. left \in Seq(Nat) /\ ToSet(left) \subseteq ToSet(f.left) /\ (left # <<>> => alpha < f.beta)
  <2>1. left = <<>> \/ (left = f.left /\ ~(alpha >= f.beta))
    OBVIOUS
  <2> HIDE DEF left, alpha, best, f
  <2>2. CASE left = <<>>
    BY <2>2, NothingLeft
  <2>3. CASE left = f.left /\ ~(alpha >= f.beta)
    <3>1. alpha < f.beta
      BY <1>2, <1>8, <2>3
    <3> QED BY <1>7, <2>3, <3>1
  <2> QED BY <2>1, <2>2, <2>3
<1> DEFINE x == f.tried  b == best  a == alpha  l == left
<1>10. /\ QuietTruth(g, f, TRUE) /\ ~IsFact(g, f.node) /\ x >= 1
       /\ Open(f, TRUE) \subseteq DOMAIN g.next[f.node]
  BY <1>1, <1>4 DEF Tries, Goes
<1>11. /\ h.alpha0 = f.alpha0 /\ h.best = best /\ h.alpha = alpha /\ h.left = left /\ h.node = f.node
       /\ h.qply = f.qply /\ h.ply = f.ply /\ h.beta = f.beta /\ h.kind = f.kind /\ h.tried = f.tried /\ h.begun
  BY <1>4, <1>6 DEF Turned
<1>12. QuietTruth(g, h, FALSE)
  <2> HIDE DEF f, s
  <2> QED BY <1>1, <1>2, <1>3, <1>4, <1>5, <1>10, <1>11, QuietCounted
<1>13. GoesOnWith(f, h, f.tried, best, f.lower, f.upper, alpha, left)
  <2>1. f.lower \in BOOLEAN /\ f.upper \in BOOLEAN
    BY <1>4 DEF Flags
  <2> HIDE DEF f, best, alpha, left
  <2> QED BY <1>6, <2>1, TurnedGoesOn
<1> HIDE DEF f, best, alpha, left, s, x, b, a, l
<1>14. Follows(g, f, h)
  <2>1. -Infinity <= alpha
    BY <1>2, <1>8
  <2> QED BY <1>2, <1>7, <1>8, <1>9, <1>13, <2>1, GoesOnFollows
<1>15. Goes(g, h, FALSE)
  <2>1. Open(h, FALSE) \subseteq DOMAIN g.next[f.node]
    BY <1>9, <1>10, <1>11 DEF Open
  <2>2. h.best # -Infinity /\ h.tried # 0
    BY <1>7, <1>8, <1>10, <1>11 DEF x
  <2> QED BY <1>1, <1>4, <1>9, <1>10, <1>11, <2>1, <2>2 DEF Goes
<1>16. Current(g, w, h)
  BY <1>1, <1>11, <1>12, <1>15 DEF Current, Tries, Knows
<1> QED BY <1>1, <1>2, <1>14, <1>16, ReplaceWorks DEF f, g

(* What the answer to a move leaves of the evidence. *)
CountsLower(f, r) ==
  CASE r.score > f.best -> r.lower
    [] r.score = f.best -> f.lower \/ r.lower
    [] r.score < f.best -> f.lower

(* BoundValidity::include, by its parts. *)
LEMMA IncludedIs ==
  ASSUME NEW f, DOMAIN f = Fields, NEW r
  PROVE  Turned(f, Included(f, r), f.best, CountsLower(f, r), f.upper /\ r.upper, f.alpha, f.left)
<1> DEFINE u == f.upper /\ r.upper  l == CountsLower(f, r)
<1>1. Included(f, r) = [f EXCEPT !.upper = u, !.lower = l]
  BY Zenon DEF Included, CountsLower
<1> HIDE DEF u, l
<1>2. Turned(f, [f EXCEPT !.upper = u, !.lower = l], f.best, l, u, f.alpha, f.left)
  BY TurnedFlags
<1> QED BY <1>1, <1>2 DEF u, l

(* Lower evidence is that of a best move. *)
LEMMA CountsLowerIs ==
  ASSUME NEW f, NEW r, r.score \in Int, f.best \in Int, f.lower \in BOOLEAN, r.lower \in BOOLEAN
  PROVE  /\ CountsLower(f, r) \in BOOLEAN
         /\ CountsLower(f, r) => (r.lower /\ r.score >= f.best) \/ (f.lower /\ r.score <= f.best)
<1>1. CASE r.score > f.best
  <2>1. ~(r.score = f.best) /\ ~(r.score < f.best) /\ r.score >= f.best
    BY <1>1
  <2>2. CountsLower(f, r) = r.lower
    BY <1>1, <2>1, Zenon DEF CountsLower
  <2> QED BY <2>1, <2>2, Zenon
<1>2. CASE r.score = f.best
  <2>1. ~(r.score > f.best) /\ ~(r.score < f.best) /\ r.score >= f.best /\ r.score <= f.best
    BY <1>2
  <2>2. CountsLower(f, r) = (f.lower \/ r.lower)
    BY <1>2, <2>1, Zenon DEF CountsLower
  <2> QED BY <2>1, <2>2, Zenon
<1>3. CASE r.score < f.best
  <2>1. ~(r.score = f.best) /\ ~(r.score > f.best) /\ r.score <= f.best
    BY <1>3
  <2>2. CountsLower(f, r) = f.lower
    BY <1>3, <2>1, Zenon DEF CountsLower
  <2> QED BY <2>1, <2>2, Zenon
<1> QED BY <1>1, <1>2, <1>3

(* The frame an answer leaves, before a cutoff. *)
LEMMA TakeTurns ==
  ASSUME NEW w, NEW f, NEW r, DOMAIN f = Fields, f.best \in Int, r.score \in Int,
         NEW counted, counted = Included(f, r),
         NEW raised, raised = IF ~Prefers(w, f, r) THEN counted
                     ELSE [counted EXCEPT !.best = r.score, !.at = f.child,
                             !.exact = r.lower /\ r.upper /\ r.score > f.alpha0 /\ r.score < f.beta]
  PROVE  Turned(f, raised, Larger(f.best, r.score), CountsLower(f, r), f.upper /\ r.upper, f.alpha, f.left)
<1> DEFINE s == r.score  best == Larger(f.best, s)  lower == CountsLower(f, r)  upper == f.upper /\ r.upper
<1>1. Turned(f, counted, f.best, lower, upper, f.alpha, f.left)
  BY IncludedIs
<1>2. /\ Prefers(w, f, r) => s >= f.best
      /\ ~Prefers(w, f, r) => s <= f.best
  BY DEF Prefers
<1>3. /\ Prefers(w, f, r) => best = s
      /\ ~Prefers(w, f, r) => best = f.best
  BY <1>2 DEF Larger
<1> HIDE DEF best, lower, upper
<1>4. CASE Prefers(w, f, r)
  <2> DEFINE e == r.lower /\ r.upper /\ r.score > f.alpha0 /\ r.score < f.beta
  <2>1. raised = [counted EXCEPT !.best = s, !.at = f.child, !.exact = e]
    BY <1>4
  <2> HIDE DEF e, s
  <2>2. Turned(f, [counted EXCEPT !.best = s, !.at = f.child, !.exact = e], s, lower, upper, f.alpha, f.left)
    BY <1>1, TurnedBest
  <2> QED BY <1>3, <1>4, <2>1, <2>2 DEF best, lower, upper, s
<1>5. CASE ~Prefers(w, f, r)
  <2>1. raised = counted
    BY <1>5
  <2> QED BY <1>1, <1>3, <1>5, <2>1 DEF best, lower, upper
<1> QED BY <1>4, <1>5

(* An answer to a node keeps what its flags say. *)
LEMMA TakeKeeps ==
  ASSUME NEW w, Searching(w), Take(w)
  PROVE  Stepped(w)
<1> DEFINE f == Top(w)  r == Answer(w)  g == G  s == r.score
           counted == Included(f, r)
           raised == IF ~Prefers(w, f, r) THEN counted
                     ELSE [counted EXCEPT !.best = r.score, !.at = f.child,
                             !.exact = r.lower /\ r.upper /\ r.score > f.alpha0 /\ r.score < f.beta]
           narrowed == [raised EXCEPT !.alpha = Larger(@, r.score)]
           best == Larger(f.best, s)  alpha == Larger(f.alpha, s)
           lower == CountsLower(f, r)  counts == f.upper /\ r.upper
<1>1. Answered(w) /\ f.call \in {"full", "scout", "tie"}
  BY DEF Take
<1>2. /\ worker[w].phase = "search" /\ IsGame(g) /\ Placed(g, f) /\ Waits(g, w, f) /\ DOMAIN f = Fields
      /\ f.alpha \in Int /\ f.beta \in Int /\ -Infinity <= f.alpha /\ Answers(g, f, Returned(w))
  BY <1>1, AnsweredIs
<1>3. /\ s \in Int /\ s = -Returned(w).score /\ (r.lower <=> Returned(w).upper) /\ (r.upper <=> Returned(w).lower)
  BY <1>1, AnswerIs
<1>4. /\ f.call # "razor" /\ f.call # "quiet" /\ f.call # "reduced"
  BY <1>1
<1>5. /\ f.best \in Int /\ f.begun /\ Flags(f) /\ f.child \in DOMAIN g.next[f.node]
      /\ Plausible(best, f.ply, g.free[f.node]) /\ Tries(g, w, f, TRUE) /\ f.alpha < f.beta /\ f.kind # "quiet"
      /\ Returned(w).lower \in BOOLEAN /\ Returned(w).upper \in BOOLEAN
  BY <1>1, <1>4, BestIs
<1>6. f.kind # "teacher"
  BY <1>2 DEF Placed
<1>7. worker' = Replace(w, IF narrowed.alpha >= f.beta THEN [narrowed EXCEPT !.left = <<>>, !.upper = FALSE] ELSE narrowed)
  BY <1>6 DEF Take
<1>8. r.lower = Returned(w).upper /\ r.upper = Returned(w).lower
  BY Zenon DEF Answer, Negated, Result
<1>9. /\ f.lower \in BOOLEAN /\ f.upper \in BOOLEAN /\ counts \in BOOLEAN /\ lower \in BOOLEAN
      /\ lower => (r.lower /\ s >= f.best) \/ (f.lower /\ s <= f.best)
  <2>1. f.lower \in BOOLEAN /\ f.upper \in BOOLEAN
    BY <1>5 DEF Flags
  <2>2. r.lower \in BOOLEAN /\ r.upper \in BOOLEAN
    BY <1>5, <1>8, Zenon
  <2>3. counts \in BOOLEAN
    BY Zenon
  <2> HIDE DEF f, r
  <2> QED BY <1>3, <1>5, <2>1, <2>2, <2>3, CountsLowerIs
<1>13. Turned(f, raised, best, lower, counts, f.alpha, f.left)
  BY <1>2, <1>3, <1>5, TakeTurns
<1>14. Turned(f, narrowed, best, lower, counts, alpha, f.left)
  <2>1. raised.alpha = f.alpha
    BY <1>13 DEF Turned
  <2>2. narrowed = [raised EXCEPT !.alpha = alpha]
    <3> HIDE DEF raised
    <3> QED BY <2>1
  <2> HIDE DEF raised, f, best, lower, counts, alpha, narrowed
  <2> QED BY <1>13, <2>2, TurnedAlpha
<1>15. narrowed.alpha = alpha
  BY <1>14 DEF Turned
<1> HIDE DEF raised, counted, narrowed
<1>16. best \in Int /\ best >= f.best /\ best >= s /\ alpha \in Int /\ alpha >= f.alpha
  BY <1>2, <1>3, <1>5, LargerIs
<1>17. -Infinity <= alpha
  <2> HIDE DEF alpha, f
  <2> QED BY <1>2, <1>16
<1>18. ASSUME Knows(g, w, f)
       PROVE  /\ lower => best <= AtPly(Values(g)[f.node][f.depth].most, f.ply)
              /\ r.upper => \E v \in Falls(g, Values(g), Extends(g), f.node, f.depth, f.child) : AtPly(v, f.ply) <= best
  <2>1. /\ r.lower => s <= AtPly(Values(g)[f.node][f.depth].most, f.ply)
        /\ r.upper => \E v \in Falls(g, Values(g), Extends(g), f.node, f.depth, f.child) : AtPly(v, f.ply) <= s
    <3> HIDE DEF f, g, s, r
    <3>1. f.call \notin {"razor", "reduced"}
      BY <1>4
    <3> QED BY <1>2, <1>3, <1>5, <1>18, <3>1, AnswerSays
  <2>2. f.lower => f.best <= AtPly(Values(g)[f.node][f.depth].most, f.ply)
    BY <1>5, <1>18 DEF Tries, InnerTruth
  <2>3. lower => best <= AtPly(Values(g)[f.node][f.depth].most, f.ply)
    <3>1. (s >= f.best => best = s) /\ (s <= f.best => best = f.best)
      BY <1>3, <1>5 DEF Larger
    <3> HIDE DEF lower, best, s, f, g, r
    <3> QED BY <1>9, <2>1, <2>2, <3>1
  <2>4. ASSUME r.upper
        PROVE  \E v \in Falls(g, Values(g), Extends(g), f.node, f.depth, f.child) : AtPly(v, f.ply) <= best
    <3>1. PICK v \in Falls(g, Values(g), Extends(g), f.node, f.depth, f.child) : AtPly(v, f.ply) <= s
      BY <2>1, <2>4
    <3>2. f.node \in DOMAIN g.kind /\ f.depth \in 0..MaxDepth /\ f.ply \in Nat /\ f.depth # 0
      BY <1>2, <1>5 DEF Placed, Shaped, Tries, Goes
    <3>3. AtPly(v, f.ply) \in Int
      BY <1>2, <1>5, <3>1, <3>2, FallsInt
    <3>4. AtPly(v, f.ply) <= best
      <4> HIDE DEF best, s, f
      <4> QED BY <1>3, <1>16, <3>1, <3>3
    <3> QED BY <3>1, <3>4
  <2> QED BY <2>3, <2>4
<1>19. Knows(g, w, f) /\ lower => best <= AtPly(Values(g)[f.node][f.depth].most, f.ply)
  BY <1>18
<1> HIDE DEF f, g, s, r, best, alpha, lower
<1>20. CASE alpha >= f.beta
  <2> DEFINE h == [narrowed EXCEPT !.left = <<>>, !.upper = FALSE]
  <2>1. Turned(f, h, best, lower, FALSE, alpha, <<>>)
    BY <1>14, TurnedCut
  <2>2. worker' = Replace(w, h)
    BY <1>7, <1>15, <1>20
  <2> HIDE DEF h
  <2>3. GoesOnWith(f, h, f.tried, best, lower, FALSE, alpha, <<>>)
    BY <1>9, <2>1, TurnedGoesOn
  <2>4. Follows(g, f, h) /\ Current(g, w, h)
    BY <1>2, <1>4, <1>5, <1>16, <1>17, <1>19, <2>3, Counted
  <2> QED BY <1>2, <2>2, <2>4, ReplaceWorks DEF f, g
<1>21. CASE ~(alpha >= f.beta)
  <2> DEFINE h == narrowed
  <2>1. worker' = Replace(w, h)
    BY <1>7, <1>15, <1>21
  <2> HIDE DEF h
  <2>2. GoesOnWith(f, h, f.tried, best, lower, counts, alpha, f.left)
    <3> HIDE DEF counts
    <3> QED BY <1>9, <1>14, TurnedGoesOn DEF h
  <2>3. Knows(g, w, f) /\ counts =>
           /\ f.left = f.left /\ f.upper /\ f.best <= best
           /\ f.child \in Chosen(g, f.node) =>
                \E v \in Falls(g, Values(g), Extends(g), f.node, f.depth, f.child) : AtPly(v, f.ply) <= best
    <3>1. counts => f.upper /\ r.upper
      OBVIOUS
    <3>2. f.best <= best
      BY <1>5, <1>16
    <3> HIDE DEF counts
    <3> QED BY <1>18, <3>1, <3>2
  <2>4. alpha < f.beta
    BY <1>2, <1>16, <1>21
  <2> HIDE DEF counts
  <2>5. Follows(g, f, h) /\ Current(g, w, h)
    BY <1>2, <1>4, <1>5, <1>16, <1>17, <1>19, <2>2, <2>3, <2>4, Counted
  <2> QED BY <1>2, <2>1, <2>5, ReplaceWorks DEF f, g
<1> QED BY <1>20, <1>21

--------------------------------------------------
(* Leaves. *)

(* What holds when all moves are counted. *)
LEMMA ExhaustedIs ==
  ASSUME NEW w, Searching(w), Exhausted(w)
  PROVE  /\ worker[w].phase = "search" /\ IsGame(G) /\ Placed(G, Top(w)) /\ Normal
         /\ Top(w).begun /\ Top(w).left = <<>> /\ Tries(G, w, Top(w), FALSE) /\ ~IsFact(G, Top(w).node)
         /\ Open(Top(w), FALSE) = {} /\ Plausible(Top(w).best, Top(w).ply, G.free[Top(w).node])
         /\ Top(w).best \in Int
<1> DEFINE f == Top(w)  g == G
<1>1. worker[w].phase = "search" /\ Returned(w) = Nothing /\ f.begun /\ f.left = <<>>
  BY DEF Exhausted
<1>2. IsGame(g) /\ Placed(g, f) /\ Current(g, w, f) /\ Normal
  BY <1>1, SearchIs DEF Searching
<1>3. Tries(g, w, f, FALSE)
  BY <1>1, <1>2 DEF Current
<1>4. ~IsFact(g, f.node) /\ f.tried # 0 /\ f.best # -Infinity /\ Plausible(f.best, f.ply, g.free[f.node])
  BY <1>1, <1>3 DEF Tries, Goes
<1>5. Open(f, FALSE) = {}
  BY <1>1, NothingLeft DEF Open
<1>6. f.best \in Int
  BY <1>2 DEF Placed, Shaped
<1> QED BY <1>1, <1>2, <1>3, <1>4, <1>5, <1>6

(* A leaf returns its best score. *)
LEMMA FinishQuietKeeps ==
  ASSUME NEW w, Searching(w), FinishQuiet(w)
  PROVE  Stepped(w)
<1> DEFINE f == Top(w)  g == G  s == f.best  n == f.node
<1>1. Exhausted(w) /\ f.kind = "quiet" /\ worker' = Pop(w, Verified(s, f.alpha0, f.beta))
  BY DEF FinishQuiet, Finishes
<1>2. /\ worker[w].phase = "search" /\ IsGame(g) /\ Placed(g, f) /\ Tries(g, w, f, FALSE) /\ ~IsFact(g, n)
      /\ Open(f, FALSE) = {} /\ Plausible(s, f.ply, g.free[n]) /\ s \in Int
  BY <1>1, ExhaustedIs
<1>3. /\ n \in DOMAIN g.kind /\ f.qply \in 0..MaxQsearchPly /\ f.ply \in Nat /\ f.ply + g.free[n] <= CellCount
      /\ f.beta \in Int
  BY <1>2 DEF Placed, Shaped
<1>4. /\ s > f.alpha0 => s <= AtPly(QuietValues(g)[n][f.qply], f.ply)
      /\ s < f.beta =>
           /\ g.kind[n] # "block" => g.static[n] <= s
           /\ \A m \in QuietMoves(g, n) : AtPly(QuietOf(g, f, m), f.ply) <= s
      /\ g.kind[n] # "block" => f.qply # MaxQsearchPly
  BY <1>1, <1>2 DEF Tries, QuietTruth
<1>5. Most(g, f) = QuietValues(g)[n][f.qply]
  BY <1>1 DEF Most
<1>6. ASSUME s < f.beta
      PROVE  AtPly(Most(g, f), f.ply) <= s
  <2>1. CASE g.kind[n] = "block"
    <3>1. Most(g, f) = QuietOf(g, f, 1) /\ 1 \in QuietMoves(g, n)
      BY <1>2, <1>3, <1>5, <2>1, QuietAt DEF QuietOf, QuietMoves
    <3> QED BY <1>4, <1>6, <3>1
  <2>2. CASE g.kind[n] # "block"
    <3>1. /\ QuietMoves(g, n) = Forcing(g, n) /\ AtPly(g.static[n], f.ply) = g.static[n] /\ g.static[n] <= s
          /\ \/ Most(g, f) = g.static[n]
             \/ \E m \in Forcing(g, n) : Most(g, f) = QuietOf(g, f, m)
      BY <1>2, <1>3, <1>4, <1>5, <1>6, <2>2, QuietAt, SMTT(30) DEF QuietOf, QuietMoves
    <3> HIDE DEF f, g, s, n
    <3> QED BY <1>4, <1>6, <3>1
  <2> QED BY <2>1, <2>2
<1> HIDE DEF f, g, s
<1>7. Truthful(g, f, Verified(s, f.alpha0, f.beta))
  BY <1>1, <1>2, <1>4, <1>5, <1>6, LeafTruth
<1> QED BY <1>1, <1>2, <1>7, PopWorks DEF f, g

(* A node without depth is a leaf. *)
LEMMA VisitLeafKeeps ==
  ASSUME NEW w, Searching(w), VisitLeaf(w)
  PROVE  Stepped(w)
<1> DEFINE f == Top(w)  g == G  h == [f EXCEPT !.kind = "quiet"]
<1>1. Fresh(w) /\ f.kind = "inner" /\ f.depth = 0 /\ worker' = Replace(w, h)
  BY DEF VisitLeaf
<1>2. /\ worker[w].phase = "search" /\ IsGame(g) /\ Placed(g, f) /\ Unbegun(f) /\ ~f.begun
  BY <1>1, FreshIs
<1>3. Shaped(f) /\ Flags(f) /\ DOMAIN f = Fields /\ f.qply = 0 /\ f.node \in DOMAIN g.kind
  BY <1>1, <1>2 DEF Placed, Shaped
<1>4. /\ DOMAIN h = Fields /\ h.begun = f.begun /\ h.kind = "quiet" /\ h.node = f.node /\ h.depth = f.depth
      /\ h.ply = f.ply /\ h.qply = f.qply /\ h.alpha0 = f.alpha0 /\ h.beta = f.beta /\ h.reduced = f.reduced
      /\ h.tried = f.tried /\ h.best = f.best /\ h.alpha = f.alpha /\ h.left = f.left /\ h.lower = f.lower
      /\ h.upper = f.upper
  <2> HIDE DEF f
  <2> QED BY <1>3 DEF Fields
<1> HIDE DEF h
<1>5. Shaped(h)
  BY <1>3, <1>4 DEF Shaped
<1>6. Flags(h)
  BY <1>3, <1>4, Zenon DEF Flags
<1>7. Unbegun(h)
  BY <1>2, <1>4 DEF Unbegun
<1>8. Placed(g, h)
  BY <1>2, <1>4, <1>5, <1>6, <1>7 DEF Placed, Unbegun
<1>9. Most(g, h) = Most(g, f) /\ Least(g, h) = Least(g, f)
  <2> DEFINE n == f.node
  <2>1. MaxDepth \in Nat /\ 0 \in 0..MaxDepth /\ 0 \in 0..MaxQsearchPly
    BY AlphaBetaAssumption
  <2>2. Values(g)[n][0] = WorthOne(g, QuietValues(g), Values(g), Extends(g), n, 0)
    BY <1>2, <1>3, <2>1, WorthSettles DEF Values
  <2>3. QuietValues(g)[n][0] = QuietOne(g, QuietValues(g), n, 0)
    BY <1>2, <1>3, <2>1, QuietSettles
  <2>4. IsFact(g, n) => QuietValues(g)[n][0] = Fact(g, n, 0)
    BY <2>3 DEF QuietOne
  <2>5. Values(g)[n][0].most = QuietValues(g)[n][0] /\ Values(g)[n][0].least = QuietValues(g)[n][0]
    BY <2>2, <2>4 DEF WorthOne
  <2> QED BY <1>1, <1>3, <1>4, <2>5 DEF Most, Least
<1>10. Follows(g, f, h)
  <2>1. ASSUME NEW p, Called(g, p, f)
        PROVE  Called(g, p, h)
    BY <1>1, <1>4, <1>9, <2>1 DEF Called
  <2> QED BY <1>1, <1>4, <1>8, <2>1 DEF Follows
<1>11. Current(g, w, h)
  BY <1>2, <1>4, <1>7 DEF Current
<1> QED BY <1>1, <1>2, <1>10, <1>11, ReplaceWorks

(* The moves of a leaf, in some order. *)
LEMMA QuietOrders ==
  ASSUME NEW g, IsGame(g), NEW n \in DOMAIN g.kind, g.kind[n] = "block" \/ Forcing(g, n) # {},
         NEW order, order \in IF g.kind[n] = "block" THEN {<< 1 >>} ELSE Orders(n, Forcing(g, n), 0)
  PROVE  /\ order \in Seq(Nat) /\ ToSet(order) = QuietMoves(g, n) /\ order # <<>> /\ QuietMoves(g, n) # {}
         /\ QuietMoves(g, n) \subseteq DOMAIN g.next[n]
<1>1. CASE g.kind[n] = "block"
  <2>1. order = <<1>> /\ QuietMoves(g, n) = {1}
    BY <1>1 DEF QuietMoves
  <2>2. ToSet(<<1>>) = {1} /\ <<1>> \in Seq(Nat) /\ <<1>> # <<>>
    BY DEF ToSet
  <2>3. 1 \in DOMAIN g.next[n]
    BY <1>1, GameIs
  <2> QED BY <2>1, <2>2, <2>3
<1>2. CASE g.kind[n] # "block"
  <2>1. Forcing(g, n) \in SUBSET Nat /\ IsFiniteSet(Forcing(g, n)) /\ Forcing(g, n) \subseteq DOMAIN g.next[n]
    <3>1. Forcing(g, n) \subseteq DOMAIN g.next[n] /\ DOMAIN g.next[n] = 1..Len(g.next[n]) /\ Len(g.next[n]) \in Nat
          /\ IsFiniteSet(Forcing(g, n))
      BY GameIs
    <3> QED BY <3>1
  <2>2. order \in Orders(n, Forcing(g, n), 0) /\ QuietMoves(g, n) = Forcing(g, n)
    BY <1>2 DEF QuietMoves
  <2> QED BY <1>2, <2>1, <2>2, OrdersAre
<1> QED BY <1>1, <1>2

(* What a leaf begins with. *)
LEMMA VisitQuietKeeps ==
  ASSUME NEW w, Searching(w), VisitQuiet(w)
  PROVE  Stepped(w)
<1> DEFINE f == Top(w)  g == G  n == f.node  block == g.kind[n] = "block"
           stand == IF block THEN -Infinity ELSE g.static[n]
           alpha == Larger(f.alpha, stand)
<1>1. Fresh(w) /\ f.kind = "quiet" /\ ~IsFact(g, n) /\ ~StandsPat(f)
  BY DEF VisitQuiet, Quiet
<1>2. PICK order \in IF block THEN {<<1>>} ELSE Orders(n, Forcing(g, n), 0) :
        worker' = Replace(w, [Begun(f, order) EXCEPT !.best = stand, !.alpha = Larger(@, stand)])
  BY DEF VisitQuiet
<1>3. /\ worker[w].phase = "search" /\ IsGame(g) /\ Placed(g, f) /\ Unbegun(f) /\ n \in DOMAIN g.kind
  BY <1>1, FreshIs
<1>4. /\ Shaped(f) /\ Flags(f) /\ DOMAIN f = Fields /\ f.alpha \in Int /\ f.beta \in Int /\ f.qply \in 0..MaxQsearchPly
      /\ f.ply \in Nat /\ f.ply + g.free[n] <= CellCount /\ -Infinity <= f.alpha /\ f.alpha0 < f.beta
      /\ f.alpha0 = f.alpha /\ f.alpha0 \in Int
  BY <1>1, <1>3 DEF Placed, Shaped, Unbegun
<1>5. ~block => f.qply < MaxQsearchPly /\ g.static[n] < f.beta /\ Forcing(g, n) # {}
  <2>1. g.static[n] \in Int
    BY <1>3, GameIs
  <2> QED BY <1>1, <1>4, <2>1 DEF StandsPat
<1>6. /\ order \in Seq(Nat) /\ ToSet(order) = QuietMoves(g, n) /\ order # <<>> /\ QuietMoves(g, n) \subseteq DOMAIN g.next[n]
  BY <1>2, <1>3, <1>5, QuietOrders
<1> DEFINE h == [Begun(f, order) EXCEPT !.best = stand, !.alpha = Larger(@, stand)]
<1>7. /\ DOMAIN h = Fields /\ h.begun = TRUE /\ h.kind = f.kind /\ h.node = f.node /\ h.depth = f.depth
      /\ h.ply = f.ply /\ h.qply = f.qply /\ h.alpha0 = f.alpha0 /\ h.beta = f.beta /\ h.reduced = f.reduced
      /\ h.tried = f.tried /\ h.best = stand /\ h.alpha = alpha /\ h.left = order /\ h.lower = f.lower
      /\ h.upper = f.upper
  <2> HIDE DEF f, stand
  <2> QED BY <1>4 DEF Fields, Begun
<1> HIDE DEF h
<1>8. /\ stand \in Int /\ (stand = -Infinity \/ Plausible(stand, f.ply, g.free[n]))
      /\ ~block => stand = g.static[n] /\ stand < f.beta
      /\ stand # -Infinity => stand <= AtPly(QuietValues(g)[n][f.qply], f.ply)
  <2>1. CASE block
    BY <2>1
  <2>2. CASE ~block
    <3>1. g.static[n] \in Int /\ ~IsMate(g.static[n])
      BY <1>3, GameIs
    <3>2. stand = g.static[n]
      BY <2>2
    <3>3. Plausible(g.static[n], f.ply, g.free[n])
      BY <3>1 DEF Plausible, IsMate
    <3>4. AtPly(g.static[n], f.ply) <= AtPly(QuietValues(g)[n][f.qply], f.ply) /\ AtPly(g.static[n], f.ply) = g.static[n]
      <4>1. f.qply # MaxQsearchPly
        BY <1>4, <1>5, <2>2
      <4> QED BY <1>1, <1>3, <1>4, <2>2, <4>1, QuietAt
    <3> QED BY <1>5, <2>2, <3>1, <3>2, <3>3, <3>4
  <2> QED BY <2>1, <2>2
<1>9. alpha \in Int /\ -Infinity <= alpha /\ alpha < f.beta
  <2>1. block => stand = -Infinity
    OBVIOUS
  <2> HIDE DEF stand, f, block
  <2> QED BY <1>4, <1>8, <2>1 DEF Larger
<1>10. Shaped(h)
  BY <1>4, <1>6, <1>7, <1>8, <1>9 DEF Shaped, Unbegun
<1>11. Flags(h)
  BY <1>4, <1>7, Zenon DEF Flags
<1>12. Placed(g, h)
  BY <1>3, <1>7, <1>9, <1>10, <1>11 DEF Placed
<1>13. Linked(f, h)
  BY <1>7 DEF Linked
<1>14. Follows(g, f, h)
  BY <1>12, <1>13, LinkedFollows
<1>15. Open(h, FALSE) = QuietMoves(g, n)
  BY <1>6, <1>7 DEF Open
<1> DEFINE t == f.tried
<1>16. f.tried = 0
  BY <1>3 DEF Unbegun
<1> HIDE DEF stand, block, f, g, alpha
<1>17. Goes(g, h, FALSE)
  BY <1>1, <1>6, <1>7, <1>8, <1>9, <1>15, <1>16 DEF Goes, n
<1>18. QuietTruth(g, h, FALSE)
  <2>1. h.alpha = Larger(h.alpha0, h.best)
    BY <1>4, <1>7 DEF alpha
  <2>2. h.best > h.alpha0 => h.best <= AtPly(QuietValues(g)[h.node][h.qply], h.ply)
    <3>1. h.best > h.alpha0 => stand # -Infinity
      BY <1>4, <1>7, <1>8
    <3> QED BY <1>7, <1>8, <3>1 DEF n
  <2>3. /\ g.kind[h.node] # "block" => g.static[h.node] <= h.best
        /\ g.kind[h.node] # "block" => h.qply # MaxQsearchPly
    BY <1>4, <1>5, <1>7, <1>8 DEF block, n
  <2>4. QuietMoves(g, h.node) = Open(h, FALSE)
    BY <1>7, <1>15 DEF n
  <2> QED BY <2>1, <2>2, <2>3, <2>4 DEF QuietTruth
<1>19. Current(g, w, h)
  BY <1>1, <1>7, <1>17, <1>18 DEF Current, Tries, Knows
<1> QED BY <1>2, <1>3, <1>14, <1>19, ReplaceWorks DEF f, g, h, stand, block, n

--------------------------------------------------
(* Beginning a position. *)

(* A razoring search looks at the position of its frame. *)
LEMMA RazorKeeps ==
  ASSUME NEW w, Searching(w), Razor(w)
  PROVE  Stepped(w)
<1> DEFINE f == Top(w)  g == G  n == f.node
<1>1. PICK entry \in Seen(n) :
        worker' = Push(w, [f EXCEPT !.call = "razor", !.hint = entry.at], Frame("quiet", n, 0, Low(f), High(f), f.ply, 0))
  BY DEF Razor
<1>2. Inner(w) /\ ~IsFact(g, n) /\ ~Closed(f)
  BY DEF Razor, Undecided
<1>3. /\ worker[w].phase = "search" /\ IsGame(g) /\ Placed(g, f) /\ Unbegun(f) /\ ~f.begun /\ f.kind = "inner"
      /\ n \in DOMAIN g.kind /\ f.depth >= 1 /\ MaxDepth \in Nat
  BY <1>2, InnerIs
<1>4. DOMAIN f = Fields /\ f.ply \in Nat /\ f.ply + g.free[n] <= CellCount /\ f.left \in Seq(Nat) /\ f.tried \in Nat
  BY <1>3 DEF Placed, Shaped
<1> DEFINE h == [f EXCEPT !.call = "razor", !.hint = entry.at]
           c == Frame("quiet", n, 0, Low(f), High(f), f.ply, 0)
<1>5. Alike(f, h) /\ h.begun = f.begun /\ h.call = "razor" /\ h.left = f.left /\ h.tried = f.tried
  <2> HIDE DEF f
  <2> QED BY <1>4 DEF Alike, Fields
<1> HIDE DEF h
<1>6. h.left \in Seq(Nat) /\ h.tried \in Nat
  BY <1>4, <1>5
<1>7. Placed(g, h) /\ Follows(g, f, h)
  <2> HIDE DEF f, g
  <2> QED BY <1>3, <1>5, <1>6, AlikeFollows
<1>8. Low(f) \in Int /\ High(f) \in Int /\ Low(f) < High(f) /\ -Infinity <= Low(f) /\ High(f) <= Infinity
  BY <1>2, <1>3, WindowIs
<1>9. Place(g, n, 0, Low(f), High(f), f.ply)
  BY <1>3, <1>4, <1>8 DEF Place
<1>10. Placed(g, c) /\ Current(g, w, c) /\ c.kind = "quiet" /\ c.node = n /\ c.ply = f.ply
  <2>1. Placed(g, c) /\ Current(g, w, c)
    <3> HIDE DEF f, g, n
    <3> QED BY <1>9, FrameOk
  <2>2. Framed(c, "quiet", n, 0, Low(f), High(f), f.ply, 0)
    <3> HIDE DEF f, n
    <3> QED BY FrameIs
  <2> HIDE DEF c
  <2> QED BY <2>1, <2>2 DEF Framed
<1>11. Unbegun(h) /\ h.kind = "inner" /\ h.node = n /\ h.depth >= 1 /\ ~h.begun /\ h.ply = f.ply
  BY <1>3, <1>5 DEF Unbegun, Alike
<1>12. ~Closed(h)
  BY <1>2, <1>5 DEF Closed, Low, High, Alike
<1>13. Waits(g, w, h)
  BY <1>2, <1>5, <1>11, <1>12 DEF Waits
<1> HIDE DEF c
<1>14. Called(g, h, c)
  BY <1>5, <1>10, <1>11 DEF Called
<1> HIDE DEF n
<1>15. worker' = Push(w, h, c)
  BY <1>1 DEF h, c, n
<1> HIDE DEF f
<1> QED BY <1>3, <1>7, <1>10, <1>13, <1>14, <1>15, PushWorks DEF f

(* Frames with moves to try, and none of them tried. *)
LEMMA MovesBegin ==
  ASSUME NEW g, IsGame(g), NEW w, NEW h, Placed(g, h), h.kind # "quiet", h.begun, ~IsFact(g, h.node),
         h.best = -Infinity, h.tried = 0, h.left # <<>>, h.alpha < h.beta, h.depth >= 1, ~h.lower,
         ToSet(h.left) \subseteq DOMAIN g.next[h.node],
         Knows(g, w, h) => ToSet(h.left) = Chosen(g, h.node) /\ Chosen(g, h.node) # {}
  PROVE  Current(g, w, h)
<1>1. Open(h, FALSE) = ToSet(h.left)
  BY DEF Open
<1>2. Goes(g, h, FALSE)
  BY <1>1 DEF Goes
<1>3. Knows(g, w, h) => InnerTruth(g, h, FALSE)
  BY <1>1 DEF InnerTruth
<1> QED BY <1>2, <1>3 DEF Current, Tries

Entered(f, h, order, iir) ==
  /\ DOMAIN h = Fields /\ h.begun = TRUE /\ h.left = order /\ h.alpha = Low(f) /\ h.beta = High(f)
  /\ h.alpha0 = Low(f) /\ h.reduced = iir /\ h.depth = (IF iir THEN f.depth - 1 ELSE f.depth)
  /\ h.kind = f.kind /\ h.node = f.node /\ h.ply = f.ply /\ h.qply = f.qply /\ h.tried = f.tried
  /\ h.best = f.best /\ h.lower = f.lower /\ h.upper = f.upper

(* A node that enters its loop, with its order of moves. *)
LEMMA EntersIs ==
  ASSUME NEW f, DOMAIN f = Fields, NEW hint, NEW order, NEW iir
  PROVE  Entered(f, Enters(f, hint, order, iir), order, iir)
<1> DEFINE a == Low(f)  b == High(f)  d == IF iir THEN f.depth - 1 ELSE f.depth
           h == Enters(f, hint, order, iir)
<1>1. h = [Begun(f, order) EXCEPT !.alpha = a, !.beta = b, !.alpha0 = a, !.hint = hint, !.reduced = iir, !.depth = d]
  BY DEF Enters, Begun, Fields
<1> HIDE DEF a, b, d, h
<1>2. /\ DOMAIN h = Fields /\ h.begun = TRUE /\ h.left = order /\ h.alpha = a /\ h.beta = b
      /\ h.alpha0 = a /\ h.reduced = iir /\ h.depth = d
      /\ h.kind = f.kind /\ h.node = f.node /\ h.ply = f.ply /\ h.qply = f.qply /\ h.tried = f.tried
      /\ h.best = f.best /\ h.lower = f.lower /\ h.upper = f.upper
  BY <1>1 DEF Begun, Fields
<1>3. Entered(f, h, order, iir)
  BY <1>2 DEF a, b, d, Entered
<1> QED BY <1>3 DEF h

(* The frame of a node that goes to its moves. *)
LEMMA GoesOnEnters ==
  ASSUME NEW w, NEW f, IsGame(G), f.node \in DOMAIN G.kind, f.depth \in 1..MaxDepth, MaxDepth \in Nat, DOMAIN f = Fields,
         Chosen(G, f.node) # {}, NEW known, GoesOn(w, f, known)
  PROVE  \E h, order, iir :
           /\ worker' = Replace(w, h) /\ Entered(f, h, order, iir) /\ iir \in BOOLEAN /\ h.depth \in 1..MaxDepth
           /\ order \in Seq(Nat) /\ ToSet(order) = Chosen(G, f.node) /\ order # <<>>
<1> DEFINE moves == Chosen(G, f.node)
<1>1. PICK hint \in Hints(f, known) : \E order \in Orders(f.node, moves, hint), iir \in Reductions(f, hint) :
        worker' = Replace(w, Enters(f, hint, order, iir))
  BY DEF GoesOn, Chosen
<1>2. PICK order \in Orders(f.node, moves, hint), iir \in Reductions(f, hint) :
        worker' = Replace(w, Enters(f, hint, order, iir))
  BY <1>1
<1>3. moves \in SUBSET Nat /\ IsFiniteSet(moves)
  <2>1. moves \subseteq DOMAIN G.next[f.node] /\ IsFiniteSet(moves) /\ DOMAIN G.next[f.node] = 1..Len(G.next[f.node])
    BY ChosenAre, GameIs
  <2> HIDE DEF moves
  <2> QED BY <2>1
<1>4. order \in Seq(Nat) /\ ToSet(order) = moves /\ order # <<>>
  BY <1>3, OrdersAre
<1>5. iir \in BOOLEAN /\ (iir => f.depth >= 2)
  <2>1. CASE f.depth >= 2
    BY <2>1 DEF Reductions
  <2>2. CASE ~(f.depth >= 2)
    <3>1. Reductions(f, hint) = {FALSE}
      BY <2>2 DEF Reductions
    <3> QED BY <3>1
  <2> QED BY <2>1, <2>2
<1> DEFINE h == Enters(f, hint, order, iir)
<1>6. Entered(f, h, order, iir)
  BY EntersIs
<1> HIDE DEF h, moves
<1>7. h.depth \in 1..MaxDepth
  <2>1. h.depth = IF iir THEN f.depth - 1 ELSE f.depth
    BY <1>6 DEF Entered
  <2> QED BY <1>5, <2>1
<1> QED BY <1>2, <1>4, <1>5, <1>6, <1>7 DEF h, moves

(* Entering the loop, or finding it empty. *)
LEMMA GoesOnKeeps ==
  ASSUME NEW w, Searching(w), worker[w].phase = "search", Placed(G, Top(w)), Unbegun(Top(w)), Top(w).kind = "inner",
         ~IsFact(G, Top(w).node), ~Closed(Top(w)), Top(w).depth >= 1, NEW known, GoesOn(w, Top(w), known)
  PROVE  Stepped(w)
<1> DEFINE f == Top(w)  g == G  n == f.node  moves == Chosen(g, n)
<1>1. IsGame(g) /\ n \in DOMAIN g.kind /\ f.depth \in 0..MaxDepth /\ MaxDepth \in Nat /\ DOMAIN f = Fields
      /\ f.ply \in Nat /\ f.ply + g.free[n] <= CellCount
  BY GameOk, AlphaBetaAssumption DEF Searching, Placed, Shaped
<1>2. CASE moves = {}
  <2>1. worker' = Pop(w, Complete(0))
    BY <1>2 DEF GoesOn, Chosen
  <2>2. g.free[n] \in Nat /\ g.free[n] <= CellCount
    BY <1>1, GameIs
  <2>3. Worthy(0, g.free[n]) /\ AtPly(0, f.ply) = 0
    BY <1>1, <2>2, ZeroIs
  <2>4. Plausible(0, f.ply, g.free[n])
    BY DEF Plausible, Threshold
  <2>5. Most(g, f) = 0 /\ Least(g, f) = 0
    <3>1. f.depth # 0
      BY <1>1
    <3>2. Values(g)[n][f.depth] = WorthOne(g, QuietValues(g), Values(g), Extends(g), n, f.depth)
      BY <1>1, WorthSettles DEF Values
    <3> QED BY <1>2, <3>1, <3>2 DEF Most, Least, WorthOne
  <2>6. Complete(0) \in Results /\ Complete(0).score = 0
    BY UnverifiedIs
  <2>7. ~f.reduced
    BY DEF Unbegun
  <2>8. Truthful(g, f, Complete(0))
    BY <2>3, <2>4, <2>5, <2>6, <2>7 DEF Truthful
  <2> QED BY <2>1, <2>8, PopWorks
<1>3. CASE moves # {}
  <2>1. f.depth \in 1..MaxDepth
    BY <1>1
  <2>2. PICK h, order, iir :
          /\ worker' = Replace(w, h) /\ Entered(f, h, order, iir) /\ iir \in BOOLEAN /\ h.depth \in 1..MaxDepth
          /\ order \in Seq(Nat) /\ ToSet(order) = moves /\ order # <<>>
    BY <1>1, <1>3, <2>1, GoesOnEnters
  <2>3. moves \subseteq DOMAIN g.next[n]
    BY <1>1, ChosenAre
  <2>4. order \in Seq(Nat) /\ ToSet(order) = moves /\ order # <<>>
    BY <2>2
  <2>6. /\ DOMAIN h = Fields /\ h.begun = TRUE /\ h.left = order /\ h.alpha = Low(f) /\ h.beta = High(f)
        /\ h.alpha0 = Low(f) /\ h.reduced = iir /\ iir \in BOOLEAN /\ (h.reduced \/ h.depth = f.depth)
        /\ h.kind = f.kind /\ h.node = f.node /\ h.ply = f.ply /\ h.qply = f.qply /\ h.tried = f.tried
        /\ h.best = f.best /\ h.lower = f.lower /\ h.upper = f.upper
    BY <2>2 DEF Entered
  <2>7. Low(f) \in Int /\ High(f) \in Int /\ Low(f) < High(f) /\ -Infinity <= Low(f) /\ High(f) <= Infinity
    BY WindowIs
  <2>8. h.depth \in 0..MaxDepth /\ h.depth >= 1
    BY <1>1, <2>2
  <2>9. Shaped(f) /\ Flags(f) /\ f.qply = 0 /\ f.tried = 0 /\ f.best = -Infinity /\ ~f.lower /\ ~f.reduced
    BY DEF Placed, Unbegun
  <2>10. Shaped(h)
    BY <2>4, <2>6, <2>7, <2>8, <2>9 DEF Shaped
  <2>11. Flags(h)
    BY <2>6, <2>9, Zenon DEF Flags
  <2>12. Placed(g, h)
    BY <1>1, <2>6, <2>7, <2>9, <2>10, <2>11 DEF Placed
  <2>13. Linked(f, h)
    BY <2>6, <2>9 DEF Linked
  <2>14. Follows(g, f, h)
    BY <2>12, <2>13, LinkedFollows
  <2>15. /\ h.kind # "quiet" /\ h.begun /\ ~IsFact(g, h.node) /\ h.best = -Infinity /\ h.tried = 0 /\ h.left # <<>>
         /\ h.alpha < h.beta /\ ~h.lower /\ ToSet(h.left) \subseteq DOMAIN g.next[h.node]
         /\ ToSet(h.left) = Chosen(g, h.node) /\ Chosen(g, h.node) # {}
    BY <1>3, <2>3, <2>4, <2>6, <2>7, <2>9
  <2> HIDE DEF f, g, moves, n
  <2>16. Current(g, w, h)
    BY <1>1, <2>8, <2>12, <2>15, MovesBegin
  <2> QED BY <2>2, <2>14, <2>16, ReplaceWorks DEF f, g
<1> QED BY <1>2, <1>3

(* A node that goes to its moves. *)
LEMMA VisitMovesKeeps ==
  ASSUME NEW w, Searching(w), VisitMoves(w)
  PROVE  Stepped(w)
<1>1. PICK entry \in Seen(Top(w).node) : GoesOn(w, Top(w), IF Normal THEN entry.at ELSE 0)
  BY DEF VisitMoves
<1>2. Inner(w) /\ ~IsFact(G, Top(w).node) /\ ~Closed(Top(w))
  BY DEF VisitMoves, Undecided
<1>3. /\ worker[w].phase = "search" /\ Placed(G, Top(w)) /\ Unbegun(Top(w)) /\ Top(w).kind = "inner" /\ Top(w).depth >= 1
  BY <1>2, InnerIs
<1> QED BY <1>1, <1>2, <1>3, GoesOnKeeps

(* A razoring search cuts without evidence, or is ignored. *)
LEMMA TakeRazoredKeeps ==
  ASSUME NEW w, Searching(w), TakeRazored(w)
  PROVE  Stepped(w)
<1> DEFINE f == Top(w)  g == G  s == Returned(w).score
<1>1. Answered(w) /\ f.call = "razor"
  BY DEF TakeRazored
<1>2. /\ worker[w].phase = "search" /\ IsGame(g) /\ Placed(g, f) /\ Waits(g, w, f) /\ Answers(g, f, Returned(w))
  BY <1>1, AnsweredIs
<1>3. f.kind = "inner" /\ Unbegun(f) /\ ~IsFact(g, f.node) /\ ~Closed(f) /\ f.depth >= 1
  BY <1>1, <1>2 DEF Waits
<1>4. CASE s <= Low(f)
  <2>1. worker' = Pop(w, Unverified(s))
    BY <1>4 DEF TakeRazored
  <2>2. Plausible(s, f.ply, g.free[f.node])
    BY <1>1, <1>2 DEF Answers
  <2>3. Truthful(g, f, Unverified(s))
    <3> HIDE DEF f, g, s
    <3> QED BY <1>3, <2>2, BareTruth
  <2> QED BY <1>2, <1>3, <2>1, <2>3, PopWorks
<1>5. CASE ~(s <= Low(f))
  <2>1. GoesOn(w, f, f.hint)
    BY <1>5 DEF TakeRazored
  <2> QED BY <1>2, <1>3, <2>1, GoesOnKeeps
<1> QED BY <1>4, <1>5

--------------------------------------------------
(* The root, and the end of a position. *)

Opened(f, h, left) ==
  /\ DOMAIN h = Fields /\ h.begun = TRUE /\ h.left = left
  /\ h.kind = f.kind /\ h.node = f.node /\ h.depth = f.depth /\ h.ply = f.ply /\ h.qply = f.qply
  /\ h.alpha = f.alpha /\ h.alpha0 = f.alpha0 /\ h.beta = f.beta /\ h.reduced = f.reduced
  /\ h.tried = f.tried /\ h.best = f.best /\ h.lower = f.lower /\ h.upper = f.upper

(* A frame that begins with its moves. *)
LEMMA BegunOpens ==
  ASSUME NEW f, DOMAIN f = Fields, NEW left
  PROVE  Opened(f, Begun(f, left), left)
BY DEF Opened, Begun, Fields

(* The candidates of a root are moves, and there is one. *)
LEMMA RootMovesAre ==
  ASSUME NEW g, IsGame(g), NEW n \in DOMAIN g.kind, g.kind[n] = "open", g.near[n] >= 1, NEW wide
  PROVE  /\ Moves(g, n, wide) \subseteq DOMAIN g.next[n] /\ IsFiniteSet(Moves(g, n, wide))
         /\ Moves(g, n, wide) \in SUBSET Nat /\ Moves(g, n, wide) # {}
         /\ ~wide => Moves(g, n, wide) = Moves(g, n, FALSE)
<1>1. /\ DOMAIN g.next[n] = 1..Len(g.next[n]) /\ Len(g.next[n]) \in Nat /\ g.near[n] \in 0..Len(g.next[n])
      /\ \A x \in BOOLEAN : Moves(g, n, x) \subseteq DOMAIN g.next[n] /\ IsFiniteSet(Moves(g, n, x))
  BY GameIs
<1>2. Moves(g, n, TRUE) = DOMAIN g.next[n] /\ Moves(g, n, FALSE) = 1..g.near[n]
  BY DEF Moves
<1>3. Moves(g, n, wide) = Moves(g, n, TRUE) \/ (Moves(g, n, wide) = Moves(g, n, FALSE) /\ ~wide)
  BY DEF Moves
<1>4. ~wide => Moves(g, n, wide) = Moves(g, n, FALSE)
  BY DEF Moves
<1>5. 1 \in Moves(g, n, TRUE) /\ 1 \in Moves(g, n, FALSE)
  <2> DEFINE near == g.near[n]  l == Len(g.next[n])
  <2>1. near \in 0..l /\ l \in Nat /\ near >= 1 /\ DOMAIN g.next[n] = 1..l
    BY <1>1
  <2>2. Moves(g, n, TRUE) = DOMAIN g.next[n] /\ Moves(g, n, FALSE) = 1..near
    BY <1>2
  <2> HIDE DEF near, l
  <2>3. 1 \in 1..l /\ 1 \in 1..near
    BY <2>1
  <2> QED BY <2>1, <2>2, <2>3
<1>6. DOMAIN g.next[n] \in SUBSET Nat
  BY <1>1
<1>7. /\ Moves(g, n, TRUE) \subseteq DOMAIN g.next[n] /\ IsFiniteSet(Moves(g, n, TRUE))
      /\ Moves(g, n, FALSE) \subseteq DOMAIN g.next[n] /\ IsFiniteSet(Moves(g, n, FALSE))
  BY <1>1
<1> QED BY <1>3, <1>4, <1>5, <1>6, <1>7

(* The root begins. *)
LEMMA VisitRootKeeps ==
  ASSUME NEW w, Searching(w), VisitRoot(w)
  PROVE  Stepped(w)
<1> DEFINE f == Top(w)  g == G  n == f.node  wide == g.adaptive /\ w = Principal  moves == Moves(g, n, wide)
<1>1. Fresh(w) /\ f.kind = "root"
  BY DEF VisitRoot
<1>2. /\ worker[w].phase = "search" /\ IsGame(g) /\ Placed(g, f) /\ Unbegun(f) /\ ~f.begun
      /\ g.kind[n] = "open" /\ g.near[n] >= 1 /\ f.depth >= 1 /\ n \in DOMAIN g.kind
  BY <1>1, FreshIs
<1>3. /\ moves \subseteq DOMAIN g.next[n] /\ IsFiniteSet(moves) /\ moves \in SUBSET Nat /\ moves # {}
      /\ ~wide => moves = Moves(g, n, FALSE)
  BY <1>2, RootMovesAre
<1>4. PICK entry \in Seen(n) : \E order \in Orders(n, moves, entry.at) :
        worker' = Replace(w, Begun(f, Rotated(order, w)))
  BY DEF VisitRoot
<1>5. PICK order \in Orders(n, moves, entry.at) : worker' = Replace(w, Begun(f, Rotated(order, w)))
  BY <1>4
<1>6. order \in Seq(Nat) /\ ToSet(order) = moves /\ order # <<>>
  BY <1>3, OrdersAre
<1> DEFINE left == Rotated(order, w)  h == Begun(f, left)
<1>7. left \in Seq(Nat) /\ ToSet(left) = moves /\ left # <<>>
  BY <1>6, RotatedIs
<1>8. Shaped(f) /\ Flags(f) /\ DOMAIN f = Fields
  BY <1>2 DEF Placed, Shaped
<1>9. Opened(f, h, left)
  BY <1>8, BegunOpens
<1> HIDE DEF h
<1>10. Knows(g, w, h) => moves = Chosen(g, n)
  <2>1. Knows(g, w, h) => ~wide
    BY <1>1, <1>9 DEF Knows, Opened
  <2>2. Chosen(g, n) = Moves(g, n, FALSE)
    <3>1. (g.domain = "teacher") = FALSE
      BY DEF Searching, Normal
    <3> QED BY <3>1 DEF Chosen
  <2> QED BY <2>1, <2>2, <1>3
<1> HIDE DEF moves, left, wide
<1>11. Shaped(h)
  BY <1>7, <1>8, <1>9 DEF Shaped, Opened
<1>12. Flags(h)
  BY <1>8, <1>9, Zenon DEF Flags, Opened
<1>13. Placed(g, h)
  BY <1>2, <1>9, <1>11, <1>12 DEF Placed, Opened
<1>14. Linked(f, h)
  BY <1>9 DEF Linked, Opened
<1>15. Follows(g, f, h)
  BY <1>13, <1>14, LinkedFollows
<1>16. /\ h.kind # "quiet" /\ h.begun /\ h.best = -Infinity /\ h.tried = 0 /\ h.left = left /\ h.alpha < h.beta
       /\ h.depth >= 1 /\ ~h.lower /\ h.node = n
  BY <1>1, <1>2, <1>9 DEF Opened, Unbegun
<1>17. ~IsFact(g, h.node)
  BY <1>2, <1>16 DEF IsFact
<1>18. Current(g, w, h)
  <2>1. ToSet(h.left) \subseteq DOMAIN g.next[h.node] /\ h.left # <<>>
    BY <1>3, <1>7, <1>16
  <2>2. Knows(g, w, h) => ToSet(h.left) = Chosen(g, h.node) /\ Chosen(g, h.node) # {}
    BY <1>3, <1>7, <1>10, <1>16
  <2> HIDE DEF f, g, n
  <2> QED BY <1>2, <1>13, <1>16, <1>17, <2>1, <2>2, MovesBegin
<1> QED BY <1>2, <1>5, <1>15, <1>18, ReplaceWorks DEF h, left

(* What the flags of a frame say once all its moves are counted. *)
LEMMA FinishedTruth ==
  ASSUME NEW w, Searching(w), Exhausted(w), Top(w).kind # "quiet", Knows(G, w, Top(w))
  PROVE  /\ Top(w).lower => Top(w).best <= AtPly(Values(G)[Top(w).node][Top(w).depth].most, Top(w).ply)
         /\ Top(w).upper => AtPly(Values(G)[Top(w).node][Top(w).depth].least, Top(w).ply) <= Top(w).best
<1> DEFINE f == Top(w)  g == G  n == f.node  d == f.depth  p == f.ply  least == AtPly(Values(g)[n][d].least, p)
<1>1. /\ IsGame(g) /\ Placed(g, f) /\ Tries(g, w, f, FALSE) /\ ~IsFact(g, n) /\ Open(f, FALSE) = {} /\ f.best \in Int
  BY ExhaustedIs
<1>2. InnerTruth(g, f, FALSE) /\ d >= 1
  BY <1>1 DEF Tries, Goes
<1>3. /\ n \in DOMAIN g.kind /\ d \in 0..MaxDepth /\ d # 0 /\ p \in Nat /\ p + g.free[n] <= CellCount /\ MaxDepth \in Nat
  BY <1>1, <1>2, AlphaBetaAssumption DEF Placed, Shaped
<1>4. /\ f.lower => f.best <= AtPly(Values(g)[n][d].most, p)
      /\ f.upper => \A m \in Chosen(g, n) : \E v \in Falls(g, Values(g), Extends(g), n, d, m) : AtPly(v, p) <= f.best
      /\ Chosen(g, n) # {}
  BY <1>1, <1>2 DEF InnerTruth
<1>5. PICK m \in Chosen(g, n) : \A v \in Falls(g, Values(g), Extends(g), n, d, m) : least <= AtPly(v, p)
  BY <1>1, <1>3, <1>4, WorthAt DEF Values
<1>6. \A v \in Falls(g, Values(g), Extends(g), n, d, m) : AtPly(v, p) \in Int
  <2>1. m \in DOMAIN g.next[n]
    BY <1>1, <1>3, ChosenAre
  <2> QED BY <1>1, <1>3, <2>1, FallsInt
<1>7. least \in Int
  <2>1. f.kind # "quiet" /\ AtPly(Least(g, f), f.ply) \in Int
    BY <1>1, MostIs
  <2> QED BY <2>1 DEF Least
<1>8. ASSUME f.upper
      PROVE  least <= f.best
  <2>1. PICK v \in Falls(g, Values(g), Extends(g), n, d, m) : AtPly(v, p) <= f.best
    BY <1>4, <1>8
  <2>2. AtPly(v, p) \in Int /\ least <= AtPly(v, p)
    BY <1>5, <1>6
  <2> HIDE DEF least, f
  <2> QED BY <1>1, <1>7, <2>1, <2>2
<1> QED BY <1>4, <1>8

(* An entry that is stored is true. *)
LEMMA StoredIsTrue ==
  ASSUME NEW w, Searching(w), Exhausted(w), Top(w).kind # "quiet", Stores(w, Top(w))
  PROVE  TrueEntry(G, Top(w).node, Entry(Top(w)))
<1> DEFINE f == Top(w)  g == G  n == f.node  d == f.depth  p == f.ply  r == g.free[n]  e == Entry(f)
           most == Values(g)[n][d].most  least == Values(g)[n][d].least
<1>1. /\ IsGame(g) /\ Placed(g, f) /\ Plausible(f.best, p, r) /\ f.best \in Int
  BY ExhaustedIs
<1>2. Supports(f, Bound(f)) /\ Knows(g, w, f)
  BY <1>1 DEF Stores, Knows, Placed
<1>3. /\ f.lower => f.best <= AtPly(most, p)
      /\ f.upper => AtPly(least, p) <= f.best
  BY <1>2, FinishedTruth
<1>4. /\ r \in Nat /\ p \in Nat /\ p + r <= CellCount /\ r <= CellCount /\ d \in 0..MaxDepth
      /\ Worthy(most, r) /\ Worthy(least, r)
  <2>1. f.kind # "quiet"
    OBVIOUS
  <2> QED BY <1>1, <2>1, MostIs DEF Most, Least, Placed, Shaped
<1>5. Plausible(most, 0, r) /\ Plausible(least, 0, r)
  BY <1>4, WorthyIs
<1> DEFINE s == ScoreToTt(f.best, p)
<1>6. Plausible(s, 0, r)
  BY <1>1, <1>4, ToTt
<1>7. /\ f.lower => s <= most
      /\ f.upper => least <= s
  BY <1>1, <1>3, <1>4, <1>5, ToTtOrder
<1>8. e.score = s /\ e.depth = d /\ e.bound = Bound(f)
  BY DEF Entry
<1>9. Bound(f) \in {"Upper", "Lower", "Exact"}
  BY DEF Bound, Classify
<1>10. s \in Int
  BY <1>6 DEF Plausible
<1> HIDE DEF s, e, most, least
<1>11. /\ e.bound \in {"Lower", "Exact"} => s <= most
       /\ e.bound \in {"Upper", "Exact"} => least <= s
  BY <1>2, <1>7, <1>8 DEF Supports
<1> QED BY <1>4, <1>6, <1>8, <1>9, <1>10, <1>11 DEF TrueEntry, most, least, e

(* A bucket keeps one of two entries. *)
LEMMA KeptIsOne ==
  ASSUME NEW old, NEW new
  PROVE  Kept(old, new) = old \/ Kept(old, new) = new
BY DEF Kept

(* What a visit that is over writes into the table. *)
LEMMA FinishTable ==
  ASSUME NEW w, Finish(w)
  PROVE  /\ DOMAIN table' = DOMAIN table
         /\ \A m \in DOMAIN table :
              table'[m] = table[m] \/ (m = Top(w).node /\ Stores(w, Top(w)) /\ table'[m] = Entry(Top(w)))
<1> DEFINE f == Top(w)  e == Entry(f)  n == f.node
<1>1. CASE Stores(w, f)
  <2>1. table' = [table EXCEPT ![n] = Kept(table[n], e)]
    BY <1>1 DEF Finish
  <2>2. Kept(table[n], e) = table[n] \/ Kept(table[n], e) = e
    BY KeptIsOne
  <2> HIDE DEF f, e, n
  <2>3. /\ DOMAIN table' = DOMAIN table
        /\ \A m \in DOMAIN table : table'[m] = table[m] \/ (m = n /\ table'[m] = e)
    BY <2>1, <2>2
  <2> QED BY <1>1, <2>3 DEF f, e, n
<1>2. CASE ~Stores(w, f)
  BY <1>2 DEF Finish
<1> QED BY <1>1, <1>2

(* What is stored is true. *)
LEMMA FinishStores ==
  ASSUME NEW w, Searching(w), Finish(w)
  PROVE  TableTrue(G, table')
<1>1. Exhausted(w) /\ Top(w).kind # "quiet"
  BY DEF Finish
<1>2. TableTrue(G, table)
  BY DEF Searching
<1>3. Stores(w, Top(w)) => TrueEntry(G, Top(w).node, Entry(Top(w)))
  BY <1>1, StoredIsTrue
<1>4. /\ DOMAIN table' = DOMAIN table
      /\ \A m \in DOMAIN table :
           table'[m] = table[m] \/ (m = Top(w).node /\ Stores(w, Top(w)) /\ table'[m] = Entry(Top(w)))
  BY FinishTable
<1> QED BY <1>2, <1>3, <1>4 DEF TableTrue

(* What is returned is true, and a root's score is no infinity. *)
LEMMA FinishKeeps ==
  ASSUME NEW w, Searching(w), Finish(w)
  PROVE  Stepped(w)
<1> DEFINE f == Top(w)  g == G  n == f.node
<1>1. Exhausted(w) /\ f.kind # "quiet"
  BY DEF Finish
<1>2. /\ worker[w].phase = "search" /\ IsGame(g) /\ Placed(g, f) /\ Plausible(f.best, f.ply, g.free[n]) /\ f.best \in Int
  BY <1>1, ExhaustedIs
<1>3. CASE f.kind = "inner"
  <2> DEFINE r == IF f.reduced THEN Unverified(f.best) ELSE Result(f.best, f.lower, f.upper)
  <2>1. worker' = Pop(w, r)
    BY <1>3 DEF Finish
  <2>2. /\ f.lower => f.best <= AtPly(Most(g, f), f.ply)
        /\ f.upper => AtPly(Least(g, f), f.ply) <= f.best
    BY <1>1, <1>3, FinishedTruth DEF Knows, Most, Least
  <2>3. CASE f.reduced
    <3>1. Truthful(g, f, Unverified(f.best))
      <4> HIDE DEF f
      <4> QED BY <1>2, <1>3, BareTruth
    <3> QED BY <1>2, <1>3, <2>1, <2>3, <3>1, PopWorks
  <2>4. CASE ~f.reduced
    <3> DEFINE q == Result(f.best, f.lower, f.upper)
    <3>1. q.score = f.best /\ q.lower = f.lower /\ q.upper = f.upper
      BY DEF Result
    <3>2. q \in Results
      <4>1. f.lower \in BOOLEAN /\ f.upper \in BOOLEAN
        BY <1>2 DEF Placed, Flags
      <4> HIDE DEF f
      <4> QED BY <1>2, <4>1 DEF Result, Results
    <3> HIDE DEF q
    <3>3. Truthful(g, f, q)
      BY <1>2, <1>3, <2>2, <2>4, <3>1, <3>2 DEF Truthful
    <3>4. worker' = Pop(w, q)
      BY <2>1, <2>4 DEF q
    <3> QED BY <1>2, <1>3, <3>3, <3>4, PopWorks
  <2> QED BY <2>3, <2>4
<1>4. CASE f.kind # "inner"
  <2> DEFINE v == [score |-> f.best, at |-> f.at, layer |-> f.layer, lower |-> f.lower, upper |-> f.upper]
             k == worker[w]
             j == [k EXCEPT !.stack = <<>>, !.phase = "judge", !.returned = v]
  <2>1. worker' = [worker EXCEPT ![w].stack = <<>>, ![w].phase = "judge", ![w].returned = v]
    BY <1>4 DEF Finish
  <2>2. w \in Workers /\ DOMAIN worker = Workers /\ Works(g, w, k)
    BY DEF Searching
  <2>3. DOMAIN worker' = Workers /\ (\A u \in Workers : u # w => worker'[u] = worker[u]) /\ worker'[w] = j
    <3> HIDE DEF v
    <3> QED BY <2>1, <2>2
  <2>4. Sane(v.score)
    <3>1. f.ply \in Nat /\ g.free[n] \in Nat /\ f.ply + g.free[n] <= CellCount
      BY <1>2, MostIs
    <3>2. f.best \in Int /\ -Infinity < f.best /\ f.best < Infinity
      BY <1>2, <3>1, PlausibleInt
    <3> QED BY <3>2 DEF Sane
  <2>5. /\ DOMAIN k = WorkerFields /\ k.depth \in 0..MaxDepth /\ Sane(k.previous)
        /\ k.depth >= 1 /\ k.delta \in Nat \ {0}
    BY <1>2, <2>2 DEF Works
  <2> HIDE DEF v, k
  <2>6. /\ DOMAIN j = WorkerFields /\ j.depth = k.depth /\ j.previous = k.previous /\ j.delta = k.delta
        /\ j.phase = "judge" /\ j.returned = v
    BY <2>5 DEF WorkerFields
  <2> HIDE DEF j
  <2>7. Works(g, w, j)
    BY <2>4, <2>5, <2>6 DEF Works
  <2> QED BY <2>2, <2>3, <2>7 DEF Stepped
<1> QED BY <1>3, <1>4

--------------------------------------------------
(* What a search in the normal domain does not do. *)

(* A normal search has no teacher's loop. *)
LEMMA NoTeacher ==
  ASSUME NEW w, Searching(w)
  PROVE  ~VisitRanked(w) /\ ~TryRanked(w) /\ ~Scored(w)
<1>1. ASSUME worker[w].phase = "search"
      PROVE  Top(w).kind # "teacher" /\ Stack(w) # <<>>
  BY <1>1, SearchIs DEF Placed
<1> QED BY <1>1 DEF VisitRanked, TryRanked, Scored, Fresh, Advances

--------------------------------------------------
(* Iterations. *)

(* Where a team is at work, its root is a position to search. *)
AtRoot == search \in DOMAIN G.roots /\ G.kind[Root] = "open"

(* The roots of a game are positions. *)
LEMMA RootIs ==
  ASSUME NEW g, IsGame(g), NEW i, i \in DOMAIN g.roots
  PROVE  g.roots[i] \in DOMAIN g.kind /\ (g.kind[g.roots[i]] = "open" => g.near[g.roots[i]] >= 1)
<1>1. g.roots \in Seq(DOMAIN g.kind)
  BY Zenon DEF IsGame
<1>2. \A j \in DOMAIN g.roots : g.kind[g.roots[j]] = "open" => g.near[g.roots[j]] >= 1
  BY Zenon DEF IsGame
<1> QED BY <1>1, <1>2

(* A stack of one root. *)
LEMMA OneFrame ==
  ASSUME NEW g, NEW w, NEW f, Placed(g, f), f.kind = "root", Current(g, w, f)
  PROVE  Stacked(g, w, <<f>>, Nothing)
<1> DEFINE s == <<f>>
<1>1. s \in Seq({f}) /\ s # <<>> /\ Len(s) = 1 /\ s[1] = f
  OBVIOUS
<1>2. Last(s) = f
  BY <1>1 DEF Last
<1> HIDE DEF s
<1>3. IsSeq(s)
  BY <1>1 DEF IsSeq
<1>4. \A i \in 1..Len(s) : Placed(g, s[i]) /\ (s[i].kind = "root" <=> i = 1)
  BY <1>1
<1>5. \A i \in 1..Len(s) - 1 : Waits(g, w, s[i]) /\ Called(g, s[i], s[i + 1])
  BY <1>1
<1>6. Stacked(g, w, s, Nothing)
  BY <1>1, <1>2, <1>3, <1>4, <1>5, Zenon DEF Stacked
<1> QED BY <1>6 DEF s

(* An aspiration window is not empty, and within the infinite one. *)
LEMMA WindowOpens ==
  ASSUME NEW w, Sane(worker[w].previous), NEW delta \in Nat \ {0}
  PROVE  /\ Window(w, delta)[1] \in Int /\ Window(w, delta)[2] \in Int /\ Window(w, delta)[1] < Window(w, delta)[2]
         /\ -Infinity <= Window(w, delta)[1] /\ Window(w, delta)[2] <= Infinity
<1> DEFINE p == worker[w].previous
<1>1. p \in Int /\ -Infinity < p /\ p < Infinity
  BY DEF Sane
<1>2. Window(w, delta)[1] = Larger(p - delta, -Infinity) /\ Window(w, delta)[2] = Smaller(p + delta, Infinity)
  BY DEF Window
<1> HIDE DEF p
<1> QED BY <1>1, <1>2 DEF Larger, Smaller

(* An iteration begins with a sound stack. *)
LEMMA LaunchKeeps ==
  ASSUME NEW w, Searching(w), AtRoot, NEW depth \in 1..MaxDepth, NEW delta \in Nat \ {0}, Launch(w, depth, delta)
  PROVE  Stepped(w)
<1> DEFINE a == Window(w, delta)[1]  b == Window(w, delta)[2]  f == Frame("root", Root, depth, a, b, 0, 0)
<1>1. /\ w \in Workers /\ DOMAIN worker = Workers /\ Works(G, w, worker[w]) /\ Normal /\ IsGame(G) /\ MaxDepth \in Nat
  BY GameOk DEF Searching
<1>2. Sane(worker[w].previous)
  BY <1>1 DEF Works
<1>3. a \in Int /\ b \in Int /\ a < b /\ -Infinity <= a /\ b <= Infinity
  BY <1>2, WindowOpens
<1>4. Root \in DOMAIN G.kind /\ G.kind[Root] = "open" /\ G.near[Root] >= 1
  BY <1>1, RootIs DEF AtRoot, Root
<1>5. 0 + G.free[Root] <= CellCount
  BY <1>1, <1>4, GameIs
<1>6. depth \in 0..MaxDepth /\ depth >= 1
  BY <1>1
<1>7. Place(G, Root, depth, a, b, 0)
  BY <1>3, <1>4, <1>5, <1>6 DEF Place
<1>8. Placed(G, f) /\ Current(G, w, f) /\ f.kind = "root"
  <2>1. Placed(G, f) /\ Current(G, w, f)
    <3> HIDE DEF a, b
    <3> QED BY <1>4, <1>6, <1>7, FrameOk
  <2>2. Framed(f, "root", Root, depth, a, b, 0, 0)
    BY FrameIs
  <2> HIDE DEF f
  <2> QED BY <2>1, <2>2 DEF Framed
<1> DEFINE k == worker[w]
           kind == CASE Normal -> "root" [] Ranks -> "teacher" [] OTHER -> "inner"
           window == IF Normal THEN Window(w, delta) ELSE <<-Infinity, Infinity>>
           j == [phase |-> "search", depth |-> depth, previous |-> k.previous, delta |-> delta,
                 window |-> window, returned |-> Nothing,
                 stack |-> <<Frame(kind, Root, depth, window[1], window[2], 0, 0)>>]
<1>9. worker' = [worker EXCEPT ![w] = j]
  BY DEF Launch
<1>10. kind = "root" /\ window = Window(w, delta)
  <2>1. Normal /\ ~Ranks
    BY <1>1 DEF Normal, Ranks
  <2> QED BY <2>1
<1>11. j.stack = <<f>>
  BY <1>10
<1>12. /\ DOMAIN j = WorkerFields /\ j.phase = "search" /\ j.depth = depth /\ j.previous = k.previous
       /\ j.delta = delta /\ j.returned = Nothing
  BY DEF WorkerFields
<1> HIDE DEF f, j, k
<1>13. Stacked(G, w, j.stack, j.returned)
  BY <1>8, <1>11, <1>12, OneFrame
<1>14. Works(G, w, j)
  BY <1>2, <1>6, <1>12, <1>13 DEF Works, k
<1>15. DOMAIN worker' = Workers /\ (\A u \in Workers : u # w => worker'[u] = worker[u]) /\ worker'[w] = j
  BY <1>1, <1>9
<1> QED BY <1>14, <1>15 DEF Stepped

(* What holds of a worker that is at work. *)
LEMMA WorkerOf ==
  ASSUME NEW w, Searching(w)
  PROVE  /\ w \in Workers /\ DOMAIN worker = Workers /\ DOMAIN worker[w] = WorkerFields
         /\ worker[w].depth \in 0..MaxDepth /\ Sane(worker[w].previous) /\ Normal
         /\ worker[w].phase = "judge" =>
              Sane(Returned(w).score) /\ worker[w].depth >= 1 /\ worker[w].delta \in Nat \ {0}
BY DEF Searching, Works, Returned

(* The next iteration has a depth and a window of its own. *)
LEMMA IterateLaunches ==
  ASSUME NEW w, game \in DOMAIN AllGames, worker[w].depth \in 0..MaxDepth, Iterate(w)
  PROVE  \E depth \in 1..MaxDepth, delta \in Nat \ {0} : Launch(w, depth, delta)
<1> DEFINE depth == IF G.domain = "score" THEN G.depth ELSE worker[w].depth + 1
           delta == IF worker[w].depth = 0 \/ IsMate(worker[w].previous) THEN 2 * Infinity ELSE Aspiration
<1>1. Launch(w, depth, delta) /\ worker[w].depth < G.depth
  BY DEF Iterate
<1>2. G.depth \in 0..MaxDepth /\ MaxDepth \in Nat /\ Aspiration \in Nat \ {0}
  BY GameOk
<1>3. depth = worker[w].depth + 1 \/ depth = G.depth
  OBVIOUS
<1>4. delta \in Nat \ {0}
  BY <1>2
<1> HIDE DEF depth, delta
<1>5. depth \in 1..MaxDepth
  BY <1>1, <1>2, <1>3
<1> QED BY <1>1, <1>4, <1>5

(* A search that left its window is repeated in a wider one. *)
LEMMA WidenLaunches ==
  ASSUME NEW w, worker[w].depth \in 1..MaxDepth, worker[w].delta \in Nat \ {0}, Widen(w)
  PROVE  \E depth \in 1..MaxDepth, delta \in Nat \ {0} : Launch(w, depth, delta)
<1> DEFINE depth == worker[w].depth  d == worker[w].delta
           delta == IF IsMate(Returned(w).score) THEN 2 * Infinity ELSE Smaller(2 * d, 2 * Infinity)
<1>1. Launch(w, depth, delta)
  BY DEF Widen
<1>2. delta \in Nat \ {0}
  <2> HIDE DEF d
  <2>1. 2 * d \in Nat \ {0} /\ 2 * Infinity \in Nat \ {0}
    BY DEF d
  <2>2. Smaller(2 * d, 2 * Infinity) \in Nat \ {0}
    BY <2>1 DEF Smaller
  <2> QED BY <2>1, <2>2
<1> HIDE DEF delta
<1> QED BY <1>1, <1>2

(* The next depth. *)
LEMMA IterateKeeps ==
  ASSUME NEW w, Searching(w), AtRoot, Iterate(w)
  PROVE  Stepped(w)
<1>1. worker[w].depth \in 0..MaxDepth /\ game \in DOMAIN AllGames
  BY WorkerOf DEF Searching
<1> QED BY <1>1, IterateLaunches, LaunchKeeps

(* The same depth in a wider window. *)
LEMMA WidenKeeps ==
  ASSUME NEW w, Searching(w), AtRoot, Widen(w)
  PROVE  Stepped(w)
<1>1. worker[w].depth \in 0..MaxDepth /\ worker[w].depth >= 1 /\ worker[w].delta \in Nat \ {0} /\ MaxDepth \in Nat
  BY WorkerOf, GameOk DEF Widen, Searching
<1>2. worker[w].depth \in 1..MaxDepth
  BY <1>1
<1> QED BY <1>1, <1>2, WidenLaunches, LaunchKeeps

(* A worker comes to rest, or to the end of an iteration. *)
Rests(w, previous) ==
  /\ DOMAIN worker' = Workers /\ \A u \in Workers : u # w => worker'[u] = worker[u]
  /\ DOMAIN worker'[w] = WorkerFields /\ worker'[w].phase \in {"idle", "boundary"}
  /\ worker'[w].depth = worker[w].depth /\ worker'[w].previous = previous

(* What an accepted, scored or ended iteration leaves of a worker. *)
LEMMA RestsAs ==
  ASSUME NEW w \in Workers, DOMAIN worker = Workers, DOMAIN worker[w] = WorkerFields
  PROVE  /\ Accept(w) => Rests(w, Returned(w).score)
         /\ Scored(w) \/ worker' = Idle(w) => Rests(w, worker[w].previous)
<1> DEFINE s == Returned(w).score
<1>1. ASSUME Accept(w) PROVE Rests(w, s)
  <2>1. worker' = [worker EXCEPT ![w].phase = "boundary", ![w].previous = s, ![w].returned = Nothing]
    BY <1>1 DEF Accept
  <2> HIDE DEF s
  <2> QED BY <2>1 DEF Rests, WorkerFields
<1>2. ASSUME Scored(w) PROVE Rests(w, worker[w].previous)
  BY <1>2 DEF Scored, Rests, WorkerFields
<1>3. ASSUME worker' = Idle(w) PROVE Rests(w, worker[w].previous)
  BY <1>3 DEF Idle, Rests, WorkerFields
<1> QED BY <1>1, <1>2, <1>3

(* An iteration that counts. *)
LEMMA AcceptKeeps ==
  ASSUME NEW w, Searching(w), Accept(w)
  PROVE  Stepped(w)
<1>1. /\ w \in Workers /\ DOMAIN worker = Workers /\ DOMAIN worker[w] = WorkerFields /\ worker[w].depth \in 0..MaxDepth
      /\ Sane(Returned(w).score)
  BY WorkerOf DEF Accept
<1>2. Rests(w, Returned(w).score)
  BY <1>1, RestsAs
<1> QED BY <1>1, <1>2 DEF Stepped, Works, Rests

(* A worker that ends. *)
LEMMA IdleKeeps ==
  ASSUME NEW w, Searching(w), worker' = Idle(w)
  PROVE  Stepped(w)
<1>1. /\ w \in Workers /\ DOMAIN worker = Workers /\ DOMAIN worker[w] = WorkerFields /\ worker[w].depth \in 0..MaxDepth
      /\ Sane(worker[w].previous)
  BY WorkerOf
<1>2. Rests(w, worker[w].previous)
  BY <1>1, RestsAs
<1> QED BY <1>1, <1>2 DEF Stepped, Works, Rests

--------------------------------------------------
(* Every step of a worker. *)

(* Every step of a worker keeps its stack sound and the table true. *)
LEMMA StepKeeps ==
  ASSUME NEW w, Searching(w), AtRoot, Step(w)
  PROVE  Stepped(w)
<1>1. CASE \/ VisitLeaf(w) \/ QuietFact(w) \/ StandPat(w) \/ VisitQuiet(w) \/ TryQuiet(w) \/ TakeQuiet(w)
           \/ FinishQuiet(w) \/ Razor(w) \/ TakeRazored(w)
  BY <1>1, VisitLeafKeeps, QuietFactKeeps, StandPatKeeps, VisitQuietKeeps, TryQuietKeeps, TakeQuietKeeps,
     FinishQuietKeeps, RazorKeeps, TakeRazoredKeeps
<1>2. CASE \/ VisitFact(w) \/ VisitClosed(w) \/ VisitHit(w) \/ SelectiveCut(w) \/ VisitMoves(w) \/ VisitRoot(w)
           \/ VisitRanked(w) \/ TryRanked(w) \/ Scored(w)
  BY <1>2, VisitFactKeeps, VisitClosedKeeps, VisitHitKeeps, SelectiveCutKeeps, VisitMovesKeeps, VisitRootKeeps,
     NoTeacher
<1>3. CASE \/ Prune(w) \/ Try(w) \/ TakeReduced(w) \/ Research(w) \/ ResolveTie(w) \/ Take(w) \/ Finish(w)
  BY <1>3, PruneKeeps, TryKeeps, TakeReducedKeeps, ResearchKeeps, ResolveTieKeeps, TakeKeeps, FinishKeeps
<1>4. CASE Iterate(w) \/ Widen(w) \/ Accept(w) \/ Drop(w) \/ HelperDone(w)
  BY <1>4, IterateKeeps, WidenKeeps, AcceptKeeps, IdleKeeps DEF Drop, HelperDone
<1> QED BY <1>1, <1>2, <1>3, <1>4, Zenon DEF Step

--------------------------------------------------
(* What no step of a worker changes. *)

Frames(w) ==
  /\ game' = game /\ search' = search /\ team' = team /\ DOMAIN worker' = DOMAIN worker
  /\ worker[w].phase # "idle" /\ (Finish(w) \/ table' = table)

(* The steps on a stack leave the set of workers. *)
LEMMA StackFrames ==
  ASSUME NEW w
  PROVE  /\ \A h : worker' = Replace(w, h) => DOMAIN worker' = DOMAIN worker
         /\ \A h, c : worker' = Push(w, h, c) => DOMAIN worker' = DOMAIN worker
         /\ \A r : worker' = Pop(w, r) => DOMAIN worker' = DOMAIN worker
         /\ worker' = Idle(w) => DOMAIN worker' = DOMAIN worker
BY DEF Replace, Push, Pop, Idle

(* So does a call. *)
LEMMA CallFrames ==
  ASSUME NEW w, NEW f, NEW m, NEW call, NEW d, NEW a, NEW b, NEW u, Call(w, f, m, call, d, a, b, u)
  PROVE  DOMAIN worker' = DOMAIN worker
BY StackFrames DEF Call

(* So does entering the loop. *)
LEMMA GoesOnFrames ==
  ASSUME NEW w, NEW f, NEW known, GoesOn(w, f, known)
  PROVE  DOMAIN worker' = DOMAIN worker
BY StackFrames DEF GoesOn

(* So does an iteration. *)
LEMMA LaunchFrames ==
  ASSUME NEW w, NEW d, NEW delta, Launch(w, d, delta)
  PROVE  DOMAIN worker' = DOMAIN worker
BY DEF Launch

(* A visit is a step of a worker at work and stores nothing. *)
LEMMA VisitFrames ==
  ASSUME NEW w,
         \/ VisitLeaf(w) \/ QuietFact(w) \/ StandPat(w) \/ VisitQuiet(w) \/ VisitFact(w) \/ VisitClosed(w)
         \/ VisitHit(w) \/ SelectiveCut(w) \/ VisitMoves(w) \/ VisitRoot(w) \/ VisitRanked(w) \/ Razor(w)
  PROVE  Frames(w)
<1>1. CASE VisitLeaf(w)
  BY <1>1, StackFrames DEF VisitLeaf, Fresh, Frames
<1>2. CASE QuietFact(w)
  BY <1>2, StackFrames DEF QuietFact, Finishes, Quiet, Fresh, Frames
<1>3. CASE StandPat(w)
  BY <1>3, StackFrames DEF StandPat, Finishes, Quiet, Fresh, Frames
<1>4. CASE VisitQuiet(w)
  BY <1>4, StackFrames DEF VisitQuiet, Quiet, Fresh, Frames
<1>5. CASE VisitFact(w)
  BY <1>5, StackFrames DEF VisitFact, Finishes, Inner, Fresh, Frames
<1>6. CASE VisitClosed(w)
  BY <1>6, StackFrames DEF VisitClosed, Finishes, Inner, Fresh, Frames
<1>7. CASE VisitHit(w)
  BY <1>7, StackFrames DEF VisitHit, Finishes, Undecided, Inner, Fresh, Frames
<1>8. CASE SelectiveCut(w)
  BY <1>8, StackFrames DEF SelectiveCut, Missed, Finishes, Undecided, Inner, Fresh, Frames
<1>9. CASE VisitMoves(w)
  BY <1>9, GoesOnFrames DEF VisitMoves, Undecided, Inner, Fresh, Frames
<1>10. CASE VisitRoot(w)
  BY <1>10, StackFrames DEF VisitRoot, Fresh, Frames
<1>11. CASE VisitRanked(w)
  BY <1>11, StackFrames DEF VisitRanked, Fresh, Frames
<1>12. CASE Razor(w)
  BY <1>12, StackFrames DEF Razor, Undecided, Inner, Fresh, Frames
<1> QED BY <1>1, <1>2, <1>3, <1>4, <1>5, <1>6, <1>7, <1>8, <1>9, <1>10, <1>11, <1>12, Zenon

(* So is a try, or an answer taken. *)
LEMMA TryFrames ==
  ASSUME NEW w,
         \/ TryQuiet(w) \/ TakeQuiet(w) \/ FinishQuiet(w) \/ TakeRazored(w) \/ Prune(w) \/ Try(w) \/ TryRanked(w)
         \/ TakeReduced(w) \/ Research(w) \/ ResolveTie(w) \/ Take(w)
  PROVE  Frames(w)
<1>1. CASE TryQuiet(w)
  BY <1>1, StackFrames DEF TryQuiet, Advances, Frames
<1>2. CASE TakeQuiet(w)
  BY <1>2, StackFrames DEF TakeQuiet, Answered, Frames
<1>3. CASE FinishQuiet(w)
  BY <1>3, StackFrames DEF FinishQuiet, Finishes, Exhausted, Frames
<1>4. CASE TakeRazored(w)
  <2>1. DOMAIN worker' = DOMAIN worker
    BY <1>4, StackFrames, GoesOnFrames DEF TakeRazored
  <2> QED BY <1>4, <2>1 DEF TakeRazored, Answered, Frames
<1>5. CASE Prune(w)
  BY <1>5, StackFrames DEF Prune, Advances, Frames
<1>6. CASE Try(w)
  <2>1. DOMAIN worker' = DOMAIN worker
    BY <1>6, CallFrames DEF Try
  <2> QED BY <1>6, <2>1 DEF Try, Advances, Frames
<1>7. CASE TryRanked(w)
  BY <1>7, CallFrames DEF TryRanked, Advances, Frames
<1>8. CASE TakeReduced(w)
  <2>1. DOMAIN worker' = DOMAIN worker
    BY <1>8, StackFrames, CallFrames DEF TakeReduced, FailLow, Again
  <2> QED BY <1>8, <2>1 DEF TakeReduced, Answered, Frames
<1>9. CASE Research(w)
  BY <1>9, CallFrames DEF Research, Again, Answered, Frames
<1>10. CASE ResolveTie(w)
  BY <1>10, CallFrames DEF ResolveTie, Answered, Frames
<1>11. CASE Take(w)
  <2>1. DOMAIN worker' = DOMAIN worker
    BY <1>11, StackFrames DEF Take
  <2> QED BY <1>11, <2>1 DEF Take, Answered, Frames
<1> QED BY <1>1, <1>2, <1>3, <1>4, <1>5, <1>6, <1>7, <1>8, <1>9, <1>10, <1>11, Zenon

(* Only the end of a position stores. *)
LEMMA EndFrames ==
  ASSUME NEW w,
         Finish(w) \/ Iterate(w) \/ Widen(w) \/ Accept(w) \/ Scored(w) \/ Drop(w) \/ HelperDone(w)
  PROVE  Frames(w)
<1>1. CASE Finish(w)
  <2>1. DOMAIN worker' = DOMAIN worker
    BY <1>1, StackFrames DEF Finish
  <2> QED BY <1>1, <2>1 DEF Finish, Exhausted, Frames
<1>2. CASE Iterate(w)
  BY <1>2, LaunchFrames DEF Iterate, Frames
<1>3. CASE Widen(w)
  BY <1>3, LaunchFrames DEF Widen, Frames
<1>4. CASE Accept(w)
  BY <1>4 DEF Accept, Frames
<1>5. CASE Scored(w)
  BY <1>5 DEF Scored, Frames
<1>6. CASE Drop(w)
  BY <1>6, StackFrames DEF Drop, Frames
<1>7. CASE HelperDone(w)
  BY <1>7, StackFrames DEF HelperDone, Frames
<1> QED BY <1>1, <1>2, <1>3, <1>4, <1>5, <1>6, <1>7, Zenon

(* No step of a worker changes game, search or team. *)
LEMMA StepFrames ==
  ASSUME NEW w, Step(w)
  PROVE  Frames(w)
BY VisitFrames, TryFrames, EndFrames, Zenon DEF Step

(* The analysis domains store nothing. *)
LEMMA NothingStored ==
  ASSUME NEW w, Finish(w), ~Normal
  PROVE  table' = table
BY DEF Finish, Stores

--------------------------------------------------
(* The engine. *)

(* What the steps that leave the game and the search alone preserve. *)
LEMMA Same ==
  ASSUME game' = game, search' = search
  PROVE  /\ G' = G /\ (Normal' <=> Normal) /\ Root' = Root /\ (AtRoot' <=> AtRoot)
<1>1. G' = G
  BY DEF G, AllGames
<1> QED BY <1>1 DEF Normal, Root, AtRoot

(* While a team works, each worker's stack is sound. *)
LEMMA SearchingIs ==
  ASSUME IInv, team # "idle", Normal, ~G.competitive, NEW w \in Workers
  PROVE  Searching(w) /\ AtRoot
BY DEF IInv, Searching, AtRoot

(* The invariant from its parts. *)
LEMMA InvWhole ==
  ASSUME game \in DOMAIN AllGames, search \in Nat, DOMAIN worker = Workers,
         team = "idle" => \A w \in Workers : worker[w].phase = "idle",
         ~G.competitive => TableTrue(G, table),
         Normal /\ ~G.competitive /\ team # "idle" => AtRoot /\ \A w \in Workers : Works(G, w, worker[w])
  PROVE  IInv
BY DEF IInv, AtRoot

(* The parts of the invariant. *)
LEMMA InvParts ==
  ASSUME IInv
  PROVE  /\ game \in DOMAIN AllGames /\ search \in Nat /\ DOMAIN worker = Workers
         /\ team = "idle" => \A w \in Workers : worker[w].phase = "idle"
         /\ ~G.competitive => TableTrue(G, table)
         /\ Normal /\ ~G.competitive /\ team # "idle" => AtRoot /\ \A w \in Workers : Works(G, w, worker[w])
BY DEF IInv, AtRoot

(* The invariant is kept by the steps of workers. *)
LEMMA StepInv ==
  ASSUME IInv, NEW w \in Workers, Step(w)
  PROVE  IInv'
<1>1. Frames(w)
  BY StepFrames
<1>2. /\ game' = game /\ search' = search /\ team' = team /\ DOMAIN worker' = DOMAIN worker
      /\ worker[w].phase # "idle" /\ (Finish(w) \/ table' = table)
  BY <1>1 DEF Frames
<1>3. G' = G /\ (Normal' <=> Normal) /\ (AtRoot' <=> AtRoot)
  BY <1>2, Same
<1>4. team # "idle"
  BY <1>2, InvParts
<1>5. ~G.competitive => TableTrue(G, table')
  <2>1. CASE table' = table
    BY <2>1, InvParts
  <2>2. CASE table' # table
    <3>1. Finish(w) /\ Normal
      BY <1>2, <2>2, NothingStored
    <3> QED BY <1>4, <3>1, SearchingIs, FinishStores
  <2> QED BY <2>1, <2>2
<1>6. Normal /\ ~G.competitive => AtRoot /\ \A v \in Workers : Works(G, v, worker'[v])
  <2> HAVE Normal /\ ~G.competitive
  <2>1. Stepped(w) /\ AtRoot
    BY <1>4, SearchingIs, StepKeeps
  <2>2. \A v \in Workers : Works(G, v, worker[v])
    BY <1>4, InvParts
  <2> QED BY <2>1, <2>2 DEF Stepped
<1>7. game' \in DOMAIN AllGames' /\ search' \in Nat /\ DOMAIN worker' = Workers'
  BY <1>2, InvParts DEF AllGames, Workers, Principal
<1>8. ~G'.competitive => TableTrue(G', table')
  BY <1>3, <1>5
<1>9. Normal' /\ ~G'.competitive => AtRoot' /\ \A v \in Workers' : Works(G', v, worker'[v])
  BY <1>3, <1>6 DEF Workers, Principal
<1> QED BY <1>2, <1>4, <1>7, <1>8, <1>9 DEF IInv, AtRoot

(* The principal is a worker. *)
LEMMA PrincipalWorks == Principal \in Workers
BY DEF Workers

(* A step that leaves game, search and table alone. *)
LEMMA QuietStep ==
  ASSUME IInv, game' = game, search' = search, table' = table, DOMAIN worker' = DOMAIN worker,
         team' = "idle" => \A w \in Workers : worker'[w].phase = "idle",
         Normal /\ ~G.competitive /\ team' # "idle" => AtRoot /\ \A w \in Workers : Works(G, w, worker'[w])
  PROVE  IInv'
<1>1. G' = G /\ (Normal' <=> Normal) /\ (AtRoot' <=> AtRoot)
  BY Same
<1>2. game' \in DOMAIN AllGames' /\ search' \in Nat /\ DOMAIN worker' = Workers'
  BY InvParts DEF AllGames, Workers, Principal
<1>3. ~G'.competitive => TableTrue(G', table')
  BY <1>1, InvParts
<1>4. Workers' = Workers
  BY DEF Workers, Principal
<1> QED BY <1>1, <1>2, <1>3, <1>4 DEF IInv, AtRoot

(* The principal ends. *)
LEMMA DoneInv ==
  ASSUME IInv, Done
  PROVE  IInv'
<1>1. /\ worker' = Idle(Principal) /\ team' = "stopping" /\ worker[Principal].phase # "idle"
      /\ game' = game /\ search' = search /\ table' = table
  BY DEF Done
<1>2. team # "idle"
  BY <1>1, InvParts, PrincipalWorks
<1>3. DOMAIN worker' = DOMAIN worker
  BY <1>1, StackFrames
<1>4. Normal /\ ~G.competitive => AtRoot /\ \A w \in Workers : Works(G, w, worker'[w])
  <2> HAVE Normal /\ ~G.competitive
  <2>1. Searching(Principal) /\ AtRoot
    BY <1>2, SearchingIs, PrincipalWorks
  <2>2. Stepped(Principal)
    BY <1>1, <2>1, IdleKeeps
  <2>3. \A w \in Workers : Works(G, w, worker[w])
    BY <1>2, InvParts
  <2> QED BY <2>1, <2>2, <2>3 DEF Stepped
<1> QED BY <1>1, <1>3, <1>4, QuietStep

(* A stop is asked for. *)
LEMMA StopInv ==
  ASSUME IInv, Stop
  PROVE  IInv'
<1>1. /\ team = "running" /\ team' = "stopping" /\ worker' = worker
      /\ game' = game /\ search' = search /\ table' = table
  BY DEF Stop
<1>2. Normal /\ ~G.competitive => AtRoot /\ \A w \in Workers : Works(G, w, worker[w])
  BY <1>1, InvParts
<1> QED BY <1>1, <1>2, QuietStep

(* All workers are joined. *)
LEMMA JoinInv ==
  ASSUME IInv, Join
  PROVE  IInv'
<1>1. /\ team' = "idle" /\ worker' = worker /\ \A w \in Workers : worker[w].phase = "idle"
      /\ game' = game /\ search' = search /\ table' = table
  BY DEF Join
<1> QED BY <1>1, QuietStep

(* A worker before its first iteration. *)
LEMMA RestingWorks ==
  ASSUME NEW g, NEW w, NEW phase \in {"idle", "boundary"}, NEW s, Sane(s)
  PROVE  Works(g, w, [Resting EXCEPT !.phase = phase, !.previous = s])
<1> DEFINE k == [Resting EXCEPT !.phase = phase, !.previous = s]
<1>1. DOMAIN k = WorkerFields /\ k.phase = phase /\ k.previous = s /\ k.depth = 0
  BY DEF Resting, WorkerFields
<1> HIDE DEF k
<1>2. 0 \in 0..MaxDepth
  BY AlphaBetaAssumption
<1>3. Works(g, w, k)
  BY <1>1, <1>2 DEF Works
<1> QED BY <1>3 DEF k

(* How a search begins. *)
LEMMA BeginIs ==
  ASSUME Begin, game \in DOMAIN AllGames, search \in Nat, DOMAIN worker = Workers
  PROVE  /\ game' = game /\ table' = table /\ search' \in Nat /\ search' \in DOMAIN G'.roots
         /\ G' = G /\ AllGames' = AllGames /\ Workers' = Workers /\ (Normal' <=> Normal)
         /\ DOMAIN worker' = Workers
         /\ \E s \in Int : completed' = Result0(1, s)
         /\ \/ team' = "idle" /\ worker' = worker
            \/ /\ team' # "idle" /\ Sane(G.static[Root']) /\ (Normal' => G'.kind[Root'] = "open")
               /\ \A w \in Workers : \E p \in {"idle", "boundary"} :
                    worker'[w] = [Resting EXCEPT !.phase = p, !.previous = G.static[Root']]
<1> DEFINE root == G.roots[search + 1]
           facts == Normal /\ (IsFact(G, root) \/ G.kind[root] = "block")
           phase(w) == IF w = Principal \/ G.team THEN "boundary" ELSE "idle"
<1>1. /\ search < Len(G.roots) /\ search' = search + 1 /\ game' = game /\ table' = table
      /\ team' = IF facts THEN "idle" ELSE "running"
      /\ worker' = IF facts THEN worker
                   ELSE [w \in Workers |-> [Resting EXCEPT !.phase = phase(w), !.previous = G.static[root]]]
      /\ completed' = IF IsFact(G, root) THEN Result0(1, Fact(G, root, 0)) ELSE Result0(1, G.static[root])
  BY DEF Begin
<1>2. IsGame(G)
  BY GameOk
<1>3. search + 1 \in DOMAIN G.roots
  <2>1. G.roots \in Seq(DOMAIN G.kind)
    BY <1>2, Zenon DEF IsGame
  <2> DEFINE roots == G.roots
  <2>2. roots \in Seq(DOMAIN G.kind) /\ search < Len(roots)
    BY <1>1, <2>1
  <2> HIDE DEF roots
  <2>3. Len(roots) \in Nat /\ DOMAIN roots = 1..Len(roots)
    BY <2>2, LenProperties
  <2>4. search + 1 \in DOMAIN roots
    BY <2>2, <2>3
  <2> QED BY <2>4 DEF roots
<1>4. root \in DOMAIN G.kind
  BY <1>2, <1>3, RootIs
<1>5. Sane(G.static[root]) /\ G.static[root] \in Int
  <2>1. G.static[root] \in Int /\ ~IsMate(G.static[root])
    BY <1>2, <1>4, GameIs
  <2> QED BY <2>1 DEF Sane, IsMate, Threshold
<1>6. G' = G /\ AllGames' = AllGames /\ Workers' = Workers /\ (Normal' <=> Normal)
  BY <1>1 DEF G, AllGames, Workers, Principal, Normal
<1>7. Root' = root
  BY <1>1, <1>6 DEF Root
<1>8. search' \in Nat /\ search' \in DOMAIN G'.roots
  <2>1. search' = search + 1 /\ G'.roots = G.roots
    BY <1>1, <1>6
  <2>2. search' \in Nat
    BY <2>1
  <2> QED BY <1>3, <2>1, <2>2, Zenon
<1>9. \E s \in Int : completed' = Result0(1, s)
  <2>1. IsFact(G, root) => Fact(G, root, 0) \in Int
    BY DEF IsFact, Fact
  <2> QED BY <1>1, <1>5, <2>1
<1>10. CASE facts
  <2>1. team' = "idle" /\ worker' = worker
    BY <1>1, <1>10
  <2> QED BY <1>1, <1>6, <1>8, <1>9, <2>1
<1>11. CASE ~facts
  <2>1. team' # "idle" /\ worker' = [w \in Workers |-> [Resting EXCEPT !.phase = phase(w), !.previous = G.static[root]]]
    BY <1>1, <1>11
  <2>2. \A w \in Workers : phase(w) \in {"idle", "boundary"}
    OBVIOUS
  <2>3. Normal => G.kind[root] = "open"
    <3>1. G.kind[root] \in {"open", "win", "loss", "block", "draw"}
      BY <1>2, <1>4, GameIs
    <3> QED BY <1>11, <3>1 DEF IsFact
  <2> HIDE DEF phase, root
  <2>4. DOMAIN worker' = Workers /\ \A w \in Workers : \E p \in {"idle", "boundary"} :
          worker'[w] = [Resting EXCEPT !.phase = p, !.previous = G.static[Root']]
    BY <1>7, <2>1, <2>2
  <2>5. Sane(G.static[Root']) /\ (Normal' => G'.kind[Root'] = "open")
    BY <1>5, <1>6, <1>7, <2>3
  <2> QED BY <1>1, <1>6, <1>8, <1>9, <2>1, <2>4, <2>5
<1> QED BY <1>10, <1>11

(* A search begins with resting workers. *)
LEMMA BeginInv ==
  ASSUME IInv, Begin
  PROVE  IInv'
<1>1. /\ team = "idle" /\ game \in DOMAIN AllGames /\ search \in Nat /\ DOMAIN worker = Workers
      /\ (\A w \in Workers : worker[w].phase = "idle") /\ (~G.competitive => TableTrue(G, table))
  BY InvParts DEF Begin
<1>2. /\ game' = game /\ table' = table /\ search' \in Nat /\ search' \in DOMAIN G'.roots
      /\ G' = G /\ AllGames' = AllGames /\ Workers' = Workers /\ DOMAIN worker' = Workers
  BY <1>1, BeginIs
<1>3. ~G'.competitive => TableTrue(G', table')
  BY <1>1, <1>2
<1>4. CASE team' = "idle" /\ worker' = worker
  BY <1>1, <1>2, <1>3, <1>4 DEF IInv
<1>5. CASE ~(team' = "idle" /\ worker' = worker)
  <2>1. /\ team' # "idle" /\ Sane(G.static[Root']) /\ (Normal' => G'.kind[Root'] = "open")
        /\ \A w \in Workers : \E p \in {"idle", "boundary"} :
             worker'[w] = [Resting EXCEPT !.phase = p, !.previous = G.static[Root']]
    BY <1>1, <1>5, BeginIs
  <2> DEFINE at == G.static[Root']
  <2>2. \A w \in Workers : Works(G, w, worker'[w])
    <3> TAKE w \in Workers
    <3>1. PICK p \in {"idle", "boundary"} : worker'[w] = [Resting EXCEPT !.phase = p, !.previous = at]
      BY <2>1
    <3>2. Sane(at)
      BY <2>1
    <3> HIDE DEF at
    <3>3. Works(G, w, [Resting EXCEPT !.phase = p, !.previous = at])
      BY <3>2, RestingWorks
    <3> QED BY <3>1, <3>3, Zenon
  <2>3. \A w \in Workers' : Works(G', w, worker'[w])
    BY <1>2, <2>2
  <2> QED BY <1>1, <1>2, <1>3, <2>1, <2>3 DEF IInv
<1> QED BY <1>4, <1>5

(* An empty entry claims nothing. *)
LEMMA NothingIsTrue ==
  ASSUME NEW g, NEW n
  PROVE  TrueEntry(g, n, Empty)
<1>1. Empty.bound = "Empty" /\ Empty.depth = 0 /\ Empty.score = 0
  BY DEF Empty
<1>2. 0 \in 0..MaxDepth /\ 0 \in Int
  BY AlphaBetaAssumption
<1> QED BY <1>1, <1>2 DEF TrueEntry

(* An empty table is true of any game. *)
LEMMA ForgottenTrue ==
  ASSUME NEW g
  PROVE  TableTrue(g, [n \in DOMAIN g.kind |-> Empty])
BY NothingIsTrue DEF TableTrue

(* Another evaluator finds an empty table. *)
LEMMA ReplaceInv ==
  ASSUME IInv, ReplaceEvaluator
  PROVE  IInv'
<1>1. /\ team = "idle" /\ G.other \in DOMAIN AllGames /\ game' = G.other /\ table' = Forgotten
      /\ search' = search /\ team' = team /\ worker' = worker
  BY DEF ReplaceEvaluator
<1>2. /\ game \in DOMAIN AllGames /\ search \in Nat /\ DOMAIN worker = Workers
      /\ \A w \in Workers : worker[w].phase = "idle"
  BY <1>1, InvParts
<1>3. DOMAIN Games[G.other].kind = DOMAIN G.kind
  BY <1>1, <1>2, AlphaBetaAssumption DEF G, AllGames
<1>4. G' = Games[G.other] /\ AllGames' = AllGames /\ Workers' = Workers
  BY <1>1 DEF G, AllGames, Workers, Principal
<1>5. table' = [n \in DOMAIN G'.kind |-> Empty]
  BY <1>1, <1>3, <1>4 DEF Forgotten
<1>6. TableTrue(G', table')
  BY <1>5, ForgottenTrue
<1> QED BY <1>1, <1>2, <1>4, <1>6 DEF IInv

(* The invariant holds of a new engine. *)
LEMMA InitInv == Init => IInv
<1> SUFFICES ASSUME Init PROVE IInv
  OBVIOUS
<1>1. /\ game \in DOMAIN AllGames /\ search = 0 /\ team = "idle" /\ table = [n \in DOMAIN G.kind |-> Empty]
      /\ worker = [w \in Workers |-> Resting]
  BY DEF Init
<1>2. DOMAIN worker = Workers /\ \A w \in Workers : worker[w].phase = "idle"
  BY <1>1 DEF Resting
<1>3. TableTrue(G, table)
  BY <1>1, ForgottenTrue
<1> QED BY <1>1, <1>2, <1>3, InvWhole

(* The invariant is kept by every step. *)
LEMMA NextInv == IInv /\ [Next]_vars => IInv'
<1> SUFFICES ASSUME IInv, [Next]_vars PROVE IInv'
  OBVIOUS
<1>1. CASE \E w \in Workers : Step(w)
  BY <1>1, StepInv
<1>2. CASE Done
  BY <1>2, DoneInv
<1>3. CASE Stop
  BY <1>3, StopInv
<1>4. CASE Begin
  BY <1>4, BeginInv
<1>5. CASE Join
  BY <1>5, JoinInv
<1>6. CASE ReplaceEvaluator
  BY <1>6, ReplaceInv
<1>7. CASE UNCHANGED vars
  <2>1. /\ game' = game /\ search' = search /\ table' = table /\ worker' = worker /\ team' = team
    BY <1>7 DEF vars
  <2>2. /\ team = "idle" => \A w \in Workers : worker[w].phase = "idle"
        /\ Normal /\ ~G.competitive /\ team # "idle" => AtRoot /\ \A w \in Workers : Works(G, w, worker[w])
    BY InvParts
  <2> QED BY <2>1, <2>2, QuietStep
<1> QED BY <1>1, <1>2, <1>3, <1>4, <1>5, <1>6, <1>7 DEF Next

(* The invariant is enough. *)
LEMMA InvIsTrue == IInv => EvidenceIsTrue
<1> SUFFICES ASSUME IInv, ~G.competitive PROVE \A n \in DOMAIN table :
      LET entry == table[n]
          value == Extended[game][n][entry.depth]
      IN /\ entry.bound \in {"Lower", "Exact"} => entry.score <= value.most
         /\ entry.bound \in {"Upper", "Exact"} => entry.score >= value.least
  BY DEF EvidenceIsTrue
<1>1. game \in DOMAIN AllGames /\ TableTrue(G, table)
  BY InvParts
<1>2. Extended[game] = Values(G)
  BY <1>1 DEF Extended, Values, Extends, G
<1>3. DOMAIN table = DOMAIN G.kind /\ \A n \in DOMAIN G.kind : TrueEntry(G, n, table[n])
  BY <1>1 DEF TableTrue
<1> TAKE n \in DOMAIN table
<1> DEFINE e == table[n]  v == Values(G)[n][e.depth]
<1>4. TrueEntry(G, n, e) /\ n \in DOMAIN G.kind
  BY <1>3
<1>5. /\ e.bound \in {"Lower", "Exact"} => e.score <= v.most
      /\ e.bound \in {"Upper", "Exact"} => v.least <= e.score
      /\ e.score \in Int /\ e.depth \in 0..MaxDepth
  BY <1>4 DEF TrueEntry
<1>6. v.least \in Int
  <2>1. Worthy(v.least, G.free[n]) /\ IsGame(G) /\ MaxDepth \in Nat
    BY <1>1, <1>4, <1>5, GameOk, WorthWorthy DEF Values
  <2> QED BY <2>1 DEF Worthy
<1> HIDE DEF e, v
<1>7. /\ e.bound \in {"Lower", "Exact"} => e.score <= v.most
      /\ e.bound \in {"Upper", "Exact"} => e.score >= v.least
  BY <1>5, <1>6
<1> QED BY <1>2, <1>7 DEF e, v

(* Whatever the workers of all searches interleave, prune, reduce, extend *)
(* or leave unfinished, an entry of the transposition table is a *)
(* true bound of its position at its depth (Finish, Stores, Take, Prune). *)
THEOREM EvidenceTrue == Spec => []EvidenceIsTrue
<1>1. IInv /\ [Next]_vars => IInv'
  BY NextInv
<1> QED BY InitInv, <1>1, InvIsTrue, PTL DEF Spec

--------------------------------------------------
(* Without extensions the interval of a position is one value. *)

(* Every position is worth one value at every depth. *)
OneValue(g, D) ==
  \A n \in DOMAIN g.kind, d \in 0..D : Worth(g, FALSE, D)[n][d].least = Worth(g, FALSE, D)[n][d].most

(* Without extensions, what a position is worth is exactly the minimax *)
(* value of its nominal depth: the interval the entries of the table are *)
(* held against is as narrow as it can be (Worth, of GameTree). *)
THEOREM WorthIsOne ==
  ASSUME NEW g, IsGame(g), NEW D \in Nat
  PROVE  OneValue(g, D)
<1> DEFINE V == Worth(g, FALSE, D)
           Good(k, j) == V[k][j].least = V[k][j].most
           T == {k \in DOMAIN g.kind : \E j \in 0..D : ~Good(k, j)}
<1>0. V \in WorthArrays(g, D) /\ \A k \in DOMAIN g.kind, j \in 0..D : V[k][j] = WorthOne(g, QuietValues(g), V, FALSE, k, j)
  BY WorthSettles
<1> HIDE DEF V
<1>1. ASSUME T # {} PROVE FALSE
  <2>1. PICK k \in T : \A m \in DOMAIN g.next[k] : g.next[k][m] \notin T
    BY <1>1, LeastFree
  <2>2. PICK j \in 0..D : ~Good(k, j)
    BY <2>1
  <2>3. k \in DOMAIN g.kind /\ V[k][j] = WorthOne(g, QuietValues(g), V, FALSE, k, j)
    BY <1>0, <2>1
  <2> DEFINE u == V[k][j]
  <2>0. u = WorthOne(g, QuietValues(g), V, FALSE, k, j) /\ u.least # u.most
    BY <2>2, <2>3
  <2> HIDE DEF u
  <2>4. j # 0 /\ ~IsFact(g, k) /\ Chosen(g, k) # {}
    <3>0. u.least # u.most
      BY <2>0
    <3>1. CASE IsFact(g, k)
      <4>1. u.least = Fact(g, k, 0) /\ u.most = Fact(g, k, 0)
        BY <2>0, <3>1 DEF WorthOne
      <4> QED BY <3>0, <4>1
    <3>2. CASE ~IsFact(g, k) /\ j = 0
      <4>1. u.least = QuietValues(g)[k][0] /\ u.most = QuietValues(g)[k][0]
        BY <2>0, <3>2 DEF WorthOne
      <4> QED BY <3>0, <4>1
    <3>3. CASE ~IsFact(g, k) /\ j # 0 /\ Chosen(g, k) = {}
      <4>1. u.least = 0 /\ u.most = 0
        BY <2>0, <3>3 DEF WorthOne
      <4> QED BY <3>0, <4>1
    <3> QED BY <3>1, <3>2, <3>3
  <2>5. V[k][j].least = Max(Lows(g, V, FALSE, k, j)) /\ V[k][j].most = Max(Highs(g, V, FALSE, k, j))
    <3>1. u = [least |-> Max(Lows(g, V, FALSE, k, j)), most |-> Max(Highs(g, V, FALSE, k, j))]
      BY <2>0, <2>4 DEF WorthOne
    <3> QED BY <3>1 DEF u
  <2>6. ASSUME NEW m \in Chosen(g, k)
        PROVE  Min(Falls(g, V, FALSE, k, j, m)) = Max(Rises(g, V, FALSE, k, j, m))
    <3> DEFINE v == V[g.next[k][m]][j - 1]
    <3>1. m \in DOMAIN g.next[k] /\ g.next[k][m] \in DOMAIN g.kind /\ j - 1 \in 0..D
      BY <2>3, <2>4, ChosenAre
    <3>2. Good(g.next[k][m], j - 1)
      BY <2>1, <3>1
    <3>3. Options(g, V, FALSE, k, j, m) = {v}
      BY DEF Options
    <3>4. Falls(g, V, FALSE, k, j, m) = {FromChild(v.most)} /\ Rises(g, V, FALSE, k, j, m) = {FromChild(v.least)}
      BY <3>3 DEF Falls, Rises
    <3>5. /\ Min(Falls(g, V, FALSE, k, j, m)) \in Falls(g, V, FALSE, k, j, m)
          /\ Max(Rises(g, V, FALSE, k, j, m)) \in Rises(g, V, FALSE, k, j, m)
      BY <1>0, <2>3, <2>4, <3>1, MoveIs
    <3> QED BY <3>2, <3>4, <3>5
  <2>7. Lows(g, V, FALSE, k, j) = Highs(g, V, FALSE, k, j)
    BY <2>6 DEF Lows, Highs
  <2> QED BY <2>2, <2>5, <2>7
<1>2. \A n \in DOMAIN g.kind, d \in 0..D : Good(n, d)
  BY <1>1
<1> QED BY <1>2, Zenon DEF V, OneValue

(* Without extensions an entry bounds the minimax value of its position at *)
(* its depth, and an exact one is that value. *)
BoundsTheMinimax ==
  ~G.competitive /\ ~Extends(G) =>
    \A n \in DOMAIN table :
      LET entry == table[n]
          minimax == Exactly[game][n][entry.depth].least
      IN /\ entry.bound = "Lower" => entry.score <= minimax
         /\ entry.bound = "Upper" => minimax <= entry.score
         /\ entry.bound = "Exact" => entry.score = minimax

(* Without extensions it is enough for the minimax value, too. *)
LEMMA InvBounds == IInv => BoundsTheMinimax
<1> SUFFICES ASSUME IInv, ~G.competitive, ~Extends(G), NEW n \in DOMAIN table
             PROVE LET entry == table[n]
                       minimax == Exactly[game][n][entry.depth].least
                   IN /\ entry.bound = "Lower" => entry.score <= minimax
                      /\ entry.bound = "Upper" => minimax <= entry.score
                      /\ entry.bound = "Exact" => entry.score = minimax
  BY DEF BoundsTheMinimax
<1> DEFINE e == table[n]  v == Worth(G, FALSE, MaxDepth)[n][e.depth]
<1>1. game \in DOMAIN AllGames /\ TableTrue(G, table)
  BY InvParts
<1>2. Exactly[game] = Worth(G, FALSE, MaxDepth)
  BY <1>1 DEF Exactly, G
<1>3. Values(G) = Worth(G, FALSE, MaxDepth)
  <2>1. Extends(G) = FALSE
    BY DEF Extends
  <2> QED BY <2>1 DEF Values
<1>4. n \in DOMAIN G.kind /\ TrueEntry(G, n, e)
  BY <1>1 DEF TableTrue
<1>5. /\ e.bound \in {"Lower", "Exact"} => e.score <= v.most
      /\ e.bound \in {"Upper", "Exact"} => v.least <= e.score
      /\ e.score \in Int /\ e.depth \in 0..MaxDepth
  BY <1>3, <1>4 DEF TrueEntry
<1>6. v.least = v.most /\ v.least \in Int
  <2>1. IsGame(G) /\ MaxDepth \in Nat
    BY <1>1, GameOk
  <2>2. v.least = v.most
    <3> DEFINE d == e.depth
    <3>1. d \in 0..MaxDepth
      BY <1>5
    <3> HIDE DEF e, d
    <3>2. Worth(G, FALSE, MaxDepth)[n][d].least = Worth(G, FALSE, MaxDepth)[n][d].most
      <4>1. OneValue(G, MaxDepth)
        BY <2>1, WorthIsOne, Zenon
      <4> QED BY <1>4, <3>1, <4>1, Zenon DEF OneValue
    <3> QED BY <3>2 DEF d
  <2>3. Worthy(v.least, G.free[n])
    BY <1>4, <1>5, <2>1, WorthWorthy
  <2> QED BY <2>2, <2>3 DEF Worthy
<1> HIDE DEF e, v
<1>7. /\ e.bound = "Lower" => e.score <= v.least
      /\ e.bound = "Upper" => v.least <= e.score
      /\ e.bound = "Exact" => e.score = v.least
  BY <1>5, <1>6
<1> QED BY <1>2, <1>7 DEF e, v

(* So a cutoff by an entry of the table (Cuts) is one the minimax value *)
(* justifies, as long as no line is extended. *)
THEOREM BoundsHold == Spec => []BoundsTheMinimax
<1>1. IInv /\ [Next]_vars => IInv'
  BY NextInv
<1> QED BY InitInv, <1>1, InvBounds, PTL DEF Spec

--------------------------------------------------
(* Forced mates: within k plies from a position, and what a score says of *)
(* a position p plies from the root that was asked whether it is worth *)
(* more than a, or less than b. *)
Wins(g, n, k) == \E j \in 0..CellCount : j <= k /\ n \in ForcedWins(g)[j].wins
Loses(g, n, k) == \E j \in 0..CellCount : j <= k /\ n \in ForcedWins(g)[j].loses

MateTrue(g, n, p, s, a, b) ==
  /\ s \in Int
  /\ s >= Threshold /\ s > a => Wins(g, n, Mate - s - p)
  /\ s <= -Threshold /\ s < b => Loses(g, n, Mate + s - p)

(* A window in which mates show as they do between a and b. *)
Covers(c, a, b) == (c.alpha0 <= a \/ c.alpha0 < Threshold) /\ (c.beta >= b \/ c.beta > -Threshold)

(* The moves a frame goes through. *)
Tried(g, w, f) ==
  CASE f.kind = "quiet" -> QuietMoves(g, f.node)
    [] f.kind = "inner" -> Chosen(g, f.node)
    [] f.kind = "root" -> Moves(g, f.node, g.adaptive /\ w = Principal)
    [] f.kind = "teacher" -> Moves(g, f.node, TRUE)

Seated(g, f) ==
  /\ Shaped(f) /\ Flags(f) /\ f.node \in DOMAIN g.kind /\ f.ply + g.free[f.node] <= CellCount
  /\ -Infinity <= f.alpha0 /\ f.alpha0 < f.beta /\ f.beta <= Infinity

(* What the best score of a frame says of the moves counted. *)
Finds(g, w, f, pending) ==
  /\ f.best >= Threshold /\ f.best > f.alpha0 =>
       \E m \in Tried(g, w, f) : Loses(g, g.next[f.node][m], Mate - f.best - f.ply - 1)
  /\ f.best <= -Threshold /\ f.best < f.beta =>
       \A m \in Tried(g, w, f) \ Open(f, pending) : Wins(g, g.next[f.node][m], Mate + f.best - f.ply - 1)

Busy(g, w, f, pending) ==
  /\ f.kind # "teacher" =>
       ~IsFact(g, f.node) /\ Tried(g, w, f) # {} /\ f.alpha = Larger(f.alpha0, f.best)
  /\ f.kind = "quiet" => g.kind[f.node] = "block" \/ g.static[f.node] <= f.best
  /\ f.kind # "quiet" => f.depth >= 1
  /\ Open(f, pending) \subseteq Tried(g, w, f)
  /\ pending \/ f.left # <<>> => f.alpha < f.beta
  /\ Finds(g, w, f, pending)

Unopened(g, w, f) ==
  /\ f.alpha0 = f.alpha /\ f.best = -Infinity
  /\ f.kind \in {"root", "teacher"} => f.depth >= 1
  /\ f.kind = "root" => ~IsFact(g, f.node) /\ Tried(g, w, f) # {}

Ready(g, w, f) == IF f.begun THEN Busy(g, w, f, FALSE) ELSE Unopened(g, w, f)

Pauses(g, w, f) ==
  IF f.call = "razor"
  THEN /\ f.kind = "inner" /\ ~f.begun /\ Unopened(g, w, f) /\ ~IsFact(g, f.node) /\ f.depth >= 1
       /\ ~Closed(f) /\ ~IsMate(Low(f))
  ELSE /\ f.begun /\ (f.kind = "quiet" <=> f.call = "quiet") /\ (f.kind = "teacher" => f.call = "full")
       /\ Busy(g, w, f, TRUE)

(* What a frame that waits has asked for. *)
AskedLow(f) == IF f.kind = "teacher" \/ f.call = "tie" THEN -Infinity ELSE f.alpha
AskedHigh(f) ==
  IF f.kind = "teacher" \/ f.call = "tie" THEN Infinity
  ELSE IF f.call \in {"scout", "reduced"} THEN f.alpha + 1 ELSE f.beta

Goal(g, f) == IF f.call = "razor" THEN f.node ELSE NextOf(g, f)
GoalPly(f) == IF f.call = "razor" THEN f.ply ELSE f.ply + 1
GoalLow(f) == IF f.call = "razor" THEN Low(f) ELSE -AskedHigh(f)
GoalHigh(f) == IF f.call = "razor" THEN High(f) ELSE -AskedLow(f)

Serves(g, f, c) == c.node = Goal(g, f) /\ c.ply = GoalPly(f) /\ Covers(c, GoalLow(f), GoalHigh(f))
Replied(g, f, r) == r \in Results /\ MateTrue(g, Goal(g, f), GoalPly(f), r.score, GoalLow(f), GoalHigh(f))

(* The stack of a worker: n is the root, a and b its window. *)
Deep == {"inner", "quiet"}
Outer(g) ==
  CASE g.domain = "normal" -> {"root"} [] g.domain \in {"analysis", "teacher"} -> {"teacher"} [] OTHER -> Deep

Home(g, i) == IF i = 1 THEN Outer(g) ELSE Deep

Chained(g, w, n, a, b, s, r) ==
  /\ IsSeq(s) /\ s # <<>>
  /\ \A i \in 1..Len(s) : Seated(g, s[i]) /\ s[i].kind \in Home(g, i)
  /\ s[1].node = n /\ s[1].ply = 0 /\ Covers(s[1], a, b)
  /\ \A i \in 1..Len(s) - 1 : Pauses(g, w, s[i]) /\ Serves(g, s[i], s[i + 1])
  /\ IF r = Nothing THEN Ready(g, w, Last(s)) ELSE Pauses(g, w, Last(s)) /\ Replied(g, Last(s), r)

(* What an iteration has found, before it is judged by its window. *)
RootTried(g, w, n) ==
  Moves(g, n, IF g.domain = "normal" THEN g.adaptive /\ w = Principal ELSE g.domain \in {"analysis", "teacher"})
Verdict(g, w, n, a, b, s) ==
  /\ s \in Int
  /\ s >= Threshold /\ s > a => \E m \in RootTried(g, w, n) : Loses(g, g.next[n][m], Mate - s - 1)
  /\ s <= -Threshold /\ s < b => \A m \in RootTried(g, w, n) : Wins(g, g.next[n][m], Mate + s - 1)

Opens(g, k) ==
  /\ k.window[1] \in Int /\ k.window[2] \in Int
  /\ -Infinity <= k.window[1] /\ k.window[1] < k.window[2] /\ k.window[2] <= Infinity
  /\ g.domain # "normal" => k.window[1] = -Infinity /\ k.window[2] = Infinity

Runs(g, w, n, k) ==
  /\ DOMAIN k = WorkerFields /\ k.phase \in {"idle", "boundary", "search", "judge"}
  /\ k.depth \in 0..MaxDepth /\ (g.domain = "normal" => Sane(k.previous))
  /\ k.phase \in {"search", "judge"} => k.depth >= 1 /\ k.delta \in Nat \ {0} /\ Opens(g, k)
  /\ k.phase = "judge" => Outer(g) # Deep /\ Verdict(g, w, n, k.window[1], k.window[2], k.returned.score)
  /\ k.phase = "search" /\ k.stack # <<>> => Chained(g, w, n, k.window[1], k.window[2], k.stack, k.returned)
  /\ k.phase = "search" /\ k.stack = <<>> =>
       Outer(g) = Deep /\ k.returned \in Results /\ MateTrue(g, n, 0, k.returned.score, -Infinity, Infinity)

MateEntry(g, n, e) ==
  /\ e.score \in Int /\ e.bound \in {"Empty", "Lower", "Upper", "Exact"}
  /\ e.bound \in {"Lower", "Exact"} /\ e.score >= Threshold => Wins(g, n, Mate - e.score)
  /\ e.bound \in {"Upper", "Exact"} /\ e.score <= -Threshold => Loses(g, n, Mate + e.score)
MatesTrue(g, t) == DOMAIN t = DOMAIN g.kind /\ \A n \in DOMAIN g.kind : MateEntry(g, n, t[n])

Announces(g, n, moves, s) ==
  /\ s >= Threshold => g.kind[n] = "win" \/ \E m \in moves : Loses(g, g.next[n][m], Mate - s - 1)
  /\ s <= -Threshold => g.kind[n] = "loss" \/ \A m \in moves : Wins(g, g.next[n][m], Mate + s - 1)

ResultFields == {"at", "score", "depth", "layer"}
Sighted == G.shortcuts \cap Blind = {}
Rooted == search \in DOMAIN G.roots /\ (Normal => G.kind[Root] = "open")

(* What the engine would publish. *)
Announced ==
  completed.score \in Int /\ (completed.depth > 0 => Announces(G, Root, RootMoves, completed.score))

Teamwork == Rooted /\ Announced /\ \A w \in Workers : Runs(G, w, Root, worker[w])

MInv ==
  /\ game \in DOMAIN AllGames /\ search \in Nat
  /\ DOMAIN worker = Workers /\ DOMAIN completed = ResultFields
  /\ team = "idle" => \A w \in Workers : worker[w].phase = "idle"
  /\ Sighted => MatesTrue(G, table) /\ (team # "idle" => Teamwork)

--------------------------------------------------
(* The levels. *)

(* The levels of a game, one from the other. *)
LEMMA LevelsAre ==
  ASSUME NEW g
  PROVE  \A k \in 0..CellCount :
           ForcedWins(g)[k] = IF k = 0 THEN [wins |-> {}, loses |-> {}] ELSE Plies(g, k, ForcedWins(g)[k - 1])
<1> DEFINE D == DOMAIN g.kind
           none == [wins |-> {}, loses |-> {}]
           B == [wins : SUBSET D, loses : SUBSET D]
           st == [x \in Nat \X B |-> Plies(g, x[1], x[2])]
           H(f) == [k \in 0..CellCount |-> IF k = 0 THEN none ELSE Plies(g, k, f[k - 1])]
           u == CHOOSE f : f = H(f)
<1>1. none \in B
  OBVIOUS
<1>2. \A k, b : Plies(g, k, b) \in B
  BY DEF Plies
<1>3. st \in [Nat \X B -> B]
  BY <1>2
<1>4. PICK h : Levelled(h, CellCount, B, st, none)
  <2> HIDE DEF st, none, B
  <2> QED BY <1>1, <1>3, LevelsExist
<1>5. h = H(h)
  <2>1. h \in [0..CellCount -> B] /\ h = [k \in 0..CellCount |-> IF k = 0 THEN none ELSE st[<<k, h[k - 1]>>]]
    BY <1>4 DEF Levelled
  <2>2. \A k \in 0..CellCount : k # 0 => st[<<k, h[k - 1]>>] = Plies(g, k, h[k - 1])
    <3> TAKE k \in 0..CellCount
    <3> HAVE k # 0
    <3>1. k - 1 \in 0..CellCount /\ k \in Nat
      OBVIOUS
    <3>2. <<k, h[k - 1]>> \in Nat \X B
      BY <2>1, <3>1
    <3> HIDE DEF B
    <3> QED BY <3>2
  <2> HIDE DEF st, B, none
  <2> QED BY <2>1, <2>2
<1>6. u = H(u)
  <2> HIDE DEF H
  <2> QED BY <1>5, Zenon
<1>7. ForcedWins(g) = u
  BY DEF ForcedWins
<1> HIDE DEF u
<1> QED BY <1>6, <1>7

(* With more plies no fewer wins. *)
LEMMA LevelsGrow ==
  ASSUME NEW g, NEW j \in 0..CellCount, NEW k \in 0..CellCount, j <= k
  PROVE  ForcedWins(g)[j].wins \subseteq ForcedWins(g)[k].wins /\ ForcedWins(g)[j].loses \subseteq ForcedWins(g)[k].loses
<1> DEFINE L == ForcedWins(g)
           Grows(i) == L[i - 1].wins \subseteq L[i].wins /\ L[i - 1].loses \subseteq L[i].loses
           Bad == {i \in Nat : i \in 1..CellCount /\ ~Grows(i)}
           Worse == {i \in Nat : i \in j..CellCount /\ ~(L[j].wins \subseteq L[i].wins /\ L[j].loses \subseteq L[i].loses)}
<1>1. \A i \in 0..CellCount : L[i] = IF i = 0 THEN [wins |-> {}, loses |-> {}] ELSE Plies(g, i, L[i - 1])
  BY LevelsAre
<1> HIDE DEF L
<1>2. \A i \in 0..CellCount : \A b, c : b.wins \subseteq c.wins /\ b.loses \subseteq c.loses =>
         /\ Plies(g, i, b).wins \subseteq Plies(g, i + 1, c).wins
         /\ Plies(g, i, b).loses \subseteq Plies(g, i + 1, c).loses
  BY DEF Plies
<1>3. ASSUME Bad # {} PROVE FALSE
  <2>1. PICK i \in Bad : \A n \in Bad : i <= n
    <3>1. Bad \in SUBSET Nat
      OBVIOUS
    <3> HIDE DEF Bad
    <3> QED BY <1>3, <3>1, LeastNatural
  <2>2. i \in 1..CellCount /\ ~Grows(i) /\ i \in Nat
    OBVIOUS
  <2>3. CASE i = 1
    <3>1. L[0].wins = {} /\ L[0].loses = {}
      BY <1>1
    <3>2. L[i - 1].wins = {} /\ L[i - 1].loses = {}
      BY <2>3, <3>1
    <3> QED BY <2>2, <3>2
  <2>4. CASE i # 1
    <3>1. i - 1 \in Nat /\ i - 1 \in 1..CellCount /\ ~(i <= i - 1) /\ i - 1 # 0 /\ i # 0 /\ i - 1 \in 0..CellCount
          /\ i \in 0..CellCount /\ (i - 1) + 1 = i
      BY <2>2, <2>4
    <3>2. Grows(i - 1)
      <4> HIDE DEF Grows
      <4> QED BY <2>1, <3>1
    <3>3. L[i] = Plies(g, i, L[i - 1]) /\ L[i - 1] = Plies(g, i - 1, L[i - 1 - 1])
      BY <1>1, <3>1
    <3>4. Grows(i)
      BY <1>2, <3>1, <3>2, <3>3
    <3> QED BY <2>2, <3>4
  <2> QED BY <2>3, <2>4
<1>4. \A i \in 1..CellCount : Grows(i)
  <2> HIDE DEF Grows
  <2>1. \A i \in 1..CellCount : i \in Nat
    OBVIOUS
  <2> QED BY <1>3, <2>1
<1>5. ASSUME Worse # {} PROVE FALSE
  <2>1. PICK i \in Worse : \A n \in Worse : i <= n
    <3>1. Worse \in SUBSET Nat
      OBVIOUS
    <3> HIDE DEF Worse
    <3> QED BY <1>5, <3>1, LeastNatural
  <2>2. i \in j..CellCount /\ i \in Nat /\ ~(L[j].wins \subseteq L[i].wins /\ L[j].loses \subseteq L[i].loses)
    OBVIOUS
  <2>3. i # j
    BY <2>2
  <2>4. i - 1 \in Nat /\ i - 1 \in j..CellCount /\ ~(i <= i - 1) /\ i \in 1..CellCount
    BY <2>2, <2>3
  <2>5. L[j].wins \subseteq L[i - 1].wins /\ L[j].loses \subseteq L[i - 1].loses
    BY <2>1, <2>4
  <2>6. Grows(i)
    BY <1>4, <2>4
  <2> QED BY <2>2, <2>5, <2>6
<1>6. k \in Nat /\ k \in j..CellCount
  OBVIOUS
<1>7. L[j].wins \subseteq L[k].wins /\ L[j].loses \subseteq L[k].loses
  BY <1>5, <1>6
<1> QED BY <1>7 DEF L

(* A longer limit allows no less. *)
LEMMA WithinMore ==
  ASSUME NEW g, NEW n, NEW j \in Int, NEW k \in Int, j <= k
  PROVE  (Wins(g, n, j) => Wins(g, n, k)) /\ (Loses(g, n, j) => Loses(g, n, k))
BY DEF Wins, Loses

(* What a limit says, by the level. *)
LEMMA WithinIs ==
  ASSUME NEW g, NEW n, NEW k \in Int, k <= CellCount
  PROVE  /\ Wins(g, n, k) => k \in 0..CellCount /\ n \in ForcedWins(g)[k].wins
         /\ Loses(g, n, k) => k \in 0..CellCount /\ n \in ForcedWins(g)[k].loses
<1>1. ASSUME NEW j \in 0..CellCount, j <= k
      PROVE  /\ k \in 0..CellCount
             /\ ForcedWins(g)[j].wins \subseteq ForcedWins(g)[k].wins
             /\ ForcedWins(g)[j].loses \subseteq ForcedWins(g)[k].loses
  <2>1. k \in 0..CellCount
    BY <1>1
  <2> QED BY <1>1, <2>1, LevelsGrow
<1> QED BY <1>1 DEF Wins, Loses

(* Who wins, or cannot avert it, after a move. *)
LEMMA WinStep ==
  ASSUME NEW g, IsGame(g), NEW n \in DOMAIN g.kind, ~IsFact(g, n), NEW k \in Int, k + 1 <= CellCount,
         NEW m \in Chosen(g, n), Loses(g, g.next[n][m], k)
  PROVE  Wins(g, n, k + 1)
<1>1. k \in 0..CellCount /\ g.next[n][m] \in ForcedWins(g)[k].loses
  <2>1. k <= CellCount
    OBVIOUS
  <2> QED BY <2>1, WithinIs
<1>2. k + 1 \in 0..CellCount /\ k + 1 # 0 /\ k + 1 - 1 = k
  BY <1>1
<1>3. ForcedWins(g)[k + 1] = Plies(g, k + 1, ForcedWins(g)[k])
  BY <1>2, LevelsAre
<1>4. g.kind[n] \in {"open", "block"}
  BY GameIs DEF IsFact
<1>5. n \in Plies(g, k + 1, ForcedWins(g)[k]).wins
  BY <1>1, <1>4 DEF Plies, Chosen
<1> QED BY <1>2, <1>3, <1>5 DEF Wins

(* Who loses within k plies after every move loses within one more. *)
LEMMA LossStep ==
  ASSUME NEW g, IsGame(g), NEW n \in DOMAIN g.kind, ~IsFact(g, n), NEW k \in Int, k + 1 <= CellCount,
         Chosen(g, n) # {}, \A m \in Chosen(g, n) : Wins(g, g.next[n][m], k)
  PROVE  Loses(g, n, k + 1)
<1>1. \A m \in Chosen(g, n) : k \in 0..CellCount /\ g.next[n][m] \in ForcedWins(g)[k].wins
  <2>1. k <= CellCount
    OBVIOUS
  <2> QED BY <2>1, WithinIs
<1>2. k + 1 \in 0..CellCount /\ k + 1 # 0 /\ k + 1 - 1 = k
  BY <1>1
<1>3. ForcedWins(g)[k + 1] = Plies(g, k + 1, ForcedWins(g)[k])
  BY <1>2, LevelsAre
<1>4. g.kind[n] \in {"open", "block"}
  BY GameIs DEF IsFact
<1>5. n \in Plies(g, k + 1, ForcedWins(g)[k]).loses
  BY <1>1, <1>4 DEF Plies, Chosen
<1> QED BY <1>2, <1>3, <1>5 DEF Loses

(* And back. *)
LEMMA WinBack ==
  ASSUME NEW g, NEW n, NEW k \in Int, k <= CellCount
  PROVE  /\ Wins(g, n, k) => g.kind[n] = "win" \/ \E m \in Chosen(g, n) : Loses(g, g.next[n][m], k - 1)
         /\ Loses(g, n, k) => g.kind[n] = "loss" \/ \A m \in Chosen(g, n) : Wins(g, g.next[n][m], k - 1)
<1>1. ASSUME k \in 0..CellCount, n \in ForcedWins(g)[k].wins \/ n \in ForcedWins(g)[k].loses
      PROVE  k - 1 \in 0..CellCount /\ ForcedWins(g)[k] = Plies(g, k, ForcedWins(g)[k - 1])
  <2>1. ForcedWins(g)[k] = IF k = 0 THEN [wins |-> {}, loses |-> {}] ELSE Plies(g, k, ForcedWins(g)[k - 1])
    BY <1>1, LevelsAre
  <2>2. k # 0
    BY <1>1, <2>1
  <2> QED BY <1>1, <2>1, <2>2
<1>2. ASSUME Wins(g, n, k)
      PROVE  g.kind[n] = "win" \/ \E m \in Chosen(g, n) : Loses(g, g.next[n][m], k - 1)
  <2>1. k \in 0..CellCount /\ n \in ForcedWins(g)[k].wins
    BY <1>2, WithinIs
  <2>2. k - 1 \in 0..CellCount /\ n \in Plies(g, k, ForcedWins(g)[k - 1]).wins
    BY <1>1, <2>1
  <2>3. g.kind[n] = "win" \/ \E m \in Chosen(g, n) : g.next[n][m] \in ForcedWins(g)[k - 1].loses
    BY <2>2 DEF Plies, Chosen
  <2> QED BY <2>2, <2>3 DEF Loses
<1>3. ASSUME Loses(g, n, k)
      PROVE  g.kind[n] = "loss" \/ \A m \in Chosen(g, n) : Wins(g, g.next[n][m], k - 1)
  <2>1. k \in 0..CellCount /\ n \in ForcedWins(g)[k].loses
    BY <1>3, WithinIs
  <2>2. k - 1 \in 0..CellCount /\ n \in Plies(g, k, ForcedWins(g)[k - 1]).loses
    BY <1>1, <2>1
  <2>3. g.kind[n] = "loss" \/ \A m \in Chosen(g, n) : g.next[n][m] \in ForcedWins(g)[k - 1].wins
    BY <2>2 DEF Plies, Chosen
  <2> QED BY <2>2, <2>3 DEF Wins
<1> QED BY <1>2, <1>3

(* Scores that show no mate claim nothing. *)
LEMMA NoMate ==
  ASSUME NEW g, NEW n, NEW p, NEW s \in Int, ~IsMate(s), NEW a, NEW b
  PROVE  MateTrue(g, n, p, s, a, b)
BY DEF MateTrue, IsMate

(* What holds in a wider window holds in one it covers. *)
LEMMA Covered ==
  ASSUME NEW g, NEW n, NEW p, NEW s, NEW c, c.alpha0 \in Int, c.beta \in Int, NEW a \in Int, NEW b \in Int,
         Covers(c, a, b), MateTrue(g, n, p, s, c.alpha0, c.beta)
  PROVE  MateTrue(g, n, p, s, a, b)
<1>1. s \in Int
  BY DEF MateTrue
<1>2. s >= Threshold /\ s > a => s > c.alpha0
  BY <1>1 DEF Covers, Threshold
<1>3. s <= -Threshold /\ s < b => s < c.beta
  BY <1>1 DEF Covers, Threshold
<1> QED BY <1>1, <1>2, <1>3 DEF MateTrue

(* The smaller of two numbers is one of them, and neither is less. *)
LEMMA SmallerIs ==
  ASSUME NEW a \in Int, NEW b \in Int
  PROVE  Smaller(a, b) \in Int /\ Smaller(a, b) <= a /\ Smaller(a, b) <= b /\ Smaller(a, b) \in {a, b}
BY DEF Smaller

(* The numbers of a frame. *)
LEMMA SeatedIs ==
  ASSUME NEW g, NEW f, Seated(g, f)
  PROVE  /\ DOMAIN f = Fields /\ f.depth \in 0..MaxDepth /\ f.alpha \in Int /\ f.beta \in Int /\ f.alpha0 \in Int
         /\ f.best \in Int /\ f.ply \in Nat /\ f.tried \in Nat /\ f.qply \in 0..MaxQsearchPly /\ f.left \in Seq(Nat)
         /\ f.node \in DOMAIN g.kind /\ f.ply + g.free[f.node] <= CellCount
         /\ -Infinity <= f.alpha0 /\ f.alpha0 < f.beta /\ f.beta <= Infinity
         /\ Low(f) \in Int /\ High(f) \in Int /\ Low(f) >= f.alpha /\ High(f) <= f.beta
         /\ Low(f) \in {f.alpha, -Mate + f.ply} /\ High(f) \in {f.beta, Mate - f.ply - 1}
         /\ AskedLow(f) \in Int /\ AskedHigh(f) \in Int
         /\ GoalLow(f) \in Int /\ GoalHigh(f) \in Int
<1>1. /\ DOMAIN f = Fields /\ f.depth \in 0..MaxDepth /\ f.alpha \in Int /\ f.beta \in Int /\ f.alpha0 \in Int
      /\ f.best \in Int /\ f.ply \in Nat /\ f.tried \in Nat /\ f.qply \in 0..MaxQsearchPly /\ f.left \in Seq(Nat)
      /\ f.node \in DOMAIN g.kind /\ f.ply + g.free[f.node] <= CellCount
      /\ -Infinity <= f.alpha0 /\ f.alpha0 < f.beta /\ f.beta <= Infinity
  BY DEF Seated, Shaped
<1>2. /\ Low(f) \in Int /\ High(f) \in Int /\ Low(f) >= f.alpha /\ High(f) <= f.beta
      /\ Low(f) \in {f.alpha, -Mate + f.ply} /\ High(f) \in {f.beta, Mate - f.ply - 1}
  <2> DEFINE x == f.alpha  y == f.beta  p == f.ply
  <2>1. x \in Int /\ y \in Int /\ p \in Nat /\ Low(f) = Larger(x, -Mate + p) /\ High(f) = Smaller(y, Mate - p - 1)
    BY <1>1 DEF Low, High
  <2>2. -Mate + p \in Int /\ Mate - p - 1 \in Int
    BY <2>1
  <2> DEFINE u == -Mate + p  v == Mate - p - 1
  <2> HIDE DEF x, y, p, u, v
  <2>5. x \in Int /\ y \in Int /\ u \in Int /\ v \in Int /\ Low(f) = Larger(x, u) /\ High(f) = Smaller(y, v)
    BY <2>1, <2>2 DEF u, v
  <2>6. Low(f) \in Int /\ Low(f) >= x /\ Low(f) \in {x, u} /\ High(f) \in Int /\ High(f) <= y /\ High(f) \in {y, v}
    BY <2>5, LargerIs, SmallerIs
  <2>4. /\ Low(f) \in Int /\ High(f) \in Int /\ Low(f) >= x /\ High(f) <= y
        /\ Low(f) \in {x, -Mate + p} /\ High(f) \in {y, Mate - p - 1}
    BY <2>6 DEF u, v
  <2> QED BY <2>4 DEF x, y, p
<1>3. AskedLow(f) \in Int /\ AskedHigh(f) \in Int
  BY <1>1 DEF AskedLow, AskedHigh
<1>4. GoalLow(f) \in Int /\ GoalHigh(f) \in Int
  BY <1>2, <1>3 DEF GoalLow, GoalHigh
<1> QED BY <1>1, <1>2, <1>3, <1>4

(* A frame in the place of another, of which its caller can expect the same. *)
Stays(g, f, h) ==
  /\ Seated(g, h) /\ h.node = f.node /\ h.ply = f.ply
  /\ h.kind = f.kind \/ {f.kind, h.kind} \subseteq Deep
  /\ Covers(h, f.alpha0, f.beta)

(* What covers a window that covers another covers that one. *)
LEMMA CoversOn ==
  ASSUME NEW g, NEW f, Seated(g, f), NEW h, Stays(g, f, h), NEW a \in Int, NEW b \in Int, Covers(f, a, b)
  PROVE  Covers(h, a, b)
<1>1. f.alpha0 \in Int /\ f.beta \in Int /\ h.alpha0 \in Int /\ h.beta \in Int
  BY SeatedIs DEF Stays
<1>2. Covers(h, f.alpha0, f.beta)
  BY DEF Stays
<1> QED BY <1>1, <1>2 DEF Covers, Threshold

(* A frame that goes on serves whoever waits for it. *)
LEMMA ServesOn ==
  ASSUME NEW g, NEW p, Seated(g, p), NEW f, Seated(g, f), NEW h, Stays(g, f, h), Serves(g, p, f)
  PROVE  Serves(g, p, h)
<1>1. GoalLow(p) \in Int /\ GoalHigh(p) \in Int
  BY SeatedIs
<1>2. Covers(h, GoalLow(p), GoalHigh(p))
  BY <1>1, CoversOn DEF Serves
<1> QED BY <1>2 DEF Serves, Stays

(* A frame that goes on keeps its place in the stack. *)
LEMMA HomeOn ==
  ASSUME NEW g, NEW f, NEW h, Stays(g, f, h), NEW i, f.kind \in Home(g, i)
  PROVE  h.kind \in Home(g, i)
<1>1. Home(g, i) \in {{"root"}, {"teacher"}, Deep}
  BY DEF Home, Outer
<1>2. Deep = {"inner", "quiet"}
  BY DEF Deep
<1>3. h.kind = f.kind \/ (f.kind \in Deep /\ h.kind \in Deep)
  BY DEF Stays
<1> QED BY <1>1, <1>2, <1>3

--------------------------------------------------
(* Stacks, again. *)

(* The stack stays sound when its top goes on. *)
LEMMA ChainReplace ==
  ASSUME NEW g, NEW w, NEW n, NEW a \in Int, NEW b \in Int, NEW s, NEW r, Chained(g, w, n, a, b, s, r),
         NEW h, Stays(g, Last(s), h), Ready(g, w, h)
  PROVE  Chained(g, w, n, a, b, Append(Front(s), h), Nothing)
<1> DEFINE t == Append(Front(s), h)  l == Len(s)
<1>1. /\ IsSeq(s) /\ s # <<>>
      /\ \A i \in 1..l : Seated(g, s[i]) /\ s[i].kind \in Home(g, i)
      /\ s[1].node = n /\ s[1].ply = 0 /\ Covers(s[1], a, b)
      /\ \A i \in 1..l - 1 : Pauses(g, w, s[i]) /\ Serves(g, s[i], s[i + 1])
  BY DEF Chained
<1>2. /\ IsSeq(t)
      /\ t # <<>> /\ l \in Nat \ {0} /\ Len(t) = l /\ t[l] = h /\ Last(t) = h
      /\ \A i \in 1..l - 1 : t[i] = s[i]
  <2>1. Replaced(s, h, t)
    BY <1>1, ReplacedTop
  <2> HIDE DEF t
  <2> QED BY <2>1 DEF Replaced
<1>3. Stays(g, s[l], h) /\ Seated(g, h)
  BY DEF Stays, Last
<1> HIDE DEF t
<1>4. \A i \in 1..l : Seated(g, t[i]) /\ t[i].kind \in Home(g, i)
  <2> TAKE i \in 1..l
  <2>1. i = l \/ i \in 1..l - 1
    BY <1>2
  <2>2. CASE i = l
    BY <1>1, <1>2, <1>3, <2>2, HomeOn
  <2>3. CASE i \in 1..l - 1
    BY <1>1, <1>2, <2>3
  <2> QED BY <2>1, <2>2, <2>3
<1>5. \A i \in 1..l - 1 : Pauses(g, w, t[i]) /\ Serves(g, t[i], t[i + 1])
  <2> TAKE i \in 1..l - 1
  <2>1. t[i] = s[i] /\ Pauses(g, w, s[i]) /\ Serves(g, s[i], s[i + 1]) /\ Seated(g, s[i]) /\ Seated(g, s[i + 1])
    <3>1. i \in 1..l /\ i + 1 \in 1..l
      BY <1>2
    <3> QED BY <1>1, <1>2, <3>1
  <2>2. (i + 1 = l /\ t[i + 1] = h) \/ t[i + 1] = s[i + 1]
    <3>1. i + 1 = l \/ i + 1 \in 1..l - 1
      BY <1>2
    <3> QED BY <3>1, <1>2
  <2>3. CASE i + 1 = l /\ t[i + 1] = h
    BY <1>3, <2>1, <2>3, ServesOn
  <2> QED BY <2>1, <2>2, <2>3
<1>6. t[1].node = n /\ t[1].ply = 0 /\ Covers(t[1], a, b)
  <2>1. 1 = l \/ 1 \in 1..l - 1
    <3>1. l \in Nat \ {0}
      BY <1>2
    <3> HIDE DEF l
    <3> QED BY <3>1
  <2>2. CASE 1 = l
    <3>1. Seated(g, s[1]) /\ Stays(g, s[1], h) /\ t[1] = h
      <4>1. 1 \in 1..l /\ t[l] = h /\ Stays(g, s[l], h)
        BY <1>2, <1>3, <2>2
      <4> HIDE DEF l
      <4> QED BY <1>1, <4>1, <2>2
    <3>2. Covers(h, a, b)
      BY <1>1, <3>1, CoversOn
    <3> QED BY <1>1, <3>1, <3>2 DEF Stays
  <2>3. CASE 1 \in 1..l - 1
    BY <1>1, <1>2, <2>3
  <2> QED BY <2>1, <2>2, <2>3
<1>7. Chained(g, w, n, a, b, t, Nothing)
  BY <1>2, <1>4, <1>5, <1>6, Zenon DEF Chained
<1> QED BY <1>7 DEF t

(* The stack stays sound when its top calls. *)
LEMMA ChainPush ==
  ASSUME NEW g, NEW w, NEW n, NEW a \in Int, NEW b \in Int, NEW s, NEW r, Chained(g, w, n, a, b, s, r),
         NEW h, Stays(g, Last(s), h), Pauses(g, w, h),
         NEW c, Seated(g, c), c.kind \in Deep, Ready(g, w, c), Serves(g, h, c)
  PROVE  Chained(g, w, n, a, b, Append(Append(Front(s), h), c), Nothing)
<1> DEFINE t == Append(Append(Front(s), h), c)  l == Len(s)
<1>1. /\ IsSeq(s) /\ s # <<>>
      /\ \A i \in 1..l : Seated(g, s[i]) /\ s[i].kind \in Home(g, i)
      /\ s[1].node = n /\ s[1].ply = 0 /\ Covers(s[1], a, b)
      /\ \A i \in 1..l - 1 : Pauses(g, w, s[i]) /\ Serves(g, s[i], s[i + 1])
  BY DEF Chained
<1>2. /\ IsSeq(t)
      /\ t # <<>> /\ l \in Nat \ {0} /\ Len(t) = l + 1 /\ t[l] = h /\ t[l + 1] = c /\ Last(t) = c
      /\ \A i \in 1..l - 1 : t[i] = s[i]
  <2>1. Pushed(s, h, c, t)
    BY <1>1, PushedTop
  <2> HIDE DEF t
  <2> QED BY <2>1 DEF Pushed
<1>3. Stays(g, s[l], h) /\ Seated(g, h)
  BY DEF Stays, Last
<1> HIDE DEF t
<1>4. \A i \in 1..l + 1 : Seated(g, t[i]) /\ t[i].kind \in Home(g, i)
  <2> TAKE i \in 1..l + 1
  <2>1. i = l + 1 \/ i = l \/ i \in 1..l - 1
    BY <1>2
  <2>2. CASE i = l + 1
    <3>1. i # 1
      BY <1>2, <2>2
    <3> QED BY <1>2, <2>2, <3>1 DEF Home
  <2>3. CASE i = l
    BY <1>1, <1>2, <1>3, <2>3, HomeOn
  <2>4. CASE i \in 1..l - 1
    BY <1>1, <1>2, <2>4
  <2> QED BY <2>1, <2>2, <2>3, <2>4
<1>5. \A i \in 1..l : Pauses(g, w, t[i]) /\ Serves(g, t[i], t[i + 1])
  <2> TAKE i \in 1..l
  <2>1. i = l \/ i \in 1..l - 1
    BY <1>2
  <2>2. CASE i = l
    BY <1>2, <2>2
  <2>3. CASE i \in 1..l - 1
    <3>1. t[i] = s[i] /\ Pauses(g, w, s[i]) /\ Serves(g, s[i], s[i + 1]) /\ Seated(g, s[i]) /\ Seated(g, s[i + 1])
      <4>1. i \in 1..l /\ i + 1 \in 1..l
        BY <1>2, <2>3
      <4> QED BY <1>1, <1>2, <2>3, <4>1
    <3>2. (i + 1 = l /\ t[i + 1] = h) \/ t[i + 1] = s[i + 1]
      <4>1. i + 1 = l \/ i + 1 \in 1..l - 1
        BY <1>2, <2>3
      <4> QED BY <4>1, <1>2
    <3>3. CASE i + 1 = l /\ t[i + 1] = h
      BY <1>3, <3>1, <3>3, ServesOn
    <3> QED BY <3>1, <3>2, <3>3
  <2> QED BY <2>1, <2>2, <2>3
<1>6. t[1].node = n /\ t[1].ply = 0 /\ Covers(t[1], a, b)
  <2>1. 1 = l \/ 1 \in 1..l - 1
    <3>1. l \in Nat \ {0}
      BY <1>2
    <3> HIDE DEF l
    <3> QED BY <3>1
  <2>2. CASE 1 = l
    <3>1. Seated(g, s[1]) /\ Stays(g, s[1], h) /\ t[1] = h
      <4>1. 1 \in 1..l /\ t[l] = h /\ Stays(g, s[l], h)
        BY <1>2, <1>3, <2>2
      <4> HIDE DEF l
      <4> QED BY <1>1, <4>1, <2>2
    <3>2. Covers(h, a, b)
      BY <1>1, <3>1, CoversOn
    <3> QED BY <1>1, <3>1, <3>2 DEF Stays
  <2>3. CASE 1 \in 1..l - 1
    BY <1>1, <1>2, <2>3
  <2> QED BY <2>1, <2>2, <2>3
<1>7. Len(t) - 1 = l
  BY <1>2
<1>8. Chained(g, w, n, a, b, t, Nothing)
  BY <1>2, <1>4, <1>5, <1>6, <1>7, Zenon DEF Chained
<1> QED BY <1>8 DEF t

(* What a frame found, for the one that asked. *)
Found(g, f, r) == r \in Results /\ MateTrue(g, f.node, f.ply, r.score, f.alpha0, f.beta)

(* The stack stays sound when its top returns what it found. *)
LEMMA ChainPop ==
  ASSUME NEW g, NEW w, NEW n, NEW a \in Int, NEW b \in Int, NEW s, NEW r, Chained(g, w, n, a, b, s, r),
         Last(s).kind \in Deep, NEW v, Found(g, Last(s), v)
  PROVE  IF Front(s) = <<>> THEN Outer(g) = Deep /\ MateTrue(g, n, 0, v.score, a, b)
         ELSE Chained(g, w, n, a, b, Front(s), v)
<1> DEFINE t == Front(s)  l == Len(s)
<1>0. v \in Results /\ v # Nothing
  BY AlphaBetaAssumption DEF Found
<1>1. /\ IsSeq(s) /\ s # <<>>
      /\ \A i \in 1..l : Seated(g, s[i]) /\ s[i].kind \in Home(g, i)
      /\ s[1].node = n /\ s[1].ply = 0 /\ Covers(s[1], a, b)
      /\ \A i \in 1..l - 1 : Pauses(g, w, s[i]) /\ Serves(g, s[i], s[i + 1])
  BY DEF Chained
<1>2. l \in Nat \ {0} /\ Len(t) = l - 1 /\ IsSeq(t)
  <2>1. PICK S : s \in Seq(S)
    BY <1>1 DEF IsSeq
  <2>2. l \in Nat \ {0} /\ t \in Seq(S) /\ Len(t) = l - 1
    BY <1>1, <2>1, FrontIs
  <2> QED BY <2>2 DEF IsSeq
<1>3. CASE l = 1
  <2>1. t = <<>>
    <3>1. PICK S : t \in Seq(S)
      BY <1>2 DEF IsSeq
    <3> HIDE DEF t
    <3> QED BY <1>2, <1>3, <3>1, EmptySeq
  <2>2. Last(s) = s[1] /\ s[1].kind \in Home(g, 1) /\ Seated(g, s[1])
    BY <1>1, <1>3 DEF Last
  <2>3. Outer(g) = Deep
    <3>1. s[1].kind \in Outer(g) /\ s[1].kind \in {"inner", "quiet"}
      BY <2>2 DEF Home, Deep
    <3>2. Outer(g) \in {{"root"}, {"teacher"}, Deep}
      BY DEF Outer
    <3> QED BY <3>1, <3>2
  <2>4. MateTrue(g, n, 0, v.score, a, b)
    <3>1. MateTrue(g, n, 0, v.score, s[1].alpha0, s[1].beta)
      BY <1>1, <2>2 DEF Found
    <3>2. s[1].alpha0 \in Int /\ s[1].beta \in Int
      BY <2>2, SeatedIs
    <3> QED BY <1>1, <3>1, <3>2, Covered
  <2> QED BY <2>1, <2>3, <2>4
<1>4. CASE l # 1
  <2>1. /\ IsSeq(t)
        /\ t # <<>> /\ l \in Nat /\ l > 1 /\ Len(t) = l - 1 /\ Last(t) = s[l - 1]
        /\ \A i \in 1..l - 1 : t[i] = s[i]
    BY <1>1, <1>4, PoppedTop
  <2> HIDE DEF t
  <2>2. \A i \in 1..l - 1 : Seated(g, t[i]) /\ t[i].kind \in Home(g, i)
    BY <1>1, <2>1
  <2>3. \A i \in 1..l - 1 - 1 : Pauses(g, w, t[i]) /\ Serves(g, t[i], t[i + 1])
    <3> TAKE i \in 1..l - 1 - 1
    <3>1. i \in 1..l - 1 /\ i + 1 \in 1..l - 1
      BY <2>1
    <3> QED BY <3>1, <1>1, <2>1
  <2>4. Pauses(g, w, Last(t)) /\ Replied(g, Last(t), v)
    <3>1. l - 1 \in 1..l /\ l - 1 \in 1..l - 1 /\ (l - 1) + 1 = l /\ l \in 1..l
      BY <2>1
    <3>2. /\ Seated(g, s[l - 1]) /\ Pauses(g, w, s[l - 1]) /\ Serves(g, s[l - 1], s[l]) /\ Seated(g, s[l])
          /\ Last(s) = s[l]
      BY <3>1, <1>1 DEF Last
    <3> DEFINE p == s[l - 1]  c == s[l]
    <3>3. GoalLow(p) \in Int /\ GoalHigh(p) \in Int /\ c.alpha0 \in Int /\ c.beta \in Int
      BY <3>2, SeatedIs
    <3>4. Covers(c, GoalLow(p), GoalHigh(p)) /\ c.node = Goal(g, p) /\ c.ply = GoalPly(p)
      BY <3>2 DEF Serves
    <3>5. MateTrue(g, Goal(g, p), GoalPly(p), v.score, c.alpha0, c.beta)
      BY <3>2, <3>4 DEF Found
    <3> HIDE DEF p, c
    <3>6. Replied(g, p, v)
      BY <1>0, <3>3, <3>4, <3>5, Covered DEF Replied
    <3> QED BY <2>1, <3>2, <3>6 DEF p
  <2>5. t[1].node = n /\ t[1].ply = 0 /\ Covers(t[1], a, b)
    <3>1. 1 \in 1..l - 1
      BY <2>1
    <3> QED BY <1>1, <2>1, <3>1
  <2>6. Chained(g, w, n, a, b, t, v)
    BY <1>0, <2>1, <2>2, <2>3, <2>4, <2>5, Zenon DEF Chained
  <2> QED BY <2>1, <2>6 DEF t
<1> QED BY <1>3, <1>4

(* The last frame of a stack. *)
LEMMA ChainTop ==
  ASSUME NEW g, NEW w, NEW n, NEW a, NEW b, NEW s, NEW r, Chained(g, w, n, a, b, s, r)
  PROVE  /\ Seated(g, Last(s)) /\ s # <<>> /\ Last(s).kind \in {"root", "teacher", "inner", "quiet"}
         /\ Last(s).kind \notin Deep =>
              /\ Last(s).kind \in Outer(g) /\ Last(s).node = n /\ Last(s).ply = 0
              /\ Covers(Last(s), a, b)
         /\ r = Nothing => Ready(g, w, Last(s))
         /\ r # Nothing => Pauses(g, w, Last(s)) /\ Replied(g, Last(s), r)
<1>1. /\ IsSeq(s) /\ s # <<>>
      /\ \A i \in 1..Len(s) : Seated(g, s[i]) /\ s[i].kind \in Home(g, i)
      /\ s[1].node = n /\ s[1].ply = 0 /\ Covers(s[1], a, b)
  BY DEF Chained
<1>2. Len(s) \in 1..Len(s)
  BY <1>1 DEF IsSeq
<1>3. Seated(g, Last(s)) /\ Last(s).kind \in Home(g, Len(s)) /\ Last(s) = s[Len(s)]
  BY <1>1, <1>2 DEF Last
<1>4. Last(s).kind \in {"root", "teacher", "inner", "quiet"}
  BY <1>3 DEF Home, Outer, Deep
<1>5. ASSUME Last(s).kind \notin Deep
      PROVE  /\ Last(s).kind \in Outer(g) /\ Last(s).node = n /\ Last(s).ply = 0
             /\ Covers(Last(s), a, b)
  <2>1. Len(s) = 1 /\ Last(s).kind \in Outer(g)
    BY <1>3, <1>5 DEF Home
  <2> QED BY <1>1, <1>3, <2>1
<1>6. /\ r = Nothing => Ready(g, w, Last(s))
      /\ r # Nothing => Pauses(g, w, Last(s)) /\ Replied(g, Last(s), r)
  BY Zenon DEF Chained
<1> QED BY <1>1, <1>3, <1>4, <1>5, <1>6

--------------------------------------------------
(* What a worker does to its own state, again. *)
Hunting(w) ==
  /\ game \in DOMAIN AllGames /\ G.shortcuts \cap Blind = {} /\ w \in Workers
  /\ DOMAIN worker = Workers /\ Runs(G, w, Root, worker[w]) /\ MatesTrue(G, table)

Hunts(w) ==
  /\ DOMAIN worker' = Workers /\ Runs(G, w, Root, worker'[w])
  /\ \A v \in Workers : v # w => worker'[v] = worker[v]

(* What the stack of a worker has to be. *)
Going(w, s, r) ==
  IF s = <<>> THEN Outer(G) = Deep /\ r \in Results /\ MateTrue(G, Root, 0, r.score, -Infinity, Infinity)
  ELSE Chained(G, w, Root, worker[w].window[1], worker[w].window[2], s, r)

(* A new stack that is sound keeps the worker's evidence of mates. *)
LEMMA RestackRuns ==
  ASSUME NEW w, Hunting(w), worker[w].phase = "search", NEW s, NEW r,
         worker' = [worker EXCEPT ![w].stack = s, ![w].returned = r], Going(w, s, r)
  PROVE  Hunts(w)
<1>1. /\ w \in Workers /\ DOMAIN worker = Workers /\ DOMAIN worker[w] = WorkerFields
      /\ worker[w].phase = "search" /\ worker[w].depth \in 0..MaxDepth
      /\ (Normal => Sane(worker[w].previous)) /\ worker[w].depth >= 1 /\ worker[w].delta \in Nat \ {0}
      /\ Opens(G, worker[w])
  BY Zenon DEF Hunting, Runs, Normal
<1>2. Restacked(w, s, r)
  BY <1>1, WorkerIs
<1>3. worker'[w].window = worker[w].window
  BY <1>1 DEF WorkerFields
<1> DEFINE k == worker'[w]  old == worker[w]
<1>4. /\ DOMAIN k = WorkerFields /\ k.phase = "search" /\ k.depth = old.depth /\ k.previous = old.previous
      /\ k.delta = old.delta /\ k.stack = s /\ k.returned = r /\ k.window = old.window
  BY <1>2, <1>3 DEF Restacked
<1>5. Runs(G, w, Root, k)
  <2>1. Opens(G, k)
    BY <1>1, <1>4 DEF Opens
  <2>2. s # <<>> => Chained(G, w, Root, k.window[1], k.window[2], s, r)
    BY <1>4 DEF Going
  <2>3. s = <<>> => Outer(G) = Deep /\ r \in Results /\ MateTrue(G, Root, 0, r.score, -Infinity, Infinity)
    BY DEF Going
  <2> HIDE DEF k
  <2>4. /\ DOMAIN k = WorkerFields /\ k.phase = "search" /\ k.depth \in 0..MaxDepth
        /\ (G.domain = "normal" => Sane(k.previous))
        /\ k.depth >= 1 /\ k.delta \in Nat \ {0} /\ k.stack = s /\ k.returned = r
    BY <1>1, <1>4 DEF Normal
  <2> QED BY <2>1, <2>2, <2>3, <2>4, Zenon DEF Runs
<1> QED BY <1>2, <1>5 DEF Hunts, Restacked

(* What is known of a worker in the middle of an iteration. *)
LEMMA HuntIs ==
  ASSUME NEW w, Hunting(w), worker[w].phase = "search", Stack(w) # <<>>
  PROVE  /\ Chained(G, w, Root, worker[w].window[1], worker[w].window[2], Stack(w), Returned(w))
         /\ IsGame(G) /\ Seated(G, Top(w)) /\ Top(w).kind \in {"root", "teacher", "inner", "quiet"}
         /\ worker[w].window[1] \in Int /\ worker[w].window[2] \in Int /\ worker[w].depth >= 1 /\ worker[w].depth \in 0..MaxDepth
         /\ worker[w].delta \in Nat \ {0} /\ Opens(G, worker[w])
         /\ (Normal => Sane(worker[w].previous))
         /\ Top(w).kind \notin Deep =>
              /\ Top(w).kind \in Outer(G) /\ Top(w).node = Root /\ Top(w).ply = 0
              /\ Covers(Top(w), worker[w].window[1], worker[w].window[2])
         /\ Returned(w) = Nothing => Ready(G, w, Top(w))
         /\ Returned(w) # Nothing => Pauses(G, w, Top(w)) /\ Replied(G, Top(w), Returned(w))
<1>1. /\ game \in DOMAIN AllGames
      /\ worker[w].depth \in 0..MaxDepth
      /\ (Normal => Sane(worker[w].previous)) /\ worker[w].depth >= 1 /\ worker[w].delta \in Nat \ {0}
      /\ Opens(G, worker[w])
      /\ Chained(G, w, Root, worker[w].window[1], worker[w].window[2], Stack(w), Returned(w))
  BY Zenon DEF Hunting, Runs, Normal, Stack, Returned
<1>2. worker[w].window[1] \in Int /\ worker[w].window[2] \in Int
  BY <1>1 DEF Opens
<1>3. IsGame(G)
  BY <1>1, GameOk
<1>4. /\ Seated(G, Top(w)) /\ Top(w).kind \in {"root", "teacher", "inner", "quiet"}
      /\ Top(w).kind \notin Deep =>
           /\ Top(w).kind \in Outer(G) /\ Top(w).node = Root /\ Top(w).ply = 0
           /\ Covers(Top(w), worker[w].window[1], worker[w].window[2])
      /\ Returned(w) = Nothing => Ready(G, w, Top(w))
      /\ Returned(w) # Nothing => Pauses(G, w, Top(w)) /\ Replied(G, Top(w), Returned(w))
  BY <1>1, ChainTop DEF Top
<1> QED BY <1>1, <1>2, <1>3, <1>4, Zenon

(* A step that goes on in its frame, for mates. *)
LEMMA HuntReplace ==
  ASSUME NEW w, Hunting(w), worker[w].phase = "search", Stack(w) # <<>>, NEW h, worker' = Replace(w, h),
         Stays(G, Top(w), h), Ready(G, w, h)
  PROVE  Hunts(w)
<1> DEFINE s == Append(Front(Stack(w)), h)
<1>1. Chained(G, w, Root, worker[w].window[1], worker[w].window[2], s, Nothing)
  BY HuntIs, ChainReplace DEF Top
<1>2. s # <<>>
  BY <1>1 DEF Chained
<1>3. worker' = [worker EXCEPT ![w].stack = s, ![w].returned = Nothing]
  BY DEF Replace, Stack, Hunting
<1> HIDE DEF s
<1> QED BY <1>1, <1>2, <1>3, RestackRuns DEF Going

(* A step that asks for a position, for mates. *)
LEMMA HuntPush ==
  ASSUME NEW w, Hunting(w), worker[w].phase = "search", Stack(w) # <<>>, NEW h, NEW c, worker' = Push(w, h, c),
         Stays(G, Top(w), h), Pauses(G, w, h), Seated(G, c), c.kind \in Deep, Ready(G, w, c), Serves(G, h, c)
  PROVE  Hunts(w)
<1> DEFINE s == Append(Append(Front(Stack(w)), h), c)
<1>1. Chained(G, w, Root, worker[w].window[1], worker[w].window[2], s, Nothing)
  BY HuntIs, ChainPush DEF Top
<1>2. s # <<>>
  BY <1>1 DEF Chained
<1>3. worker' = [worker EXCEPT ![w].stack = s, ![w].returned = Nothing]
  BY DEF Push, Stack, Hunting
<1> HIDE DEF s
<1> QED BY <1>1, <1>2, <1>3, RestackRuns DEF Going

(* A step that answers, for mates: the answer is true where asked. *)
LEMMA HuntPop ==
  ASSUME NEW w, Hunting(w), worker[w].phase = "search", Stack(w) # <<>>, NEW r, worker' = Pop(w, r),
         Top(w).kind \in Deep, Found(G, Top(w), r)
  PROVE  Hunts(w)
<1> DEFINE s == Front(Stack(w))  a == worker[w].window[1]  b == worker[w].window[2]
<1>1. IF s = <<>> THEN Outer(G) = Deep /\ MateTrue(G, Root, 0, r.score, a, b) ELSE Chained(G, w, Root, a, b, s, r)
  BY HuntIs, ChainPop DEF Top
<1>2. worker' = [worker EXCEPT ![w].stack = s, ![w].returned = r]
  BY DEF Pop, Stack, Hunting
<1>3. ASSUME s = <<>> PROVE a = -Infinity /\ b = Infinity
  <2>1. G.domain # "normal"
    <3>1. Outer(G) = Deep
      BY <1>1, <1>3
    <3>2. "root" \notin Deep
      BY DEF Deep
    <3> QED BY <3>1, <3>2 DEF Outer
  <2>2. Opens(G, worker[w])
    BY HuntIs
  <2> QED BY <2>1, <2>2 DEF Opens
<1>4. r \in Results
  BY DEF Found
<1> HIDE DEF s, a, b
<1>5. Going(w, s, r)
  BY <1>1, <1>3, <1>4 DEF Going, a, b
<1> QED BY <1>2, <1>5, RestackRuns

--------------------------------------------------
(* Frames, again. *)

(* A position settled by the rules shows its mate. *)
LEMMA FactMate ==
  ASSUME NEW g, IsGame(g), NEW n \in DOMAIN g.kind, IsFact(g, n), NEW p \in Nat, p + g.free[n] <= CellCount,
         NEW a, NEW b
  PROVE  MateTrue(g, n, p, Fact(g, n, p), a, b)
<1>1. /\ g.free[n] \in Nat /\ g.free[n] <= CellCount /\ g.kind[n] \in {"win", "loss", "draw"}
      /\ (g.kind[n] = "loss" => g.free[n] >= 2) /\ (g.kind[n] # "draw" => g.free[n] >= 1)
  BY GameIs DEF IsFact
<1> DEFINE r == g.free[n]
<1>2. CASE g.kind[n] = "win"
  <2>1. Fact(g, n, p) = Mate - p - 1 /\ 1 \in 0..CellCount /\ 1 # 0 /\ r >= 1
    BY <1>1, <1>2 DEF Fact
  <2>2. n \in ForcedWins(g)[1].wins
    <3>1. ForcedWins(g)[1] = Plies(g, 1, ForcedWins(g)[1 - 1])
      BY <2>1, LevelsAre
    <3> QED BY <1>2, <3>1 DEF Plies
  <2>3. Wins(g, n, 1)
    BY <2>1, <2>2 DEF Wins
  <2> DEFINE s == Mate - p - 1
  <2> HIDE DEF r
  <2>4. s \in Int /\ Mate - s - p = 1 /\ ~(s <= -Threshold)
    BY <1>1, <2>1 DEF Threshold, r
  <2> HIDE DEF s
  <2> QED BY <2>1, <2>3, <2>4 DEF MateTrue, s
<1>3. CASE g.kind[n] = "loss"
  <2>1. Fact(g, n, p) = -Mate + p + 2 /\ 2 \in 0..CellCount /\ 2 # 0 /\ r >= 2
    BY <1>1, <1>3 DEF Fact
  <2>2. n \in ForcedWins(g)[2].loses
    <3>1. ForcedWins(g)[2] = Plies(g, 2, ForcedWins(g)[2 - 1])
      BY <2>1, LevelsAre
    <3> QED BY <1>3, <3>1 DEF Plies
  <2>3. Loses(g, n, 2)
    BY <2>1, <2>2 DEF Loses
  <2> DEFINE s == -Mate + p + 2
  <2> HIDE DEF r
  <2>4. s \in Int /\ Mate + s - p = 2 /\ ~(s >= Threshold)
    BY <1>1, <2>1 DEF Threshold, r
  <2> HIDE DEF s
  <2> QED BY <2>1, <2>3, <2>4 DEF MateTrue, s
<1>4. CASE g.kind[n] = "draw"
  <2>1. Fact(g, n, p) = 0
    BY <1>4 DEF Fact
  <2>2. ~IsMate(0)
    BY DEF IsMate, Threshold
  <2> QED BY <2>1, <2>2, NoMate
<1> QED BY <1>1, <1>2, <1>3, <1>4

(* A worker without an answer has a frame to go on with. *)
LEMMA HuntNothing ==
  ASSUME NEW w, Hunting(w), worker[w].phase = "search", Returned(w) = Nothing
  PROVE  Stack(w) # <<>>
<1>1. worker[w].stack = <<>> => worker[w].returned \in Results
  BY Zenon DEF Hunting, Runs
<1> QED BY <1>1, AlphaBetaAssumption DEF Stack, Returned

(* What is known of a frame not begun yet, for mates. *)
LEMMA FreshHunt ==
  ASSUME NEW w, Hunting(w), Fresh(w)
  PROVE  /\ worker[w].phase = "search" /\ Stack(w) # <<>> /\ IsGame(G) /\ Seated(G, Top(w)) /\ ~Top(w).begun
         /\ Unopened(G, w, Top(w)) /\ Top(w).kind \in {"root", "teacher", "inner", "quiet"}
         /\ DOMAIN Top(w) = Fields /\ Top(w).node \in DOMAIN G.kind /\ Top(w).ply \in Nat
         /\ Top(w).ply + G.free[Top(w).node] <= CellCount
         /\ Top(w).alpha \in Int /\ Top(w).beta \in Int /\ Top(w).alpha = Top(w).alpha0 /\ Top(w).alpha < Top(w).beta
         /\ -Infinity <= Top(w).alpha /\ Top(w).beta <= Infinity /\ Top(w).best = -Infinity
         /\ Top(w).depth \in 0..MaxDepth
<1>1. worker[w].phase = "search" /\ Returned(w) = Nothing /\ ~Top(w).begun
  BY DEF Fresh
<1>2. Stack(w) # <<>>
  BY <1>1, HuntNothing
<1>3. /\ IsGame(G) /\ Seated(G, Top(w)) /\ Ready(G, w, Top(w)) /\ Top(w).kind \in {"root", "teacher", "inner", "quiet"}
  BY <1>1, <1>2, HuntIs, Zenon
<1>4. Unopened(G, w, Top(w))
  BY <1>1, <1>3 DEF Ready
<1>5. Top(w).alpha = Top(w).alpha0 /\ Top(w).best = -Infinity
  BY <1>4 DEF Unopened
<1>6. /\ DOMAIN Top(w) = Fields /\ Top(w).node \in DOMAIN G.kind /\ Top(w).ply \in Nat
      /\ Top(w).ply + G.free[Top(w).node] <= CellCount
      /\ Top(w).alpha \in Int /\ Top(w).beta \in Int /\ Top(w).alpha0 < Top(w).beta
      /\ -Infinity <= Top(w).alpha0 /\ Top(w).beta <= Infinity /\ Top(w).depth \in 0..MaxDepth
  BY <1>3, SeatedIs
<1> QED BY <1>1, <1>2, <1>3, <1>4, <1>5, <1>6

(* A call in its place. *)
LEMMA FramedSeated ==
  ASSUME NEW g, NEW w, NEW c, NEW kind, kind \in Deep, NEW n, NEW d, NEW a, NEW b, NEW p,
         NEW q, q \in 0..MaxQsearchPly, Framed(c, kind, n, d, a, b, p, q), Place(g, n, d, a, b, p)
  PROVE  Seated(g, c) /\ Ready(g, w, c) /\ c.kind \in Deep
<1>1. c.kind \notin {"root", "teacher"} /\ c.kind = kind
  BY DEF Framed, Deep
<1>2. <<>> \in Seq(Nat) /\ 0 \in Nat /\ -Infinity \in Int
  OBVIOUS
<1>3. Shaped(c) /\ Flags(c)
  BY <1>2 DEF Framed, Place, Shaped, Flags
<1>4. Seated(g, c)
  BY <1>3 DEF Framed, Place, Seated
<1>5. Ready(g, w, c)
  BY <1>1 DEF Framed, Ready, Unopened
<1> QED BY <1>1, <1>4, <1>5

(* The moves of a frame are moves. *)
LEMMA TriedAre ==
  ASSUME NEW g, IsGame(g), NEW w, NEW f, f.node \in DOMAIN g.kind, f.kind \in {"root", "teacher", "inner", "quiet"}
  PROVE  /\ \A m \in Tried(g, w, f) :
              /\ m \in DOMAIN g.next[f.node] /\ g.next[f.node][m] \in DOMAIN g.kind
              /\ g.free[g.next[f.node][m]] \in Nat /\ g.free[g.next[f.node][m]] < g.free[f.node]
         /\ g.free[f.node] \in Nat
         /\ f.kind = "quiet" /\ ~IsFact(g, f.node) => Tried(g, w, f) \subseteq Chosen(g, f.node)
         /\ f.kind = "quiet" /\ g.kind[f.node] = "block" => Tried(g, w, f) = Chosen(g, f.node)
         /\ f.kind = "inner" => Tried(g, w, f) = Chosen(g, f.node)
<1> DEFINE n == f.node
<1>1. /\ DOMAIN g.next[n] = 1..Len(g.next[n]) /\ Len(g.next[n]) \in Nat /\ g.near[n] \in 0..Len(g.next[n])
      /\ g.free[n] \in Nat
      /\ \A m \in DOMAIN g.next[n] :
           /\ g.next[n][m] \in DOMAIN g.kind /\ g.free[g.next[n][m]] \in Nat /\ g.free[g.next[n][m]] < g.free[n]
      /\ g.kind[n] = "block" => 1 \in DOMAIN g.next[n]
      /\ \A wide \in BOOLEAN : Moves(g, n, wide) \subseteq DOMAIN g.next[n]
      /\ Forcing(g, n) \subseteq DOMAIN g.next[n] /\ Forcing(g, n) \subseteq 1..g.near[n]
  BY GameIs
<1>2. QuietMoves(g, n) \subseteq DOMAIN g.next[n]
  BY <1>1 DEF QuietMoves
<1>3. Chosen(g, n) \subseteq DOMAIN g.next[n]
  BY <1>1 DEF Chosen
<1>4. Tried(g, w, f) \subseteq DOMAIN g.next[n]
  <2>1. (g.adaptive /\ w = Principal) \in BOOLEAN => Moves(g, n, g.adaptive /\ w = Principal) \subseteq DOMAIN g.next[n]
    BY <1>1
  <2>2. Moves(g, n, g.adaptive /\ w = Principal) \subseteq DOMAIN g.next[n]
    BY <1>1 DEF Moves
  <2>3. Moves(g, n, TRUE) \subseteq DOMAIN g.next[n]
    BY <1>1
  <2> QED BY <1>2, <1>3, <2>2, <2>3 DEF Tried
<1>5. QuietMoves(g, n) \subseteq Chosen(g, n)
  BY <1>1 DEF QuietMoves, Chosen, Moves
<1>6. g.kind[n] = "block" => QuietMoves(g, n) = Chosen(g, n)
  BY DEF QuietMoves, Chosen, Moves
<1>7. (f.kind = "quiet" => Tried(g, w, f) = QuietMoves(g, n)) /\ (f.kind = "inner" => Tried(g, w, f) = Chosen(g, n))
  BY DEF Tried
<1> HIDE DEF n
<1>8. \A m \in Tried(g, w, f) : m \in DOMAIN g.next[n] /\ g.next[n][m] \in DOMAIN g.kind
                               /\ g.free[g.next[n][m]] \in Nat /\ g.free[g.next[n][m]] < g.free[n]
  BY <1>1, <1>4
<1> QED BY <1>1, <1>5, <1>6, <1>7, <1>8 DEF n

(* A frame that differs in what it goes on to look at. *)
LEMMA AlikeStays ==
  ASSUME NEW g, NEW f, Seated(g, f), NEW h, Alike(f, h), h.left \in Seq(Nat), h.tried \in Nat
  PROVE  Seated(g, h) /\ Stays(g, f, h)
<1>1. Shaped(h) /\ Flags(h)
  BY DEF Seated, Alike, Shaped, Flags
<1>2. Seated(g, h)
  BY <1>1 DEF Seated, Alike
<1>3. Covers(h, f.alpha0, f.beta)
  <2>1. h.alpha0 = f.alpha0 /\ h.beta = f.beta /\ f.alpha0 \in Int /\ f.beta \in Int
    BY SeatedIs DEF Alike
  <2> QED BY <2>1 DEF Covers
<1> QED BY <1>2, <1>3 DEF Stays, Alike

(* A frame that counts the same moves finds the same mates. *)
LEMMA AlikeBusy ==
  ASSUME NEW g, NEW w, NEW f, NEW h, NEW p, NEW q, Busy(g, w, f, p), Alike(f, h), Open(h, q) = Open(f, p),
         f.alpha < f.beta
  PROVE  Busy(g, w, h, q) /\ Tried(g, w, h) = Tried(g, w, f)
<1>1. /\ h.kind = f.kind /\ h.node = f.node /\ h.depth = f.depth /\ h.ply = f.ply
      /\ h.alpha = f.alpha /\ h.alpha0 = f.alpha0 /\ h.beta = f.beta /\ h.best = f.best
  BY DEF Alike
<1>2. Tried(g, w, h) = Tried(g, w, f)
  BY <1>1 DEF Tried
<1>3. Finds(g, w, h, q)
  <2>1. Finds(g, w, f, p)
    BY DEF Busy
  <2> QED BY <1>1, <1>2, <2>1 DEF Finds
<1> QED BY <1>1, <1>2, <1>3 DEF Busy

(* A frame that asks for its next move, and for the same move again. *)
LEMMA AsksBusy ==
  ASSUME NEW g, NEW w, NEW f, Seated(g, f), Busy(g, w, f, FALSE), f.left # <<>>,
         NEW call, NEW h, Asks(f, h, Head(f.left), call, Tail(f.left), f.tried + 1)
  PROVE  /\ Seated(g, h) /\ Stays(g, f, h) /\ Busy(g, w, h, TRUE) /\ h.child \in Tried(g, w, f) /\ f.alpha < f.beta
         /\ Head(f.left) \in Tried(g, w, f)
<1>1. f.left \in Seq(Nat) /\ f.tried \in Nat
  BY SeatedIs
<1>2. Tail(f.left) \in Seq(Nat) /\ ToSet(Tail(f.left)) \cup {Head(f.left)} = ToSet(f.left)
  BY <1>1, LeftIs
<1>3. /\ Alike(f, h) /\ h.child = Head(f.left) /\ h.left = Tail(f.left) /\ h.tried = f.tried + 1
  BY DEF Asks
<1>4. Open(h, TRUE) = Open(f, FALSE)
  BY <1>2, <1>3 DEF Open
<1>5. f.alpha < f.beta /\ Open(f, FALSE) \subseteq Tried(g, w, f)
  BY DEF Busy
<1>6. Seated(g, h) /\ Stays(g, f, h)
  <2>1. h.left \in Seq(Nat) /\ h.tried \in Nat
    BY <1>1, <1>2, <1>3
  <2> QED BY <1>3, <2>1, AlikeStays
<1>7. Busy(g, w, h, TRUE)
  BY <1>3, <1>4, <1>5, AlikeBusy
<1>8. Head(f.left) \in Tried(g, w, f)
  BY <1>2, <1>5 DEF Open
<1> QED BY <1>3, <1>5, <1>6, <1>7, <1>8

(* Asking once more for a move leaves what has been found. *)
LEMMA AsksBusyAgain ==
  ASSUME NEW g, NEW w, NEW f, Seated(g, f), Busy(g, w, f, TRUE),
         NEW call, NEW h, Asks(f, h, f.child, call, f.left, f.tried)
  PROVE  /\ Seated(g, h) /\ Stays(g, f, h) /\ Busy(g, w, h, TRUE) /\ f.child \in Tried(g, w, f) /\ f.alpha < f.beta
         /\ h.child = f.child
<1>1. f.left \in Seq(Nat) /\ f.tried \in Nat
  BY SeatedIs
<1>3. /\ Alike(f, h) /\ h.child = f.child /\ h.left = f.left /\ h.tried = f.tried
  BY DEF Asks
<1>4. Open(h, TRUE) = Open(f, TRUE)
  BY <1>3 DEF Open
<1>5. f.alpha < f.beta /\ Open(f, TRUE) \subseteq Tried(g, w, f)
  BY DEF Busy
<1>6. Seated(g, h) /\ Stays(g, f, h)
  BY <1>1, <1>3, AlikeStays
<1>7. Busy(g, w, h, TRUE)
  BY <1>3, <1>4, <1>5, AlikeBusy
<1>8. f.child \in Tried(g, w, f)
  BY <1>5 DEF Open
<1> QED BY <1>3, <1>5, <1>6, <1>7, <1>8

--------------------------------------------------
(* Counting a move. *)

(* An earlier best does not matter beside a better one. *)
LEMMA LargerStill ==
  ASSUME NEW a \in Int, NEW x \in Int, NEW y \in Int, x <= y
  PROVE  Larger(Larger(a, x), y) = Larger(a, y)
BY DEF Larger

(* Scores that show a mate end within the plies there are. *)
LEMMA Limits ==
  ASSUME NEW s \in Int, NEW p \in Nat
  PROVE  /\ Mate - s - p - 1 \in Int /\ Mate + s - p - 1 \in Int
         /\ (Mate - s - p - 1) + 1 = Mate - s - p /\ (Mate + s - p - 1) + 1 = Mate + s - p
         /\ s >= Threshold => (Mate - s - p - 1) + 1 <= CellCount
         /\ s <= -Threshold => (Mate + s - p - 1) + 1 <= CellCount
BY DEF Threshold

(* The best score with one more move, of which s is true. *)
LEMMA FindsOn ==
  ASSUME NEW g, NEW w, NEW f, Seated(g, f), Busy(g, w, f, TRUE), f.call # "razor",
         NEW s \in Int, MateTrue(g, NextOf(g, f), f.ply + 1, -s, -AskedHigh(f), -AskedLow(f)),
         s <= -Threshold /\ s < f.beta => s < AskedHigh(f),
         f.kind = "teacher" => -Infinity <= f.alpha0,
         NEW h, h.kind = f.kind, h.node = f.node, h.ply = f.ply, h.alpha0 = f.alpha0, h.beta = f.beta,
         h.best = Larger(f.best, s), h.best < f.beta => h.left = f.left
  PROVE  Finds(g, w, h, FALSE)
<1> DEFINE c == NextOf(g, f)  low == AskedLow(f)  high == AskedHigh(f)  best == h.best  old == f.best  p == f.ply
           Loss(m, k) == Loses(g, g.next[f.node][m], k)
           Win(m, k) == Wins(g, g.next[f.node][m], k)
<1>1. /\ f.alpha0 \in Int /\ f.beta \in Int /\ old \in Int /\ p \in Nat /\ f.alpha \in Int /\ low \in Int /\ high \in Int
  BY SeatedIs
<1>2. best \in Int /\ best >= old /\ best >= s /\ best \in {old, s}
  BY <1>1, LargerIs
<1>3. Tried(g, w, h) = Tried(g, w, f)
  BY DEF Tried
<1>4. /\ Open(f, TRUE) \subseteq Tried(g, w, f) /\ Open(f, TRUE) = ToSet(f.left) \cup {f.child}
      /\ Open(h, FALSE) = ToSet(h.left)
  BY DEF Busy, Open
<1>5. /\ f.best >= Threshold /\ f.best > f.alpha0 => \E m \in Tried(g, w, f) : Loss(m, Mate - old - p - 1)
      /\ f.best <= -Threshold /\ f.best < f.beta =>
           \A m \in Tried(g, w, f) \ Open(f, TRUE) : Win(m, Mate + old - p - 1)
  BY DEF Busy, Finds
<1>6. low < s \/ s <= f.alpha0 \/ s <= old \/ ~(s >= Threshold)
  <2>1. CASE f.kind = "teacher" \/ f.call = "tie"
    <3>1. low = -Infinity
      BY <2>1 DEF AskedLow
    <3> QED BY <3>1, <1>1 DEF Threshold
  <2>2. CASE ~(f.kind = "teacher" \/ f.call = "tie")
    <3>1. low = f.alpha /\ f.alpha = Larger(f.alpha0, old)
      BY <2>2 DEF AskedLow, Busy
    <3> QED BY <3>1, <1>1 DEF Larger
  <2> QED BY <2>1, <2>2
<1>7. /\ -s >= Threshold /\ -s > -high => Wins(g, c, Mate - (-s) - (p + 1))
      /\ -s <= -Threshold /\ -s < -low => Loses(g, c, Mate + (-s) - (p + 1))
  BY DEF MateTrue
<1>8. c = g.next[f.node][f.child]
  BY DEF NextOf
<1>9. Mate - (-s) - (p + 1) = Mate + s - p - 1 /\ Mate + (-s) - (p + 1) = Mate - s - p - 1
  BY <1>1
<1>10. (-s >= Threshold <=> s <= -Threshold) /\ (-s > -high <=> s < high) /\ (-s <= -Threshold <=> s >= Threshold)
       /\ (-s < -low <=> low < s)
  BY <1>1 DEF Threshold
<1>11. /\ s <= -Threshold /\ s < high => Win(f.child, Mate + s - p - 1)
       /\ s >= Threshold /\ low < s => Loss(f.child, Mate - s - p - 1)
  BY <1>7, <1>8, <1>9, <1>10
<1>12. \A m : \A i, j \in Int : i <= j => (Win(m, i) => Win(m, j))
  BY WithinMore
<1> HIDE DEF Win, Loss, c, low, high
<1>13. best >= Threshold /\ best > f.alpha0 => \E m \in Tried(g, w, f) : Loss(m, Mate - best - p - 1)
  <2> HAVE best >= Threshold /\ best > f.alpha0
  <2>1. CASE best = old
    BY <1>5, <2>1
  <2>2. CASE best # old
    <3>1. best = s /\ ~(s <= old) /\ s > f.alpha0 /\ s >= Threshold
      BY <1>1, <1>2, <2>2
    <3>2. low < s
      <4>1. ~(s <= f.alpha0)
        BY <1>1, <3>1
      <4> QED BY <1>6, <3>1, <4>1
    <3>3. Loss(f.child, Mate - best - p - 1) /\ f.child \in Tried(g, w, f)
      BY <1>4, <1>11, <3>1, <3>2
    <3> QED BY <3>3
  <2> QED BY <2>1, <2>2
<1>14. best <= -Threshold /\ best < f.beta =>
         \A m \in Tried(g, w, f) \ Open(h, FALSE) : Win(m, Mate + best - p - 1)
  <2> HAVE best <= -Threshold /\ best < f.beta
  <2> TAKE m \in Tried(g, w, f) \ Open(h, FALSE)
  <2>1. old <= -Threshold /\ old < f.beta /\ s <= -Threshold /\ s < f.beta
    BY <1>1, <1>2 DEF Threshold
  <2>2. m = f.child \/ m \in Tried(g, w, f) \ Open(f, TRUE)
    BY <1>4
  <2>3. CASE m = f.child
    <3>1. Win(m, Mate + s - p - 1)
      BY <1>11, <2>1, <2>3 DEF high
    <3>2. Mate + s - p - 1 \in Int /\ Mate + best - p - 1 \in Int /\ Mate + s - p - 1 <= Mate + best - p - 1
      BY <1>1, <1>2
    <3> QED BY <1>12, <3>1, <3>2
  <2>4. CASE m \in Tried(g, w, f) \ Open(f, TRUE)
    <3>1. Win(m, Mate + old - p - 1)
      BY <1>5, <2>1, <2>4
    <3>2. Mate + old - p - 1 \in Int /\ Mate + best - p - 1 \in Int /\ Mate + old - p - 1 <= Mate + best - p - 1
      BY <1>1, <1>2
    <3> QED BY <1>12, <3>1, <3>2
  <2> QED BY <2>2, <2>3, <2>4
<1> QED BY <1>3, <1>13, <1>14 DEF Finds, Loss, Win

(* And the frame goes on with it. *)
LEMMA BusyOn ==
  ASSUME NEW g, IsGame(g), NEW w, NEW f, Seated(g, f), f.begun, Busy(g, w, f, TRUE), f.call # "razor",
         f.kind \in {"root", "teacher", "inner", "quiet"},
         NEW s \in Int, MateTrue(g, NextOf(g, f), f.ply + 1, -s, -AskedHigh(f), -AskedLow(f)),
         s <= -Threshold /\ s < f.beta => s < AskedHigh(f),
         NEW h, NEW best, NEW lower, NEW upper, NEW alpha \in Int, NEW left, best = Larger(f.best, s),
         GoesOnWith(f, h, f.tried, best, lower, upper, alpha, left),
         f.kind # "teacher" => alpha = Larger(f.alpha, best),
         left \in {f.left, <<>>}, best < f.beta => left = f.left, left # <<>> => alpha < f.beta
  PROVE  Stays(g, f, h) /\ Ready(g, w, h)
<1>1. /\ f.alpha \in Int /\ f.alpha0 \in Int /\ f.beta \in Int /\ f.best \in Int /\ f.left \in Seq(Nat)
      /\ f.ply \in Nat /\ f.tried \in Nat /\ -Infinity <= f.alpha0
  BY SeatedIs
<1>2. best \in Int /\ best >= f.best /\ best >= s /\ best \in {f.best, s}
  BY <1>1, LargerIs
<1>3. /\ DOMAIN h = Fields /\ h.begun = f.begun /\ h.kind = f.kind /\ h.node = f.node /\ h.depth = f.depth
      /\ h.ply = f.ply /\ h.qply = f.qply /\ h.alpha0 = f.alpha0 /\ h.beta = f.beta
      /\ h.tried = f.tried /\ h.best = best /\ h.alpha = alpha /\ h.left = left /\ Flags(h)
  BY DEF GoesOnWith
<1>4. left \in Seq(Nat)
  BY <1>1, NothingLeft
<1>5. Shaped(h)
  BY <1>2, <1>3, <1>4 DEF Shaped, Seated
<1>6. Seated(g, h)
  BY <1>3, <1>5 DEF Seated
<1>7. Stays(g, f, h)
  <2>1. Covers(h, f.alpha0, f.beta)
    BY <1>1, <1>3 DEF Covers
  <2> QED BY <1>3, <1>6, <2>1 DEF Stays
<1>8. Finds(g, w, h, FALSE)
  BY <1>1, <1>3, FindsOn
<1>9. Tried(g, w, h) = Tried(g, w, f)
  BY <1>3 DEF Tried
<1>10. Open(h, FALSE) \subseteq Tried(g, w, h)
  <2>1. Open(f, TRUE) \subseteq Tried(g, w, f) /\ Open(f, TRUE) = ToSet(f.left) \cup {f.child}
    BY DEF Busy, Open
  <2> QED BY <1>3, <1>9, <2>1, NothingLeft DEF Open
<1>11. f.kind # "teacher" =>
         ~IsFact(g, f.node) /\ Tried(g, w, f) # {} /\ alpha = Larger(f.alpha0, best)
  <2>1. f.kind # "teacher" => ~IsFact(g, f.node) /\ Tried(g, w, f) # {} /\ f.alpha = Larger(f.alpha0, f.best)
    BY DEF Busy
  <2>2. f.alpha = Larger(f.alpha0, f.best) => Larger(f.alpha, best) = Larger(f.alpha0, best)
    BY <1>1, <1>2, LargerStill
  <2> QED BY <2>1, <2>2
<1>12. f.kind = "quiet" => g.kind[f.node] = "block" \/ g.static[f.node] <= best
  <2>1. f.node \in DOMAIN g.kind /\ g.static[f.node] \in Int
    BY SeatedIs, GameIs
  <2>2. f.kind = "quiet" => g.kind[f.node] = "block" \/ g.static[f.node] <= f.best
    BY DEF Busy
  <2>3. \A x \in Int : x <= f.best => x <= best
    BY <1>1, <1>2
  <2> QED BY <2>1, <2>2, <2>3
<1>13. f.kind # "quiet" => f.depth >= 1
  BY DEF Busy
<1>14. Busy(g, w, h, FALSE)
  BY <1>3, <1>8, <1>9, <1>10, <1>11, <1>12, <1>13 DEF Busy
<1> QED BY <1>3, <1>7, <1>14 DEF Ready

(* What a frame has found when nothing is left of it. *)
LEMMA BusyFound ==
  ASSUME NEW g, IsGame(g), NEW w, NEW f, Seated(g, f), Busy(g, w, f, FALSE), f.left = <<>>,
         f.kind \in Deep \/ (f.kind = "root" /\ Tried(g, w, f) = Chosen(g, f.node))
  PROVE  MateTrue(g, f.node, f.ply, f.best, f.alpha0, f.beta)
<1> DEFINE n == f.node  p == f.ply  s == f.best
<1>1. n \in DOMAIN g.kind /\ p \in Nat /\ s \in Int /\ f.beta \in Int /\ f.alpha0 \in Int
  BY SeatedIs
<1>2. f.kind \in {"inner", "quiet", "root"} /\ (f.kind = "root" => Tried(g, w, f) = Chosen(g, n))
  BY DEF Deep
<1>3. /\ ~IsFact(g, n) /\ Tried(g, w, f) # {}
      /\ f.kind = "quiet" => g.kind[n] = "block" \/ g.static[n] <= s
      /\ s >= Threshold /\ s > f.alpha0 => \E m \in Tried(g, w, f) : Loses(g, g.next[n][m], Mate - s - p - 1)
      /\ s <= -Threshold /\ s < f.beta =>
           \A m \in Tried(g, w, f) \ Open(f, FALSE) : Wins(g, g.next[n][m], Mate + s - p - 1)
  BY <1>2 DEF Busy, Finds
<1>4. Open(f, FALSE) = {}
  BY NothingLeft DEF Open
<1>5. Tried(g, w, f) \subseteq Chosen(g, n)
  BY <1>1, <1>2, <1>3, TriedAre
<1>6. s >= Threshold /\ s > f.alpha0 => Wins(g, n, Mate - s - p)
  <2> HAVE s >= Threshold /\ s > f.alpha0
  <2>1. PICK m \in Chosen(g, n) : Loses(g, g.next[n][m], Mate - s - p - 1)
    BY <1>3, <1>5
  <2> DEFINE k == Mate - s - p - 1
  <2>2. k \in Int /\ k + 1 <= CellCount /\ k + 1 = Mate - s - p
    BY <1>1, Limits
  <2> HIDE DEF k, s, p
  <2>3. Wins(g, n, k + 1)
    <3>1. Loses(g, g.next[n][m], k)
      BY <2>1 DEF k, s, p
    <3> QED BY <1>1, <1>3, <2>2, <3>1, WinStep
  <2> QED BY <2>2, <2>3 DEF s, p
<1>7. s <= -Threshold /\ s < f.beta => Loses(g, n, Mate + s - p)
  <2> HAVE s <= -Threshold /\ s < f.beta
  <2>1. Tried(g, w, f) = Chosen(g, n)
    <3>1. CASE f.kind = "inner"
      BY <1>1, <3>1, TriedAre
    <3>2. CASE f.kind = "quiet"
      <4>1. g.static[n] \in Int /\ ~IsMate(g.static[n])
        BY <1>1, GameIs
      <4>2. ~(g.static[n] <= s)
        BY <1>1, <4>1 DEF IsMate, Threshold
      <4> QED BY <1>1, <1>3, <3>2, <4>2, TriedAre
    <3>3. CASE f.kind = "root"
      BY <1>2, <3>3
    <3> QED BY <1>2, <3>1, <3>2, <3>3
  <2>2. \A m \in Chosen(g, n) : Wins(g, g.next[n][m], Mate + s - p - 1)
    BY <1>3, <1>4, <2>1
  <2> DEFINE k == Mate + s - p - 1
  <2>3. k \in Int /\ k + 1 <= CellCount /\ k + 1 = Mate + s - p
    BY <1>1, Limits
  <2> HIDE DEF k, s, p
  <2>4. Loses(g, n, k + 1)
    <3>1. \A m \in Chosen(g, n) : Wins(g, g.next[n][m], k)
      BY <2>2 DEF k, s, p
    <3>2. Chosen(g, n) # {}
      BY <1>3, <2>1
    <3> QED BY <1>1, <1>3, <2>3, <3>1, <3>2, LossStep
  <2> QED BY <2>3, <2>4 DEF s, p
<1> QED BY <1>1, <1>6, <1>7 DEF MateTrue

--------------------------------------------------
(* Leaves, again. *)

(* A frontier node goes to the quiescence search. *)
LEMMA VisitLeafHunts ==
  ASSUME NEW w, Hunting(w), VisitLeaf(w)
  PROVE  Hunts(w)
<1> DEFINE f == Top(w)  h == [f EXCEPT !.kind = "quiet"]
<1>1. Fresh(w) /\ f.kind = "inner" /\ worker' = Replace(w, h)
  BY DEF VisitLeaf
<1>2. /\ worker[w].phase = "search" /\ Stack(w) # <<>> /\ Seated(G, f) /\ ~f.begun /\ Unopened(G, w, f)
      /\ DOMAIN f = Fields /\ f.alpha0 \in Int /\ f.beta \in Int
  BY <1>1, FreshHunt
<1>3. Shaped(f) /\ Flags(f)
  BY <1>2 DEF Seated
<1> HIDE DEF f
<1>4. /\ DOMAIN h = Fields /\ h.kind = "quiet" /\ h.node = f.node /\ h.depth = f.depth /\ h.alpha = f.alpha
      /\ h.beta = f.beta /\ h.ply = f.ply /\ h.qply = f.qply /\ h.begun = f.begun /\ h.alpha0 = f.alpha0
      /\ h.left = f.left /\ h.tried = f.tried /\ h.best = f.best /\ h.lower = f.lower /\ h.upper = f.upper
  BY <1>2 DEF Fields
<1> HIDE DEF h
<1>5. Seated(G, h)
  <2>1. Shaped(h)
    BY <1>3, <1>4 DEF Shaped
  <2>2. Flags(h)
    BY <1>3, <1>4 DEF Flags
  <2> QED BY <1>2, <1>4, <2>1, <2>2 DEF Seated
<1>6. Stays(G, f, h)
  <2>1. Covers(h, f.alpha0, f.beta)
    BY <1>2, <1>4 DEF Covers
  <2> QED BY <1>1, <1>4, <1>5, <2>1 DEF Stays, Deep
<1>7. Ready(G, w, h)
  BY <1>2, <1>4 DEF Ready, Unopened
<1> QED BY <1>1, <1>2, <1>6, <1>7, HuntReplace DEF f

(* A fact in the quiescence search is the mate it says. *)
LEMMA QuietFactHunts ==
  ASSUME NEW w, Hunting(w), QuietFact(w)
  PROVE  Hunts(w)
<1> DEFINE f == Top(w)  s == Fact(G, f.node, f.ply)  r == Verified(s, f.alpha, f.beta)
<1>1. Fresh(w) /\ f.kind = "quiet" /\ IsFact(G, f.node) /\ worker' = Pop(w, r)
  BY DEF QuietFact, Quiet, Finishes
<1>2. /\ worker[w].phase = "search" /\ Stack(w) # <<>> /\ IsGame(G) /\ f.node \in DOMAIN G.kind /\ f.ply \in Nat
      /\ f.ply + G.free[f.node] <= CellCount /\ f.alpha \in Int /\ f.beta \in Int /\ f.alpha < f.beta
  BY <1>1, FreshHunt
<1>3. MateTrue(G, f.node, f.ply, s, f.alpha0, f.beta)
  BY <1>1, <1>2, FactMate
<1>4. s \in Int
  BY <1>3 DEF MateTrue
<1>5. r \in Results /\ r.score = s
  <2> HIDE DEF s
  <2> QED BY <1>2, <1>4, VerifiedIs
<1>6. Found(G, f, r)
  BY <1>3, <1>5 DEF Found
<1> HIDE DEF s, r
<1> QED BY <1>1, <1>2, <1>6, HuntPop DEF Deep

(* Standing pat shows no mate. *)
LEMMA StandPatHunts ==
  ASSUME NEW w, Hunting(w), StandPat(w)
  PROVE  Hunts(w)
<1> DEFINE f == Top(w)  s == G.static[f.node]  r == Verified(s, f.alpha, f.beta)
<1>1. Fresh(w) /\ f.kind = "quiet" /\ worker' = Pop(w, r)
  BY DEF StandPat, Quiet, Finishes
<1>2. /\ worker[w].phase = "search" /\ Stack(w) # <<>> /\ IsGame(G) /\ f.node \in DOMAIN G.kind
      /\ f.alpha \in Int /\ f.beta \in Int /\ f.alpha < f.beta
  BY <1>1, FreshHunt
<1>3. s \in Int /\ ~IsMate(s)
  BY <1>2, GameIs
<1> HIDE DEF s
<1>4. MateTrue(G, f.node, f.ply, s, f.alpha0, f.beta)
  BY <1>3, NoMate
<1>5. r \in Results /\ r.score = s
  BY <1>2, <1>3, VerifiedIs
<1>6. Found(G, f, r)
  BY <1>4, <1>5 DEF Found
<1> HIDE DEF r
<1> QED BY <1>1, <1>2, <1>6, HuntPop DEF Deep

(* Forcing moves on top of standing pat, or a forced block. *)
LEMMA VisitQuietHunts ==
  ASSUME NEW w, Hunting(w), VisitQuiet(w)
  PROVE  Hunts(w)
<1> DEFINE f == Top(w)  n == f.node  block == G.kind[n] = "block"
           stand == IF block THEN -Infinity ELSE G.static[n]
           alpha == Larger(f.alpha, stand)
           H(order) == [Begun(f, order) EXCEPT !.best = stand, !.alpha = Larger(@, stand)]
<1>1. /\ Fresh(w) /\ f.kind = "quiet" /\ ~IsFact(G, n) /\ ~StandsPat(f)
  BY DEF VisitQuiet, Quiet
<1>2. PICK order \in IF block THEN {<<1>>} ELSE Orders(n, Forcing(G, n), 0) : worker' = Replace(w, H(order))
  BY DEF VisitQuiet
<1> DEFINE h == H(order)
<1>3. /\ worker[w].phase = "search" /\ Stack(w) # <<>> /\ IsGame(G) /\ Seated(G, f) /\ n \in DOMAIN G.kind
      /\ f.alpha \in Int /\ f.beta \in Int /\ f.alpha0 = f.alpha /\ f.alpha < f.beta /\ -Infinity <= f.alpha
      /\ DOMAIN f = Fields
  BY <1>1, FreshHunt
<1>4. block \/ (Forcing(G, n) # {} /\ G.static[n] < f.beta)
  <2>1. G.static[n] \in Int
    BY <1>3, GameIs
  <2> QED BY <1>1, <1>3, <2>1 DEF StandsPat
<1>5. order \in Seq(Nat) /\ ToSet(order) = QuietMoves(G, n) /\ QuietMoves(G, n) # {}
  BY <1>2, <1>3, <1>4, QuietOrders
<1>6. stand \in Int /\ ~(stand >= Threshold) /\ (block \/ stand = G.static[n])
  <2>1. G.static[n] \in Int /\ ~IsMate(G.static[n])
    BY <1>3, GameIs
  <2>2. -Infinity \in Int /\ ~(-Infinity >= Threshold)
    BY DEF Threshold
  <2> QED BY <2>1, <2>2 DEF IsMate
<1>7. alpha \in Int /\ alpha < f.beta
  <2>1. block => stand = -Infinity
    OBVIOUS
  <2>2. ~block => stand < f.beta
    BY <1>4
  <2> HIDE DEF stand, block
  <2> QED BY <1>3, <1>6, <2>1, <2>2 DEF Larger
<1>8. Shaped(f) /\ Flags(f)
  BY <1>3 DEF Seated
<1> HIDE DEF f
<1>9. /\ DOMAIN h = Fields /\ h.kind = f.kind /\ h.node = f.node /\ h.depth = f.depth /\ h.alpha = alpha
      /\ h.beta = f.beta /\ h.ply = f.ply /\ h.qply = f.qply /\ h.begun = TRUE /\ h.alpha0 = f.alpha0
      /\ h.left = order /\ h.tried = f.tried /\ h.best = stand /\ h.lower = f.lower /\ h.upper = f.upper
  BY <1>3 DEF Fields, Begun
<1> HIDE DEF h, stand, block, alpha
<1>10. Seated(G, h)
  <2>1. Shaped(h)
    BY <1>5, <1>6, <1>7, <1>8, <1>9 DEF Shaped
  <2>2. Flags(h)
    BY <1>8, <1>9 DEF Flags
  <2> QED BY <1>3, <1>9, <2>1, <2>2 DEF Seated
<1>11. Stays(G, f, h)
  <2>1. Covers(h, f.alpha0, f.beta)
    BY <1>3, <1>9 DEF Covers
  <2> QED BY <1>9, <1>10, <2>1 DEF Stays
<1>12. Ready(G, w, h)
  <2>1. Tried(G, w, h) = QuietMoves(G, n) /\ Open(h, FALSE) = QuietMoves(G, n)
    BY <1>1, <1>5, <1>9 DEF Tried, Open
  <2>2. Finds(G, w, h, FALSE)
    BY <1>6, <1>9, <2>1 DEF Finds
  <2>3. h.alpha = Larger(h.alpha0, h.best)
    BY <1>3, <1>9 DEF alpha
  <2>4. G.kind[h.node] = "block" \/ G.static[h.node] <= h.best
    BY <1>6, <1>9 DEF block
  <2>5. Busy(G, w, h, FALSE)
    BY <1>1, <1>5, <1>7, <1>9, <2>1, <2>2, <2>3, <2>4 DEF Busy
  <2> QED BY <1>9, <2>5 DEF Ready
<1> QED BY <1>2, <1>3, <1>11, <1>12, HuntReplace DEF f, h, stand, block

--------------------------------------------------
(* What is known of a frame between two moves, for mates. *)
LEMMA AdvancesHunt ==
  ASSUME NEW w, Hunting(w), Advances(w) \/ Exhausted(w)
  PROVE  /\ worker[w].phase = "search" /\ Stack(w) # <<>> /\ IsGame(G) /\ Seated(G, Top(w)) /\ Top(w).begun
         /\ Busy(G, w, Top(w), FALSE) /\ Top(w).kind \in {"root", "teacher", "inner", "quiet"}
         /\ DOMAIN Top(w) = Fields /\ Top(w).node \in DOMAIN G.kind /\ Top(w).ply \in Nat
         /\ Top(w).ply + G.free[Top(w).node] <= CellCount
         /\ Top(w).alpha \in Int /\ Top(w).beta \in Int /\ Top(w).alpha0 \in Int /\ Top(w).alpha0 < Top(w).beta
         /\ -Infinity <= Top(w).alpha0 /\ Top(w).beta <= Infinity /\ Top(w).best \in Int
         /\ Top(w).depth \in 0..MaxDepth /\ Top(w).qply \in 0..MaxQsearchPly
         /\ (Advances(w) => Top(w).left # <<>>) /\ (Exhausted(w) => Top(w).left = <<>>)
<1>1. worker[w].phase = "search" /\ Returned(w) = Nothing /\ Top(w).begun
  BY DEF Advances, Exhausted
<1>2. Stack(w) # <<>>
  BY <1>1, HuntNothing
<1>3. /\ IsGame(G) /\ Seated(G, Top(w)) /\ Ready(G, w, Top(w)) /\ Top(w).kind \in {"root", "teacher", "inner", "quiet"}
  BY <1>1, <1>2, HuntIs, Zenon
<1>4. Busy(G, w, Top(w), FALSE)
  BY <1>1, <1>3 DEF Ready
<1>5. (Advances(w) => Top(w).left # <<>>) /\ (Exhausted(w) => Top(w).left = <<>>)
  BY DEF Advances, Exhausted
<1>6. /\ DOMAIN Top(w) = Fields /\ Top(w).node \in DOMAIN G.kind /\ Top(w).ply \in Nat
      /\ Top(w).ply + G.free[Top(w).node] <= CellCount
      /\ Top(w).alpha \in Int /\ Top(w).beta \in Int /\ Top(w).alpha0 \in Int /\ Top(w).alpha0 < Top(w).beta
      /\ -Infinity <= Top(w).alpha0 /\ Top(w).beta <= Infinity /\ Top(w).best \in Int
      /\ Top(w).depth \in 0..MaxDepth /\ Top(w).qply \in 0..MaxQsearchPly
  BY <1>3, SeatedIs
<1> QED BY <1>1, <1>2, <1>3, <1>4, <1>5, <1>6

(* Alpha stays within the window of the search. *)
LEMMA AlphaIs ==
  ASSUME NEW g, NEW w, NEW f, Seated(g, f), f.kind # "teacher", NEW p, Busy(g, w, f, p)
  PROVE  -Infinity <= f.alpha /\ f.alpha \in Int
<1>1. f.alpha0 \in Int /\ f.best \in Int /\ -Infinity <= f.alpha0 /\ f.alpha = Larger(f.alpha0, f.best)
  BY SeatedIs DEF Busy
<1>2. f.alpha \in Int /\ f.alpha >= f.alpha0
  BY <1>1, LargerIs
<1> QED BY <1>1, <1>2

(* A forcing move is asked for with the window turned. *)
LEMMA TryQuietHunts ==
  ASSUME NEW w, Hunting(w), TryQuiet(w)
  PROVE  Hunts(w)
<1> DEFINE f == Top(w)  m == Head(f.left)
           h == [f EXCEPT !.left = Tail(@), !.tried = @ + 1, !.call = "quiet", !.child = m]
           d == G.next[f.node][m]  q == Quieter(f.qply)
           c == [Frame("quiet", d, 0, -f.beta, -f.alpha, f.ply + 1, 0) EXCEPT !.qply = q]
<1>1. Advances(w) /\ f.kind = "quiet" /\ worker' = Push(w, h, c)
  BY DEF TryQuiet
<1>2. /\ worker[w].phase = "search" /\ Stack(w) # <<>> /\ IsGame(G) /\ Seated(G, f) /\ f.begun
      /\ Busy(G, w, f, FALSE) /\ DOMAIN f = Fields /\ f.node \in DOMAIN G.kind /\ f.ply \in Nat
      /\ f.ply + G.free[f.node] <= CellCount /\ f.left # <<>>
      /\ f.alpha \in Int /\ f.beta \in Int /\ f.beta <= Infinity /\ f.qply \in 0..MaxQsearchPly
  BY <1>1, AdvancesHunt
<1>3. Asks(f, h, m, "quiet", Tail(f.left), f.tried + 1)
  <2> HIDE DEF f
  <2> QED BY <1>2, AsksQuiet
<1> HIDE DEF h
<1>4. /\ Seated(G, h) /\ Stays(G, f, h) /\ Busy(G, w, h, TRUE) /\ f.alpha < f.beta /\ m \in Tried(G, w, f)
  BY <1>2, <1>3, AsksBusy
<1>5. -Infinity <= f.alpha
  BY <1>1, <1>2, AlphaIs
<1>6. /\ h.kind = "quiet" /\ h.call = "quiet" /\ h.begun /\ h.child = m /\ h.node = f.node /\ h.ply = f.ply
      /\ h.alpha = f.alpha /\ h.beta = f.beta
  BY <1>1, <1>2, <1>3 DEF Asks, Alike
<1>7. /\ d \in DOMAIN G.kind /\ f.ply + 1 + G.free[d] <= CellCount
  <2>1. d \in DOMAIN G.kind /\ G.free[d] \in Nat /\ G.free[d] < G.free[f.node] /\ G.free[f.node] \in Nat
    BY <1>1, <1>2, <1>4, TriedAre
  <2> HIDE DEF d, f
  <2> QED BY <1>2, <2>1
<1>8. Place(G, d, 0, -f.beta, -f.alpha, f.ply + 1) /\ q \in 0..MaxQsearchPly
  <2>1. q \in 0..MaxQsearchPly
    BY <1>2, QuieterIs
  <2>2. MaxDepth \in Nat
    BY AlphaBetaAssumption
  <2> HIDE DEF d, f, q
  <2> QED BY <1>2, <1>4, <1>5, <1>7, <2>1, <2>2 DEF Place
<1>9. Framed(c, "quiet", d, 0, -f.beta, -f.alpha, f.ply + 1, q)
  <2> HIDE DEF d, f, q
  <2> QED BY <1>8, QuietFrameOk
<1>10. Seated(G, c) /\ Ready(G, w, c) /\ c.kind \in Deep
  <2> HIDE DEF d, f, q, c
  <2> QED BY <1>8, <1>9, FramedSeated DEF Deep
<1>11. Pauses(G, w, h)
  BY <1>4, <1>6 DEF Pauses
<1>12. Serves(G, h, c)
  <2>1. GoalLow(h) = -f.beta /\ GoalHigh(h) = -f.alpha /\ Goal(G, h) = d /\ GoalPly(h) = f.ply + 1
    BY <1>6 DEF GoalLow, GoalHigh, AskedLow, AskedHigh, Goal, GoalPly, NextOf
  <2>2. c.alpha0 = -f.beta /\ c.beta = -f.alpha /\ c.node = d /\ c.ply = f.ply + 1
    BY <1>9 DEF Framed
  <2> HIDE DEF d, f, q, c
  <2> QED BY <1>2, <2>1, <2>2 DEF Serves, Covers
<1> HIDE DEF c
<1> QED BY <1>1, <1>2, <1>4, <1>10, <1>11, <1>12, HuntPush

(* What is known of a frame with an answer, for mates. *)
LEMMA AnsweredHunt ==
  ASSUME NEW w, Hunting(w), Answered(w)
  PROVE  /\ worker[w].phase = "search" /\ Stack(w) # <<>> /\ IsGame(G) /\ Seated(G, Top(w))
         /\ Pauses(G, w, Top(w)) /\ Replied(G, Top(w), Returned(w)) /\ Top(w).kind \in {"root", "teacher", "inner", "quiet"}
         /\ Returned(w) \in Results /\ Returned(w).score \in Int
         /\ Answer(w).score = -Returned(w).score /\ Answer(w).score \in Int /\ -Answer(w).score = Returned(w).score
         /\ Answer(w).lower = Returned(w).upper /\ Answer(w).upper = Returned(w).lower
         /\ Answer(w).lower \in BOOLEAN /\ Answer(w).upper \in BOOLEAN
         /\ DOMAIN Top(w) = Fields /\ Top(w).node \in DOMAIN G.kind /\ Top(w).ply \in Nat
         /\ Top(w).ply + G.free[Top(w).node] <= CellCount
         /\ Top(w).alpha \in Int /\ Top(w).beta \in Int /\ Top(w).alpha0 \in Int /\ Top(w).alpha0 < Top(w).beta
         /\ -Infinity <= Top(w).alpha0 /\ Top(w).beta <= Infinity /\ Top(w).best \in Int
         /\ Top(w).depth \in 0..MaxDepth /\ Flags(Top(w))
<1>1. worker[w].phase = "search" /\ Stack(w) # <<>> /\ Returned(w) # Nothing
  BY DEF Answered
<1>2. /\ IsGame(G) /\ Seated(G, Top(w)) /\ Top(w).kind \in {"root", "teacher", "inner", "quiet"}
      /\ Pauses(G, w, Top(w)) /\ Replied(G, Top(w), Returned(w))
  BY <1>1, HuntIs, Zenon
<1>3. Returned(w) \in Results
  BY <1>2 DEF Replied
<1> DEFINE r == Returned(w)
<1>4. r.score \in Int /\ r.lower \in BOOLEAN /\ r.upper \in BOOLEAN
  BY <1>3 DEF Results
<1>5. Answer(w).score = -r.score /\ Answer(w).lower = r.upper /\ Answer(w).upper = r.lower
  BY DEF Answer, Negated, Result
<1>6. /\ DOMAIN Top(w) = Fields /\ Top(w).node \in DOMAIN G.kind /\ Top(w).ply \in Nat
      /\ Top(w).ply + G.free[Top(w).node] <= CellCount
      /\ Top(w).alpha \in Int /\ Top(w).beta \in Int /\ Top(w).alpha0 \in Int /\ Top(w).alpha0 < Top(w).beta
      /\ -Infinity <= Top(w).alpha0 /\ Top(w).beta <= Infinity /\ Top(w).best \in Int
      /\ Top(w).depth \in 0..MaxDepth
  BY <1>2, SeatedIs
<1>7. Flags(Top(w))
  BY <1>2 DEF Seated
<1>8. -r.score \in Int /\ -(-r.score) = r.score
  <2> DEFINE x == r.score
  <2>1. x \in Int
    BY <1>4
  <2> HIDE DEF x
  <2>2. -x \in Int /\ -(-x) = x
    BY <2>1
  <2> QED BY <2>2 DEF x
<1> HIDE DEF r
<1>9. /\ Answer(w).score = -r.score /\ Answer(w).score \in Int /\ -Answer(w).score = r.score
      /\ Answer(w).lower \in BOOLEAN /\ Answer(w).upper \in BOOLEAN
  BY <1>4, <1>5, <1>8
<1> QED BY <1>1, <1>2, <1>3, <1>4, <1>5, <1>6, <1>7, <1>9 DEF r

(* A forcing reply counts; the others can only be better. *)
LEMMA TakeQuietHunts ==
  ASSUME NEW w, Hunting(w), TakeQuiet(w)
  PROVE  Hunts(w)
<1> DEFINE f == Top(w)  s == Answer(w).score  best == Larger(f.best, s)  alpha == Larger(f.alpha, best)
           left == IF alpha >= f.beta THEN <<>> ELSE f.left
           h == [f EXCEPT !.best = best, !.alpha = alpha, !.left = left]
<1>1. Answered(w) /\ f.kind = "quiet" /\ worker' = Replace(w, h)
  BY DEF TakeQuiet
<1>2. /\ worker[w].phase = "search" /\ Stack(w) # <<>> /\ IsGame(G) /\ Seated(G, f) /\ DOMAIN f = Fields
      /\ Pauses(G, w, f) /\ Replied(G, f, Returned(w)) /\ s \in Int /\ -s = Returned(w).score /\ Flags(f)
      /\ f.alpha \in Int /\ f.beta \in Int /\ f.best \in Int
  BY <1>1, AnsweredHunt
<1>3. f.begun /\ f.call = "quiet" /\ Busy(G, w, f, TRUE)
  BY <1>1, <1>2 DEF Pauses
<1>5. MateTrue(G, NextOf(G, f), f.ply + 1, -s, -AskedHigh(f), -AskedLow(f)) /\ AskedHigh(f) = f.beta
  <2>1. GoalLow(f) = -AskedHigh(f) /\ GoalHigh(f) = -AskedLow(f) /\ Goal(G, f) = NextOf(G, f) /\ GoalPly(f) = f.ply + 1
    BY <1>3 DEF GoalLow, GoalHigh, Goal, GoalPly
  <2>2. AskedHigh(f) = f.beta
    BY <1>1, <1>3 DEF AskedHigh
  <2> HIDE DEF f, s
  <2> QED BY <1>2, <2>1, <2>2 DEF Replied
<1>6. best \in Int /\ alpha \in Int /\ best >= f.best /\ best >= s /\ alpha \in {f.alpha, best}
  <2> HIDE DEF f, s
  <2>1. best \in Int /\ best >= f.best /\ best >= s
    BY <1>2, LargerIs
  <2> HIDE DEF best
  <2> QED BY <1>2, <2>1, LargerIs
<1>7. f.alpha < f.beta
  BY <1>3 DEF Busy
<1>8. /\ best < f.beta => left = f.left
      /\ left # <<>> => alpha < f.beta
      /\ left \in {f.left, <<>>}
  <2> HIDE DEF f, s, best, alpha
  <2> QED BY <1>2, <1>6, <1>7
<1> HIDE DEF s
<1>9. GoesOnWith(f, h, f.tried, best, f.lower, f.upper, alpha, left)
  <2>1. Turned(f, h, best, f.lower, f.upper, alpha, left)
    <3> HIDE DEF f, best, alpha, left
    <3> QED BY <1>2, TurnedQuiet
  <2>2. f.lower \in BOOLEAN /\ f.upper \in BOOLEAN
    BY <1>2 DEF Flags
  <2> HIDE DEF h, f, best, alpha, left
  <2> QED BY <2>1, <2>2, TurnedGoesOn
<1>10. Stays(G, f, h) /\ Ready(G, w, h)
  <2>0. f.kind \in {"root", "teacher", "inner", "quiet"} /\ f.call # "razor" /\ alpha = Larger(f.alpha, best)
        /\ best = Larger(f.best, s)
    BY <1>1, <1>3
  <2> HIDE DEF h, f, best, alpha, left
  <2> QED BY <2>0, <1>2, <1>3, <1>5, <1>6, <1>8, <1>9, BusyOn
<1> HIDE DEF h, f
<1> QED BY <1>1, <1>2, <1>10, HuntReplace DEF f

(* The quiescence search returns a true mate, or none. *)
LEMMA FinishQuietHunts ==
  ASSUME NEW w, Hunting(w), FinishQuiet(w)
  PROVE  Hunts(w)
<1> DEFINE f == Top(w)  r == Verified(f.best, f.alpha0, f.beta)
<1>1. Exhausted(w) /\ f.kind = "quiet" /\ worker' = Pop(w, r)
  BY DEF FinishQuiet, Finishes
<1>2. /\ worker[w].phase = "search" /\ Stack(w) # <<>> /\ IsGame(G) /\ Seated(G, f)
      /\ Busy(G, w, f, FALSE) /\ f.left = <<>> /\ f.alpha0 \in Int /\ f.beta \in Int /\ f.alpha0 < f.beta /\ f.best \in Int
  BY <1>1, AdvancesHunt
<1>3. f.kind \in Deep
  BY <1>1 DEF Deep
<1>4. MateTrue(G, f.node, f.ply, f.best, f.alpha0, f.beta)
  BY <1>2, <1>3, BusyFound
<1>5. r \in Results /\ r.score = f.best
  BY <1>2, VerifiedIs
<1>6. Found(G, f, r)
  BY <1>4, <1>5 DEF Found
<1> HIDE DEF r
<1> QED BY <1>1, <1>2, <1>3, <1>6, HuntPop

--------------------------------------------------
(* Inner positions, again. *)

(* What is known of an inner node not begun yet, for mates. *)
LEMMA InnerHunt ==
  ASSUME NEW w, Hunting(w), Inner(w)
  PROVE  /\ worker[w].phase = "search" /\ Stack(w) # <<>> /\ IsGame(G) /\ Seated(G, Top(w)) /\ ~Top(w).begun
         /\ Unopened(G, w, Top(w)) /\ Top(w).kind = "inner" /\ Top(w).kind \in Deep /\ Top(w).depth >= 1
         /\ DOMAIN Top(w) = Fields /\ Top(w).node \in DOMAIN G.kind /\ Top(w).ply \in Nat
         /\ Top(w).ply + G.free[Top(w).node] <= CellCount /\ Top(w).ply <= CellCount
         /\ Top(w).alpha \in Int /\ Top(w).beta \in Int /\ Top(w).alpha = Top(w).alpha0 /\ Top(w).alpha < Top(w).beta
         /\ Top(w).depth \in 0..MaxDepth
<1>1. Fresh(w) /\ Top(w).kind = "inner" /\ Top(w).depth > 0
  BY DEF Inner
<1>2. /\ worker[w].phase = "search" /\ Stack(w) # <<>> /\ IsGame(G) /\ Seated(G, Top(w)) /\ ~Top(w).begun
      /\ Unopened(G, w, Top(w))
      /\ DOMAIN Top(w) = Fields /\ Top(w).node \in DOMAIN G.kind /\ Top(w).ply \in Nat
      /\ Top(w).ply + G.free[Top(w).node] <= CellCount
      /\ Top(w).alpha \in Int /\ Top(w).beta \in Int /\ Top(w).alpha = Top(w).alpha0 /\ Top(w).alpha < Top(w).beta
      /\ Top(w).depth \in 0..MaxDepth
  BY <1>1, FreshHunt
<1>3. G.free[Top(w).node] \in Nat
  BY <1>2, GameIs
<1>4. Top(w).ply <= CellCount
  <2> DEFINE p == Top(w).ply  r == G.free[Top(w).node]
  <2>1. p \in Nat /\ r \in Nat /\ p + r <= CellCount
    BY <1>2, <1>3
  <2> HIDE DEF p, r
  <2>2. p <= CellCount
    BY <2>1
  <2> QED BY <2>2 DEF p
<1>5. Top(w).depth >= 1 /\ Top(w).kind \in Deep
  <2>1. Top(w).depth \in Nat
    BY <1>2, AlphaBetaAssumption
  <2> QED BY <1>1, <2>1 DEF Deep
<1> QED BY <1>1, <1>2, <1>4, <1>5

(* The window without the mates out of reach. *)
LEMMA NarrowIs ==
  ASSUME NEW f, f.alpha \in Int, f.beta \in Int, f.alpha < f.beta, f.ply \in Nat, f.ply <= CellCount
  PROVE  /\ Low(f) \in Int /\ High(f) \in Int
         /\ Low(f) >= f.alpha /\ High(f) <= f.beta
         /\ Low(f) <= f.alpha \/ Low(f) < Threshold
         /\ High(f) >= f.beta \/ High(f) > -Threshold
         /\ ~Closed(f) => Low(f) < High(f)
         /\ Closed(f) /\ Low(f) >= f.beta => ~(Low(f) >= Threshold /\ Low(f) > f.alpha)
         /\ Closed(f) /\ ~(Low(f) >= f.beta) => High(f) <= f.alpha /\ ~(High(f) <= -Threshold)
<1> DEFINE a == f.alpha  b == f.beta  p == f.ply  l == Low(f)  h == High(f)
<1>1. a \in Int /\ b \in Int /\ p \in Nat /\ p <= CellCount /\ a < b
  OBVIOUS
<1>2. l = Larger(a, -Mate + p) /\ h = Smaller(b, Mate - p - 1)
  BY DEF Low, High
<1>3. Closed(f) <=> l >= b \/ l >= h
  BY DEF Closed
<1> HIDE DEF a, b, p, l, h
<1>4. /\ l \in Int /\ l >= a /\ (l = a \/ l = -Mate + p)
      /\ h \in Int /\ h <= b /\ (h = b \/ h = Mate - p - 1)
  <2>1. -Mate + p \in Int /\ Mate - p - 1 \in Int
    BY <1>1
  <2> QED BY <1>1, <1>2, <2>1 DEF Larger, Smaller
<1>5. -Mate + p < Threshold /\ Mate - p - 1 > -Threshold /\ -Mate + p < Mate - p - 1
  BY <1>1 DEF Threshold
<1>6. (l <= a \/ l < Threshold) /\ (h >= b \/ h > -Threshold)
  BY <1>1, <1>4, <1>5
<1>7. ~Closed(f) => l < h
  BY <1>3, <1>4
<1>8. ~(l >= Threshold /\ l > a)
  BY <1>1, <1>4, <1>5 DEF Threshold
<1>9. Closed(f) /\ ~(l >= b) => h <= a /\ ~(h <= -Threshold)
  <2> HAVE Closed(f) /\ ~(l >= b)
  <2>1. l >= h /\ l < b
    BY <1>1, <1>3, <1>4
  <2>2. h = Mate - p - 1
    BY <1>1, <1>4, <2>1
  <2>3. l = a
    BY <1>1, <1>4, <1>5, <2>1, <2>2
  <2> QED BY <1>1, <1>4, <1>5, <2>1, <2>2, <2>3 DEF Threshold
<1> QED BY <1>4, <1>6, <1>7, <1>8, <1>9 DEF a, b, l, h

(* What is true of a score in the narrow window is in the whole of it. *)
LEMMA NarrowFound ==
  ASSUME NEW g, NEW f, f.alpha \in Int, f.beta \in Int, f.alpha < f.beta, f.ply \in Nat, f.ply <= CellCount,
         NEW s, MateTrue(g, f.node, f.ply, s, Low(f), High(f))
  PROVE  MateTrue(g, f.node, f.ply, s, f.alpha, f.beta)
<1> DEFINE c == [alpha0 |-> Low(f), beta |-> High(f)]
<1>1. /\ Low(f) \in Int /\ High(f) \in Int
      /\ Low(f) <= f.alpha \/ Low(f) < Threshold
      /\ High(f) >= f.beta \/ High(f) > -Threshold
  BY NarrowIs
<1>2. c.alpha0 = Low(f) /\ c.beta = High(f)
  OBVIOUS
<1> HIDE DEF c
<1>3. Covers(c, f.alpha, f.beta)
  BY <1>1, <1>2 DEF Covers
<1> QED BY <1>1, <1>2, <1>3, Covered

(* A fact inside the tree is the mate it says. *)
LEMMA VisitFactHunts ==
  ASSUME NEW w, Hunting(w), VisitFact(w)
  PROVE  Hunts(w)
<1> DEFINE f == Top(w)  s == Fact(G, f.node, f.ply)  r == Complete(s)
<1>1. Inner(w) /\ IsFact(G, f.node) /\ worker' = Pop(w, r)
  BY DEF VisitFact, Finishes
<1>2. /\ worker[w].phase = "search" /\ Stack(w) # <<>> /\ IsGame(G) /\ f.node \in DOMAIN G.kind /\ f.ply \in Nat
      /\ f.ply + G.free[f.node] <= CellCount /\ f.kind \in Deep
  BY <1>1, InnerHunt
<1>3. MateTrue(G, f.node, f.ply, s, f.alpha0, f.beta)
  BY <1>1, <1>2, FactMate
<1>4. s \in Int
  BY <1>3 DEF MateTrue
<1>5. r \in Results /\ r.score = s
  <2> HIDE DEF s
  <2> QED BY <1>4, UnverifiedIs
<1>6. Found(G, f, r)
  BY <1>3, <1>5 DEF Found
<1> HIDE DEF s, r
<1> QED BY <1>1, <1>2, <1>6, HuntPop

(* A window closed by the distance to mate needs no search. *)
LEMMA VisitClosedHunts ==
  ASSUME NEW w, Hunting(w), VisitClosed(w)
  PROVE  Hunts(w)
<1> DEFINE f == Top(w)  s == IF Low(f) >= f.beta THEN Low(f) ELSE High(f)  r == Verified(s, f.alpha, f.beta)
<1>1. Inner(w) /\ Closed(f) /\ worker' = Pop(w, r)
  BY DEF VisitClosed, Finishes
<1>2. /\ worker[w].phase = "search" /\ Stack(w) # <<>> /\ f.kind \in Deep
      /\ f.alpha \in Int /\ f.beta \in Int /\ f.alpha < f.beta /\ f.ply \in Nat /\ f.ply <= CellCount
      /\ f.alpha = f.alpha0
  BY <1>1, InnerHunt
<1>3. /\ Low(f) \in Int /\ High(f) \in Int
      /\ Low(f) >= f.beta => ~(Low(f) >= Threshold /\ Low(f) > f.alpha)
      /\ ~(Low(f) >= f.beta) => High(f) <= f.alpha /\ ~(High(f) <= -Threshold)
  BY <1>1, <1>2, NarrowIs
<1> HIDE DEF f
<1>4. s \in Int /\ ~(s >= Threshold /\ s > f.alpha0) /\ ~(s <= -Threshold /\ s < f.beta)
  <2>1. CASE Low(f) >= f.beta
    BY <1>2, <1>3, <2>1
  <2>2. CASE ~(Low(f) >= f.beta)
    BY <1>2, <1>3, <2>2
  <2> QED BY <2>1, <2>2
<1> HIDE DEF s
<1>5. MateTrue(G, f.node, f.ply, s, f.alpha0, f.beta)
  BY <1>4 DEF MateTrue
<1>6. r \in Results /\ r.score = s
  BY <1>2, <1>4, VerifiedIs
<1>7. Found(G, f, r)
  BY <1>5, <1>6 DEF Found
<1> HIDE DEF r
<1> QED BY <1>1, <1>2, <1>7, HuntPop DEF f

(* What an entry says at a ply. *)
LEMMA EntryMate ==
  ASSUME NEW g, NEW n, NEW e, MateEntry(g, n, e), NEW p \in Nat, p <= CellCount, NEW a \in Int, NEW b \in Int,
         e.bound # "Empty",
         e.bound = "Lower" => ScoreFromTt(e.score, p) >= b,
         e.bound = "Upper" => ScoreFromTt(e.score, p) <= a
  PROVE  MateTrue(g, n, p, ScoreFromTt(e.score, p), a, b)
<1> DEFINE x == e.score  s == ScoreFromTt(x, p)
<1>1. /\ x \in Int /\ e.bound \in {"Lower", "Upper", "Exact"}
      /\ e.bound \in {"Lower", "Exact"} /\ x >= Threshold => Wins(g, n, Mate - x)
      /\ e.bound \in {"Upper", "Exact"} /\ x <= -Threshold => Loses(g, n, Mate + x)
  BY DEF MateEntry
<1>2. (e.bound = "Lower" => s >= b) /\ (e.bound = "Upper" => s <= a)
  OBVIOUS
<1> HIDE DEF x
<1>3. /\ s \in Int
      /\ s >= Threshold => x >= Threshold /\ Mate - s - p = Mate - x
      /\ s <= -Threshold => x <= -Threshold /\ Mate + s - p = Mate + x
  BY <1>1, MatesApart DEF ScoreFromTt, Threshold
<1> HIDE DEF s
<1>4. s >= Threshold /\ s > a => Wins(g, n, Mate - s - p)
  <2> HAVE s >= Threshold /\ s > a
  <2>1. e.bound # "Upper"
    BY <1>2, <1>3
  <2> QED BY <1>1, <1>3, <2>1
<1>5. s <= -Threshold /\ s < b => Loses(g, n, Mate + s - p)
  <2> HAVE s <= -Threshold /\ s < b
  <2>1. e.bound # "Lower"
    BY <1>2, <1>3
  <2> QED BY <1>1, <1>3, <2>1
<1> QED BY <1>3, <1>4, <1>5 DEF MateTrue, s, x

(* A bound of the table is true of mates at any depth it is used. *)
LEMMA VisitHitHunts ==
  ASSUME NEW w, Hunting(w), VisitHit(w)
  PROVE  Hunts(w)
<1> DEFINE f == Top(w)  e == table[f.node]  s == ScoreFromTt(e.score, f.ply)  r == Verified(s, Low(f), High(f))
<1>1. Inner(w) /\ ~Closed(f) /\ Cuts(e, f.depth, Low(f), High(f), f.ply) /\ worker' = Pop(w, r)
  BY DEF VisitHit, Undecided, Finishes
<1>2. /\ worker[w].phase = "search" /\ Stack(w) # <<>> /\ f.kind \in Deep /\ f.node \in DOMAIN G.kind
      /\ f.alpha \in Int /\ f.beta \in Int /\ f.alpha < f.beta /\ f.ply \in Nat /\ f.ply <= CellCount
      /\ f.alpha = f.alpha0
  BY <1>1, InnerHunt
<1>3. MateEntry(G, f.node, e)
  BY <1>2 DEF Hunting, MatesTrue
<1>4. Low(f) \in Int /\ High(f) \in Int /\ Low(f) < High(f)
  BY <1>1, <1>2, NarrowIs
<1>5. e.bound # "Empty" /\ (e.bound = "Lower" => s >= High(f)) /\ (e.bound = "Upper" => s <= Low(f))
  BY <1>1 DEF Cuts
<1> HIDE DEF e, f
<1>6. MateTrue(G, f.node, f.ply, s, Low(f), High(f))
  BY <1>2, <1>3, <1>4, <1>5, EntryMate
<1> HIDE DEF s
<1>7. MateTrue(G, f.node, f.ply, s, f.alpha0, f.beta) /\ s \in Int
  BY <1>2, <1>6, NarrowFound DEF MateTrue
<1>8. r \in Results /\ r.score = s
  BY <1>4, <1>7, VerifiedIs
<1>9. Found(G, f, r)
  BY <1>7, <1>8 DEF Found
<1> HIDE DEF r
<1> QED BY <1>1, <1>2, <1>9, HuntPop DEF f

(* A null move or a static cutoff never claims a mate. *)
LEMMA SelectiveCutHunts ==
  ASSUME NEW w, Hunting(w), SelectiveCut(w)
  PROVE  Hunts(w)
<1> DEFINE f == Top(w)  n == f.node  g == G
<1>1. PICK score \in ReverseFutile(f) \cup Nulled(f, Analysed(f, f.depth)) \cup Probed(f) :
        worker' = Pop(w, Unverified(score))
  BY DEF SelectiveCut, Finishes
<1>2. Inner(w) /\ Selective(f)
  BY DEF SelectiveCut, Missed, Undecided
<1>3. /\ worker[w].phase = "search" /\ Stack(w) # <<>> /\ f.kind \in Deep /\ IsGame(g) /\ Seated(g, f)
      /\ n \in DOMAIN g.kind /\ f.depth \in 0..MaxDepth /\ MaxDepth \in Nat
  BY <1>2, InnerHunt, AlphaBetaAssumption
<1>4. Low(f) \in Int /\ High(f) \in Int /\ ~IsMate(High(f))
  BY <1>2, <1>3, SeatedIs DEF Selective, QuietScout
<1>5. g.static[n] \in Int /\ ~IsMate(g.static[n])
  BY <1>3, GameIs
<1>6. Analysed(f, f.depth) \in Int
  <2>1. game \in DOMAIN AllGames
    BY DEF Hunting
  <2>2. Exactly[game] = Worth(g, FALSE, MaxDepth)
    BY <2>1 DEF Exactly, G
  <2>3. Worthy(Worth(g, FALSE, MaxDepth)[n][f.depth].least, g.free[n])
    BY <1>3, WorthWorthy
  <2> QED BY <2>2, <2>3 DEF Analysed, Worthy
<1>7. score \in Int /\ ~IsMate(score)
  <2>1. CASE score \in ReverseFutile(f)
    BY <2>1, <1>5 DEF ReverseFutile
  <2>2. CASE score \in Nulled(f, Analysed(f, f.depth))
    <3>1. score \in {High(f), Analysed(f, f.depth)} /\ ~IsMate(score)
      BY <2>2 DEF Nulled
    <3> QED BY <3>1, <1>4, <1>6
  <2>3. CASE score \in Probed(f)
    BY <2>3, <1>4 DEF Probed
  <2> QED BY <1>1, <2>1, <2>2, <2>3
<1> HIDE DEF f, g, n
<1>8. MateTrue(g, f.node, f.ply, score, f.alpha0, f.beta)
  BY <1>7, NoMate
<1>9. Unverified(score) \in Results /\ Unverified(score).score = score
  BY <1>7, UnverifiedIs
<1>10. Found(g, f, Unverified(score))
  BY <1>8, <1>9 DEF Found
<1> QED BY <1>1, <1>3, <1>10, HuntPop DEF f, g

(* Moves in some order, all of them still to be looked at. *)
LEMMA BeginsBusy ==
  ASSUME NEW g, NEW w, NEW h, h.kind # "quiet", h.kind # "teacher" => ~IsFact(g, h.node) /\ h.alpha = h.alpha0,
         h.best = -Infinity, h.alpha \in Int, -Infinity <= h.alpha, h.depth >= 1, h.alpha < h.beta,
         ToSet(h.left) = Tried(g, w, h), h.kind # "teacher" => Tried(g, w, h) # {}
  PROVE  Busy(g, w, h, FALSE)
<1>1. Open(h, FALSE) = Tried(g, w, h)
  BY DEF Open
<1>2. Finds(g, w, h, FALSE)
  <2>1. ~(-Infinity >= Threshold)
    BY DEF Threshold
  <2> QED BY <1>1, <2>1 DEF Finds
<1>3. h.kind # "teacher" => h.alpha = Larger(h.alpha0, h.best)
  BY DEF Larger
<1> QED BY <1>1, <1>2, <1>3 DEF Busy

(* A node that opens its moves, all of them, has found nothing yet. *)
LEMMA GoesOnHunts ==
  ASSUME NEW w, Hunting(w), worker[w].phase = "search", Stack(w) # <<>>, Unopened(G, w, Top(w)),
         Top(w).kind = "inner", ~IsFact(G, Top(w).node), ~Closed(Top(w)), Top(w).depth >= 1,
         NEW known, GoesOn(w, Top(w), known)
  PROVE  Hunts(w)
<1> DEFINE f == Top(w)  g == G  n == f.node  moves == Chosen(g, n)
<1>1. /\ IsGame(g) /\ Seated(g, f) /\ n \in DOMAIN g.kind /\ f.depth \in 0..MaxDepth /\ MaxDepth \in Nat
      /\ DOMAIN f = Fields /\ f.ply \in Nat /\ f.ply + g.free[n] <= CellCount /\ f.alpha \in Int /\ f.beta \in Int
      /\ f.alpha0 < f.beta /\ -Infinity <= f.alpha0 /\ f.beta <= Infinity
  <2>1. IsGame(g) /\ Seated(g, f)
    BY HuntIs
  <2> QED BY <2>1, SeatedIs, AlphaBetaAssumption
<1>2. f.alpha = f.alpha0 /\ f.best = -Infinity
  BY DEF Unopened
<1>3. g.free[n] \in Nat
  BY <1>1, GameIs
<1>4. f.ply <= CellCount
  <2> HIDE DEF f, g, n
  <2> QED BY <1>1, <1>3
<1>5. CASE moves = {}
  <2>1. worker' = Pop(w, Complete(0))
    BY <1>5 DEF GoesOn, Chosen
  <2>2. ~IsMate(0)
    BY DEF IsMate, Threshold
  <2>3. MateTrue(g, n, f.ply, 0, f.alpha0, f.beta)
    BY <2>2, NoMate
  <2>4. Complete(0) \in Results /\ Complete(0).score = 0
    BY UnverifiedIs
  <2>5. Found(g, f, Complete(0))
    BY <2>3, <2>4 DEF Found
  <2>6. f.kind \in Deep
    BY DEF Deep
  <2> QED BY <2>1, <2>5, <2>6, HuntPop
<1>6. CASE moves # {}
  <2>1. f.depth \in 1..MaxDepth
    BY <1>1
  <2>2. PICK h, order, iir :
          /\ worker' = Replace(w, h) /\ Entered(f, h, order, iir) /\ iir \in BOOLEAN /\ h.depth \in 1..MaxDepth
          /\ order \in Seq(Nat) /\ ToSet(order) = moves /\ order # <<>>
    BY <1>1, <1>6, <2>1, GoesOnEnters
  <2>4. order \in Seq(Nat) /\ ToSet(order) = moves /\ order # <<>>
    BY <2>2
  <2>6. Entered(f, h, order, iir) /\ iir \in BOOLEAN
    BY <2>2
  <2>7. /\ Low(f) \in Int /\ High(f) \in Int /\ Low(f) < High(f) /\ Low(f) >= f.alpha /\ High(f) <= f.beta
        /\ Low(f) <= f.alpha \/ Low(f) < Threshold
        /\ High(f) >= f.beta \/ High(f) > -Threshold
    BY <1>1, <1>2, <1>4, NarrowIs
  <2>8. h.depth \in 0..MaxDepth /\ h.depth >= 1
    BY <1>1, <2>2
  <2>9. Shaped(f) /\ Flags(f)
    BY <1>1 DEF Seated
  <2>10. f.kind = "inner" /\ ~IsFact(g, f.node)
    OBVIOUS
  <2> HIDE DEF f, g, moves, n
  <2>11. Shaped(h)
    BY <2>4, <2>6, <2>7, <2>8, <2>9 DEF Shaped, Entered
  <2>12. Flags(h)
    BY <2>6, <2>9, Zenon DEF Flags, Entered
  <2>13. -Infinity <= Low(f) /\ High(f) <= Infinity
    BY <1>1, <1>2, <2>7
  <2>14. Seated(g, h)
    <3>1. h.node = n /\ h.ply = f.ply /\ h.alpha0 = Low(f) /\ h.beta = High(f)
      BY <2>6 DEF Entered, n
    <3> QED BY <1>1, <2>7, <2>11, <2>12, <2>13, <3>1 DEF Seated
  <2>15. Stays(g, f, h)
    <3>1. h.kind = f.kind /\ h.node = f.node /\ h.ply = f.ply /\ h.alpha0 = Low(f) /\ h.beta = High(f)
      BY <2>6 DEF Entered
    <3>2. Covers(h, f.alpha0, f.beta)
      BY <1>2, <2>7, <3>1 DEF Covers
    <3> QED BY <2>14, <3>1, <3>2 DEF Stays
  <2>16. Ready(g, w, h)
    <3>1. /\ h.begun /\ h.kind = "inner" /\ h.node = n /\ h.best = -Infinity /\ h.alpha = Low(f) /\ h.alpha0 = Low(f)
          /\ h.beta = High(f) /\ h.left = order
      BY <1>2, <2>6, <2>10 DEF Entered, n
    <3>2. Tried(g, w, h) = moves
      BY <3>1 DEF Tried, moves
    <3>3. ~IsFact(g, h.node)
      BY <2>10, <3>1 DEF n
    <3>4. Busy(g, w, h, FALSE)
      BY <1>6, <2>4, <2>7, <2>8, <2>13, <3>1, <3>2, <3>3, BeginsBusy
    <3> QED BY <3>1, <3>4 DEF Ready
  <2> QED BY <2>2, <2>15, <2>16, HuntReplace DEF f, g
<1> QED BY <1>5, <1>6

(* A node that goes to its moves has found nothing yet. *)
LEMMA VisitMovesHunts ==
  ASSUME NEW w, Hunting(w), VisitMoves(w)
  PROVE  Hunts(w)
<1>1. PICK entry \in Seen(Top(w).node) : GoesOn(w, Top(w), IF Normal THEN entry.at ELSE 0)
  BY DEF VisitMoves
<1>2. Inner(w) /\ ~IsFact(G, Top(w).node) /\ ~Closed(Top(w))
  BY DEF VisitMoves, Undecided
<1>3. /\ worker[w].phase = "search" /\ Stack(w) # <<>> /\ Unopened(G, w, Top(w)) /\ Top(w).kind = "inner"
      /\ Top(w).depth >= 1
  BY <1>2, InnerHunt
<1> QED BY <1>1, <1>2, <1>3, GoesOnHunts

(* Razoring asks for the node's own quiescence search. *)
LEMMA RazorHunts ==
  ASSUME NEW w, Hunting(w), Razor(w)
  PROVE  Hunts(w)
<1> DEFINE f == Top(w)  g == G  n == f.node
<1>1. PICK entry \in Seen(n) :
        worker' = Push(w, [f EXCEPT !.call = "razor", !.hint = entry.at], Frame("quiet", n, 0, Low(f), High(f), f.ply, 0))
  BY DEF Razor
<1>2. Inner(w) /\ ~IsFact(g, n) /\ ~Closed(f) /\ ~IsMate(Low(f))
  BY DEF Razor, Undecided, Selective
<1>3. /\ worker[w].phase = "search" /\ Stack(w) # <<>> /\ IsGame(g) /\ Seated(g, f) /\ Unopened(g, w, f) /\ ~f.begun
      /\ f.kind = "inner" /\ f.depth >= 1 /\ DOMAIN f = Fields /\ n \in DOMAIN g.kind /\ f.ply \in Nat
      /\ f.ply + g.free[n] <= CellCount /\ f.ply <= CellCount
      /\ f.alpha \in Int /\ f.beta \in Int /\ f.alpha < f.beta /\ f.alpha = f.alpha0 /\ MaxDepth \in Nat
  BY <1>2, InnerHunt, AlphaBetaAssumption
<1> DEFINE h == [f EXCEPT !.call = "razor", !.hint = entry.at]
           c == Frame("quiet", n, 0, Low(f), High(f), f.ply, 0)
<1>4. Alike(f, h) /\ h.begun = f.begun /\ h.call = "razor" /\ h.left = f.left /\ h.tried = f.tried
  <2> HIDE DEF f
  <2> QED BY <1>3 DEF Alike, Fields
<1> HIDE DEF h
<1>5. Seated(g, h) /\ Stays(g, f, h)
  <2>1. f.left \in Seq(Nat) /\ f.tried \in Nat
    BY <1>3, SeatedIs
  <2> HIDE DEF f, g
  <2> QED BY <1>3, <1>4, <2>1, AlikeStays
<1>6. /\ Low(f) \in Int /\ High(f) \in Int /\ Low(f) < High(f) /\ -Infinity <= Low(f) /\ High(f) <= Infinity
  <2>1. Low(f) \in Int /\ High(f) \in Int /\ Low(f) < High(f) /\ Low(f) >= f.alpha /\ High(f) <= f.beta
    BY <1>2, <1>3, NarrowIs
  <2>2. -Infinity <= f.alpha0 /\ f.beta <= Infinity
    BY <1>3, SeatedIs
  <2> HIDE DEF f
  <2> QED BY <1>3, <2>1, <2>2
<1>7. Place(g, n, 0, Low(f), High(f), f.ply)
  BY <1>3, <1>6 DEF Place
<1>8. Framed(c, "quiet", n, 0, Low(f), High(f), f.ply, 0)
  <2> HIDE DEF f, n
  <2> QED BY FrameIs
<1>9. Seated(g, c) /\ Ready(g, w, c) /\ c.kind \in Deep
  <2>1. 0 \in 0..MaxQsearchPly /\ "quiet" \in Deep
    BY DEF Deep
  <2> HIDE DEF f, g, n, c
  <2> QED BY <1>7, <1>8, <2>1, FramedSeated
<1>10. Low(h) = Low(f) /\ High(h) = High(f) /\ (Closed(h) <=> Closed(f))
  BY <1>4 DEF Alike, Low, High, Closed
<1>11. /\ h.kind = "inner" /\ ~h.begun /\ h.depth >= 1 /\ h.node = n /\ h.ply = f.ply
       /\ Unopened(g, w, h)
  BY <1>3, <1>4 DEF Alike, Unopened
<1>12. Pauses(g, w, h)
  BY <1>2, <1>4, <1>10, <1>11 DEF Pauses
<1>13. Serves(g, h, c)
  <2>1. c.node = n /\ c.ply = f.ply /\ c.alpha0 = Low(f) /\ c.beta = High(f)
    BY <1>8 DEF Framed
  <2>2. Covers(c, Low(h), High(h))
    <3> HIDE DEF c, f
    <3> QED BY <1>6, <1>10, <2>1 DEF Covers
  <2> QED BY <1>4, <1>11, <2>1, <2>2 DEF Serves, Goal, GoalPly, GoalLow, GoalHigh
<1>14. worker' = Push(w, h, c)
  BY <1>1 DEF h
<1> HIDE DEF c, f, g
<1> QED BY <1>3, <1>5, <1>9, <1>12, <1>13, <1>14, HuntPush DEF f, g

(* A razored mate is a mate, any other answer is dropped. *)
LEMMA TakeRazoredHunts ==
  ASSUME NEW w, Hunting(w), TakeRazored(w)
  PROVE  Hunts(w)
<1> DEFINE f == Top(w)  g == G  s == Returned(w).score
<1>1. Answered(w) /\ f.call = "razor"
  BY DEF TakeRazored
<1>2. /\ worker[w].phase = "search" /\ Stack(w) # <<>> /\ IsGame(g) /\ Seated(g, f) /\ Pauses(g, w, f)
      /\ Replied(g, f, Returned(w)) /\ s \in Int /\ f.alpha0 \in Int /\ f.beta \in Int /\ f.alpha \in Int
      /\ f.alpha0 < f.beta /\ f.ply \in Nat /\ f.ply + g.free[f.node] <= CellCount /\ f.node \in DOMAIN g.kind
  BY <1>1, AnsweredHunt
<1>3. /\ f.kind = "inner" /\ Unopened(g, w, f) /\ ~IsFact(g, f.node) /\ ~Closed(f) /\ f.depth >= 1 /\ ~IsMate(Low(f))
  BY <1>1, <1>2 DEF Pauses
<1>4. CASE s <= Low(f)
  <2>1. worker' = Pop(w, Unverified(s))
    BY <1>4 DEF TakeRazored
  <2>2. MateTrue(g, f.node, f.ply, s, Low(f), High(f))
    BY <1>1, <1>2 DEF Replied, Goal, GoalPly, GoalLow, GoalHigh
  <2>3. f.alpha = f.alpha0
    BY <1>3 DEF Unopened
  <2>4. f.ply <= CellCount
    <3>1. g.free[f.node] \in Nat
      BY <1>2, GameIs
    <3> HIDE DEF f, g
    <3> QED BY <1>2, <3>1
  <2>5. MateTrue(g, f.node, f.ply, s, f.alpha0, f.beta)
    <3> HIDE DEF f, g, s
    <3> QED BY <1>2, <2>2, <2>3, <2>4, NarrowFound
  <2>6. Unverified(s) \in Results /\ Unverified(s).score = s
    BY <1>2, UnverifiedIs
  <2>7. Found(g, f, Unverified(s))
    BY <2>5, <2>6 DEF Found
  <2>8. f.kind \in Deep
    BY <1>3 DEF Deep
  <2> QED BY <1>2, <2>1, <2>7, <2>8, HuntPop
<1>5. CASE ~(s <= Low(f))
  <2>1. GoesOn(w, f, f.hint)
    BY <1>5 DEF TakeRazored
  <2> QED BY <1>2, <1>3, <2>1, GoesOnHunts
<1> QED BY <1>4, <1>5

--------------------------------------------------
(* The root, again. *)

(* A root that opens its moves keeps its window. *)
LEMMA OpenedStays ==
  ASSUME NEW g, NEW f, Seated(g, f), NEW left \in Seq(Nat), NEW h, Opened(f, h, left)
  PROVE  Seated(g, h) /\ Stays(g, f, h)
<1>1. Shaped(f) /\ Flags(f) /\ f.alpha0 \in Int /\ f.beta \in Int
  BY SeatedIs DEF Seated
<1>2. Shaped(h)
  BY <1>1 DEF Shaped, Opened
<1>3. Flags(h)
  BY <1>1, Zenon DEF Flags, Opened
<1>4. Seated(g, h)
  BY <1>2, <1>3 DEF Seated, Opened
<1>5. Covers(h, f.alpha0, f.beta)
  BY <1>1 DEF Covers, Opened
<1> QED BY <1>4, <1>5 DEF Stays, Opened

(* A root that opens all it tries has found nothing yet. *)
LEMMA OpenedHunts ==
  ASSUME NEW w, Hunting(w), Fresh(w), Top(w).kind \in {"root", "teacher"}, NEW left \in Seq(Nat),
         ToSet(left) = Tried(G, w, Top(w)), worker' = Replace(w, Begun(Top(w), left))
  PROVE  Hunts(w)
<1> DEFINE f == Top(w)  h == Begun(f, left)
<1>1. /\ worker[w].phase = "search" /\ Stack(w) # <<>> /\ IsGame(G) /\ Seated(G, f)
      /\ Unopened(G, w, f) /\ DOMAIN f = Fields /\ f.alpha \in Int /\ f.alpha = f.alpha0 /\ f.alpha < f.beta
      /\ -Infinity <= f.alpha /\ f.best = -Infinity
  BY FreshHunt
<1>2. f.depth >= 1 /\ (f.kind = "root" => ~IsFact(G, f.node) /\ Tried(G, w, f) # {})
  BY <1>1 DEF Unopened
<1>3. Opened(f, h, left)
  BY <1>1, BegunOpens
<1>4. f.kind \in {"root", "teacher"} /\ ToSet(left) = Tried(G, w, f) /\ worker' = Replace(w, h)
  OBVIOUS
<1> HIDE DEF h, f
<1>5. Seated(G, h) /\ Stays(G, f, h)
  BY <1>1, <1>3, OpenedStays
<1>6. /\ h.kind = f.kind /\ h.node = f.node /\ h.begun = TRUE /\ h.left = left /\ h.depth = f.depth
      /\ h.alpha = f.alpha /\ h.alpha0 = f.alpha0 /\ h.beta = f.beta /\ h.best = f.best
  BY <1>3 DEF Opened
<1>7. Tried(G, w, h) = Tried(G, w, f)
  BY <1>6 DEF Tried
<1>8. h.kind # "quiet" /\ h.alpha = h.alpha0 /\ h.best = -Infinity /\ h.alpha \in Int /\ -Infinity <= h.alpha
  BY <1>1, <1>4, <1>6
<1>9. h.depth >= 1 /\ h.alpha < h.beta /\ ToSet(h.left) = Tried(G, w, h)
  BY <1>1, <1>2, <1>4, <1>6, <1>7
<1>10. h.kind # "teacher" => ~IsFact(G, h.node) /\ Tried(G, w, h) # {}
  BY <1>2, <1>4, <1>6, <1>7
<1>11. Busy(G, w, h, FALSE)
  BY <1>8, <1>9, <1>10, BeginsBusy
<1>12. Ready(G, w, h)
  BY <1>6, <1>11 DEF Ready
<1> QED BY <1>1, <1>4, <1>5, <1>12, HuntReplace DEF f

(* The root opens its moves in some order. *)
LEMMA VisitRootHunts ==
  ASSUME NEW w, Hunting(w), VisitRoot(w)
  PROVE  Hunts(w)
<1> DEFINE f == Top(w)  g == G  n == f.node  moves == Moves(g, n, g.adaptive /\ w = Principal)
<1>1. Fresh(w) /\ f.kind = "root"
  BY DEF VisitRoot
<1>2. IsGame(g) /\ n \in DOMAIN g.kind
  BY <1>1, FreshHunt
<1>3. moves \in SUBSET Nat /\ IsFiniteSet(moves)
  <2>1. moves = Moves(g, n, TRUE) \/ moves = Moves(g, n, FALSE)
    BY DEF Moves
  <2>2. \A x \in BOOLEAN : Moves(g, n, x) \subseteq DOMAIN g.next[n] /\ IsFiniteSet(Moves(g, n, x))
    BY <1>2, GameIs
  <2>3. moves \subseteq DOMAIN g.next[n] /\ IsFiniteSet(moves)
    <3> HIDE DEF moves, g, n
    <3> QED BY <2>1, <2>2
  <2>4. DOMAIN g.next[n] \in SUBSET Nat
    <3>1. DOMAIN g.next[n] = 1..Len(g.next[n])
      BY <1>2, GameIs
    <3> QED BY <3>1
  <2> HIDE DEF moves, g, n
  <2> QED BY <2>3, <2>4
<1>4. PICK entry \in Seen(n) : \E order \in Orders(n, moves, entry.at) :
        worker' = Replace(w, Begun(f, Rotated(order, w)))
  BY DEF VisitRoot
<1>5. PICK order \in Orders(n, moves, entry.at) : worker' = Replace(w, Begun(f, Rotated(order, w)))
  BY <1>4
<1>6. order \in Seq(Nat) /\ ToSet(order) = moves
  BY <1>3, OrdersAre
<1>7. Rotated(order, w) \in Seq(Nat) /\ ToSet(Rotated(order, w)) = moves
  BY <1>6, RotatedIs
<1>8. Tried(g, w, f) = moves
  BY <1>1 DEF Tried
<1> QED BY <1>1, <1>5, <1>7, <1>8, OpenedHunts

(* The root of an analysis opens all legal moves. *)
LEMMA VisitRankedHunts ==
  ASSUME NEW w, Hunting(w), VisitRanked(w)
  PROVE  Hunts(w)
<1> DEFINE f == Top(w)  g == G  n == f.node  moves == Moves(g, n, TRUE)  left == [m \in moves |-> m]
<1>1. Fresh(w) /\ f.kind = "teacher" /\ worker' = Replace(w, Begun(f, left))
  BY DEF VisitRanked
<1>2. IsGame(g) /\ n \in DOMAIN g.kind
  BY <1>1, FreshHunt
<1>3. PICK l \in Nat : moves = 1..l
  <2>1. moves = {1} \/ moves = DOMAIN g.next[n]
    BY DEF Moves
  <2>2. DOMAIN g.next[n] = 1..Len(g.next[n]) /\ Len(g.next[n]) \in Nat
    BY <1>2, GameIs
  <2>3. {1} = 1..1 /\ 1 \in Nat
    OBVIOUS
  <2> HIDE DEF moves, g, n
  <2> QED BY <2>1, <2>2, <2>3
<1>4. left \in Seq(Nat)
  <2>1. left \in [1..l -> Nat]
    <3> HIDE DEF moves
    <3> QED BY <1>3
  <2> HIDE DEF left
  <2> QED BY <2>1, SeqDef
<1>5. ToSet(left) = moves
  <2> HIDE DEF moves
  <2> QED BY DEF ToSet
<1>6. Tried(g, w, f) = moves
  BY <1>1 DEF Tried
<1> HIDE DEF left, moves
<1> QED BY <1>1, <1>4, <1>5, <1>6, OpenedHunts

(* Moves that are left out without a look are ruled out. *)
LEMMA NothingPruned ==
  ASSUME NEW w, Hunting(w)
  PROVE  ~Prune(w)
<1>1. G.shortcuts \cap Blind = {}
  BY DEF Hunting
<1>2. /\ "policy" \notin G.shortcuts /\ "late moves" \notin G.shortcuts /\ "futility" \notin G.shortcuts
  BY <1>1 DEF Blind
<1> QED BY <1>2 DEF Prune, Prunes, LowPolicy, Late, Futile, Shortcut

--------------------------------------------------
(* Calls, again. *)

(* A call pauses a frame and seats the position it asks for. *)
LEMMA CallHunts ==
  ASSUME NEW w, Hunting(w), worker[w].phase = "search", Stack(w) # <<>>,
         NEW h, Seated(G, h), Stays(G, Top(w), h), Busy(G, w, h, TRUE), h.begun,
         h.kind \in {"root", "teacher", "inner"}, h.call \notin {"razor", "quiet"},
         h.kind = "teacher" => h.call = "full", h.child \in Tried(G, w, h),
         NEW d \in 0..MaxDepth, NEW a, NEW b, a = AskedLow(h), b = AskedHigh(h), a < b, -Infinity <= a, b <= Infinity,
         NEW u, worker' = Push(w, h, Frame("inner", G.next[h.node][h.child], d, -b, -a, h.ply + 1, u))
  PROVE  Hunts(w)
<1> DEFINE n == G.next[h.node][h.child]  c == Frame("inner", n, d, -b, -a, h.ply + 1, u)
<1>1. IsGame(G)
  BY HuntIs
<1>2. /\ h.node \in DOMAIN G.kind /\ h.ply \in Nat /\ h.ply + G.free[h.node] <= CellCount
      /\ a \in Int /\ b \in Int
  BY SeatedIs
<1>3. n \in DOMAIN G.kind /\ h.ply + 1 + G.free[n] <= CellCount
  <2>1. n \in DOMAIN G.kind /\ G.free[n] \in Nat /\ G.free[n] < G.free[h.node] /\ G.free[h.node] \in Nat
    BY <1>1, <1>2, TriedAre
  <2> DEFINE x == G.free[n]  y == G.free[h.node]  p == h.ply
  <2>2. x \in Nat /\ x < y /\ y \in Nat /\ p \in Nat /\ p + y <= CellCount
    BY <1>2, <2>1
  <2> HIDE DEF x, y, p, n
  <2>3. p + 1 + x <= CellCount
    BY <2>2
  <2> QED BY <2>1, <2>3 DEF p, x
<1> HIDE DEF n
<1>4. Place(G, n, d, -b, -a, h.ply + 1)
  BY <1>2, <1>3 DEF Place
<1>5. Framed(c, "inner", n, d, -b, -a, h.ply + 1, 0)
  BY FrameIs
<1> HIDE DEF c
<1>6. Seated(G, c) /\ Ready(G, w, c) /\ c.kind \in Deep
  <2>1. 0 \in 0..MaxQsearchPly /\ "inner" \in Deep
    BY DEF Deep
  <2> QED BY <1>4, <1>5, <2>1, FramedSeated
<1>7. Pauses(G, w, h)
  BY DEF Pauses
<1>8. Serves(G, h, c)
  <2>1. GoalLow(h) = -b /\ GoalHigh(h) = -a /\ Goal(G, h) = n /\ GoalPly(h) = h.ply + 1
    BY DEF GoalLow, GoalHigh, Goal, GoalPly, NextOf, n
  <2>2. c.alpha0 = -b /\ c.beta = -a /\ c.node = n /\ c.ply = h.ply + 1
    BY <1>5 DEF Framed
  <2>3. Covers(c, -b, -a)
    BY <1>2, <2>2 DEF Covers
  <2> QED BY <2>1, <2>2, <2>3 DEF Serves
<1>9. worker' = Push(w, h, c)
  BY DEF c, n
<1> QED BY <1>6, <1>7, <1>8, <1>9, HuntPush

(* A move is extended by one ply at most. *)
LEMMA ExtensionSmall ==
  ASSUME NEW f, NEW m
  PROVE  Extension(f, m) \in {0, 1}
BY DEF Extension

(* The window asked for is not empty and not too wide. *)
LEMMA AskedIs ==
  ASSUME NEW g, NEW w, NEW h, Seated(g, h), Busy(g, w, h, TRUE)
  PROVE  AskedLow(h) < AskedHigh(h) /\ -Infinity <= AskedLow(h) /\ AskedHigh(h) <= Infinity
<1>1. h.alpha \in Int /\ h.beta \in Int /\ h.beta <= Infinity
  BY SeatedIs
<1>2. h.alpha < h.beta
  BY DEF Busy
<1>3. CASE h.kind = "teacher" \/ h.call = "tie"
  <2>1. AskedLow(h) = -Infinity /\ AskedHigh(h) = Infinity
    BY <1>3 DEF AskedLow, AskedHigh
  <2> QED BY <2>1
<1>4. CASE ~(h.kind = "teacher" \/ h.call = "tie")
  <2>1. -Infinity <= h.alpha
    BY <1>4, AlphaIs
  <2>2. AskedLow(h) = h.alpha /\ AskedHigh(h) \in {h.alpha + 1, h.beta}
    BY <1>4 DEF AskedLow, AskedHigh
  <2>3. h.alpha + 1 <= h.beta
    BY <1>1, <1>2
  <2> DEFINE x == h.alpha  y == h.beta
  <2>4. x \in Int /\ y \in Int /\ x < y /\ -Infinity <= x /\ y <= Infinity /\ AskedLow(h) = x /\ AskedHigh(h) \in {x + 1, y}
    BY <1>1, <1>2, <2>1, <2>2
  <2> HIDE DEF x, y
  <2> QED BY <2>4
<1> QED BY <1>3, <1>4

(* What a call asks for. *)
CallLow(f, call) == IF f.kind = "teacher" \/ call = "tie" THEN -Infinity ELSE f.alpha
CallHigh(f, call) ==
  IF f.kind = "teacher" \/ call = "tie" THEN Infinity
  ELSE IF call \in {"scout", "reduced"} THEN f.alpha + 1 ELSE f.beta

(* A frame that asks for a move, whichever call it is. *)
LEMMA AsksHunts ==
  ASSUME NEW w, Hunting(w), worker[w].phase = "search", Stack(w) # <<>>,
         NEW h, NEW m, NEW call, NEW left, NEW tried, Asks(Top(w), h, m, call, left, tried), Top(w).begun,
         Seated(G, h), Stays(G, Top(w), h), Busy(G, w, h, TRUE), m \in Tried(G, w, Top(w)),
         Top(w).kind \in {"root", "teacher", "inner"}, call \notin {"razor", "quiet"},
         Top(w).kind = "teacher" => call = "full",
         NEW d \in 0..MaxDepth, NEW u,
         worker' = Push(w, h, Frame("inner", G.next[Top(w).node][m], d, -CallHigh(Top(w), call),
                                    -CallLow(Top(w), call), Top(w).ply + 1, u))
  PROVE  Hunts(w)
<1> DEFINE f == Top(w)
<1>1. /\ h.kind = f.kind /\ h.node = f.node /\ h.ply = f.ply /\ h.alpha = f.alpha /\ h.beta = f.beta
      /\ h.begun = f.begun /\ h.call = call /\ h.child = m
  BY DEF Asks, Alike
<1>2. AskedLow(h) = CallLow(f, call) /\ AskedHigh(h) = CallHigh(f, call)
  BY <1>1 DEF AskedLow, AskedHigh, CallLow, CallHigh
<1>3. AskedLow(h) < AskedHigh(h) /\ -Infinity <= AskedLow(h) /\ AskedHigh(h) <= Infinity
  BY AskedIs
<1>4. Tried(G, w, h) = Tried(G, w, f)
  BY <1>1 DEF Tried
<1>5. worker' = Push(w, h, Frame("inner", G.next[h.node][h.child], d, -AskedHigh(h), -AskedLow(h), h.ply + 1, u))
  BY <1>1, <1>2
<1>6. /\ h.begun /\ h.kind \in {"root", "teacher", "inner"} /\ h.call \notin {"razor", "quiet"}
      /\ (h.kind = "teacher" => h.call = "full") /\ h.child \in Tried(G, w, h)
  BY <1>1, <1>4
<1> HIDE DEF f
<1> QED BY <1>3, <1>5, <1>6, CallHunts

(* The next move is asked for. *)
LEMMA NextHunts ==
  ASSUME NEW w, Hunting(w), Advances(w), Top(w).kind \in {"root", "teacher", "inner"},
         NEW call, call \notin {"razor", "quiet"}, Top(w).kind = "teacher" => call = "full",
         NEW d, Top(w).depth >= 1 => d \in 0..MaxDepth, NEW u,
         Call(w, [Top(w) EXCEPT !.left = Tail(@), !.tried = @ + 1], Head(Top(w).left), call, d,
              CallLow(Top(w), call), CallHigh(Top(w), call), u)
  PROVE  Hunts(w)
<1> DEFINE f == Top(w)  m == Head(f.left)  e == [f EXCEPT !.left = Tail(@), !.tried = @ + 1]
           h == [e EXCEPT !.call = call, !.child = m]  a == CallLow(f, call)  b == CallHigh(f, call)
<1>1. /\ worker[w].phase = "search" /\ Stack(w) # <<>> /\ IsGame(G) /\ Seated(G, f) /\ f.begun
      /\ Busy(G, w, f, FALSE) /\ DOMAIN f = Fields /\ f.left # <<>>
  BY AdvancesHunt
<1>2. worker' = Push(w, h, Frame("inner", G.next[e.node][m], d, -b, -a, e.ply + 1, u))
  BY DEF Call
<1>3. Asks(f, h, m, call, Tail(f.left), f.tried + 1)
  <2> HIDE DEF f
  <2> QED BY <1>1, AsksNext
<1>4. e.node = f.node /\ e.ply = f.ply
  <2> HIDE DEF f
  <2> QED BY <1>1 DEF Fields
<1> HIDE DEF h, e, a, b
<1>5. Seated(G, h) /\ Stays(G, f, h) /\ Busy(G, w, h, TRUE) /\ m \in Tried(G, w, f)
  BY <1>1, <1>3, AsksBusy
<1>6. f.depth >= 1
  BY <1>1 DEF Busy
<1>7. worker' = Push(w, h, Frame("inner", G.next[f.node][m], d, -b, -a, f.ply + 1, u))
  BY <1>2, <1>4
<1>8. d \in 0..MaxDepth
  BY <1>6
<1> QED BY <1>1, <1>3, <1>5, <1>7, <1>8, AsksHunts DEF a, b

(* The same move is asked for once more. *)
LEMMA AgainHunts ==
  ASSUME NEW w, Hunting(w), Answered(w), Top(w).kind \in {"root", "teacher", "inner"}, Top(w).call # "razor",
         NEW call, call \notin {"razor", "quiet"}, Top(w).kind = "teacher" => call = "full",
         NEW d, Top(w).depth >= 1 => d \in 0..MaxDepth, NEW u,
         Call(w, Top(w), Top(w).child, call, d, CallLow(Top(w), call), CallHigh(Top(w), call), u)
  PROVE  Hunts(w)
<1> DEFINE f == Top(w)  m == f.child  h == [f EXCEPT !.call = call, !.child = m]
           a == CallLow(f, call)  b == CallHigh(f, call)
<1>1. /\ worker[w].phase = "search" /\ Stack(w) # <<>> /\ IsGame(G) /\ Seated(G, f) /\ Pauses(G, w, f)
      /\ DOMAIN f = Fields
  BY AnsweredHunt
<1>2. f.begun /\ Busy(G, w, f, TRUE)
  BY <1>1 DEF Pauses
<1>3. worker' = Push(w, h, Frame("inner", G.next[f.node][m], d, -b, -a, f.ply + 1, u))
  BY DEF Call
<1>4. Asks(f, h, m, call, f.left, f.tried)
  <2> HIDE DEF f
  <2> QED BY <1>1, AsksAgain
<1> HIDE DEF h, a, b
<1>5. Seated(G, h) /\ Stays(G, f, h) /\ Busy(G, w, h, TRUE) /\ m \in Tried(G, w, f)
  BY <1>1, <1>2, <1>4, AsksBusyAgain
<1>6. f.depth >= 1
  BY <1>2 DEF Busy
<1>7. d \in 0..MaxDepth
  BY <1>6
<1> QED BY <1>1, <1>2, <1>3, <1>4, <1>5, <1>7, AsksHunts DEF a, b

(* A move is tried reduced, as a scout, or in full. *)
LEMMA TryHunts ==
  ASSUME NEW w, Hunting(w), Try(w)
  PROVE  Hunts(w)
<1> DEFINE f == Top(w)  m == Head(f.left)  e == [f EXCEPT !.left = Tail(@), !.tried = @ + 1]
           x == Extension(f, m)
<1>1. Advances(w) /\ f.kind \in {"root", "inner"}
  BY DEF Try
<1>2. f.depth \in 0..MaxDepth /\ MaxDepth \in Nat
  BY <1>1, AdvancesHunt, AlphaBetaAssumption
<1>4. f.depth >= 1 => f.depth - 1 + x \in 0..MaxDepth
  <2>1. x \in {0, 1}
    BY ExtensionSmall
  <2> HIDE DEF x, f
  <2> QED BY <1>2, <2>1
<1>5. /\ CallLow(f, "full") = f.alpha /\ CallHigh(f, "full") = f.beta
      /\ CallLow(f, "scout") = f.alpha /\ CallHigh(f, "scout") = f.alpha + 1
      /\ CallLow(f, "reduced") = f.alpha /\ CallHigh(f, "reduced") = f.alpha + 1
  BY <1>1 DEF CallLow, CallHigh
<1>6. /\ "full" \notin {"razor", "quiet"} /\ "scout" \notin {"razor", "quiet"} /\ "reduced" \notin {"razor", "quiet"}
      /\ f.kind \in {"root", "teacher", "inner"} /\ f.kind # "teacher"
  BY <1>1
<1>7. CASE Call(w, e, m, "full", f.depth - 1 + x, f.alpha, f.beta, f.used + x)
  BY <1>1, <1>4, <1>5, <1>6, <1>7, NextHunts
<1>8. CASE Call(w, e, m, "scout", f.depth - 1 + x, f.alpha, f.alpha + 1, f.used + x)
  BY <1>1, <1>4, <1>5, <1>6, <1>8, NextHunts
<1>9. ASSUME NEW d \in ReducedDepths(f, m), Call(w, e, m, "reduced", d, f.alpha, f.alpha + 1, f.used)
      PROVE  Hunts(w)
  <2>1. f.depth >= 1 => d \in 0..MaxDepth
    <3>1. \E r \in 1..f.depth - 1 : d = f.depth - 1 - r
      BY DEF ReducedDepths, LmrReductions
    <3> HIDE DEF f
    <3> QED BY <1>2, <3>1
  <2> QED BY <1>1, <1>5, <1>6, <1>9, <2>1, NextHunts
<1> QED BY <1>7, <1>8, <1>9 DEF Try

(* An analysis tries each move with the full window. *)
LEMMA TryRankedHunts ==
  ASSUME NEW w, Hunting(w), TryRanked(w)
  PROVE  Hunts(w)
<1> DEFINE f == Top(w)
<1>1. Advances(w) /\ f.kind = "teacher"
  BY DEF TryRanked
<1>2. f.depth \in 0..MaxDepth /\ MaxDepth \in Nat
  BY <1>1, AdvancesHunt, AlphaBetaAssumption
<1>3. CallLow(f, "full") = -Infinity /\ CallHigh(f, "full") = Infinity
  BY <1>1 DEF CallLow, CallHigh
<1>4. Call(w, [f EXCEPT !.left = Tail(@), !.tried = @ + 1], Head(f.left), "full", f.depth - 1, -Infinity, Infinity, 0)
  BY DEF TryRanked
<1>5. f.depth >= 1 => f.depth - 1 \in 0..MaxDepth
  <2> HIDE DEF f
  <2> QED BY <1>2
<1> QED BY <1>1, <1>3, <1>4, <1>5, NextHunts

--------------------------------------------------
(* Answers, again. *)

(* What an answer says of mates, turned to the frame that asked. *)
LEMMA AnswerMate ==
  ASSUME NEW w, Hunting(w), Answered(w), Top(w).call # "razor"
  PROVE  /\ Top(w).begun /\ Busy(G, w, Top(w), TRUE) /\ (Top(w).kind = "quiet" <=> Top(w).call = "quiet")
         /\ (Top(w).kind = "teacher" => Top(w).call = "full")
         /\ Top(w).alpha < Top(w).beta /\ (Top(w).kind # "quiet" => Top(w).depth >= 1)
         /\ (Top(w).kind # "teacher" => -Infinity <= Top(w).alpha /\ Top(w).alpha = Larger(Top(w).alpha0, Top(w).best))
         /\ MateTrue(G, NextOf(G, Top(w)), Top(w).ply + 1, -Answer(w).score, -AskedHigh(Top(w)), -AskedLow(Top(w)))
<1> DEFINE f == Top(w)  s == Answer(w).score
<1>1. Seated(G, f) /\ Pauses(G, w, f) /\ Replied(G, f, Returned(w)) /\ -s = Returned(w).score
  BY AnsweredHunt
<1>2. /\ f.begun /\ Busy(G, w, f, TRUE) /\ (f.kind = "quiet" <=> f.call = "quiet")
      /\ (f.kind = "teacher" => f.call = "full")
  BY <1>1 DEF Pauses
<1>3. /\ f.alpha < f.beta /\ (f.kind # "quiet" => f.depth >= 1)
      /\ (f.kind # "teacher" => f.alpha = Larger(f.alpha0, f.best))
  BY <1>2 DEF Busy
<1>4. f.kind # "teacher" => -Infinity <= f.alpha
  BY <1>1, <1>2, AlphaIs
<1>5. MateTrue(G, NextOf(G, f), f.ply + 1, -s, -AskedHigh(f), -AskedLow(f))
  <2>1. GoalLow(f) = -AskedHigh(f) /\ GoalHigh(f) = -AskedLow(f) /\ Goal(G, f) = NextOf(G, f) /\ GoalPly(f) = f.ply + 1
    BY DEF GoalLow, GoalHigh, Goal, GoalPly
  <2> HIDE DEF f, s
  <2> QED BY <1>1, <2>1 DEF Replied
<1> QED BY <1>2, <1>3, <1>4, <1>5, Zenon

(* A re-search stays within the depths there are. *)
LEMMA DeeperIs ==
  ASSUME NEW w, Hunting(w), Answered(w)
  PROVE  Top(w).depth >= 1 =>
           /\ Top(w).depth - 1 \in 0..MaxDepth
           /\ Top(w).depth - 1 + Extension(Top(w), Top(w).child) \in 0..MaxDepth
<1> DEFINE d == Top(w).depth  x == Extension(Top(w), Top(w).child)
<1>1. d \in 0..MaxDepth /\ MaxDepth \in Nat
  BY AnsweredHunt, AlphaBetaAssumption
<1>2. x \in {0, 1}
  BY ExtensionSmall
<1> HIDE DEF d, x
<1>3. d >= 1 => d - 1 \in 0..MaxDepth /\ d - 1 + x \in 0..MaxDepth
  BY <1>1, <1>2
<1> QED BY <1>3 DEF d, x

(* A scout that fails high is searched again, wider. *)
LEMMA ResearchHunts ==
  ASSUME NEW w, Hunting(w), Research(w)
  PROVE  Hunts(w)
<1> DEFINE f == Top(w)  x == Extension(f, f.child)
<1>1. Answered(w) /\ f.call = "scout"
  BY DEF Research, Improves
<1>2. Call(w, f, f.child, "full", f.depth - 1 + x, f.alpha, f.beta, f.used + x)
  BY DEF Research, Again
<1>3. f.kind \in {"root", "teacher", "inner", "quiet"}
  BY <1>1, AnsweredHunt
<1>4. f.kind # "quiet" /\ f.kind # "teacher"
  BY <1>1, AnswerMate
<1>5. f.depth >= 1 => f.depth - 1 + x \in 0..MaxDepth
  BY <1>1, DeeperIs
<1>6. CallLow(f, "full") = f.alpha /\ CallHigh(f, "full") = f.beta
  BY <1>4 DEF CallLow, CallHigh
<1>7. f.kind \in {"root", "teacher", "inner"} /\ f.call # "razor"
  BY <1>1, <1>3, <1>4
<1> QED BY <1>1, <1>2, <1>4, <1>5, <1>6, <1>7, AgainHunts

(* A tie at the root is searched with the full window. *)
LEMMA ResolveTieHunts ==
  ASSUME NEW w, Hunting(w), ResolveTie(w)
  PROVE  Hunts(w)
<1> DEFINE f == Top(w)
<1>1. Answered(w) /\ f.kind = "root" /\ f.call \in {"scout", "full"}
  BY DEF ResolveTie, Ties
<1>2. Call(w, f, f.child, "tie", f.depth - 1, -Infinity, Infinity, f.used)
  BY DEF ResolveTie
<1>3. f.depth >= 1 => f.depth - 1 \in 0..MaxDepth
  BY <1>1, DeeperIs
<1>4. CallLow(f, "tie") = -Infinity /\ CallHigh(f, "tie") = Infinity
  BY DEF CallLow, CallHigh
<1>5. f.kind \in {"root", "teacher", "inner"} /\ f.call # "razor" /\ f.kind # "teacher"
  BY <1>1
<1> QED BY <1>1, <1>2, <1>3, <1>4, <1>5, AgainHunts

(* A reduced move that fails low claims nothing but its score. *)
LEMMA TakeReducedHunts ==
  ASSUME NEW w, Hunting(w), TakeReduced(w)
  PROVE  Hunts(w)
<1> DEFINE f == Top(w)  r == Answer(w)  s == r.score  x == Extension(f, f.child)
<1>1. Answered(w) /\ f.call = "reduced" /\ f.call # "razor"
  BY DEF TakeReduced
<1>2. /\ worker[w].phase = "search" /\ Stack(w) # <<>> /\ IsGame(G) /\ Seated(G, f) /\ DOMAIN f = Fields
      /\ f.alpha \in Int /\ f.beta \in Int /\ f.alpha0 \in Int /\ f.best \in Int /\ s \in Int /\ Flags(f)
      /\ f.kind \in {"root", "teacher", "inner", "quiet"}
  BY <1>1, AnsweredHunt
<1>3. /\ f.begun /\ Busy(G, w, f, TRUE) /\ f.kind # "quiet" /\ f.kind # "teacher" /\ f.alpha < f.beta
      /\ f.alpha = Larger(f.alpha0, f.best)
      /\ MateTrue(G, NextOf(G, f), f.ply + 1, -s, -AskedHigh(f), -AskedLow(f))
  BY <1>1, AnswerMate
<1>4. CASE s <= f.alpha
  <2> DEFINE best == Larger(f.best, s)
  <2>1. PICK h, lower :
          lower \in BOOLEAN /\ worker' = Replace(w, h) /\ GoesOnWith(f, h, f.tried, best, lower, FALSE, f.alpha, f.left)
    BY <1>2, <1>4, ReducedFails
  <2>2. f.alpha = Larger(f.alpha, best)
    <3>1. f.alpha >= f.best
      <4>1. Larger(f.alpha0, f.best) >= f.best
        BY <1>2, LargerIs
      <4> QED BY <1>3, <4>1
    <3>2. best \in Int /\ best \in {f.best, s}
      <4> HIDE DEF f, s
      <4> QED BY <1>2, LargerIs
    <3> HIDE DEF best, s
    <3>3. best <= f.alpha
      BY <1>2, <1>4, <3>1, <3>2
    <3> QED BY <1>2, <3>2, <3>3 DEF Larger
  <2>3. s <= -Threshold /\ s < f.beta => s < AskedHigh(f)
    <3>1. AskedHigh(f) = f.alpha + 1
      BY <1>1, <1>3 DEF AskedHigh
    <3> HIDE DEF f, s
    <3> QED BY <1>2, <1>4, <3>1
  <2> HIDE DEF f, s
  <2>4. Stays(G, f, h) /\ Ready(G, w, h)
    <3>1. f.left # <<>> => f.alpha < f.beta
      BY <1>3
    <3>2. f.left \in {f.left, <<>>} /\ best = Larger(f.best, s)
      OBVIOUS
    <3> HIDE DEF best
    <3> QED BY <1>1, <1>2, <1>3, <2>1, <2>2, <2>3, <3>1, <3>2, BusyOn
  <2> QED BY <1>2, <2>1, <2>4, HuntReplace DEF f
<1>5. CASE ~(s <= f.alpha)
  <2>1. Call(w, f, f.child, "scout", f.depth - 1 + x, f.alpha, f.alpha + 1, f.used + x)
    BY <1>5 DEF TakeReduced, Again
  <2>2. f.depth >= 1 => f.depth - 1 + x \in 0..MaxDepth
    BY <1>1, DeeperIs
  <2>3. CallLow(f, "scout") = f.alpha /\ CallHigh(f, "scout") = f.alpha + 1
    BY <1>3 DEF CallLow, CallHigh
  <2>4. f.kind \in {"root", "teacher", "inner"}
    BY <1>2, <1>3
  <2> QED BY <1>1, <1>3, <2>1, <2>2, <2>3, <2>4, AgainHunts
<1> QED BY <1>4, <1>5

(* The layer of an analysis is no part of what is found. *)
LEMMA TurnedLayer ==
  ASSUME NEW f, NEW h, NEW best, NEW lower, NEW upper, NEW alpha, NEW left,
         Turned(f, h, best, lower, upper, alpha, left), NEW l
  PROVE  Turned(f, [h EXCEPT !.layer = l], best, lower, upper, alpha, left)
BY DEF Turned, Fields

(* An answer counts: best, alpha, and a cutoff at beta. *)
LEMMA TakeHunts ==
  ASSUME NEW w, Hunting(w), Take(w)
  PROVE  Hunts(w)
<1> DEFINE f == Top(w)  r == Answer(w)  s == r.score
           counted == Included(f, r)
           raised == IF ~Prefers(w, f, r) THEN counted
                     ELSE [counted EXCEPT !.best = r.score, !.at = f.child,
                             !.exact = r.lower /\ r.upper /\ r.score > f.alpha0 /\ r.score < f.beta]
           narrowed == IF f.kind = "teacher" THEN [raised EXCEPT !.layer = @ @@ (f.child :> r.score)]
                       ELSE [raised EXCEPT !.alpha = Larger(@, r.score)]
           cuts == f.kind # "teacher" /\ narrowed.alpha >= f.beta
           best == Larger(f.best, s)  alpha == IF f.kind = "teacher" THEN f.alpha ELSE Larger(f.alpha, s)
           lower == CountsLower(f, r)  upper == f.upper /\ r.upper
<1>1. Answered(w) /\ f.call \in {"full", "scout", "tie"} /\ ~Improves(f, r)
  BY DEF Take
<1>2. worker' = Replace(w, IF cuts THEN [narrowed EXCEPT !.left = <<>>, !.upper = FALSE] ELSE narrowed)
  BY DEF Take
<1>3. /\ worker[w].phase = "search" /\ Stack(w) # <<>> /\ IsGame(G) /\ Seated(G, f) /\ DOMAIN f = Fields
      /\ f.alpha \in Int /\ f.beta \in Int /\ f.alpha0 \in Int /\ f.best \in Int /\ s \in Int /\ Flags(f)
      /\ r.lower \in BOOLEAN /\ r.upper \in BOOLEAN /\ f.beta <= Infinity
      /\ f.kind \in {"root", "teacher", "inner", "quiet"}
  BY <1>1, AnsweredHunt
<1>4. f.call # "razor"
  BY <1>1
<1>5. /\ f.begun /\ Busy(G, w, f, TRUE) /\ f.kind # "quiet" /\ f.alpha < f.beta
      /\ (f.kind = "teacher" => f.call = "full")
      /\ (f.kind # "teacher" => f.alpha = Larger(f.alpha0, f.best))
      /\ MateTrue(G, NextOf(G, f), f.ply + 1, -s, -AskedHigh(f), -AskedLow(f))
  BY <1>1, <1>4, AnswerMate
<1>6. Turned(f, raised, best, lower, upper, f.alpha, f.left)
  BY <1>3, TakeTurns
<1>7. Turned(f, narrowed, best, lower, upper, alpha, f.left)
  <2>1. CASE f.kind = "teacher"
    <3>1. narrowed = [raised EXCEPT !.layer = raised.layer @@ (f.child :> s)] /\ alpha = f.alpha
      <4> HIDE DEF raised
      <4> QED BY <2>1
    <3> DEFINE l == raised.layer @@ (f.child :> s)
    <3> HIDE DEF raised, f, best, lower, upper, alpha, narrowed, l, s
    <3>2. narrowed = [raised EXCEPT !.layer = l]
      BY <3>1 DEF l
    <3> QED BY <1>6, <3>1, <3>2, TurnedLayer
  <2>2. CASE f.kind # "teacher"
    <3>1. raised.alpha = f.alpha
      BY <1>6 DEF Turned
    <3>2. narrowed = [raised EXCEPT !.alpha = alpha]
      <4> HIDE DEF raised
      <4> QED BY <2>2, <3>1
    <3> HIDE DEF raised, f, best, lower, upper, alpha, narrowed
    <3> QED BY <1>6, <3>2, TurnedAlpha
  <2> QED BY <2>1, <2>2
<1>8. narrowed.alpha = alpha
  BY <1>7 DEF Turned
<1> HIDE DEF raised, counted, narrowed, r
<1>9. lower \in BOOLEAN /\ upper \in BOOLEAN
  <2>1. f.lower \in BOOLEAN /\ f.upper \in BOOLEAN
    BY <1>3 DEF Flags
  <2>2. upper \in BOOLEAN
    BY Zenon
  <2> HIDE DEF f, upper
  <2> QED BY <1>3, <2>1, <2>2, CountsLowerIs
<1>10. best \in Int /\ best >= f.best /\ best >= s
  <2> HIDE DEF f, s
  <2> QED BY <1>3, LargerIs
<1>11. f.kind # "teacher" => alpha = Larger(f.alpha, best)
  <2> HAVE f.kind # "teacher"
  <2>1. alpha = Larger(f.alpha, s)
    OBVIOUS
  <2>2. f.alpha >= f.best
    <3>1. Larger(f.alpha0, f.best) >= f.best
      BY <1>3, LargerIs
    <3> QED BY <1>5, <3>1
  <2> DEFINE x == f.alpha  y == f.best  z == s
  <2>3. x \in Int /\ y \in Int /\ z \in Int /\ x >= y /\ alpha = Larger(x, z) /\ best = Larger(y, z)
    BY <1>3, <2>1, <2>2
  <2> HIDE DEF x, y, z, alpha, best
  <2>4. alpha = Larger(x, best)
    BY <2>3 DEF Larger
  <2> QED BY <2>4 DEF x
<1>12. alpha \in Int
  BY <1>3, LargerIs
<1>13. s <= -Threshold /\ s < f.beta => s < AskedHigh(f)
  <2>1. CASE f.kind = "teacher" \/ f.call = "tie"
    <3>1. AskedHigh(f) = Infinity
      BY <2>1 DEF AskedHigh
    <3> HIDE DEF f, s
    <3> QED BY <1>3, <3>1
  <2>2. CASE f.kind # "teacher" /\ f.call = "full"
    <3>1. AskedHigh(f) = f.beta
      BY <2>2 DEF AskedHigh
    <3> QED BY <3>1
  <2>3. CASE f.kind # "teacher" /\ f.call = "scout"
    <3>1. AskedHigh(f) = f.alpha + 1
      BY <2>3 DEF AskedHigh
    <3>2. ~(s > f.alpha /\ s < f.beta)
      BY <1>1, <2>3 DEF Improves
    <3> HIDE DEF f, s
    <3> QED BY <1>3, <3>1, <3>2
  <2> QED BY <1>1, <2>1, <2>2, <2>3
<1> HIDE DEF f, s, lower, upper
<1>14. CASE cuts
  <2> DEFINE h == [narrowed EXCEPT !.left = <<>>, !.upper = FALSE]
  <2>1. Turned(f, h, best, lower, FALSE, alpha, <<>>)
    <3> HIDE DEF alpha, best
    <3> QED BY <1>7, TurnedCut
  <2>2. worker' = Replace(w, h)
    BY <1>2, <1>14
  <2> HIDE DEF h
  <2>3. GoesOnWith(f, h, f.tried, best, lower, FALSE, alpha, <<>>)
    <3> HIDE DEF alpha, best
    <3> QED BY <1>9, <2>1, TurnedGoesOn
  <2>4. ~(best < f.beta)
    <3>1. f.kind # "teacher" /\ alpha >= f.beta
      BY <1>8, <1>14
    <3>2. alpha = Larger(f.alpha, best)
      BY <1>11, <3>1
    <3>3. alpha \in {f.alpha, best}
      BY <1>3, <1>10, <3>2, LargerIs
    <3> HIDE DEF alpha, best
    <3> QED BY <1>3, <1>5, <1>10, <3>1, <3>3
  <2>5. Stays(G, f, h) /\ Ready(G, w, h)
    <3>1. best < f.beta => <<>> = f.left
      BY <2>4
    <3>2. <<>> \in {f.left, <<>>} /\ best = Larger(f.best, s)
      OBVIOUS
    <3> HIDE DEF alpha, best
    <3> QED BY <1>3, <1>4, <1>5, <1>11, <1>12, <1>13, <2>3, <3>1, <3>2, BusyOn
  <2> QED BY <1>3, <2>2, <2>5, HuntReplace DEF f
<1>15. CASE ~cuts
  <2> DEFINE h == narrowed
  <2>1. worker' = Replace(w, h)
    BY <1>2, <1>15
  <2>2. GoesOnWith(f, h, f.tried, best, lower, upper, alpha, f.left)
    <3> HIDE DEF alpha, best
    <3> QED BY <1>7, <1>9, TurnedGoesOn
  <2> HIDE DEF h
  <2>3. alpha < f.beta
    <3>1. CASE f.kind = "teacher"
      BY <1>5, <3>1
    <3>2. CASE f.kind # "teacher"
      <4>1. ~(alpha >= f.beta)
        BY <1>8, <1>15, <3>2
      <4> HIDE DEF alpha
      <4> QED BY <1>3, <1>12, <4>1
    <3> QED BY <3>1, <3>2
  <2>4. Stays(G, f, h) /\ Ready(G, w, h)
    <3>1. f.left \in {f.left, <<>>} /\ best = Larger(f.best, s)
      OBVIOUS
    <3> HIDE DEF alpha, best
    <3> QED BY <1>3, <1>4, <1>5, <1>11, <1>12, <1>13, <2>2, <2>3, <3>1, BusyOn
  <2> QED BY <1>3, <2>1, <2>4, HuntReplace DEF f
<1> QED BY <1>14, <1>15

--------------------------------------------------
(* The end of a position, again. *)

(* Where a root is stored, it has tried what it is stored for. *)
LEMMA RootTries ==
  ASSUME NEW w, Hunting(w), Exhausted(w), Top(w).kind # "quiet", Stores(w, Top(w))
  PROVE  Top(w).kind \in Deep \/ (Top(w).kind = "root" /\ Tried(G, w, Top(w)) = Chosen(G, Top(w).node))
<1> DEFINE f == Top(w)  wide == G.adaptive /\ w = Principal
<1>1. /\ worker[w].phase = "search" /\ Stack(w) # <<>>
  BY AdvancesHunt
<1>2. f.kind \notin Deep => f.kind \in Outer(G)
  BY <1>1, HuntIs
<1>3. Normal /\ ~(f.kind = "root" /\ wide)
  BY DEF Stores
<1>4. Outer(G) = {"root"}
  BY <1>3 DEF Outer, Normal
<1>5. ASSUME f.kind \notin Deep PROVE f.kind = "root" /\ Tried(G, w, f) = Chosen(G, f.node)
  <2>1. f.kind = "root" /\ ~wide
    BY <1>2, <1>3, <1>4, <1>5
  <2>2. Tried(G, w, f) = Moves(G, f.node, wide)
    BY <2>1 DEF Tried
  <2>3. (G.domain = "teacher") = FALSE
    BY <1>3 DEF Normal
  <2>4. Chosen(G, f.node) = Moves(G, f.node, FALSE)
    BY <2>3 DEF Chosen
  <2>5. Moves(G, f.node, wide) = Moves(G, f.node, FALSE)
    BY <2>1 DEF Moves
  <2> QED BY <2>1, <2>2, <2>4, <2>5
<1> QED BY <1>5

(* Relative to its position, a mate is as far as it is from there. *)
LEMMA StoredMate ==
  ASSUME NEW g, NEW f, f.best \in Int, f.ply \in Nat, f.alpha0 \in Int, f.beta \in Int, f.alpha0 < f.beta,
         MateTrue(g, f.node, f.ply, f.best, f.alpha0, f.beta)
  PROVE  MateEntry(g, f.node, Entry(f))
<1> DEFINE s == f.best  p == f.ply  a == f.alpha0  b == f.beta  n == f.node  e == Entry(f)  x == ScoreToTt(s, p)
<1>1. s \in Int /\ p \in Nat /\ a \in Int /\ b \in Int /\ a < b
  OBVIOUS
<1>2. /\ s >= Threshold /\ s > a => Wins(g, n, Mate - s - p)
      /\ s <= -Threshold /\ s < b => Loses(g, n, Mate + s - p)
  BY DEF MateTrue
<1>3. e.score = x /\ e.bound = Classify(s, a, b)
  BY DEF Entry, Bound
<1> HIDE DEF e, s, p, a, b
<1>4. /\ e.bound \in {"Lower", "Upper", "Exact"}
      /\ e.bound \in {"Lower", "Exact"} => s > a
      /\ e.bound \in {"Upper", "Exact"} => s < b
  BY <1>1, <1>3 DEF Classify
<1>5. /\ x \in Int
      /\ x >= Threshold => s >= Threshold /\ Mate - x = Mate - s - p
      /\ x <= -Threshold => s <= -Threshold /\ Mate + x = Mate + s - p
  BY <1>1, MatesApart DEF ScoreToTt, Threshold
<1>6. e.bound \in {"Lower", "Exact"} /\ x >= Threshold => Wins(g, n, Mate - x)
  BY <1>2, <1>4, <1>5
<1>7. e.bound \in {"Upper", "Exact"} /\ x <= -Threshold => Loses(g, n, Mate + x)
  BY <1>2, <1>4, <1>5
<1> HIDE DEF x
<1>8. MateEntry(g, n, e)
  BY <1>3, <1>4, <1>5, <1>6, <1>7 DEF MateEntry
<1> QED BY <1>8 DEF e, n

(* What a finished node stores shows true mates only. *)
LEMMA FinishMates ==
  ASSUME NEW w, Hunting(w), Finish(w)
  PROVE  MatesTrue(G, table')
<1> DEFINE f == Top(w)
<1>1. Exhausted(w) /\ f.kind # "quiet"
  BY DEF Finish
<1>2. MatesTrue(G, table)
  BY DEF Hunting
<1>3. ASSUME Stores(w, f) PROVE MateEntry(G, f.node, Entry(f))
  <2>1. /\ IsGame(G) /\ Seated(G, f) /\ Busy(G, w, f, FALSE) /\ f.left = <<>>
        /\ f.best \in Int /\ f.ply \in Nat /\ f.alpha0 \in Int /\ f.beta \in Int /\ f.alpha0 < f.beta
    BY <1>1, AdvancesHunt
  <2>2. f.kind \in Deep \/ (f.kind = "root" /\ Tried(G, w, f) = Chosen(G, f.node))
    BY <1>1, <1>3, RootTries
  <2>3. MateTrue(G, f.node, f.ply, f.best, f.alpha0, f.beta)
    BY <2>1, <2>2, BusyFound
  <2> QED BY <2>1, <2>3, StoredMate
<1>4. /\ DOMAIN table' = DOMAIN table
      /\ \A m \in DOMAIN table : table'[m] = table[m] \/ (m = f.node /\ Stores(w, f) /\ table'[m] = Entry(f))
  BY FinishTable
<1> HIDE DEF f
<1> QED BY <1>2, <1>3, <1>4 DEF MatesTrue

(* What the moves of a root say when all are counted. *)
LEMMA RootVerdict ==
  ASSUME NEW g, NEW w, NEW f, NEW a \in Int, NEW b \in Int, Seated(g, f), Busy(g, w, f, FALSE), f.left = <<>>,
         f.kind \notin Deep, f.kind \in Outer(g), f.ply = 0, Covers(f, a, b)
  PROVE  Verdict(g, w, f.node, a, b, f.best)
<1> DEFINE s == f.best  n == f.node
           Loss(m, k) == Loses(g, g.next[n][m], k)
           Win(m, k) == Wins(g, g.next[n][m], k)
<1>1. /\ s \in Int /\ f.alpha0 \in Int /\ f.beta \in Int
  BY SeatedIs
<1>2. /\ s >= Threshold /\ s > f.alpha0 => \E m \in Tried(g, w, f) : Loss(m, Mate - s - f.ply - 1)
      /\ s <= -Threshold /\ s < f.beta => \A m \in Tried(g, w, f) \ Open(f, FALSE) : Win(m, Mate + s - f.ply - 1)
  BY DEF Busy, Finds
<1>3. Open(f, FALSE) = {}
  <2>1. ToSet(f.left) = {}
    BY DEF ToSet
  <2> QED BY <2>1 DEF Open
<1>4. Tried(g, w, f) = RootTried(g, w, n)
  <2>1. CASE g.domain = "normal"
    <3>1. f.kind = "root"
      BY <2>1 DEF Outer
    <3> QED BY <2>1, <3>1 DEF Tried, RootTried
  <2>2. CASE g.domain \in {"analysis", "teacher"}
    <3>1. f.kind = "teacher" /\ g.domain # "normal"
      BY <2>2 DEF Outer
    <3>2. (g.domain \in {"analysis", "teacher"}) = TRUE
      BY <2>2
    <3> QED BY <3>1, <3>2 DEF Tried, RootTried
  <2>3. g.domain = "normal" \/ g.domain \in {"analysis", "teacher"}
    BY DEF Outer
  <2> QED BY <2>1, <2>2, <2>3
<1>5. Mate - s - f.ply - 1 = Mate - s - 1 /\ Mate + s - f.ply - 1 = Mate + s - 1
  BY <1>1
<1>6. /\ s >= Threshold /\ s > a => s > f.alpha0
      /\ s <= -Threshold /\ s < b => s < f.beta
  <2>1. (f.alpha0 <= a \/ f.alpha0 < Threshold) /\ (f.beta >= b \/ f.beta > -Threshold)
    BY DEF Covers
  <2> HIDE DEF s
  <2>2. Threshold \in Int
    BY DEF Threshold
  <2> QED BY <1>1, <2>1, <2>2
<1> HIDE DEF s, n, Loss, Win
<1>7. /\ s >= Threshold /\ s > a => \E m \in RootTried(g, w, n) : Loss(m, Mate - s - 1)
      /\ s <= -Threshold /\ s < b => \A m \in RootTried(g, w, n) : Win(m, Mate + s - 1)
  BY <1>2, <1>3, <1>4, <1>5, <1>6
<1> QED BY <1>1, <1>7 DEF Verdict, s, n, Loss, Win

(* A finished node answers, or hands the root's verdict on. *)
LEMMA FinishHunts ==
  ASSUME NEW w, Hunting(w), Finish(w)
  PROVE  Hunts(w)
<1> DEFINE f == Top(w)
<1>1. Exhausted(w) /\ f.kind # "quiet"
  BY DEF Finish
<1>2. /\ worker[w].phase = "search" /\ Stack(w) # <<>> /\ IsGame(G) /\ Seated(G, f)
      /\ Busy(G, w, f, FALSE) /\ f.left = <<>> /\ f.best \in Int
  BY <1>1, AdvancesHunt
<1>3. CASE f.kind = "inner"
  <2> DEFINE r == IF f.reduced THEN Unverified(f.best) ELSE Result(f.best, f.lower, f.upper)
  <2>1. worker' = Pop(w, r)
    BY <1>3 DEF Finish
  <2>2. f.kind \in Deep
    BY <1>3 DEF Deep
  <2>3. MateTrue(G, f.node, f.ply, f.best, f.alpha0, f.beta)
    BY <1>2, <2>2, BusyFound
  <2>4. r \in Results /\ r.score = f.best
    <3>1. f.lower \in BOOLEAN /\ f.upper \in BOOLEAN
      BY <1>2 DEF Seated, Flags
    <3> HIDE DEF f
    <3> QED BY <1>2, <3>1 DEF Result, Results, Unverified
  <2>5. Found(G, f, r)
    BY <2>3, <2>4 DEF Found
  <2> HIDE DEF r
  <2> QED BY <1>2, <2>1, <2>2, <2>5, HuntPop
<1>4. CASE f.kind # "inner"
  <2> DEFINE v == [score |-> f.best, at |-> f.at, layer |-> f.layer, lower |-> f.lower, upper |-> f.upper]
             k == worker[w]
             j == [k EXCEPT !.stack = <<>>, !.phase = "judge", !.returned = v]
             a == k.window[1]
             b == k.window[2]
  <2>1. worker' = [worker EXCEPT ![w].stack = <<>>, ![w].phase = "judge", ![w].returned = v]
    BY <1>4 DEF Finish
  <2>2. w \in Workers /\ DOMAIN worker = Workers /\ Runs(G, w, Root, k)
    BY DEF Hunting
  <2>3. DOMAIN worker' = Workers /\ (\A u \in Workers : u # w => worker'[u] = worker[u]) /\ worker'[w] = j
    <3> HIDE DEF v
    <3> QED BY <2>1, <2>2
  <2>4. f.kind \notin Deep
    BY <1>1, <1>4 DEF Deep
  <2>5. /\ f.kind \in Outer(G) /\ f.node = Root /\ f.ply = 0 /\ Covers(f, a, b)
        /\ a \in Int /\ b \in Int /\ Opens(G, k) /\ k.depth >= 1 /\ k.delta \in Nat \ {0}
    BY <1>2, <2>4, HuntIs
  <2>6. Verdict(G, w, Root, a, b, v.score) /\ Outer(G) # Deep
    <3>1. Verdict(G, w, f.node, a, b, f.best)
      BY <1>2, <2>4, <2>5, RootVerdict
    <3> QED BY <2>4, <2>5, <3>1
  <2>7. /\ DOMAIN k = WorkerFields /\ k.depth \in 0..MaxDepth /\ (G.domain = "normal" => Sane(k.previous))
    BY <2>2 DEF Runs
  <2> HIDE DEF v, k
  <2>8. /\ DOMAIN j = WorkerFields /\ j.depth = k.depth /\ j.previous = k.previous /\ j.delta = k.delta
        /\ j.phase = "judge" /\ j.returned = v /\ j.window = k.window
    BY <2>7 DEF WorkerFields
  <2> HIDE DEF j
  <2>9. Opens(G, j)
    BY <2>5, <2>8 DEF Opens
  <2>10. Runs(G, w, Root, j)
    BY <2>5, <2>6, <2>7, <2>8, <2>9 DEF Runs
  <2> QED BY <2>3, <2>10 DEF Hunts
<1> QED BY <1>3, <1>4

--------------------------------------------------
(* Iterations, again. *)

(* An iteration starts with a window, the full one in an analysis. *)
LEMMA LaunchOpens ==
  ASSUME NEW w, Normal => Sane(worker[w].previous), NEW delta \in Nat \ {0},
         NEW v, v = IF Normal THEN Window(w, delta) ELSE <<-Infinity, Infinity>>
  PROVE  /\ v[1] \in Int /\ v[2] \in Int /\ v[1] < v[2] /\ -Infinity <= v[1] /\ v[2] <= Infinity
         /\ G.domain # "normal" => v[1] = -Infinity /\ v[2] = Infinity
<1>1. CASE Normal
  <2>1. v = Window(w, delta) /\ G.domain = "normal"
    BY <1>1 DEF Normal
  <2> QED BY <1>1, <2>1, WindowOpens
<1>2. CASE ~Normal
  <2>1. v = <<-Infinity, Infinity>> /\ G.domain # "normal"
    BY <1>2 DEF Normal
  <2>2. -Infinity < Infinity /\ Infinity \in Nat
    OBVIOUS
  <2> QED BY <2>1, <2>2
<1> QED BY <1>1, <1>2

(* The frame an iteration starts with. *)
LEMMA LaunchChained ==
  ASSUME NEW g, IsGame(g), NEW w, NEW n \in DOMAIN g.kind, NEW depth \in 0..MaxDepth, depth >= 1,
         NEW a \in Int, NEW b \in Int, -Infinity <= a, a < b, b <= Infinity,
         NEW kind, kind \in {"root", "teacher", "inner"}, kind \in Outer(g),
         kind = "root" => g.kind[n] = "open" /\ g.near[n] >= 1,
         NEW f, Framed(f, kind, n, depth, a, b, 0, 0)
  PROVE  Chained(g, w, n, a, b, <<f>>, Nothing)
<1> DEFINE s == <<f>>
<1>1. s \in Seq({f}) /\ s # <<>> /\ Len(s) = 1 /\ s[1] = f
  OBVIOUS
<1>2. Last(s) = f
  BY <1>1 DEF Last
<1> HIDE DEF s
<1>3. IsSeq(s)
  BY <1>1 DEF IsSeq
<1>4. /\ DOMAIN f = Fields /\ f.kind = kind /\ f.node = n /\ f.depth = depth /\ f.alpha = a /\ f.beta = b
      /\ f.ply = 0 /\ f.qply = 0 /\ f.alpha0 = a /\ f.left = <<>> /\ f.tried = 0 /\ f.best = -Infinity
      /\ ~f.begun /\ f.lower = FALSE /\ f.upper = TRUE
  BY DEF Framed
<1>5. Seated(g, f)
  <2>1. 0 + g.free[n] <= CellCount
    BY GameIs
  <2>2. 0 \in 0..MaxQsearchPly
    OBVIOUS
  <2>3. Shaped(f)
    BY <1>4, <2>2 DEF Shaped
  <2>4. Flags(f)
    BY <1>4 DEF Flags
  <2> QED BY <1>4, <2>1, <2>3, <2>4 DEF Seated
<1>6. Unopened(g, w, f)
  <2>1. f.kind = "root" => ~IsFact(g, f.node) /\ Tried(g, w, f) # {}
    <3> HAVE f.kind = "root"
    <3> DEFINE wide == g.adaptive /\ w = Principal
    <3>1. g.kind[n] = "open" /\ g.near[n] >= 1
      BY <1>4
    <3>2. Moves(g, n, wide) # {}
      <4> HIDE DEF wide
      <4> QED BY <3>1, RootMovesAre
    <3>3. Tried(g, w, f) = Moves(g, n, wide)
      BY <1>4 DEF Tried
    <3> QED BY <1>4, <3>1, <3>2, <3>3 DEF IsFact
  <2> QED BY <1>4, <2>1 DEF Unopened
<1>7. Ready(g, w, f)
  BY <1>4, <1>6 DEF Ready
<1>8. \A i \in 1..Len(s) : Seated(g, s[i]) /\ s[i].kind \in Home(g, i)
  <2>1. f.kind \in Home(g, 1)
    BY <1>4 DEF Home
  <2> QED BY <1>1, <1>5, <2>1
<1>9. Covers(s[1], a, b)
  BY <1>1, <1>4 DEF Covers
<1>10. \A i \in 1..Len(s) - 1 : Pauses(g, w, s[i]) /\ Serves(g, s[i], s[i + 1])
  BY <1>1
<1>11. Chained(g, w, n, a, b, s, Nothing)
  BY <1>1, <1>2, <1>3, <1>4, <1>7, <1>8, <1>9, <1>10 DEF Chained
<1> QED BY <1>11 DEF s

(* An iteration starts with one frame that has found nothing. *)
LEMMA LaunchHunts ==
  ASSUME NEW w, Hunting(w), Rooted, NEW depth \in 1..MaxDepth, NEW delta \in Nat \ {0}, Launch(w, depth, delta)
  PROVE  Hunts(w)
<1> DEFINE k == worker[w]
           kind == CASE Normal -> "root" [] Ranks -> "teacher" [] OTHER -> "inner"
           window == IF Normal THEN Window(w, delta) ELSE <<-Infinity, Infinity>>
           f == Frame(kind, Root, depth, window[1], window[2], 0, 0)
           j == [phase |-> "search", depth |-> depth, previous |-> k.previous, delta |-> delta,
                 window |-> window, returned |-> Nothing, stack |-> <<f>>]
<1>1. /\ w \in Workers /\ DOMAIN worker = Workers /\ Runs(G, w, Root, k) /\ IsGame(G) /\ MaxDepth \in Nat
  BY GameOk DEF Hunting
<1>2. (G.domain = "normal" => Sane(k.previous))
  BY <1>1 DEF Runs
<1>3. /\ window[1] \in Int /\ window[2] \in Int /\ window[1] < window[2]
      /\ -Infinity <= window[1] /\ window[2] <= Infinity
      /\ G.domain # "normal" => window[1] = -Infinity /\ window[2] = Infinity
  <2> HIDE DEF window
  <2> QED BY <1>2, LaunchOpens DEF Normal, window
<1>4. Root \in DOMAIN G.kind /\ (Normal => G.kind[Root] = "open" /\ G.near[Root] >= 1)
  BY <1>1, RootIs DEF Rooted, Root
<1>5. depth \in 0..MaxDepth /\ depth >= 1
  BY <1>1
<1>6. kind \in {"root", "teacher", "inner"} /\ kind \in Outer(G) /\ (kind = "root" => Normal)
  <2>1. CASE G.domain = "normal"
    <3>1. Normal /\ ~Ranks /\ Outer(G) = {"root"}
      BY <2>1 DEF Normal, Ranks, Outer
    <3> QED BY <3>1
  <2>2. CASE G.domain \in {"analysis", "teacher"}
    <3>1. ~Normal /\ Ranks /\ Outer(G) = {"teacher"}
      BY <2>2 DEF Normal, Ranks, Outer
    <3> QED BY <3>1
  <2>3. CASE G.domain # "normal" /\ G.domain \notin {"analysis", "teacher"}
    <3>1. ~Normal /\ ~Ranks /\ Outer(G) = Deep
      BY <2>3 DEF Normal, Ranks, Outer
    <3> QED BY <3>1 DEF Deep
  <2> QED BY <2>1, <2>2, <2>3
<1>7. Framed(f, kind, Root, depth, window[1], window[2], 0, 0)
  BY FrameIs
<1>8. worker' = [worker EXCEPT ![w] = j]
  BY DEF Launch
<1> HIDE DEF kind, window, f
<1>9. Chained(G, w, Root, window[1], window[2], <<f>>, Nothing)
  BY <1>1, <1>3, <1>4, <1>5, <1>6, <1>7, LaunchChained
<1>10. /\ DOMAIN j = WorkerFields /\ j.phase = "search" /\ j.depth = depth /\ j.previous = k.previous
       /\ j.delta = delta /\ j.returned = Nothing /\ j.window = window /\ j.stack = <<f>> /\ j.stack # <<>>
  BY DEF WorkerFields
<1>11. DOMAIN worker' = Workers /\ (\A u \in Workers : u # w => worker'[u] = worker[u]) /\ worker'[w] = j
  <2> HIDE DEF j, k
  <2> QED BY <1>1, <1>8
<1> HIDE DEF j, k
<1>12. Opens(G, j)
  BY <1>3, <1>10 DEF Opens
<1>13. Runs(G, w, Root, j)
  BY <1>2, <1>5, <1>9, <1>10, <1>12 DEF Runs
<1> QED BY <1>11, <1>13 DEF Hunts

(* What is known of a worker whatever it does. *)
LEMMA HunterIs ==
  ASSUME NEW w, Hunting(w)
  PROVE  /\ w \in Workers /\ DOMAIN worker = Workers /\ DOMAIN worker[w] = WorkerFields
         /\ worker[w].depth \in 0..MaxDepth /\ (Normal => Sane(worker[w].previous))
         /\ worker[w].phase = "judge" =>
              /\ worker[w].depth >= 1 /\ worker[w].delta \in Nat \ {0} /\ Opens(G, worker[w]) /\ Outer(G) # Deep
              /\ Verdict(G, w, Root, worker[w].window[1], worker[w].window[2], Returned(w).score)
         /\ worker[w].phase = "search" => worker[w].depth >= 1
BY DEF Hunting, Runs, Returned, Normal

(* The next iteration starts. *)
LEMMA IterateHunts ==
  ASSUME NEW w, Hunting(w), Rooted, Iterate(w)
  PROVE  Hunts(w)
<1>1. worker[w].depth \in 0..MaxDepth /\ game \in DOMAIN AllGames
  BY HunterIs DEF Hunting
<1> QED BY <1>1, IterateLaunches, LaunchHunts

(* An iteration starts again with a wider window. *)
LEMMA WidenHunts ==
  ASSUME NEW w, Hunting(w), Rooted, Widen(w)
  PROVE  Hunts(w)
<1>1. worker[w].depth \in 0..MaxDepth /\ worker[w].depth >= 1 /\ worker[w].delta \in Nat \ {0} /\ MaxDepth \in Nat
  BY HunterIs, GameOk DEF Widen, Hunting
<1>2. worker[w].depth \in 1..MaxDepth
  BY <1>1
<1> QED BY <1>1, <1>2, WidenLaunches, LaunchHunts

(* A worker at rest, or between iterations. *)
LEMMA RestHunts ==
  ASSUME NEW w, Hunting(w), NEW previous, Normal => Sane(previous), Rests(w, previous)
  PROVE  Hunts(w)
<1>1. worker[w].depth \in 0..MaxDepth
  BY HunterIs
<1>2. Runs(G, w, Root, worker'[w])
  BY <1>1 DEF Runs, Normal, Rests
<1> QED BY <1>2 DEF Hunts, Rests

(* A completed iteration leaves a score to aspire to. *)
LEMMA AcceptHunts ==
  ASSUME NEW w, Hunting(w), Accept(w)
  PROVE  Hunts(w)
<1> DEFINE k == worker[w]  s == Returned(w).score  a == k.window[1]  b == k.window[2]
<1>1. /\ w \in Workers /\ DOMAIN worker = Workers /\ DOMAIN k = WorkerFields
      /\ Opens(G, k) /\ Verdict(G, w, Root, a, b, s)
  BY HunterIs DEF Accept
<1>2. Normal => Sane(s)
  <2> HAVE Normal
  <2>1. ~(s <= a \/ s >= b)
    BY DEF Accept, Fails
  <2>2. a \in Int /\ b \in Int /\ -Infinity <= a /\ b <= Infinity /\ s \in Int
    BY <1>1 DEF Opens, Verdict
  <2> HIDE DEF s, a, b
  <2> QED BY <2>1, <2>2 DEF Sane
<1>3. Rests(w, s)
  BY <1>1, RestsAs
<1> HIDE DEF s
<1> QED BY <1>2, <1>3, RestHunts

(* The one call of a scoring ends. *)
LEMMA ScoredHunts ==
  ASSUME NEW w, Hunting(w), Scored(w)
  PROVE  Hunts(w)
<1>1. w \in Workers /\ DOMAIN worker = Workers /\ DOMAIN worker[w] = WorkerFields /\ (Normal => Sane(worker[w].previous))
  BY HunterIs
<1>2. Rests(w, worker[w].previous)
  BY <1>1, RestsAs
<1> QED BY <1>1, <1>2, RestHunts

(* A worker that leaves holds nothing. *)
LEMMA IdleHunts ==
  ASSUME NEW w, Hunting(w), worker' = Idle(w)
  PROVE  Hunts(w)
<1>1. w \in Workers /\ DOMAIN worker = Workers /\ DOMAIN worker[w] = WorkerFields /\ (Normal => Sane(worker[w].previous))
  BY HunterIs
<1>2. Rests(w, worker[w].previous)
  BY <1>1, RestsAs
<1> QED BY <1>1, <1>2, RestHunts

--------------------------------------------------
(* Every step of a worker, again. *)

(* Every step of a worker keeps what its stack says of mates. *)
LEMMA StepHunts ==
  ASSUME NEW w, Hunting(w), Rooted, Step(w)
  PROVE  Hunts(w)
<1>1. CASE \/ VisitLeaf(w) \/ QuietFact(w) \/ StandPat(w) \/ VisitQuiet(w) \/ TryQuiet(w) \/ TakeQuiet(w)
           \/ FinishQuiet(w) \/ Razor(w) \/ TakeRazored(w)
  BY <1>1, VisitLeafHunts, QuietFactHunts, StandPatHunts, VisitQuietHunts, TryQuietHunts, TakeQuietHunts,
     FinishQuietHunts, RazorHunts, TakeRazoredHunts
<1>2. CASE \/ VisitFact(w) \/ VisitClosed(w) \/ VisitHit(w) \/ SelectiveCut(w) \/ VisitMoves(w) \/ VisitRoot(w)
           \/ VisitRanked(w) \/ TryRanked(w) \/ Scored(w)
  BY <1>2, VisitFactHunts, VisitClosedHunts, VisitHitHunts, SelectiveCutHunts, VisitMovesHunts, VisitRootHunts,
     VisitRankedHunts, TryRankedHunts, ScoredHunts
<1>3. CASE \/ Prune(w) \/ Try(w) \/ TakeReduced(w) \/ Research(w) \/ ResolveTie(w) \/ Take(w) \/ Finish(w)
  BY <1>3, NothingPruned, TryHunts, TakeReducedHunts, ResearchHunts, ResolveTieHunts, TakeHunts, FinishHunts
<1>4. CASE Iterate(w) \/ Widen(w) \/ Accept(w) \/ Drop(w) \/ HelperDone(w)
  BY <1>4, IterateHunts, WidenHunts, AcceptHunts, IdleHunts DEF Drop, HelperDone
<1> QED BY <1>1, <1>2, <1>3, <1>4, Zenon DEF Step

(* What a step leaves of the result. *)
LEMMA VisitCompletes ==
  ASSUME NEW w,
         \/ VisitLeaf(w) \/ QuietFact(w) \/ StandPat(w) \/ VisitQuiet(w) \/ VisitFact(w) \/ VisitClosed(w)
         \/ VisitHit(w) \/ SelectiveCut(w) \/ VisitMoves(w) \/ VisitRoot(w) \/ VisitRanked(w) \/ Razor(w)
  PROVE  completed' = completed
<1>1. CASE VisitLeaf(w) \/ QuietFact(w) \/ StandPat(w) \/ VisitQuiet(w)
  BY <1>1 DEF VisitLeaf, QuietFact, StandPat, VisitQuiet, Finishes
<1>2. CASE VisitFact(w) \/ VisitClosed(w) \/ VisitHit(w) \/ SelectiveCut(w)
  BY <1>2 DEF VisitFact, VisitClosed, VisitHit, SelectiveCut, Missed, Finishes
<1>3. CASE VisitMoves(w) \/ VisitRoot(w) \/ VisitRanked(w) \/ Razor(w)
  BY <1>3 DEF VisitMoves, VisitRoot, VisitRanked, Razor
<1> QED BY <1>1, <1>2, <1>3, Zenon

(* Nor does trying a move or taking an answer. *)
LEMMA TryCompletes ==
  ASSUME NEW w,
         \/ TryQuiet(w) \/ TakeQuiet(w) \/ FinishQuiet(w) \/ TakeRazored(w) \/ Prune(w) \/ Try(w) \/ TryRanked(w)
         \/ TakeReduced(w) \/ Research(w) \/ ResolveTie(w) \/ Take(w)
  PROVE  completed' = completed
<1>1. CASE TryQuiet(w) \/ TakeQuiet(w) \/ FinishQuiet(w) \/ TakeRazored(w)
  BY <1>1 DEF TryQuiet, TakeQuiet, FinishQuiet, TakeRazored, Finishes
<1>2. CASE Prune(w) \/ Try(w) \/ TryRanked(w)
  BY <1>2 DEF Prune, Try, TryRanked
<1>3. CASE TakeReduced(w) \/ Research(w) \/ ResolveTie(w) \/ Take(w)
  BY <1>3 DEF TakeReduced, Research, ResolveTie, Take
<1> QED BY <1>1, <1>2, <1>3, Zenon

(* Only the end of an iteration changes what is published. *)
LEMMA StepCompletes ==
  ASSUME NEW w, Step(w)
  PROVE  completed' = completed \/ Accept(w) \/ Scored(w)
<1>1. CASE Finish(w) \/ Iterate(w) \/ Widen(w) \/ Drop(w) \/ HelperDone(w)
  BY <1>1 DEF Finish, Iterate, Widen, Drop, HelperDone
<1> QED BY <1>1, VisitCompletes, TryCompletes, Zenon DEF Step

(* The moves of the root, by the domain. *)
LEMMA RootMovesIs == RootMoves = Moves(G, Root, Ranks \/ (Normal /\ G.adaptive))
BY DEF RootMoves

(* What the principal publishes. *)
LEMMA AcceptAnnounces ==
  ASSUME NEW w, Hunting(w), Rooted, Announced, DOMAIN completed = ResultFields, Accept(w)
  PROVE  /\ DOMAIN completed' = ResultFields /\ completed'.score \in Int
         /\ completed'.depth > 0 => Announces(G, Root, RootMoves, completed'.score)
<1> DEFINE s == Returned(w).score  a == worker[w].window[1]  b == worker[w].window[2]
           r == Published(Returned(w), worker[w].depth)
<1>1. /\ worker[w].phase = "judge" /\ ~Fails(w)
      /\ completed' = IF w = Principal THEN r ELSE completed
  BY DEF Accept
<1>2. CASE w # Principal
  BY <1>1, <1>2 DEF Announced
<1>3. CASE w = Principal
  <2>1. completed' = r /\ r.score = s /\ DOMAIN r = ResultFields
    BY <1>1, <1>3 DEF Published, ResultFields
  <2>2. Opens(G, worker[w]) /\ Outer(G) # Deep /\ Verdict(G, w, Root, a, b, s)
    BY <1>1, HunterIs
  <2>3. /\ s \in Int
        /\ s >= Threshold /\ s > a => \E m \in RootTried(G, w, Root) : Loses(G, G.next[Root][m], Mate - s - 1)
        /\ s <= -Threshold /\ s < b => \A m \in RootTried(G, w, Root) : Wins(G, G.next[Root][m], Mate + s - 1)
    BY <2>2 DEF Verdict
  <2>4. /\ s >= Threshold => s > a
        /\ s <= -Threshold => s < b
    <3>1. a \in Int /\ b \in Int /\ (G.domain # "normal" => a = -Infinity /\ b = Infinity)
      BY <2>2 DEF Opens
    <3>2. Normal => ~(s <= a \/ s >= b)
      BY <1>1 DEF Fails
    <3> HIDE DEF s, a, b
    <3>3. CASE Normal
      BY <2>3, <3>1, <3>2, <3>3
    <3>4. CASE ~Normal
      BY <2>3, <3>1, <3>4 DEF Normal, Threshold
    <3> QED BY <3>3, <3>4
  <2>5. RootTried(G, w, Root) = RootMoves
    <3>1. CASE Normal
      <4>1. RootTried(G, w, Root) = Moves(G, Root, G.adaptive /\ w = Principal)
        BY <3>1 DEF RootTried, Normal
      <4>2. RootMoves = Moves(G, Root, Ranks \/ (Normal /\ G.adaptive)) /\ ~Ranks
        BY <3>1, RootMovesIs DEF Normal, Ranks
      <4> QED BY <1>3, <3>1, <4>1, <4>2 DEF Moves
    <3>2. CASE ~Normal
      <4>1. RootTried(G, w, Root) = Moves(G, Root, Ranks)
        BY <3>2 DEF RootTried, Normal, Ranks
      <4> QED BY <3>2, <4>1, RootMovesIs DEF Moves
    <3> QED BY <3>1, <3>2
  <2> HIDE DEF s, a, b, r
  <2> QED BY <2>1, <2>3, <2>4, <2>5 DEF Announces
<1> QED BY <1>2, <1>3

(* What a scoring publishes. *)
LEMMA ScoredAnnounces ==
  ASSUME NEW w, Hunting(w), Rooted, Announced, DOMAIN completed = ResultFields, Scored(w)
  PROVE  /\ DOMAIN completed' = ResultFields /\ completed'.score \in Int
         /\ completed'.depth > 0 => Announces(G, Root, RootMoves, completed'.score)
<1> DEFINE s == Returned(w).score  good == Returned(w).lower /\ Returned(w).upper
           r == [completed EXCEPT !.score = s, !.depth = G.depth]
<1>1. /\ worker[w].phase = "search" /\ Stack(w) = <<>>
      /\ completed' = IF good THEN r ELSE completed
  BY DEF Scored
<1>2. CASE ~good
  <2>1. completed' = completed
    BY <1>1, <1>2
  <2> QED BY <2>1 DEF Announced
<1>3. CASE good
  <2>1. completed' = r /\ r.score = s /\ DOMAIN r = ResultFields
    BY <1>1, <1>3 DEF ResultFields
  <2>2. Outer(G) = Deep /\ Returned(w) \in Results /\ MateTrue(G, Root, 0, s, -Infinity, Infinity)
    <3>1. Runs(G, w, Root, worker[w])
      BY DEF Hunting
    <3> QED BY <1>1, <3>1 DEF Runs, Stack, Returned
  <2>3. /\ s \in Int
        /\ s >= Threshold => Wins(G, Root, Mate - s)
        /\ s <= -Threshold => Loses(G, Root, Mate + s)
    <3>1. /\ s \in Int
          /\ s >= Threshold /\ s > -Infinity => Wins(G, Root, Mate - s - 0)
          /\ s <= -Threshold /\ s < Infinity => Loses(G, Root, Mate + s - 0)
      BY <2>2 DEF MateTrue
    <3> HIDE DEF s
    <3>2. Mate - s - 0 = Mate - s /\ Mate + s - 0 = Mate + s
      BY <3>1
    <3>3. (s >= Threshold => s > -Infinity) /\ (s <= -Threshold => s < Infinity)
      BY <3>1 DEF Threshold
    <3> QED BY <3>1, <3>2, <3>3
  <2>4. RootMoves = Chosen(G, Root)
    <3>1. G.domain \notin {"normal", "analysis", "teacher"}
      <4>1. "inner" \notin {"root"} /\ "inner" \notin {"teacher"} /\ "inner" \in Deep
        BY DEF Deep
      <4>2. "inner" \in Outer(G)
        BY <2>2, <4>1
      <4> QED BY <4>1, <4>2 DEF Outer
    <3>2. ~(Ranks \/ (Normal /\ G.adaptive)) /\ ~(G.domain = "teacher")
      BY <3>1 DEF Ranks, Normal
    <3> QED BY <3>2, RootMovesIs DEF Chosen, Moves
  <2> HIDE DEF s, r
  <2>5. s >= Threshold => G.kind[Root] = "win" \/ \E m \in RootMoves : Loses(G, G.next[Root][m], Mate - s - 1)
    <3> HAVE s >= Threshold
    <3>1. Mate - s \in Int /\ Mate - s <= CellCount
      BY <2>3 DEF Threshold
    <3> QED BY <2>3, <2>4, <3>1, WinBack
  <2>6. s <= -Threshold => G.kind[Root] = "loss" \/ \A m \in RootMoves : Wins(G, G.next[Root][m], Mate + s - 1)
    <3> HAVE s <= -Threshold
    <3>1. Mate + s \in Int /\ Mate + s <= CellCount
      BY <2>3 DEF Threshold
    <3> QED BY <2>3, <2>4, <3>1, WinBack
  <2> QED BY <2>1, <2>3, <2>5, <2>6 DEF Announces
<1> QED BY <1>2, <1>3

--------------------------------------------------
(* The engine, again. *)

(* What the steps that leave the game and the search alone preserve. *)
LEMMA MatesStep ==
  ASSUME MInv, game' = game, search' = search, DOMAIN worker' = DOMAIN worker,
         DOMAIN completed' = ResultFields,
         team' = "idle" => \A w \in Workers : worker'[w].phase = "idle",
         Sighted => MatesTrue(G, table'),
         Sighted /\ team' # "idle" =>
           /\ Rooted /\ \A w \in Workers : Runs(G, w, Root, worker'[w])
           /\ completed'.score \in Int
           /\ completed'.depth > 0 => Announces(G, Root, RootMoves, completed'.score)
  PROVE  MInv'
<1>1. G' = G /\ (Normal' <=> Normal) /\ Root' = Root
  BY Same
<1>2. (Ranks' <=> Ranks) /\ (Sighted' <=> Sighted) /\ Workers' = Workers
  BY <1>1 DEF Ranks, Sighted, Workers, Principal, Blind
<1>3. RootMoves' = RootMoves
  BY <1>1, <1>2 DEF RootMoves, Moves
<1>4. game' \in DOMAIN AllGames' /\ search' \in Nat /\ DOMAIN worker' = Workers'
  BY <1>2 DEF MInv, AllGames
<1>5. Rooted => Rooted'
  BY <1>1 DEF Rooted
<1>6. Sighted /\ team' # "idle" => Teamwork'
  BY <1>1, <1>2, <1>3, <1>5 DEF Teamwork, Announced
<1> QED BY <1>1, <1>2, <1>4, <1>6 DEF MInv, ResultFields

(* What the invariant says of a worker of a team at work. *)
LEMMA HuntingIs ==
  ASSUME MInv, Sighted, team # "idle", NEW w \in Workers
  PROVE  Hunting(w) /\ Rooted /\ Announced /\ DOMAIN completed = ResultFields
BY DEF MInv, Teamwork, Hunting, Sighted

(* The published result stays a record of the same fields. *)
LEMMA FieldsKept ==
  ASSUME NEW w, Accept(w) \/ Scored(w), DOMAIN completed = ResultFields
  PROVE  DOMAIN completed' = ResultFields
<1>1. CASE Accept(w)
  <2>1. DOMAIN Published(Returned(w), worker[w].depth) = ResultFields
    BY DEF Published, ResultFields
  <2> QED BY <1>1, <2>1 DEF Accept
<1>2. CASE Scored(w)
  BY <1>2 DEF Scored
<1> QED BY <1>1, <1>2

(* Every step of a worker keeps the invariant of mates. *)
LEMMA StepMates ==
  ASSUME MInv, NEW w \in Workers, Step(w)
  PROVE  MInv'
<1>1. /\ game' = game /\ search' = search /\ team' = team /\ DOMAIN worker' = DOMAIN worker
      /\ worker[w].phase # "idle" /\ (Finish(w) \/ table' = table)
  BY StepFrames DEF Frames
<1>2. team # "idle"
  BY <1>1 DEF MInv
<1>3. completed' = completed \/ Accept(w) \/ Scored(w)
  BY StepCompletes
<1>4. DOMAIN completed = ResultFields
  BY DEF MInv
<1>5. DOMAIN completed' = ResultFields
  BY <1>3, <1>4, FieldsKept
<1>6. Sighted => MatesTrue(G, table')
  <2> HAVE Sighted
  <2>1. CASE table' = table
    BY <2>1 DEF MInv
  <2>2. CASE Finish(w)
    BY <1>2, <2>2, HuntingIs, FinishMates
  <2> QED BY <1>1, <2>1, <2>2
<1>7. ASSUME Sighted
      PROVE  /\ Rooted /\ \A v \in Workers : Runs(G, v, Root, worker'[v])
             /\ completed'.score \in Int
             /\ completed'.depth > 0 => Announces(G, Root, RootMoves, completed'.score)
  <2>1. Hunting(w) /\ Rooted /\ Announced
    BY <1>2, <1>7, HuntingIs
  <2>2. Hunts(w)
    BY <2>1, StepHunts
  <2>3. \A v \in Workers : Runs(G, v, Root, worker[v])
    BY <1>2, <1>7 DEF MInv, Teamwork
  <2>4. \A v \in Workers : Runs(G, v, Root, worker'[v])
    BY <2>2, <2>3 DEF Hunts
  <2>5. /\ completed'.score \in Int
        /\ completed'.depth > 0 => Announces(G, Root, RootMoves, completed'.score)
    <3>1. CASE completed' = completed
      BY <2>1, <3>1 DEF Announced
    <3>2. CASE Accept(w)
      BY <1>4, <2>1, <3>2, AcceptAnnounces
    <3>3. CASE Scored(w)
      BY <1>4, <2>1, <3>3, ScoredAnnounces
    <3> QED BY <1>3, <3>1, <3>2, <3>3
  <2> QED BY <2>1, <2>4, <2>5
<1> QED BY <1>1, <1>2, <1>5, <1>6, <1>7, MatesStep

(* The end of the principal keeps it. *)
LEMMA DoneMates ==
  ASSUME MInv, Done
  PROVE  MInv'
<1>1. /\ worker' = Idle(Principal) /\ team' = "stopping" /\ worker[Principal].phase # "idle"
      /\ game' = game /\ search' = search /\ table' = table /\ completed' = completed
  BY DEF Done
<1>2. team # "idle"
  BY <1>1, PrincipalWorks DEF MInv
<1>3. DOMAIN worker' = DOMAIN worker
  BY <1>1, StackFrames
<1>4. ASSUME Sighted
      PROVE  Rooted /\ Announced /\ \A v \in Workers : Runs(G, v, Root, worker'[v])
  <2>1. Hunting(Principal) /\ Rooted /\ Announced
    BY <1>2, <1>4, HuntingIs, PrincipalWorks
  <2>2. Hunts(Principal)
    BY <1>1, <2>1, IdleHunts
  <2>3. \A v \in Workers : Runs(G, v, Root, worker[v])
    BY <1>2, <1>4 DEF MInv, Teamwork
  <2> QED BY <2>1, <2>2, <2>3 DEF Hunts
<1>5. DOMAIN completed = ResultFields /\ (Sighted => MatesTrue(G, table))
  BY DEF MInv
<1>6. ASSUME Sighted
      PROVE  /\ completed'.score \in Int
             /\ completed'.depth > 0 => Announces(G, Root, RootMoves, completed'.score)
  BY <1>1, <1>4, <1>6 DEF Announced
<1> QED BY <1>1, <1>3, <1>4, <1>5, <1>6, MatesStep

(* The steps that leave all but the team alone. *)
LEMMA RestMates ==
  ASSUME MInv, game' = game, search' = search, table' = table, worker' = worker, completed' = completed,
         team' = "idle" => \A w \in Workers : worker[w].phase = "idle",
         team' # "idle" => team # "idle"
  PROVE  MInv'
<1>1. DOMAIN completed = ResultFields /\ (Sighted => MatesTrue(G, table))
  BY DEF MInv
<1>2. Sighted /\ team' # "idle" =>
        /\ Rooted /\ \A w \in Workers : Runs(G, w, Root, worker[w])
        /\ completed.score \in Int
        /\ completed.depth > 0 => Announces(G, Root, RootMoves, completed.score)
  BY DEF MInv, Teamwork, Announced
<1> QED BY <1>1, <1>2, MatesStep

(* A stop keeps it. *)
LEMMA StopMates ==
  ASSUME MInv, Stop
  PROVE  MInv'
BY RestMates DEF Stop

(* The join keeps it. *)
LEMMA JoinMates ==
  ASSUME MInv, Join
  PROVE  MInv'
BY RestMates DEF Join

(* A worker before its first iteration has found nothing. *)
LEMMA RestingRuns ==
  ASSUME NEW g, NEW w, NEW n, NEW phase \in {"idle", "boundary"}, NEW s, g.domain = "normal" => Sane(s)
  PROVE  Runs(g, w, n, [Resting EXCEPT !.phase = phase, !.previous = s])
<1> DEFINE k == [Resting EXCEPT !.phase = phase, !.previous = s]
<1>1. DOMAIN k = WorkerFields /\ k.phase = phase /\ k.previous = s /\ k.depth = 0
  BY DEF Resting, WorkerFields
<1> HIDE DEF k
<1>2. 0 \in 0..MaxDepth
  BY AlphaBetaAssumption
<1>3. Runs(g, w, n, k)
  BY <1>1, <1>2 DEF Runs
<1> QED BY <1>3 DEF k

(* The start of a search keeps it: nothing is completed yet. *)
LEMMA BeginMates ==
  ASSUME MInv, Begin
  PROVE  MInv'
<1>1. /\ team = "idle" /\ game \in DOMAIN AllGames /\ search \in Nat /\ DOMAIN worker = Workers
      /\ (\A w \in Workers : worker[w].phase = "idle") /\ (Sighted => MatesTrue(G, table))
  BY DEF MInv, Begin
<1>2. /\ game' = game /\ table' = table /\ search' \in Nat /\ search' \in DOMAIN G'.roots
      /\ G' = G /\ AllGames' = AllGames /\ Workers' = Workers /\ DOMAIN worker' = Workers
      /\ \E s \in Int : completed' = Result0(1, s)
  BY <1>1, BeginIs
<1>3. (Sighted' <=> Sighted) /\ (Sighted' => MatesTrue(G', table'))
  BY <1>1, <1>2 DEF Sighted, Blind
<1>4. DOMAIN completed' = ResultFields /\ completed'.score \in Int /\ ~(completed'.depth > 0)
  BY <1>2 DEF Result0, ResultFields
<1>5. CASE team' = "idle" /\ worker' = worker
  BY <1>1, <1>2, <1>3, <1>4, <1>5 DEF MInv
<1>6. CASE ~(team' = "idle" /\ worker' = worker)
  <2>1. /\ team' # "idle" /\ Sane(G.static[Root']) /\ (Normal' => G'.kind[Root'] = "open")
        /\ \A w \in Workers : \E p \in {"idle", "boundary"} :
             worker'[w] = [Resting EXCEPT !.phase = p, !.previous = G.static[Root']]
    BY <1>1, <1>6, BeginIs
  <2> DEFINE at == G.static[Root']
  <2>2. \A w \in Workers : Runs(G, w, Root', worker'[w])
    <3> TAKE w \in Workers
    <3>1. PICK p \in {"idle", "boundary"} : worker'[w] = [Resting EXCEPT !.phase = p, !.previous = at]
      BY <2>1
    <3>2. Sane(at)
      BY <2>1
    <3> HIDE DEF at
    <3>3. Runs(G, w, Root', [Resting EXCEPT !.phase = p, !.previous = at])
      BY <3>2, RestingRuns
    <3> QED BY <3>1, <3>3, Zenon
  <2>3. \A w \in Workers' : Runs(G', w, Root', worker'[w])
    BY <1>2, <2>2
  <2>4. Rooted' /\ Announced'
    BY <1>2, <1>4, <2>1 DEF Rooted, Announced
  <2>5. Teamwork'
    BY <2>3, <2>4 DEF Teamwork
  <2> QED BY <1>1, <1>2, <1>3, <1>4, <2>1, <2>5 DEF MInv
<1> QED BY <1>5, <1>6

(* An empty table shows no mate. *)
LEMMA ForgottenMates ==
  ASSUME NEW g
  PROVE  MatesTrue(g, [n \in DOMAIN g.kind |-> Empty])
<1>1. Empty.bound = "Empty" /\ Empty.score = 0
  BY DEF Empty
<1>2. \A n : MateEntry(g, n, Empty)
  BY <1>1 DEF MateEntry
<1> QED BY <1>2 DEF MatesTrue

(* A new evaluator keeps it: the table is forgotten. *)
LEMMA ReplaceMates ==
  ASSUME MInv, ReplaceEvaluator
  PROVE  MInv'
<1>1. /\ team = "idle" /\ G.other \in DOMAIN AllGames /\ game' = G.other /\ table' = Forgotten
      /\ search' = search /\ team' = team /\ worker' = worker /\ completed' = completed
  BY DEF ReplaceEvaluator
<1>2. /\ game \in DOMAIN AllGames /\ search \in Nat /\ DOMAIN worker = Workers
      /\ \A w \in Workers : worker[w].phase = "idle"
      /\ DOMAIN completed = ResultFields
  BY <1>1 DEF MInv
<1>3. DOMAIN Games[G.other].kind = DOMAIN G.kind
  BY <1>1, <1>2, AlphaBetaAssumption DEF G, AllGames
<1>4. G' = Games[G.other] /\ AllGames' = AllGames /\ Workers' = Workers
  BY <1>1 DEF G, AllGames, Workers, Principal
<1>5. table' = [n \in DOMAIN G'.kind |-> Empty]
  BY <1>1, <1>3, <1>4 DEF Forgotten
<1>6. MatesTrue(G', table')
  BY <1>5, ForgottenMates
<1> QED BY <1>1, <1>2, <1>4, <1>6 DEF MInv, ResultFields

(* The invariant of mates holds at the start. *)
LEMMA InitMates == Init => MInv
<1> SUFFICES ASSUME Init PROVE MInv
  OBVIOUS
<1>1. /\ game \in DOMAIN AllGames /\ search = 0 /\ team = "idle" /\ table = [n \in DOMAIN G.kind |-> Empty]
      /\ worker = [w \in Workers |-> Resting] /\ completed = Result0(0, 0)
  BY DEF Init
<1>2. DOMAIN worker = Workers /\ \A w \in Workers : worker[w].phase = "idle"
  BY <1>1 DEF Resting
<1>3. MatesTrue(G, table)
  BY <1>1, ForgottenMates
<1>4. DOMAIN completed = ResultFields
  BY <1>1 DEF Result0, ResultFields
<1> QED BY <1>1, <1>2, <1>3, <1>4 DEF MInv

(* Every step keeps the invariant of mates. *)
LEMMA NextMates == MInv /\ [Next]_vars => MInv'
<1> SUFFICES ASSUME MInv, [Next]_vars PROVE MInv'
  OBVIOUS
<1>1. CASE \E w \in Workers : Step(w)
  BY <1>1, StepMates
<1>2. CASE Done
  BY <1>2, DoneMates
<1>3. CASE Stop
  BY <1>3, StopMates
<1>4. CASE Begin
  BY <1>4, BeginMates
<1>5. CASE Join
  BY <1>5, JoinMates
<1>6. CASE ReplaceEvaluator
  BY <1>6, ReplaceMates
<1>7. CASE UNCHANGED vars
  <2>1. /\ game' = game /\ search' = search /\ table' = table /\ worker' = worker /\ team' = team
        /\ completed' = completed
    BY <1>7 DEF vars
  <2>2. team = "idle" => \A w \in Workers : worker[w].phase = "idle"
    BY DEF MInv
  <2> QED BY <2>1, <2>2, RestMates
<1> QED BY <1>1, <1>2, <1>3, <1>4, <1>5, <1>6, <1>7 DEF Next

(* The invariant of mates says what is published. *)
LEMMA MatesShown == MInv => MatesAreForced
<1> SUFFICES ASSUME MInv, completed.depth > 0, team # "idle", Sighted PROVE
      /\ completed.score >= Threshold =>
           \/ G.kind[Root] = "win"
           \/ \E m \in RootMoves : G.next[Root][m] \in Forced[game][Mate - completed.score - 1].loses
      /\ completed.score <= -Threshold =>
           \/ G.kind[Root] = "loss"
           \/ \A m \in RootMoves : G.next[Root][m] \in Forced[game][Mate + completed.score - 1].wins
  BY DEF MatesAreForced, Sighted
<1> DEFINE s == completed.score
<1>1. game \in DOMAIN AllGames /\ s \in Int /\ Announces(G, Root, RootMoves, s)
  BY DEF MInv, Teamwork, Announced
<1>2. Forced[game] = ForcedWins(G)
  BY <1>1 DEF Forced, G
<1> HIDE DEF s
<1>3. /\ Mate - s - 1 \in Int /\ Mate + s - 1 \in Int
      /\ s >= Threshold => Mate - s - 1 <= CellCount
      /\ s <= -Threshold => Mate + s - 1 <= CellCount
  BY <1>1 DEF Threshold
<1>4. /\ s >= Threshold => G.kind[Root] = "win" \/ \E m \in RootMoves : Loses(G, G.next[Root][m], Mate - s - 1)
      /\ s <= -Threshold => G.kind[Root] = "loss" \/ \A m \in RootMoves : Wins(G, G.next[Root][m], Mate + s - 1)
  BY <1>1 DEF Announces
<1>5. s >= Threshold => \A n : Loses(G, n, Mate - s - 1) => n \in ForcedWins(G)[Mate - s - 1].loses
  BY <1>3, WithinIs
<1>6. s <= -Threshold => \A n : Wins(G, n, Mate + s - 1) => n \in ForcedWins(G)[Mate + s - 1].wins
  BY <1>3, WithinIs
<1> QED BY <1>2, <1>4, <1>5, <1>6, Zenon DEF s

(* A mate score a search has completed is a forced mate, no longer than it *)
(* says, for every game, number of helpers, depth and interleaving, out of *)
(* reductions, razoring, null moves, extensions and entries of other *)
(* depths, as long as every move of a node is looked at (Take, Finish, *)
(* Accept, Scored). *)
THEOREM MatesForced == Spec => []MatesAreForced
<1>1. MInv /\ [Next]_vars => MInv'
  BY NextMates
<1> QED BY InitMates, <1>1, MatesShown, PTL DEF Spec
================================================================================
