------------------------- MODULE OfflineSolverProofs -------------------------
(***************************************************************************)
(* The offline solver for every board, order of moves, limit and bound:    *)
(* a saved tree is loaded again as it was, and, with sound tactics, every   *)
(* verdict is the game's own.                                              *)
(*                                                                         *)
(* The invariant SolverInv has three parts.  The tree is a tree of the     *)
(* game (Shaped: parents come first, children are the first moves of the   *)
(* order of their position, each once), each node can show its evidence    *)
(* (Judged: a cache points backward to a decided node with the same key),  *)
(* and the table of exact results names decided nodes (Tabled).  What the  *)
(* children of a node say may not be counted in it on the path from the    *)
(* node that is worked on to the root, whose nodes are undecided; off that *)
(* path it is (OnPath, with Above as the path).  Propagate shortens the    *)
(* path by one node; when it is gone every number is the one that          *)
(* load_checkpoint computes again, so the file passes.                     *)
(*                                                                         *)
(* TruthInv adds that verdicts are true.  A forced win is the least set of *)
(* boards that holds whatever is won in it, so nothing is assumed of the   *)
(* length of a game; it does not change under the symmetries of the board, *)
(* which is what a result reused by its key rests on.  It is what working  *)
(* the game out from the full boards down finds (WorkedOut).               *)
(***************************************************************************)
EXTENDS OfflineOutcomes, GomokuProofs

USE BoardAssumption, NothingAssumption

-----------------------------------------------------------------------------
(* Least elements, and sums over finite sets. *)

(* The least element of a set of naturals. *)
LEMMA MinIs ==
  ASSUME NEW S \in SUBSET Nat, S # {}
  PROVE  Min(S) \in S /\ \A x \in S : Min(S) <= x
<1>1. \E m \in S : \A x \in S : m <= x
  BY LeastNatural
<1>2. (CHOOSE m \in S : \A x \in S : m <= x) \in S
        /\ \A x \in S : (CHOOSE m \in S : \A y \in S : m <= y) <= x
  BY <1>1
<1> QED
  BY <1>2, Zenon DEF Min

(* The sum is a natural number, zero if all its terms are, and no less than *)
(* any of them.                                                            *)
LEMMA SummingIs ==
  ASSUME NEW S, IsFiniteSet(S), NEW f \in [S -> Nat], NEW g, Summing(f, S, g)
  PROVE  /\ g[S] \in Nat
         /\ g[S] = 0 <=> \A j \in S : f[j] = 0
         /\ \A j \in S : f[j] <= g[S]
<1>1. Summing(f, S, g)
  OBVIOUS
<1> DEFINE Good(s) == /\ g[s] \in Nat
                      /\ g[s] = 0 <=> \A j \in s : f[j] = 0
                      /\ \A j \in s : f[j] <= g[s]
           Bad == {s \in SUBSET S : ~ Good(s)}
<1>3. \A s \in SUBSET S : IsFiniteSet(s) /\ Cardinality(s) \in Nat
  BY FS_Subset, FS_CardinalityType
<1>4. ASSUME Bad # {} PROVE FALSE
  <2>3. PICK s \in Bad : \A t \in Bad : Cardinality(s) <= Cardinality(t)
    BY <1>3, <1>4, LeastSet
  <2>4. CASE s = {}
    <3>1. g[s] = 0
      BY <1>1, <2>4 DEF Summing
    <3> QED
      BY <3>1, <2>3, <2>4
  <2>5. CASE s # {}
    <3> DEFINE x == CHOOSE x \in s : TRUE
               u == s \ {x}
    <3>1. x \in s
      BY <2>5
    <3>2. g[s] = f[x] + g[u]
      BY <1>1, <2>5 DEF Summing
    <3> HIDE DEF x
    <3>3. u \in SUBSET S /\ Cardinality(u) < Cardinality(s)
      BY <3>1, <1>3, OneLess
    <3>6. Cardinality(u) \in Nat /\ Cardinality(s) \in Nat
      BY <3>3, <1>3
    <3> HIDE DEF Good, u
    <3>9. u \notin Bad
      BY <3>3, <3>6, <2>3
    <3>4. Good(u)
      BY <3>9, <3>3
    <3> USE DEF Good, u
    <3>5. f[x] \in Nat /\ (\A j \in s : j = x \/ j \in u) /\ u \subseteq s
      BY <3>1
    <3> HIDE DEF u
    <3>7. \A j \in s : f[j] \in Nat
      OBVIOUS
    <3>8. Good(s)
      BY <3>2, <3>4, <3>5, <3>7, <3>1
    <3> QED
      BY <3>8, <2>3
  <2> QED
    BY <2>4, <2>5
<1>5. Good(S)
  BY <1>4
<1> QED
  BY <1>5

-----------------------------------------------------------------------------
(* The order of moves. *)

LEMMA PreferenceIs ==
  /\ Preference \in Seq(Cells) /\ Len(Preference) \in Nat
  /\ \A i \in 1..Len(Preference) : Preference[i] \in Cells
  /\ \A c \in Cells : \E i \in 1..Len(Preference) : Preference[i] = c
  /\ \A i, j \in 1..Len(Preference) : Preference[i] = Preference[j] => i = j
<1>1. /\ Preference \in Seq(Cells) /\ ToSet(Preference) = Cells
      /\ Len(Preference) = Cardinality(Cells)
  BY SolverAssumption
<1>2. /\ Len(Preference) \in Nat /\ DOMAIN Preference = 1..Len(Preference)
      /\ Preference \in [1..Len(Preference) -> Cells]
  BY <1>1, LenProperties
<1>3. \A c \in Cells : \E i \in 1..Len(Preference) : Preference[i] = c
  BY <1>1, <1>2 DEF ToSet
<1>4. Preference \in Surjection(1..Len(Preference), Cells)
  BY <1>2, <1>3 DEF Surjection
<1>5. IsFiniteSet(1..Len(Preference)) /\ Cardinality(1..Len(Preference)) = Len(Preference)
  BY <1>2, FS_Interval
<1>6. Preference \in Injection(1..Len(Preference), Cells)
  BY <1>1, <1>4, <1>5, FS_SurjSameCardinalityImpliesInj
<1>7. \A i, j \in 1..Len(Preference) : Preference[i] = Preference[j] => i = j
  BY <1>6 DEF Injection, IsInjective
<1>8. \A i \in 1..Len(Preference) : Preference[i] \in Cells
  BY <1>2
<1> QED
  BY <1>1, <1>2, <1>3, <1>7, <1>8

(* The recursion of Preferred on the first N moves has a solution. *)
IsKept(S, N, f) ==
  f = [i \in 0..N |-> IF i = 0 THEN <<>>
                       ELSE IF Preference[i] \in S THEN Append(f[i - 1], Preference[i])
                       ELSE f[i - 1]]

LEMMA KeptExists ==
  ASSUME NEW S, NEW N \in Nat
  PROVE  \E f : IsKept(S, N, f)
<1> DEFINE Next1(seq, i) == IF Preference[i] \in S THEN Append(seq, Preference[i]) ELSE seq
           Step1(f, k) == [j \in 0..k |-> IF j = 0 THEN <<>> ELSE Next1(f[j - 1], j)]
           T == {k \in Nat : ~ \E f : f = Step1(f, k)}
<1> HIDE DEF Next1
<1>2. T = {}
  <2> SUFFICES ASSUME T # {} PROVE FALSE
    OBVIOUS
  <2>1. PICK k \in T : \A i \in T : k <= i
    <3>1. T \in SUBSET Nat
      OBVIOUS
    <3> HIDE DEF T
    <3> QED
      BY <3>1, LeastNatural
  <2>2. CASE k = 0
    <3> DEFINE w == [j \in 0..0 |-> <<>>]
    <3>1. w = Step1(w, 0)
      OBVIOUS
    <3> HIDE DEF w
    <3> QED
      BY <2>1, <2>2, <3>1
  <2>3. CASE k # 0
    <3>1. k - 1 \in Nat /\ ~(k <= k - 1)
      BY <2>1, <2>3
    <3>2. k - 1 \notin T
      BY <2>1, <3>1
    <3>3. PICK f : f = Step1(f, k - 1)
      BY <3>1, <3>2
    <3> DEFINE w == [j \in 0..k |-> IF j < k THEN f[j] ELSE Next1(f[k - 1], k)]
    <3>4. ASSUME NEW j \in 0..k
          PROVE  w[j] = IF j = 0 THEN <<>> ELSE Next1(w[j - 1], j)
      <4>1. CASE j = k
        BY <2>3, <3>1, <4>1
      <4>2. CASE j < k
        <5>1. j \in 0..k - 1 /\ w[j] = f[j] /\ (j # 0 => j - 1 \in 0..k /\ w[j - 1] = f[j - 1])
          BY <4>2
        <5>2. f[j] = IF j = 0 THEN <<>> ELSE Next1(f[j - 1], j)
          BY <3>3, <5>1
        <5> HIDE DEF w
        <5> QED
          BY <5>1, <5>2
      <4>3. j = k \/ j < k
        BY <3>1
      <4> QED
        BY <4>1, <4>2, <4>3
    <3>5. w = Step1(w, k)
      BY <3>4
    <3> HIDE DEF w
    <3> QED
      BY <2>1, <3>5
  <2> QED
    BY <2>2, <2>3
<1>3. PICK f : f = Step1(f, N)
  BY <1>2
<1>4. \A i \in 0..N : Next1(f[i - 1], i) = IF Preference[i] \in S THEN Append(f[i - 1], Preference[i])
                                           ELSE f[i - 1]
  BY DEF Next1
<1>5. f = [i \in 0..N |-> IF i = 0 THEN <<>>
                          ELSE IF Preference[i] \in S THEN Append(f[i - 1], Preference[i])
                          ELSE f[i - 1]]
  BY <1>3, <1>4
<1> QED
  BY <1>5 DEF IsKept

(* A sequence that lists a set, each element once. *)
Lists(s, S) ==
  /\ s \in Seq(S)
  /\ \A i, j \in 1..Len(s) : s[i] = s[j] => i = j
  /\ \A c \in S : \E i \in 1..Len(s) : s[i] = c

LEMMA ListsAppend ==
  ASSUME NEW S, NEW s, Lists(s, S), NEW c, c \notin S
  PROVE  Lists(Append(s, c), S \cup {c})
<1>1. s \in Seq(S) /\ Len(s) \in Nat /\ \A i \in 1..Len(s) : s[i] \in S
  BY LenProperties, ElementOfSeq DEF Lists
<1>2. s \in Seq(S \cup {c})
  BY <1>1, SeqDef
<1>3. /\ Append(s, c) \in Seq(S \cup {c}) /\ Len(Append(s, c)) = Len(s) + 1
      /\ \A i \in 1..Len(s) : Append(s, c)[i] = s[i]
      /\ Append(s, c)[Len(s) + 1] = c
  BY <1>2, AppendProperties
<1> HIDE DEF Lists
<1> DEFINE t == Append(s, c)
<1> HIDE DEF t
<1>6. /\ Len(t) = Len(s) + 1 /\ t[Len(s) + 1] = c
      /\ \A i \in 1..Len(s) : t[i] = s[i] /\ t[i] # c
  BY <1>1, <1>3 DEF t
<1>7. \A i, j \in 1..Len(s) : s[i] = s[j] => i = j
  BY DEF Lists
<1>4. ASSUME NEW i \in 1..Len(t), NEW j \in 1..Len(t), t[i] = t[j] PROVE i = j
  <2>1. i \in 1..Len(s) \/ i = Len(s) + 1
    BY <1>1, <1>6
  <2>2. j \in 1..Len(s) \/ j = Len(s) + 1
    BY <1>1, <1>6
  <2> QED
    BY <2>1, <2>2, <1>4, <1>6, <1>7
<1>5. \A d \in S \cup {c} : \E i \in 1..Len(t) : t[i] = d
  <2> SUFFICES ASSUME NEW d \in S \cup {c} PROVE \E i \in 1..Len(t) : t[i] = d
    OBVIOUS
  <2>1. CASE d = c
    BY <2>1, <1>1, <1>3 DEF t
  <2>2. CASE d \in S
    <3>1. PICK i \in 1..Len(s) : s[i] = d
      BY <2>2 DEF Lists
    <3>2. i \in 1..Len(t) /\ t[i] = d
      BY <1>1, <1>3, <3>1 DEF t
    <3> QED
      BY <3>2
  <2> QED
    BY <2>1, <2>2
<1> QED
  BY <1>3, <1>4, <1>5 DEF Lists, t

LEMMA ListsLength ==
  ASSUME NEW S, NEW s, Lists(s, S)
  PROVE  Len(s) \in Nat /\ Cardinality(S) = Len(s) /\ \A i \in 1..Len(s) : s[i] \in S
<1>1. s \in [1..Len(s) -> S] /\ Len(s) \in Nat
  BY LenProperties DEF Lists
<1>4. s \in Injection(1..Len(s), S)
  <2>1. \A i, j \in 1..Len(s) : s[i] = s[j] => i = j
    BY DEF Lists
  <2> QED
    BY <1>1, <2>1 DEF Injection, IsInjective
<1>5. s \in Surjection(1..Len(s), S)
  <2>1. \A c \in S : \E i \in 1..Len(s) : s[i] = c
    BY DEF Lists
  <2> QED
    BY <1>1, <2>1 DEF Surjection
<1>2. s \in Bijection(1..Len(s), S)
  BY <1>4, <1>5 DEF Bijection
<1>3. ExistsBijection(1..Len(s), S)
  BY <1>2 DEF ExistsBijection
<1> QED
  BY <1>1, <1>3, FS_CountingElements

LEMMA PreferredIs ==
  ASSUME NEW S \in SUBSET Cells
  PROVE  Lists(Preferred(S), S)
<1> DEFINE N == Len(Preference)
           Kept(f) == [i \in 0..N |-> IF i = 0 THEN <<>>
                                      ELSE IF Preference[i] \in S THEN Append(f[i - 1], Preference[i])
                                      ELSE f[i - 1]]
           kept == CHOOSE f : f = Kept(f)
           Seen(k) == {Preference[i] : i \in 1..k} \cap S
<1>1. /\ N \in Nat /\ \A i \in 1..N : Preference[i] \in Cells
      /\ \A c \in Cells : \E i \in 1..N : Preference[i] = c
      /\ \A i, j \in 1..N : Preference[i] = Preference[j] => i = j
  BY PreferenceIs
<1>2. kept = Kept(kept)
  <2>2. Len(Preference) \in Nat
    BY PreferenceIs
  <2>3. \E f : IsKept(S, Len(Preference), f)
    BY <2>2, KeptExists, Zenon
  <2>1. \E f : f = Kept(f)
    BY <2>3 DEF IsKept
  <2> HIDE DEF Kept
  <2> QED
    BY <2>1, Zenon
<1>3. Preferred(S) = kept[N]
  BY DEF Preferred
<1> HIDE DEF kept, N
<1>4. \A k \in 0..N : kept[k] = IF k = 0 THEN <<>>
                                ELSE IF Preference[k] \in S THEN Append(kept[k - 1], Preference[k])
                                ELSE kept[k - 1]
  BY <1>2
<1> HIDE DEF Kept
<1> DEFINE Bad == {k \in 0..N : ~ Lists(kept[k], Seen(k))}
<1>5. ASSUME Bad # {} PROVE FALSE
  <2>1. PICK k \in Bad : \A i \in Bad : k <= i
    <3>1. Bad \in SUBSET Nat
      BY <1>1
    <3> HIDE DEF Bad
    <3> QED
      BY <3>1, <1>5, LeastNatural
  <2>2. CASE k = 0
    <3>1. kept[k] = <<>> /\ Seen(k) = {}
      BY <1>1, <1>4, <2>2
    <3>2. Lists(<<>>, {})
      BY EmptySeq DEF Lists
    <3> QED
      BY <3>1, <3>2, <2>1
  <2>3. CASE k # 0
    <3>1. k \in 1..N /\ k - 1 \in 0..N /\ ~(k <= k - 1)
      BY <1>1, <2>1, <2>3
    <3>2. Lists(kept[k - 1], Seen(k - 1))
      BY <2>1, <3>1
    <3>3. Preference[k] \notin Seen(k - 1)
      BY <1>1, <3>1
    <3>4. CASE Preference[k] \in S
      <4>1. Seen(k) = Seen(k - 1) \cup {Preference[k]}
        BY <1>1, <3>1, <3>4
      <4>2. kept[k] = Append(kept[k - 1], Preference[k])
        BY <1>4, <3>4, <2>3, <3>1
      <4> HIDE DEF Seen
      <4>3. Lists(kept[k], Seen(k))
        BY <4>1, <4>2, <3>2, <3>3, ListsAppend
      <4> QED
        BY <4>3, <2>1
    <3>5. CASE Preference[k] \notin S
      <4>1. Seen(k) = Seen(k - 1)
        BY <1>1, <3>1, <3>5
      <4>2. kept[k] = kept[k - 1]
        BY <1>4, <3>5, <2>3, <3>1
      <4> HIDE DEF Seen
      <4> QED
        BY <4>1, <4>2, <3>2, <2>1
    <3> QED
      BY <3>4, <3>5
  <2> QED
    BY <2>2, <2>3
<1>6. Lists(kept[N], Seen(N))
  <2>1. N \in 0..N
    BY <1>1
  <2> QED
    BY <1>5, <2>1
<1>7. Seen(N) = S
  BY <1>1
<1> QED
  BY <1>3, <1>6, <1>7

(* The moves of a position are its empty cells, each once. *)
LEMMA OrderedIs ==
  ASSUME NEW p
  PROVE  /\ Empties(p) \in SUBSET Cells /\ IsFiniteSet(Empties(p)) /\ Cardinality(Empties(p)) \in Nat
         /\ Lists(Ordered(p), Empties(p))
<1> DEFINE E == Empties(p)
           U == Wins(p, p.side) \cup Wins(p, Opponent(p.side))
           s == Preferred(U)
           t == Preferred(E \ U)
<1>1. E \in SUBSET Cells /\ U \in SUBSET E
  BY DEF Empties, Wins
<1>3. Ordered(p) = s \o t
  BY DEF Ordered
<1> HIDE DEF E, U, s, t
<1>2. IsFiniteSet(E) /\ Cardinality(E) \in Nat
  BY <1>1, BoardAssumption, FS_Subset, FS_CardinalityType
<1>4. Lists(s, U) /\ Lists(t, E \ U)
  BY <1>1, PreferredIs DEF s, t
<1>5. /\ Len(s) \in Nat /\ Len(t) \in Nat
      /\ \A i \in 1..Len(s) : s[i] \in U
      /\ \A i \in 1..Len(t) : t[i] \in E \ U
  BY <1>4, ListsLength
<1>6. s \in Seq(E) /\ t \in Seq(E)
  BY <1>4, <1>1, SeqDef DEF Lists
<1>7. /\ s \o t \in Seq(E) /\ Len(s \o t) = Len(s) + Len(t)
      /\ \A i \in 1..Len(s) + Len(t) : (s \o t)[i] = IF i <= Len(s) THEN s[i] ELSE t[i - Len(s)]
  BY <1>6, ConcatProperties
<1> DEFINE q == s \o t
<1> HIDE DEF q
<1>8. \A i, j \in 1..Len(q) : q[i] = q[j] => i = j
  <2> SUFFICES ASSUME NEW i \in 1..Len(q), NEW j \in 1..Len(q), q[i] = q[j] PROVE i = j
    OBVIOUS
  <2>1. CASE i <= Len(s) /\ j <= Len(s)
    <3>1. i \in 1..Len(s) /\ j \in 1..Len(s) /\ s[i] = s[j]
      BY <2>1, <1>5, <1>7 DEF q
    <3> QED
      BY <3>1, <1>4 DEF Lists
  <2>2. CASE ~(i <= Len(s)) /\ ~(j <= Len(s))
    <3>1. i - Len(s) \in 1..Len(t) /\ j - Len(s) \in 1..Len(t) /\ t[i - Len(s)] = t[j - Len(s)]
      BY <2>2, <1>5, <1>7 DEF q
    <3>2. i - Len(s) = j - Len(s)
      BY <3>1, <1>4 DEF Lists
    <3> QED
      BY <3>2, <1>5, <1>7 DEF q
  <2>3. CASE i <= Len(s) /\ ~(j <= Len(s))
    BY <2>3, <1>5, <1>7 DEF q
  <2>4. CASE ~(i <= Len(s)) /\ j <= Len(s)
    BY <2>4, <1>5, <1>7 DEF q
  <2> QED
    BY <2>1, <2>2, <2>3, <2>4
<1>9. \A c \in E : \E i \in 1..Len(q) : q[i] = c
  <2> SUFFICES ASSUME NEW c \in E PROVE \E i \in 1..Len(q) : q[i] = c
    OBVIOUS
  <2>1. CASE c \in U
    <3>1. PICK i \in 1..Len(s) : s[i] = c
      BY <2>1, <1>4 DEF Lists
    <3>2. i \in 1..Len(q) /\ q[i] = c
      BY <3>1, <1>5, <1>7 DEF q
    <3> QED
      BY <3>2
  <2>2. CASE c \notin U
    <3>1. PICK i \in 1..Len(t) : t[i] = c
      BY <2>2, <1>4 DEF Lists
    <3>2. i + Len(s) \in 1..Len(q) /\ q[i + Len(s)] = c
      BY <3>1, <1>5, <1>7 DEF q
    <3> QED
      BY <3>2
  <2> QED
    BY <2>1, <2>2
<1> QED
  BY <1>1, <1>2, <1>3, <1>7, <1>8, <1>9 DEF Lists, q, E

-----------------------------------------------------------------------------
(* Boards: positions whose incremental facts are those of their cells. *)

Taken(p) == {c \in Cells : p.cells[c] # Nothing}
InRow(cells, stone) == \E line \in Lines : \A c \in line : cells[c] = stone
Boards ==
  {p \in Positions : /\ p.count = Cardinality(Taken(p))
                     /\ \A stone \in Stones : p.winner = stone <=> InRow(p.cells, stone)}

LEMMA StonesAre ==
  /\ \A s \in Stones : Opponent(s) \in Stones /\ Opponent(s) # s /\ s # Nothing
  /\ \A s, t \in Stones : t # s => t = Opponent(s)
BY NothingAssumption DEF Stones, Opponent

LEMMA TakenIs ==
  ASSUME NEW p
  PROVE  /\ IsFiniteSet(Taken(p)) /\ Cardinality(Taken(p)) \in Nat /\ Cardinality(Cells) \in Nat
         /\ Cardinality(Taken(p)) <= Cardinality(Cells)
         /\ Cardinality(Taken(p)) = Cardinality(Cells) <=> \A c \in Cells : p.cells[c] # Nothing
<1>1. Taken(p) \in SUBSET Cells
  BY DEF Taken
<1> DEFINE T == Taken(p)
<1> HIDE DEF T
<1>2. IsFiniteSet(Cells)
  BY BoardAssumption
<1>3. /\ IsFiniteSet(T) /\ Cardinality(T) <= Cardinality(Cells)
      /\ Cardinality(Cells) = Cardinality(T) => Cells = T
  BY <1>1, <1>2, FS_Subset DEF T
<1>4. Cardinality(T) \in Nat /\ Cardinality(Cells) \in Nat
  BY <1>2, <1>3, FS_CardinalityType
<1>5. T = Cells <=> \A c \in Cells : p.cells[c] # Nothing
  BY DEF T, Taken
<1> QED
  BY <1>3, <1>4, <1>5 DEF T

(* A move on a board makes a board. *)
LEMMA MoveMakesBoard ==
  ASSUME NEW p \in Boards, NEW at \in Cells, Legal(p, at)
  PROVE  MakeMove(p, at) \in Boards
<1> DEFINE s == p.side
           cells == [p.cells EXCEPT ![at] = s]
           q == MakeMove(p, at)
<1>1. /\ p.cells \in [Cells -> Stones \cup {Nothing}] /\ s \in Stones /\ p.count \in Nat
      /\ p.count = Cardinality(Taken(p)) /\ p.winner = Nothing /\ p.cells[at] = Nothing
      /\ \A stone \in Stones : p.winner = stone <=> InRow(p.cells, stone)
  BY DEF Boards, Positions, Legal
<1>2. /\ q.cells = cells /\ q.side = Opponent(s) /\ q.count = p.count + 1 /\ q.last = at
      /\ q.winner = IF HasFiveFrom(cells, at, s) THEN s ELSE Nothing
  BY DEF MakeMove
<1>3. q \in Positions
  <2>1. cells \in [Cells -> Stones \cup {Nothing}]
    BY <1>1
  <2> HIDE DEF cells
  <2> QED
    BY <1>1, <1>2, <2>1, StonesAre DEF MakeMove, Positions, cells
<1> HIDE DEF q
<1>4. q.count = Cardinality(Taken(q))
  <2>1. Taken(q) = Taken(p) \cup {at} /\ at \notin Taken(p)
    BY <1>1, <1>2, StonesAre DEF Taken
  <2>2. IsFiniteSet(Taken(p))
    BY TakenIs
  <2> DEFINE T == Taken(p)
  <2> HIDE DEF T
  <2>3. Cardinality(T \cup {at}) = Cardinality(T) + 1
    BY <2>1, <2>2, FS_AddElement DEF T
  <2> QED
    BY <2>1, <2>3, <1>1, <1>2 DEF T
<1>5. ASSUME NEW stone \in Stones PROVE q.winner = stone <=> InRow(cells, stone)
  <2>1. ASSUME q.winner = stone PROVE InRow(cells, stone)
    <3>1. stone = s /\ HasFiveFrom(cells, at, s)
      BY <2>1, <1>2, StonesAre
    <3> QED
      BY <3>1 DEF HasFiveFrom, InRow
  <2>2. ASSUME InRow(cells, stone) PROVE q.winner = stone
    <3>1. PICK line \in Lines : \A c \in line : cells[c] = stone
      BY <2>2 DEF InRow
    <3>2. line \subseteq Cells
      BY BoardAssumption
    <3>3. CASE at \in line
      <4>1. stone = s
        BY <3>1, <3>3, <1>1
      <4>2. HasFiveFrom(cells, at, s)
        BY <3>1, <3>3, <4>1 DEF HasFiveFrom
      <4> QED
        BY <4>1, <4>2, <1>2
    <3>4. CASE at \notin line
      <4>1. \A c \in line : p.cells[c] = stone
        BY <3>1, <3>2, <3>4, <1>1
      <4>2. p.winner = stone
        BY <4>1, <1>1 DEF InRow
      <4> QED
        BY <4>2, <1>1, StonesAre
    <3> QED
      BY <3>3, <3>4
  <2> QED
    BY <2>1, <2>2
<1> QED
  BY <1>2, <1>3, <1>4, <1>5 DEF Boards, q

(* Every recorded game ends on a board. *)
LEMMA ReplayMakesBoard ==
  ASSUME NEW moves \in Roots
  PROVE  Replay(moves).position \in Boards
<1> DEFINE n == Len(moves)
           Bad == {k \in 0..n : PositionAt(moves, k) \notin Boards}
<1>1. moves \in Seq(Cells) /\ IsRecord(moves) /\ n \in Nat
  BY SolverAssumption, LenProperties
<1>2. IsLine(moves) /\ Replay(moves) = GameAt(moves, n)
  BY <1>1, RecordIs
<1>3. PositionAt(moves, 0) \in Boards
  <2>1. 0 \in 0..n
    BY <1>1
  <2>2. PositionAt(moves, 0) = EmptyPosition
    <3>1. CellsAt(moves, 0) = [c \in Cells |-> Nothing]
      BY <1>1 DEF CellsAt, HeldBy
    <3>2. WinnerAt(moves, 0) = Nothing /\ Stone(0 + 1) = "Black" /\ LastAt(moves, 0) = Nothing
      BY DEF WinnerAt, Stone, LastAt
    <3> QED
      BY <3>1, <3>2 DEF PositionAt, EmptyPosition
  <2>3. EmptyPosition \in Positions
    BY DEF EmptyPosition, Positions, Stones
  <2>4. Taken(EmptyPosition) = {} /\ EmptyPosition.count = 0 /\ EmptyPosition.winner = Nothing
    BY DEF EmptyPosition, Taken
  <2>5. \A stone \in Stones : ~InRow(EmptyPosition.cells, stone)
    <3> SUFFICES ASSUME NEW stone \in Stones, NEW line \in Lines PROVE \E c \in line : EmptyPosition.cells[c] # stone
      BY DEF InRow
    <3>1. PICK c \in line : c \in Cells
      BY BoardAssumption
    <3> QED
      BY <3>1, StonesAre DEF EmptyPosition
  <2> QED
    BY <2>2, <2>3, <2>4, <2>5, FS_EmptySet, StonesAre DEF Boards
<1>4. Bad = {}
  <2> SUFFICES ASSUME Bad # {} PROVE FALSE
    OBVIOUS
  <2>1. PICK k \in Bad : \A i \in Bad : k <= i
    <3>1. Bad \in SUBSET Nat
      BY <1>1
    <3> HIDE DEF Bad
    <3> QED
      BY <3>1, LeastNatural
  <2>2. k \in 0..n /\ PositionAt(moves, k) \notin Boards
    BY <2>1
  <2>3. CASE k = 0
    BY <2>2, <2>3, <1>3
  <2>4. CASE k # 0
    <3>1. k - 1 \in 0..n - 1 /\ k - 1 \in 0..n /\ ~(k <= k - 1) /\ (k - 1) + 1 = k
      BY <2>2, <2>4, <1>1
    <3>2. PositionAt(moves, k - 1) \in Boards
      BY <3>1, <2>1
    <3>3. Playable(GameAt(moves, k - 1), moves[k]) /\ moves[k] \in Cells
      BY <3>1, <1>2, StillOpen
    <3>4. MakeMove(PositionAt(moves, k - 1), moves[k]) = PositionAt(moves, k)
      BY <3>1, <1>2, MakeMoveIs
    <3>5. Legal(PositionAt(moves, k - 1), moves[k])
      BY <3>3 DEF Playable, GameAt
    <3> QED
      BY <3>2, <3>3, <3>4, <3>5, <2>2, MoveMakesBoard
  <2> QED
    BY <2>3, <2>4
<1>5. n \in 0..n
  BY <1>1
<1>6. Replay(moves).position = PositionAt(moves, n)
  BY <1>2 DEF GameAt
<1> QED
  BY <1>4, <1>5, <1>6

-----------------------------------------------------------------------------
(* The tree. *)

Outcomes == {"ProvenWin", "Refuted", "Unknown"}
Kinds == {"Unknown", "Terminal", "Immediate", "Tactical", "Cached", "Aggregated"}
Node ==
  [parent : Nat, via : Cells \cup {Nothing}, position : Boards, next : Nat, tried : BOOLEAN,
   outcome : Outcomes, proof : Nat, disproof : Nat,
   evidence : [kind : Kinds, source : Nat, limits : Limits \cup {"none"}]]

Derived(ns, k) ==
  k # 1 => /\ ns[k].via \in Cells
           /\ ns[k].position = MakeMove(ns[ns[k].parent].position, ns[k].via)

(* The tree as a tree of the game: each node a legal move from its parent, *)
(* each expanded in the order of its moves.                                *)
Shaped(ns) ==
  /\ ns \in Seq(Node) /\ Len(ns) \in 1..ResidentLimit
  /\ \A k \in 1..Len(ns) :
       WellLinked(ns, k) /\ Derived(ns, k) /\ ExpandedInOrder(ns, k) /\ Omitted(ns, k) \in Nat

LEMMA ShapedIs ==
  ASSUME NEW ns, ns \in Seq(Node), Len(ns) \in 1..ResidentLimit
  PROVE  /\ Len(ns) \in Nat /\ Len(ns) >= 1 /\ DOMAIN ns = 1..Len(ns)
         /\ ns \in [1..Len(ns) -> Node]
<1>1. Len(ns) \in Nat /\ DOMAIN ns = 1..Len(ns) /\ ns \in [1..Len(ns) -> Node]
  BY LenProperties
<1> QED
  BY <1>1

LEMMA ChildrenAre ==
  ASSUME NEW ns, ns \in Seq(Node), Len(ns) \in 1..ResidentLimit, NEW k
  PROVE  IsFiniteSet(Children(ns, k)) /\ Children(ns, k) \in SUBSET (1..Len(ns))
<1>1. Len(ns) \in Nat /\ DOMAIN ns = 1..Len(ns)
  BY ShapedIs
<1>2. Children(ns, k) \in SUBSET (1..Len(ns))
  BY <1>1 DEF Children
<1>3. IsFiniteSet(1..Len(ns))
  BY <1>1, FS_Interval
<1> QED
  BY <1>2, <1>3, FS_Subset

(* The tree with another node in the place of the k-th, and with a new one. *)
Replaced(ns, k, n) == [ns EXCEPT ![k] = n]
Grown(ns, k, n) == Append([ns EXCEPT ![k].next = @ + 1], n)

(* A node changes in what is known of it alone: the tree stays. *)
LEMMA ShapeStays ==
  ASSUME NEW ns, Shaped(ns), NEW k \in 1..Len(ns), NEW n \in Node,
         n.parent = ns[k].parent, n.via = ns[k].via, n.position = ns[k].position,
         n.next = ns[k].next
  PROVE  LET ms == Replaced(ns, k, n)
         IN /\ Shaped(ms) /\ Len(ms) = Len(ns) /\ ms[k] = n
            /\ \A j \in 1..Len(ns) : j # k => ms[j] = ns[j]
            /\ \A j \in 1..Len(ns) : /\ ms[j].position = ns[j].position
                                     /\ ms[j].parent = ns[j].parent
                                     /\ Omitted(ms, j) = Omitted(ns, j)
            /\ \A j : Children(ms, j) = Children(ns, j)
<1> DEFINE ms == [ns EXCEPT ![k] = n]
<1>1. /\ ns \in Seq(Node) /\ Len(ns) \in 1..ResidentLimit /\ Len(ns) \in Nat
      /\ DOMAIN ns = 1..Len(ns) /\ ns \in [1..Len(ns) -> Node]
  BY ShapedIs DEF Shaped
<1>2. ms \in Seq(Node) /\ Len(ms) = Len(ns) /\ DOMAIN ms = 1..Len(ns)
  BY <1>1, ExceptSeq
<1>3. \A j \in 1..Len(ns) : ms[j] = IF j = k THEN n ELSE ns[j]
  BY <1>1
<1> HIDE DEF ms
<1>4. \A j \in 1..Len(ns) : /\ ms[j].position = ns[j].position /\ ms[j].parent = ns[j].parent
                            /\ ms[j].via = ns[j].via /\ ms[j].next = ns[j].next
  BY <1>3
<1>5. \A j : Children(ms, j) = Children(ns, j)
  BY <1>1, <1>2, <1>4 DEF Children
<1>6. \A j \in 1..Len(ns) : Omitted(ms, j) = Omitted(ns, j)
  BY <1>4 DEF Omitted
<1>7. ASSUME NEW j \in 1..Len(ns)
      PROVE  WellLinked(ms, j) /\ Derived(ms, j) /\ ExpandedInOrder(ms, j) /\ Omitted(ms, j) \in Nat
  <2>1. WellLinked(ns, j) /\ Derived(ns, j) /\ ExpandedInOrder(ns, j) /\ Omitted(ns, j) \in Nat
    BY DEF Shaped
  <2>2. ExpandedInOrder(ms, j)
    BY <2>1, <1>4, <1>5, <1>1 DEF ExpandedInOrder, Children
  <2>3. CASE j = 1
    BY <2>1, <2>2, <2>3, <1>4, <1>6 DEF WellLinked, Derived
  <2>4. CASE j # 1
    <3>1. ns[j].parent \in 1..j - 1 /\ ns[j].parent \in 1..Len(ns)
      BY <2>1, <2>4, <1>1 DEF WellLinked
    <3>2. ms[ns[j].parent].position = ns[ns[j].parent].position
      BY <3>1, <1>4
    <3>3. WellLinked(ms, j) /\ Derived(ms, j)
      BY <3>1, <3>2, <2>1, <2>4, <1>4 DEF WellLinked, Derived
    <3> QED
      BY <3>3, <2>2, <2>1, <1>6
  <2> QED
    BY <2>3, <2>4
<1>8. Shaped(ms)
  BY <1>1, <1>2, <1>7 DEF Shaped
<1>9. Replaced(ns, k, n) = ms
  BY DEF Replaced, ms
<1> QED
  BY <1>2, <1>3, <1>4, <1>5, <1>6, <1>8, <1>9

LEMMA NextNode ==
  ASSUME NEW n \in Node
  PROVE  [n EXCEPT !.next = @ + 1] \in Node
<1>1. n.next + 1 \in Nat
  BY DEF Node
<1>2. \A i \in Nat : [n EXCEPT !.next = i] \in Node
  BY DEF Node
<1> QED
  BY <1>1, <1>2

(* n is the next child of the k-th node, and there is room for it. *)
NextChild(ns, k, n) ==
  /\ Len(ns) < ResidentLimit /\ Omitted(ns, k) > 0
  /\ n.parent = k /\ n.next = 0
  /\ n.via = Ordered(ns[k].position)[ns[k].next + 1]
  /\ n.position = MakeMove(ns[k].position, n.via)

(* A node gets its next child. *)
LEMMA ShapeGrows ==
  ASSUME NEW ns, Shaped(ns), NEW k \in 1..Len(ns), NEW n \in Node, NextChild(ns, k, n)
  PROVE  LET ms == Grown(ns, k, n)
         IN /\ Shaped(ms) /\ Len(ms) = Len(ns) + 1 /\ ms[Len(ns) + 1] = n
            /\ \A j \in 1..Len(ns) : j # k => ms[j] = ns[j]
            /\ ms[k] = [ns[k] EXCEPT !.next = @ + 1]
            /\ Omitted(ms, k) = Omitted(ns, k) - 1
            /\ Children(ms, k) = Children(ns, k) \cup {Len(ns) + 1}
            /\ \A j \in 1..Len(ns) : j # k => Omitted(ms, j) = Omitted(ns, j)
            /\ \A j \in 1..Len(ns) : j # k => Children(ms, j) = Children(ns, j)
            /\ Children(ms, Len(ns) + 1) = {}
<1> DEFINE m == [ns[k] EXCEPT !.next = @ + 1]
           ls == [ns EXCEPT ![k].next = @ + 1]
           L == Len(ns)
           ms == Append(ls, n)
           P == ns[k].position
           i == ns[k].next + 1
<1>0. /\ Len(ns) < ResidentLimit /\ Omitted(ns, k) > 0
      /\ n.parent = k /\ n.next = 0
      /\ n.via = Ordered(ns[k].position)[ns[k].next + 1]
      /\ n.position = MakeMove(ns[k].position, n.via)
  BY DEF NextChild
<1> USE <1>0
<1>1. /\ ns \in Seq(Node) /\ L \in 1..ResidentLimit /\ L \in Nat /\ L >= 1
      /\ DOMAIN ns = 1..L /\ ns \in [1..L -> Node] /\ k \in 1..L /\ ResidentLimit \in Nat
  BY ShapedIs, SolverAssumption DEF Shaped
<1>2. ns[k] \in Node /\ m \in Node /\ ls = [ns EXCEPT ![k] = m]
  <2>1. ns[k] \in Node
    BY <1>1
  <2>2. m \in Node
    BY <2>1, NextNode
  <2>3. ls = [ns EXCEPT ![k] = m]
    OBVIOUS
  <2> QED
    BY <2>1, <2>2, <2>3
<1>3. ls \in Seq(Node) /\ Len(ls) = L
  BY <1>1, <1>2, ExceptSeq
<1>4. \A j \in 1..L : ls[j] = IF j = k THEN m ELSE ns[j]
  BY <1>1, <1>2
<1>5. /\ ms \in Seq(Node) /\ Len(ms) = L + 1 /\ ms[L + 1] = n
      /\ \A j \in 1..L : ms[j] = ls[j]
  BY <1>3, AppendProperties
<1>6. /\ m.parent = ns[k].parent /\ m.via = ns[k].via /\ m.position = P
      /\ m.next = ns[k].next + 1 /\ ns[k].next \in Nat
  BY <1>2 DEF Node
<1>7. DOMAIN ms = 1..L + 1
  BY <1>5, LenProperties
<1> HIDE DEF ms, ls, L, m
<1>8. \A j \in 1..L : /\ ms[j] = (IF j = k THEN m ELSE ns[j])
                        /\ ms[j].position = ns[j].position /\ ms[j].parent = ns[j].parent
                        /\ ms[j].via = ns[j].via
                        /\ ms[j].next = (IF j = k THEN ns[k].next + 1 ELSE ns[j].next)
  BY <1>4, <1>5, <1>6
<1>9. ASSUME NEW j PROVE Children(ms, j) = IF j = k THEN Children(ns, j) \cup {L + 1} ELSE Children(ns, j)
  <2>1. \A i1 \in 1..L + 1 : i1 \in 1..L \/ i1 = L + 1
    BY <1>1
  <2>2. Children(ms, j) = {i1 \in 1..L : ns[i1].parent = j} \cup {i1 \in {L + 1} : n.parent = j}
    BY <1>1, <1>7, <1>8, <1>5, <2>1 DEF Children
  <2> QED
    BY <2>2, <1>1 DEF Children
<1>10. \A j \in 1..L : WellLinked(ns, j) /\ Derived(ns, j) /\ ExpandedInOrder(ns, j) /\ Omitted(ns, j) \in Nat
  BY DEF Shaped, L
<1>11. /\ Lists(Ordered(P), Empties(P)) /\ Cardinality(Empties(P)) \in Nat
       /\ Cardinality(Empties(P)) = Len(Ordered(P)) /\ Empties(P) \in SUBSET Cells
       /\ \A a \in 1..Len(Ordered(P)) : Ordered(P)[a] \in Empties(P)
  BY OrderedIs, ListsLength
<1>12. Omitted(ns, k) = Cardinality(Empties(P)) - ns[k].next
  BY DEF Omitted
<1>13. i \in 1..Len(Ordered(P)) /\ n.via \in Empties(P)
  BY <1>11, <1>12, <1>6
<1>14. n.via \in Cells /\ Legal(P, n.via)
  BY <1>13 DEF Empties
<1>15. \A j \in 1..L : Children(ns, j) \in SUBSET (1..L) /\ IsFiniteSet(Children(ns, j))
  BY <1>1, ChildrenAre DEF L
<1>16. Children(ns, L + 1) = {}
  <2>1. ASSUME NEW j \in 1..L PROVE ns[j].parent # L + 1
    BY <1>1, <1>10, SMTT(20) DEF WellLinked
  <2> QED
    BY <2>1, <1>1 DEF Children
<1>17. /\ Omitted(ms, k) = Omitted(ns, k) - 1
       /\ \A j \in 1..L : j # k => Omitted(ms, j) = Omitted(ns, j)
  <2>1. Omitted(ms, k) = Cardinality(Empties(P)) - (ns[k].next + 1)
    BY <1>8, <1>1 DEF Omitted
  <2>2. Omitted(ms, k) = Omitted(ns, k) - 1
    BY <2>1, <1>11, <1>12, <1>6
  <2> QED
    BY <2>2, <1>8 DEF Omitted
<1>18. ASSUME NEW j \in 1..L
       PROVE  WellLinked(ms, j) /\ Derived(ms, j) /\ ExpandedInOrder(ms, j) /\ Omitted(ms, j) \in Nat
  <2>1. WellLinked(ns, j) /\ Derived(ns, j) /\ ExpandedInOrder(ns, j) /\ Omitted(ns, j) \in Nat
    BY <1>10
  <2>2. Omitted(ms, j) \in Nat
    <3>1. CASE j = k
      BY <3>1, <2>1, <1>17
    <3>2. CASE j # k
      BY <3>2, <2>1, <1>17
    <3> QED
      BY <3>1, <3>2
  <2>3. WellLinked(ms, j) /\ Derived(ms, j)
    <3>1. CASE j = 1
      BY <2>1, <3>1, <1>8 DEF WellLinked, Derived
    <3>2. CASE j # 1
      <4>1. ns[j].parent \in 1..j - 1 /\ ns[j].parent \in 1..L
        BY <2>1, <3>2, <1>1 DEF WellLinked
      <4>2. ms[ns[j].parent].position = ns[ns[j].parent].position
        BY <4>1, <1>8
      <4> QED
        BY <4>1, <4>2, <2>1, <3>2, <1>8 DEF WellLinked, Derived
    <3> QED
      BY <3>1, <3>2
  <2>4. CASE j # k
    <3>1. Children(ms, j) = Children(ns, j) /\ Children(ns, j) \in SUBSET (1..L)
      BY <2>4, <1>9, <1>15
    <3>2. ExpandedInOrder(ms, j)
      BY <3>1, <2>1, <2>4, <1>8, ZenonT(20) DEF ExpandedInOrder
    <3> QED
      BY <2>2, <2>3, <3>2
  <2>5. CASE j = k
    <3> DEFINE kids == Children(ns, k)
    <3>1. /\ Children(ms, k) = kids \cup {L + 1} /\ kids \in SUBSET (1..L) /\ IsFiniteSet(kids)
          /\ ms[k].position = P /\ ms[k].next = ns[k].next + 1
      BY <1>9, <1>15, <1>8, <1>1
    <3>2. Cardinality(kids) = ns[k].next /\ \A a \in kids : ns[a].via = Ordered(P)[Cardinality(kids \cap 1..a)]
      BY <2>1, <2>5 DEF ExpandedInOrder
    <3> HIDE DEF kids, P
    <3>3. Cardinality(kids \cup {L + 1}) = ns[k].next + 1
      <4>1. L + 1 \notin kids
        BY <3>1, <1>1
      <4> DEFINE x == L + 1
      <4> HIDE DEF x
      <4>2. Cardinality(kids \cup {x}) = Cardinality(kids) + 1
        BY <4>1, <3>1, FS_AddElement, Zenon DEF x
      <4> QED
        BY <4>2, <3>2 DEF x
    <3>4. ASSUME NEW a \in kids PROVE ms[a].via = Ordered(P)[Cardinality((kids \cup {L + 1}) \cap 1..a)]
      <4>1. (kids \cup {L + 1}) \cap 1..a = kids \cap 1..a
        BY <3>1, <1>1
      <4> QED
        BY <4>1, <3>1, <3>2, <1>8
    <3>5. ms[L + 1].via = Ordered(P)[Cardinality((kids \cup {L + 1}) \cap 1..L + 1)]
      <4>1. (kids \cup {L + 1}) \cap 1..L + 1 = kids \cup {L + 1}
        <5>1. \A x \in kids \cup {L + 1} : x \in 1..L + 1
          BY <3>1, <1>1
        <5> QED
          BY <5>1, Zenon
      <4> QED
        BY <4>1, <3>3, <1>5 DEF P
    <3>6. ExpandedInOrder(ms, k)
      BY <3>1, <3>3, <3>4, <3>5, ZenonT(20) DEF ExpandedInOrder
    <3> QED
      BY <3>6, <2>2, <2>3, <2>5
  <2> QED
    BY <2>4, <2>5
<1>19. WellLinked(ms, L + 1) /\ Derived(ms, L + 1) /\ ExpandedInOrder(ms, L + 1) /\ Omitted(ms, L + 1) \in Nat
  <2>1. ms[L + 1].parent = k /\ k \in 1..L /\ L + 1 # 1 /\ ms[k].position = P
    BY <1>1, <1>5, <1>8
  <2>2. WellLinked(ms, L + 1)
    BY <2>1, <1>1, <1>5, <1>14 DEF WellLinked
  <2>3. Derived(ms, L + 1)
    BY <2>1, <1>5, <1>14 DEF Derived
  <2>4. ExpandedInOrder(ms, L + 1)
    <3>1. Children(ms, L + 1) = {}
      BY <1>9, <1>16, <1>1
    <3> QED
      BY <3>1, <1>5, FS_EmptySet DEF ExpandedInOrder
  <2>5. Omitted(ms, L + 1) \in Nat
    <3>1. Cardinality(Empties(n.position)) \in Nat
      BY OrderedIs
    <3> QED
      BY <3>1, <1>5 DEF Omitted
  <2> QED
    BY <2>2, <2>3, <2>4, <2>5
<1>20. Shaped(ms)
  <2>1. Len(ms) \in 1..ResidentLimit
    BY <1>1, <1>5 DEF L
  <2>2. \A j \in 1..L + 1 : j \in 1..L \/ j = L + 1
    BY <1>1
  <2> QED
    BY <2>1, <2>2, <1>5, <1>18, <1>19 DEF Shaped
<1>21. Children(ms, L + 1) = {} /\ k # L + 1
  BY <1>9, <1>16, <1>1
<1>22. Grown(ns, k, n) = ms
  BY DEF Grown, ms, ls
<1> QED
  BY <1>5, <1>8, <1>9, <1>17, <1>20, <1>21, <1>22 DEF L, m

-----------------------------------------------------------------------------
(* Numbers. *)

Numbers(ns, S, number) == [j \in S |-> ns[j][number]]

LEMMA TotalSums ==
  ASSUME NEW ns, Shaped(ns), NEW k, NEW number \in {"proof", "disproof"}
  PROVE  \E g : /\ Summing(Numbers(ns, Children(ns, k), number), Children(ns, k), g)
                /\ Total(ns, k, number) = Min({Infinity, Omitted(ns, k) + g[Children(ns, k)]})
<1> DEFINE kids == Children(ns, k)
           f == Numbers(ns, kids, number)
           H(g) == [s \in SUBSET kids |-> IF s = {} THEN 0
                                          ELSE LET x == CHOOSE x \in s : TRUE
                                               IN ns[x][number] + g[s \ {x}]]
           c == CHOOSE g : g = H(g)
<1>1. IsFiniteSet(kids)
  BY ChildrenAre DEF Shaped
<1>2. \A g : g = H(g) <=> Summing(f, kids, g)
  BY ZenonT(20) DEF Summing, Numbers
<1>3. \E g : Summing(f, kids, g)
  BY <1>1, SummingExists, Zenon
<1>4. MapThenSumSet(LAMBDA j : ns[j][number], kids) = c[kids]
  BY DEF MapThenSumSet, MapThenFoldSet
<1> HIDE DEF H, f
<1>5. c = H(c)
  BY <1>2, <1>3, Zenon
<1>6. Summing(f, kids, c)
  BY <1>2, <1>5
<1>7. Total(ns, k, number) = Min({Infinity, Omitted(ns, k) + c[kids]})
  BY <1>4 DEF Total
<1> HIDE DEF c
<1> QED
  BY <1>6, <1>7 DEF f

LEMMA ChildIs ==
  ASSUME NEW ns, Shaped(ns), NEW k, NEW j \in Children(ns, k), NEW number \in {"proof", "disproof"}
  PROVE  j \in 1..Len(ns) /\ ns[j] \in Node /\ ns[j][number] \in Nat
<1>1. j \in 1..Len(ns) /\ ns \in [1..Len(ns) -> Node]
  BY ChildrenAre, ShapedIs DEF Shaped
<1>2. ns[j] \in Node
  BY <1>1
<1>3. ns[j].proof \in Nat /\ ns[j].disproof \in Nat
  BY <1>2 DEF Node
<1> QED
  BY <1>1, <1>2, <1>3

LEMMA InfinityIs == Infinity \in Nat /\ Infinity >= 1
  BY SolverAssumption

LEMMA TotalIs ==
  ASSUME NEW ns, Shaped(ns), NEW k \in 1..Len(ns), NEW number \in {"proof", "disproof"}
  PROVE  /\ Total(ns, k, number) \in Nat
         /\ Total(ns, k, number) = 0
              <=> Omitted(ns, k) = 0 /\ \A j \in Children(ns, k) : ns[j][number] = 0
         /\ (\E j \in Children(ns, k) : ns[j][number] = Infinity) => Total(ns, k, number) = Infinity
<1> DEFINE kids == Children(ns, k)
           f == Numbers(ns, kids, number)
<1>1. PICK g : /\ Summing(f, kids, g)
               /\ Total(ns, k, number) = Min({Infinity, Omitted(ns, k) + g[kids]})
  BY TotalSums
<1>2. f \in [kids -> Nat] /\ \A j \in kids : f[j] = ns[j][number]
  BY ChildIs DEF Numbers
<1>3. IsFiniteSet(kids)
  BY ChildrenAre DEF Shaped
<1> HIDE DEF f, kids
<1>4. /\ g[kids] \in Nat
      /\ g[kids] = 0 <=> \A j \in kids : f[j] = 0
      /\ \A j \in kids : f[j] <= g[kids]
  BY <1>1, <1>2, <1>3, SummingIs
<1>5. Omitted(ns, k) \in Nat
  BY DEF Shaped
<1> DEFINE sum == Omitted(ns, k) + g[kids]
           least == Min({Infinity, sum})
<1>6. sum \in Nat /\ (sum = 0 <=> Omitted(ns, k) = 0 /\ g[kids] = 0) /\ g[kids] <= sum
  BY <1>4, <1>5
<1> HIDE DEF sum
<1>7. least \in {Infinity, sum} /\ \A x \in {Infinity, sum} : least <= x
  BY <1>6, InfinityIs, MinIs
<1>8. least \in Nat /\ (least = 0 <=> sum = 0) /\ (Infinity <= sum => least = Infinity)
  BY <1>6, <1>7, InfinityIs
<1>9. ASSUME NEW j \in kids, ns[j][number] = Infinity PROVE Infinity <= sum
  BY <1>9, <1>2, <1>4, <1>6, InfinityIs
<1>10. Total(ns, k, number) = least
  BY <1>1 DEF sum
<1> HIDE DEF least
<1>11. (\A j \in kids : f[j] = 0) <=> (\A j \in kids : ns[j][number] = 0)
  BY <1>2
<1> QED
  BY <1>4, <1>6, <1>8, <1>9, <1>10, <1>11 DEF kids

LEMMA EasiestIs ==
  ASSUME NEW ns, Shaped(ns), NEW k \in 1..Len(ns), NEW number \in {"proof", "disproof"}
  PROVE  /\ Easiest(ns, k, number) \in Nat
         /\ Easiest(ns, k, number) = 0 <=> \E j \in Children(ns, k) : ns[j][number] = 0
         /\ (Omitted(ns, k) = 0 /\ \A j \in Children(ns, k) : ns[j][number] = Infinity)
              => Easiest(ns, k, number) = Infinity
<1> DEFINE kids == Children(ns, k)
           some == IF Omitted(ns, k) = 0 THEN {} ELSE {1}
           S == {Infinity} \cup {ns[j][number] : j \in kids} \cup some
<1>1. \A j \in kids : ns[j][number] \in Nat
  BY ChildIs
<1>2. Easiest(ns, k, number) = Min(S)
  BY DEF Easiest
<1>3. S \in SUBSET Nat /\ S # {}
  BY <1>1, InfinityIs
<1>4. Min(S) \in S /\ \A x \in S : Min(S) <= x
  <2> HIDE DEF S
  <2> QED
    BY <1>3, MinIs
<1> DEFINE least == Min(S)
<1>5. least \in Nat /\ least \in S /\ \A x \in S : least <= x
  BY <1>3, <1>4
<1> HIDE DEF least, kids
<1>6. least = 0 <=> \E j \in kids : ns[j][number] = 0
  <2>1. ASSUME NEW j \in kids, ns[j][number] = 0 PROVE least = 0
    BY <2>1, <1>5
  <2>2. ASSUME least = 0 PROVE \E j \in kids : ns[j][number] = 0
    BY <2>2, <1>5, InfinityIs
  <2> QED
    BY <2>1, <2>2
<1>7. ASSUME Omitted(ns, k) = 0, \A j \in kids : ns[j][number] = Infinity PROVE least = Infinity
  BY <1>7, <1>5
<1> QED
  BY <1>2, <1>5, <1>6, <1>7 DEF least, kids

(* What a node has of its children is the numbers they have. *)
LEMMA SameNumbers ==
  ASSUME NEW ns, Shaped(ns), NEW ms, Shaped(ms), NEW k,
         Children(ms, k) = Children(ns, k), Omitted(ms, k) = Omitted(ns, k),
         \A j \in Children(ns, k) : ms[j].proof = ns[j].proof /\ ms[j].disproof = ns[j].disproof,
         NEW number \in {"proof", "disproof"}
  PROVE  Total(ms, k, number) = Total(ns, k, number) /\ Easiest(ms, k, number) = Easiest(ns, k, number)
<1> DEFINE kids == Children(ns, k)
           f == Numbers(ns, kids, number)
<1>1. \A j \in kids : ms[j][number] = ns[j][number]
  OBVIOUS
<1>2. PICK g : /\ Summing(f, kids, g)
               /\ Total(ns, k, number) = Min({Infinity, Omitted(ns, k) + g[kids]})
  BY TotalSums
<1>3. Numbers(ms, kids, number) = f
  BY <1>1 DEF Numbers
<1>9. PICK h : /\ Summing(Numbers(ms, Children(ms, k), number), Children(ms, k), h)
               /\ Total(ms, k, number) = Min({Infinity, Omitted(ms, k) + h[Children(ms, k)]})
  BY TotalSums
<1>4. /\ Summing(f, kids, h)
      /\ Total(ms, k, number) = Min({Infinity, Omitted(ns, k) + h[kids]})
  BY <1>9, <1>3
<1>5. IsFiniteSet(kids) /\ kids \in SUBSET kids
  BY ChildrenAre DEF Shaped
<1>6. {ms[j][number] : j \in kids} = {ns[j][number] : j \in kids}
  BY <1>1
<1>7. Easiest(ms, k, number) = Easiest(ns, k, number)
  BY <1>6 DEF Easiest
<1> HIDE DEF f, kids
<1>8. g[kids] = h[kids]
  BY <1>2, <1>4, <1>5, SummingAgrees
<1> QED
  BY <1>2, <1>4, <1>7, <1>8

-----------------------------------------------------------------------------
(* Verdicts. *)

(* The numbers and the kind of evidence of a node go with its outcome. *)
Agreed(n) ==
  /\ n.outcome # "Unknown" =>
       n.proof = NumbersOf(n.outcome).proof /\ n.disproof = NumbersOf(n.outcome).disproof
  /\ n.outcome = "Unknown" => n.proof >= 1 /\ n.disproof >= 1
  /\ n.outcome = "Unknown" <=> n.evidence.kind = "Unknown"

ByChildren(n) == n.evidence.kind \in {"Unknown", "Aggregated"}

(* Recomputed for an attacker given as a value. *)
RecomputedFor(att, ns, k) ==
  LET or == ns[k].position.side = att
      proof == IF or THEN Easiest(ns, k, "proof") ELSE Total(ns, k, "proof")
      disproof == IF or THEN Total(ns, k, "disproof") ELSE Easiest(ns, k, "disproof")
      outcome == IF proof = 0 THEN "ProvenWin" ELSE IF disproof = 0 THEN "Refuted" ELSE "Unknown"
  IN IF ns[k].outcome # "Unknown" /\ ns[k].evidence.kind # "Aggregated" THEN ns[k]
     ELSE [ns[k] EXCEPT
             !.proof = proof, !.disproof = disproof, !.outcome = outcome,
             !.evidence = Evidence(IF outcome = "Unknown" THEN "Unknown" ELSE "Aggregated")]

LEMMA RecomputedIsFor ==
  ASSUME NEW ns, NEW k
  PROVE  Recomputed(ns, k) = RecomputedFor(attacker, ns, k)
BY DEF Recomputed, RecomputedFor, IsOr

(* The children of a node decide it: for the side to move if one of them    *)
(* is won, against it once all moves are there and lost.                   *)
Decided(att, ns, k, outcome) ==
  LET one == IF ns[k].position.side = att THEN "ProvenWin" ELSE "Refuted"
  IN IF outcome = one THEN \E j \in Children(ns, k) : ns[j].outcome = outcome
     ELSE Omitted(ns, k) = 0 /\ \A j \in Children(ns, k) : ns[j].outcome = outcome

LEMMA AgreedIs ==
  ASSUME NEW n \in Node, Agreed(n)
  PROVE  /\ n.proof = 0 <=> n.outcome = "ProvenWin"
         /\ n.disproof = 0 <=> n.outcome = "Refuted"
         /\ n.outcome = "ProvenWin" => n.disproof = Infinity
         /\ n.outcome = "Refuted" => n.proof = Infinity
BY InfinityIs DEF Node, Outcomes, Agreed, NumbersOf

LEMMA RecomputedIs ==
  ASSUME NEW att, NEW ns, Shaped(ns), NEW k \in 1..Len(ns), \A j \in 1..Len(ns) : Agreed(ns[j])
  PROVE  LET r == RecomputedFor(att, ns, k)
         IN /\ r \in Node /\ Agreed(r)
            /\ r.parent = ns[k].parent /\ r.via = ns[k].via /\ r.position = ns[k].position
            /\ r.next = ns[k].next /\ r.tried = ns[k].tried
            /\ ~ByChildren(ns[k]) => r = ns[k]
            /\ ByChildren(ns[k]) =>
                 /\ ByChildren(r)
                 /\ r.outcome # "Unknown" => Decided(att, ns, k, r.outcome)
<1> DEFINE n == ns[k]
           or == n.position.side = att
           ep == Easiest(ns, k, "proof")
           ed == Easiest(ns, k, "disproof")
           tp == Total(ns, k, "proof")
           td == Total(ns, k, "disproof")
           kids == Children(ns, k)
           proof == IF or THEN ep ELSE tp
           disproof == IF or THEN td ELSE ed
           outcome == IF proof = 0 THEN "ProvenWin" ELSE IF disproof = 0 THEN "Refuted" ELSE "Unknown"
           e == Evidence(IF outcome = "Unknown" THEN "Unknown" ELSE "Aggregated")
           s == [n EXCEPT !.proof = proof, !.disproof = disproof, !.outcome = outcome, !.evidence = e]
<1>1. n \in Node /\ Agreed(n)
  BY ShapedIs DEF Shaped
<1>2. RecomputedFor(att, ns, k) = IF n.outcome # "Unknown" /\ n.evidence.kind # "Aggregated" THEN n ELSE s
  BY DEF RecomputedFor
<1>3. ASSUME NEW j \in kids
      PROVE  /\ j \in 1..Len(ns) /\ ns[j] \in Node /\ Agreed(ns[j])
             /\ ns[j].proof = 0 <=> ns[j].outcome = "ProvenWin"
             /\ ns[j].disproof = 0 <=> ns[j].outcome = "Refuted"
             /\ ns[j].outcome = "ProvenWin" => ns[j].disproof = Infinity
             /\ ns[j].outcome = "Refuted" => ns[j].proof = Infinity
  <2>1. j \in 1..Len(ns) /\ ns[j] \in Node
    BY ChildIs
  <2> QED
    BY <2>1, AgreedIs
<1>4. /\ ep \in Nat /\ (ep = 0 <=> \E j \in kids : ns[j].outcome = "ProvenWin")
      /\ (Omitted(ns, k) = 0 /\ \A j \in kids : ns[j].outcome = "Refuted") => ep = Infinity
  BY EasiestIs, <1>3
<1>5. /\ ed \in Nat /\ (ed = 0 <=> \E j \in kids : ns[j].outcome = "Refuted")
      /\ (Omitted(ns, k) = 0 /\ \A j \in kids : ns[j].outcome = "ProvenWin") => ed = Infinity
  BY EasiestIs, <1>3
<1>6. /\ tp \in Nat /\ (tp = 0 <=> Omitted(ns, k) = 0 /\ \A j \in kids : ns[j].outcome = "ProvenWin")
      /\ (\E j \in kids : ns[j].outcome = "Refuted") => tp = Infinity
  BY TotalIs, <1>3, SMTT(20)
<1>7. /\ td \in Nat /\ (td = 0 <=> Omitted(ns, k) = 0 /\ \A j \in kids : ns[j].outcome = "Refuted")
      /\ (\E j \in kids : ns[j].outcome = "ProvenWin") => td = Infinity
  BY TotalIs, <1>3
<1> HIDE DEF ep, ed, tp, td
<1>8. /\ proof \in Nat /\ disproof \in Nat /\ outcome \in Outcomes
      /\ outcome = "ProvenWin" => proof = 0 /\ disproof = Infinity /\ Decided(att, ns, k, "ProvenWin")
      /\ outcome = "Refuted" => proof = Infinity /\ disproof = 0 /\ Decided(att, ns, k, "Refuted")
      /\ outcome = "Unknown" => proof >= 1 /\ disproof >= 1
  <2>1. CASE or
    <3>1. proof = ep /\ disproof = td
      BY <2>1
    <3> HIDE DEF proof, disproof
    <3>2. outcome = "ProvenWin" => proof = 0 /\ disproof = Infinity /\ Decided(att, ns, k, "ProvenWin")
      BY <2>1, <3>1, <1>4, <1>7 DEF Decided
    <3>3. outcome = "Refuted" => proof = Infinity /\ disproof = 0 /\ Decided(att, ns, k, "Refuted")
      BY <2>1, <3>1, <1>4, <1>7 DEF Decided
    <3> QED
      BY <3>1, <3>2, <3>3, <1>4, <1>7 DEF Outcomes
  <2>2. CASE ~or
    <3>1. proof = tp /\ disproof = ed
      BY <2>2
    <3> HIDE DEF proof, disproof
    <3>2. outcome = "ProvenWin" => proof = 0 /\ disproof = Infinity /\ Decided(att, ns, k, "ProvenWin")
      BY <2>2, <3>1, <1>6, <1>5 DEF Decided
    <3>3. outcome = "Refuted" => proof = Infinity /\ disproof = 0 /\ Decided(att, ns, k, "Refuted")
      BY <2>2, <3>1, <1>6, <1>5 DEF Decided
    <3> QED
      BY <3>1, <3>2, <3>3, <1>6, <1>5 DEF Outcomes
  <2> QED
    BY <2>1, <2>2
<1> HIDE DEF proof, disproof, outcome, or
<1>9. /\ e = [kind |-> IF outcome = "Unknown" THEN "Unknown" ELSE "Aggregated",
              source |-> 0, limits |-> "none"]
      /\ e \in [kind : Kinds, source : Nat, limits : Limits \cup {"none"}]
  BY DEF Evidence, Kinds
<1>10. e.kind = IF outcome = "Unknown" THEN "Unknown" ELSE "Aggregated"
  BY <1>9
<1> HIDE DEF e, n
<1>11. /\ s \in Node /\ s.parent = n.parent /\ s.via = n.via /\ s.position = n.position
       /\ s.next = n.next /\ s.tried = n.tried
       /\ s.proof = proof /\ s.disproof = disproof /\ s.outcome = outcome /\ s.evidence = e
  BY <1>1, <1>8, <1>9 DEF Node
<1> HIDE DEF s
<1>12. Agreed(s) /\ ByChildren(s)
  <2>1. s.outcome # "Unknown" =>
          s.proof = NumbersOf(s.outcome).proof /\ s.disproof = NumbersOf(s.outcome).disproof
    BY <1>8, <1>11 DEF NumbersOf, Outcomes
  <2> QED
    BY <2>1, <1>8, <1>10, <1>11 DEF Agreed, ByChildren
<1>13. ByChildren(n) <=> ~(n.outcome # "Unknown" /\ n.evidence.kind # "Aggregated")
  BY <1>1 DEF ByChildren, Agreed
<1>14. s.outcome # "Unknown" => Decided(att, ns, k, s.outcome)
  BY <1>8, <1>11 DEF Outcomes
<1>15. CASE ByChildren(n)
  <2>1. RecomputedFor(att, ns, k) = s
    BY <1>2, <1>13, <1>15
  <2> QED
    BY <2>1, <1>11, <1>12, <1>14, <1>15 DEF n
<1>16. CASE ~ByChildren(n)
  <2>1. RecomputedFor(att, ns, k) = n
    BY <1>2, <1>13, <1>16
  <2> QED
    BY <2>1, <1>1, <1>16 DEF n
<1> QED
  BY <1>15, <1>16

-----------------------------------------------------------------------------
(* What the evidence for a node has to say, were it n, the k-th of ns. *)
JudgedAs(att, ns, k, n) ==
  LET kind == n.evidence.kind
      source == n.evidence.source
  IN /\ Agreed(n)
     /\ ByChildren(n) => TerminalFor(att, n.position) = "Unknown"
     /\ kind = "Terminal" => n.outcome = TerminalFor(att, n.position)
     /\ kind = "Immediate" => n.outcome = ImmediateFor(att, n.position)
     /\ kind = "Tactical" => n.outcome = "ProvenWin"
     /\ kind = "Cached" => /\ source \in 1..k - 1
                           /\ ns[source].outcome = n.outcome
                           /\ Key(ns[source].position) = Key(n.position)

Judged(att, ns, k) == JudgedAs(att, ns, k, ns[k])

(* The table names finished nodes of the positions it knows. *)
Tabled(ns, tbl) ==
  \A key \in DOMAIN tbl : /\ tbl[key] \in 1..Len(ns)
                          /\ ns[tbl[key]].outcome # "Unknown"
                          /\ Key(ns[tbl[key]].position) = key

Tree(att, ns, tbl) ==
  /\ Shaped(ns)
  /\ \A k \in 1..Len(ns) : Judged(att, ns, k)
  /\ Tabled(ns, tbl)

(* The numbers of a node are those its children give. *)
Counted(att, ns, k) ==
  ns[k].evidence.kind = "Aggregated" \/ (ns[k].evidence.kind = "Unknown" /\ ns[k].tried) =>
    RecomputedFor(att, ns, k) = ns[k]

(* The path from a node to the root: what every set of nodes holds that has *)
(* the node and the parents of its nodes.                                  *)
Closed(ns, S) == \A i \in S : ns[i].parent = 0 \/ ns[i].parent \in S
Above(ns, k) ==
  {j \in 1..Len(ns) : \A S \in SUBSET (1..Len(ns)) : k \in S /\ Closed(ns, S) => j \in S}

LEMMA ParentIs ==
  ASSUME NEW ns, Shaped(ns), NEW k \in 1..Len(ns)
  PROVE  /\ ns[k] \in Node /\ k \in Nat /\ k >= 1 /\ Len(ns) \in Nat
         /\ ns[k].parent = 0 \/ (ns[k].parent \in 1..Len(ns) /\ ns[k].parent < k)
<1>1. ns \in [1..Len(ns) -> Node] /\ Len(ns) \in Nat /\ WellLinked(ns, k)
  BY ShapedIs DEF Shaped
<1> QED
  BY <1>1 DEF WellLinked

LEMMA AboveSame ==
  ASSUME NEW ns, Shaped(ns), NEW ms, Shaped(ms), Len(ms) \in {Len(ns), Len(ns) + 1},
         \A j \in 1..Len(ns) : ms[j].parent = ns[j].parent, NEW k \in 1..Len(ns)
  PROVE  Above(ms, k) = Above(ns, k)
<1>1. Len(ns) \in Nat /\ 1..Len(ns) \subseteq 1..Len(ms)
  BY ParentIs
<1>2. ASSUME NEW j \in Above(ms, k) PROVE j \in Above(ns, k)
  <2>1. Closed(ms, 1..Len(ns))
    BY ParentIs DEF Closed
  <2>2. j \in 1..Len(ns)
    BY <1>1, <1>2, <2>1 DEF Above
  <2>3. ASSUME NEW S \in SUBSET (1..Len(ns)), k \in S, Closed(ns, S) PROVE j \in S
    <3>1. Closed(ms, S) /\ S \in SUBSET (1..Len(ms))
      BY <1>1, <2>3 DEF Closed
    <3> QED
      BY <3>1, <2>3, <1>2 DEF Above
  <2> QED
    BY <2>2, <2>3 DEF Above
<1>3. ASSUME NEW j \in Above(ns, k) PROVE j \in Above(ms, k)
  <2>1. j \in 1..Len(ns) /\ j \in 1..Len(ms)
    BY <1>1, <1>3 DEF Above
  <2>2. ASSUME NEW S \in SUBSET (1..Len(ms)), k \in S, Closed(ms, S) PROVE j \in S
    <3> DEFINE T == S \cap 1..Len(ns)
    <3>1. T \in SUBSET (1..Len(ns)) /\ k \in T
      BY <2>2
    <3>2. Closed(ns, T)
      <4>1. ASSUME NEW i \in T PROVE ns[i].parent = 0 \/ ns[i].parent \in T
        <5>1. ns[i].parent = 0 \/ ns[i].parent \in 1..Len(ns)
          BY ParentIs
        <5>2. ns[i].parent = 0 \/ ns[i].parent \in S
          BY <2>2 DEF Closed
        <5> QED
          BY <5>1, <5>2
      <4> QED
        BY <4>1 DEF Closed
    <3> QED
      BY <3>1, <3>2, <1>3 DEF Above
  <2> QED
    BY <2>1, <2>2 DEF Above
<1> QED
  BY <1>2, <1>3

LEMMA AboveIs ==
  ASSUME NEW ns, Shaped(ns), NEW k \in 1..Len(ns)
  PROVE  /\ k \in Above(ns, k) /\ Above(ns, k) \in SUBSET (1..k)
         /\ ns[k].parent = 0 => Above(ns, k) = {k}
         /\ ns[k].parent # 0 =>
              /\ ns[k].parent \in 1..Len(ns) /\ ns[k].parent # k
              /\ Above(ns, k) = {k} \cup Above(ns, ns[k].parent)
              /\ k \notin Above(ns, ns[k].parent)
<1> DEFINE up == ns[k].parent
<1>1. /\ k \in Nat /\ k >= 1 /\ Len(ns) \in Nat
      /\ up = 0 \/ (up \in 1..Len(ns) /\ up < k)
  BY ParentIs
<1>2. ASSUME NEW i \in 1..Len(ns) PROVE Above(ns, i) \in SUBSET (1..i) /\ i \in Above(ns, i)
  <2>1. \A j \in 1..i : ns[j].parent = 0 \/ ns[j].parent \in 1..i
    BY <1>1, ParentIs
  <2>2. Closed(ns, 1..i) /\ i \in 1..i /\ 1..i \in SUBSET (1..Len(ns))
    BY <2>1, <1>1 DEF Closed
  <2> QED
    BY <2>2 DEF Above
<1>3. CASE up = 0
  <2>1. Closed(ns, {k}) /\ {k} \in SUBSET (1..Len(ns))
    BY <1>3 DEF Closed
  <2>2. Above(ns, k) = {k}
    BY <2>1, <1>2 DEF Above
  <2> QED
    BY <2>2, <1>2, <1>3
<1>4. CASE up # 0
  <2>1. up \in 1..Len(ns) /\ up < k /\ up # k
    BY <1>1, <1>4
  <2>2. k \notin Above(ns, up)
    BY <2>1, <1>2, <1>1
  <2>3. ASSUME NEW j \in Above(ns, up) PROVE j \in Above(ns, k)
    <3>1. ASSUME NEW S \in SUBSET (1..Len(ns)), k \in S, Closed(ns, S) PROVE j \in S
      <4>1. up \in S
        BY <3>1, <1>4 DEF Closed
      <4> QED
        BY <4>1, <3>1, <2>3 DEF Above
    <3> QED
      BY <3>1, <2>3 DEF Above
  <2>4. Above(ns, k) \subseteq {k} \cup Above(ns, up)
    <3> DEFINE T == {k} \cup Above(ns, up)
    <3>1. T \in SUBSET (1..Len(ns))
      BY DEF Above
    <3>2. ASSUME NEW i \in T PROVE ns[i].parent = 0 \/ ns[i].parent \in T
      <4>1. CASE i = k
        BY <4>1, <2>1, <1>2
      <4>2. CASE i # k
        <5>1. i \in Above(ns, up)
          BY <4>2
        <5>2. ASSUME ns[i].parent # 0 PROVE ns[i].parent \in Above(ns, up)
          <6>1. i \in 1..Len(ns)
            BY <5>1 DEF Above
          <6>2. ns[i].parent \in 1..Len(ns)
            BY <5>2, <6>1, ParentIs
          <6>3. ASSUME NEW S \in SUBSET (1..Len(ns)), up \in S, Closed(ns, S) PROVE ns[i].parent \in S
            <7>1. i \in S
              BY <5>1, <6>3 DEF Above
            <7> QED
              BY <7>1, <6>3, <5>2 DEF Closed
          <6> QED
            BY <6>2, <6>3 DEF Above
        <5> QED
          BY <5>2
      <4> QED
        BY <4>1, <4>2
    <3>3. Closed(ns, T)
      BY <3>2 DEF Closed
    <3> HIDE DEF T
    <3>4. k \in T
      BY DEF T
    <3>5. Above(ns, k) \subseteq T
      BY <3>1, <3>3, <3>4 DEF Above
    <3> QED
      BY <3>5 DEF T
  <2>5. Above(ns, k) = {k} \cup Above(ns, up)
    BY <2>3, <2>4, <1>2
  <2> QED
    BY <2>1, <2>2, <2>5, <1>2, <1>4
<1> QED
  BY <1>3, <1>4

(* A count depends on the node and on the numbers of its children alone. *)
LEMMA RecomputedSame ==
  ASSUME NEW att, NEW ns, Shaped(ns), NEW ms, Shaped(ms), NEW j,
         Children(ms, j) = Children(ns, j), Omitted(ms, j) = Omitted(ns, j), ms[j] = ns[j],
         \A i \in Children(ns, j) : ms[i].proof = ns[i].proof /\ ms[i].disproof = ns[i].disproof
  PROVE  RecomputedFor(att, ms, j) = RecomputedFor(att, ns, j)
<1>1. /\ Total(ms, j, "proof") = Total(ns, j, "proof")
      /\ Total(ms, j, "disproof") = Total(ns, j, "disproof")
      /\ Easiest(ms, j, "proof") = Easiest(ns, j, "proof")
      /\ Easiest(ms, j, "disproof") = Easiest(ns, j, "disproof")
  BY SameNumbers
<1> QED
  BY <1>1 DEF RecomputedFor

-----------------------------------------------------------------------------
(* An undecided node learns something, or a decided one keeps its outcome. *)
LEMMA NodeChanges ==
  ASSUME NEW att, NEW ns, NEW tbl, Tree(att, ns, tbl), NEW k \in 1..Len(ns), NEW n \in Node,
         n.parent = ns[k].parent, n.via = ns[k].via, n.position = ns[k].position,
         n.next = ns[k].next, ns[k].outcome = "Unknown" \/ n.outcome = ns[k].outcome,
         JudgedAs(att, ns, k, n)
  PROVE  LET ms == Replaced(ns, k, n)
         IN /\ Tree(att, ms, tbl) /\ Tree(att, ms, Remember(ms, tbl, k))
            /\ Len(ms) = Len(ns) /\ ms[k] = n
            /\ \A j \in 1..Len(ns) : j # k => ms[j] = ns[j]
            /\ \A j \in 1..Len(ns) : Above(ms, j) = Above(ns, j)
            /\ \A j \in 1..Len(ns) : j # k /\ ns[k].parent # j /\ Counted(att, ns, j) => Counted(att, ms, j)
<1> DEFINE ms == Replaced(ns, k, n)
<1>1. /\ Shaped(ms) /\ Len(ms) = Len(ns) /\ ms[k] = n
      /\ \A j \in 1..Len(ns) : j # k => ms[j] = ns[j]
      /\ \A j \in 1..Len(ns) : /\ ms[j].position = ns[j].position
                               /\ ms[j].parent = ns[j].parent
                               /\ Omitted(ms, j) = Omitted(ns, j)
      /\ \A j : Children(ms, j) = Children(ns, j)
  <2>1. Shaped(ns)
    BY DEF Tree
  <2> QED
    BY <2>1, ShapeStays
<1> HIDE DEF ms
<1>2. Shaped(ns) /\ Len(ns) \in Nat /\ \A j \in 1..Len(ns) : Judged(att, ns, j) /\ ns[j] \in Node
  BY ParentIs DEF Tree
<1>3. \A j \in 1..Len(ns) : Above(ms, j) = Above(ns, j)
  BY <1>1, <1>2, AboveSame
<1>4. \A j \in 1..Len(ns) : ns[j].outcome # "Unknown" => ms[j].outcome = ns[j].outcome
  BY <1>1
<1>5. ASSUME NEW j \in 1..Len(ns) PROVE Judged(att, ms, j)
  <2>1. JudgedAs(att, ns, j, ms[j])
    <3>1. CASE j = k
      BY <3>1, <1>1
    <3>2. CASE j # k
      BY <3>2, <1>1, <1>2 DEF Judged
    <3> QED
      BY <3>1, <3>2
  <2> DEFINE source == ms[j].evidence.source
  <2>2. ASSUME ms[j].evidence.kind = "Cached"
        PROVE  ms[source].outcome = ms[j].outcome /\ Key(ms[source].position) = Key(ms[j].position)
    <3>1. /\ source \in 1..j - 1 /\ ns[source].outcome = ms[j].outcome
          /\ Key(ns[source].position) = Key(ms[j].position)
      BY <2>1, <2>2 DEF JudgedAs
    <3>2. source \in 1..Len(ns)
      BY <3>1, <1>2
    <3>3. ms[j].outcome # "Unknown"
      BY <2>1, <2>2 DEF JudgedAs, Agreed
    <3>4. ms[source].outcome = ns[source].outcome /\ ms[source].position = ns[source].position
      BY <3>1, <3>2, <3>3, <1>4, <1>1
    <3> QED
      BY <3>1, <3>4
  <2> QED
    BY <2>1, <2>2 DEF Judged, JudgedAs
<1>6. Tabled(ms, tbl)
  <2>1. Tabled(ns, tbl)
    BY DEF Tree
  <2> QED
    BY <2>1, <1>1, <1>4 DEF Tabled
<1>7. Tabled(ms, Remember(ms, tbl, k))
  <2>1. CASE ms[k].outcome = "Unknown"
    BY <2>1, <1>6 DEF Remember
  <2>2. CASE ms[k].outcome # "Unknown"
    <3> DEFINE new == Remember(ms, tbl, k)
    <3>1. new = [key \in DOMAIN tbl \cup {Key(ms[k].position)} |->
                  IF key \in DOMAIN tbl THEN tbl[key] ELSE k]
      BY <2>2 DEF Remember
    <3> HIDE DEF new
    <3>2. ASSUME NEW key \in DOMAIN new
          PROVE  new[key] \in 1..Len(ms) /\ ms[new[key]].outcome # "Unknown" /\ Key(ms[new[key]].position) = key
      <4>1. CASE key \in DOMAIN tbl
        <5>1. new[key] = tbl[key]
          BY <4>1, <3>1
        <5> QED
          BY <4>1, <5>1, <1>6 DEF Tabled
      <4>2. CASE key \notin DOMAIN tbl
        <5>1. key = Key(ms[k].position) /\ new[key] = k
          BY <4>2, <3>1, <3>2
        <5> QED
          BY <5>1, <2>2, <1>1
      <4> QED
        BY <4>1, <4>2
    <3> QED
      BY <3>2 DEF Tabled, new
  <2> QED
    BY <2>1, <2>2
<1>8. ASSUME NEW j \in 1..Len(ns), j # k, ns[k].parent # j, Counted(att, ns, j) PROVE Counted(att, ms, j)
  <2>1. ms[j] = ns[j]
    BY <1>8, <1>1
  <2>2. k \notin Children(ns, j)
    BY <1>8 DEF Children
  <2>3. \A i \in Children(ns, j) : i \in 1..Len(ns) /\ i # k
    BY <2>2, <1>2, ChildrenAre DEF Shaped
  <2>4. \A i \in Children(ns, j) : ms[i] = ns[i]
    BY <2>3, <1>1
  <2>5. RecomputedFor(att, ms, j) = RecomputedFor(att, ns, j)
    BY <2>1, <2>4, <1>1, <1>2, RecomputedSame
  <2> QED
    BY <2>1, <2>5, <1>8 DEF Counted
<1>9. Tree(att, ms, tbl) /\ Tree(att, ms, Remember(ms, tbl, k))
  BY <1>1, <1>5, <1>6, <1>7 DEF Tree
<1> QED
  BY <1>1, <1>3, <1>8, <1>9 DEF ms

-----------------------------------------------------------------------------
(* A node gets its next child. *)
LEMMA TreeGrows ==
  ASSUME NEW att, NEW ns, NEW tbl, Tree(att, ns, tbl),
         NEW k \in 1..Len(ns), NEW n \in Node, NextChild(ns, k, n),
         n.tried = FALSE, n.evidence.kind # "Aggregated",
         JudgedAs(att, ns, Len(ns) + 1, n)
  PROVE  LET ms == Grown(ns, k, n)
         IN /\ Tree(att, ms, Remember(ms, tbl, Len(ms)))
            /\ Len(ms) = Len(ns) + 1 /\ ms[Len(ns) + 1] = n
            /\ \A j \in 1..Len(ns) : j # k => ms[j] = ns[j]
            /\ ms[k] = [ns[k] EXCEPT !.next = @ + 1]
            /\ \A j \in 1..Len(ns) : Above(ms, j) = Above(ns, j)
            /\ \A j \in 1..Len(ns) : j # k /\ Counted(att, ns, j) => Counted(att, ms, j)
            /\ Counted(att, ms, Len(ns) + 1)
<1> DEFINE ms == Grown(ns, k, n)
           L == Len(ns)
<1>1. /\ Shaped(ms) /\ Len(ms) = L + 1 /\ ms[L + 1] = n
      /\ \A j \in 1..L : j # k => ms[j] = ns[j]
      /\ ms[k] = [ns[k] EXCEPT !.next = @ + 1]
      /\ \A j \in 1..L : j # k => Omitted(ms, j) = Omitted(ns, j)
      /\ \A j \in 1..L : j # k => Children(ms, j) = Children(ns, j)
  <2>1. Shaped(ns)
    BY DEF Tree
  <2> QED
    BY <2>1, ShapeGrows
<1> HIDE DEF ms
<1>2. Shaped(ns) /\ L \in Nat /\ L >= 1 /\ \A j \in 1..L : Judged(att, ns, j) /\ ns[j] \in Node
  BY ParentIs DEF Tree
<1>3. /\ ms[k].parent = ns[k].parent /\ ms[k].position = ns[k].position /\ ms[k].outcome = ns[k].outcome
      /\ ms[k].evidence = ns[k].evidence /\ ms[k].proof = ns[k].proof /\ ms[k].disproof = ns[k].disproof
  BY <1>1, <1>2 DEF Node
<1> HIDE DEF L
<1>4. \A j \in 1..L : /\ ms[j].parent = ns[j].parent /\ ms[j].position = ns[j].position
                      /\ ms[j].outcome = ns[j].outcome /\ ms[j].evidence = ns[j].evidence
                      /\ ms[j].proof = ns[j].proof /\ ms[j].disproof = ns[j].disproof
  BY <1>1, <1>3
<1>5. \A j \in 1..L : Above(ms, j) = Above(ns, j)
  BY <1>1, <1>2, <1>4, AboveSame, SMTT(20) DEF L
<1>6. ASSUME NEW j \in 1..L PROVE Judged(att, ms, j)
  <2>1. JudgedAs(att, ns, j, ns[j])
    BY <1>2 DEF Judged
  <2>2. ns[j].evidence.kind = "Cached" => ns[j].evidence.source \in 1..L
    BY <2>1, <1>2 DEF JudgedAs
  <2> QED
    BY <2>1, <2>2, <1>4, SMTT(20) DEF Judged, JudgedAs, Agreed, ByChildren
<1>7. Judged(att, ms, L + 1)
  <2>1. JudgedAs(att, ns, L + 1, n)
    BY DEF L
  <2>2. n.evidence.kind = "Cached" => n.evidence.source \in 1..L
    BY <2>1, <1>2 DEF JudgedAs
  <2> QED
    BY <2>1, <2>2, <1>4, <1>1 DEF Judged, JudgedAs
<1>8. \A j \in 1..L + 1 : j \in 1..L \/ j = L + 1
  BY <1>2
<1>9. Tabled(ms, tbl)
  <2>1. Tabled(ns, tbl)
    BY DEF Tree
  <2>2. 1..L \subseteq 1..Len(ms)
    BY <1>1, <1>2
  <2> QED
    BY <2>1, <2>2, <1>4 DEF Tabled, L
<1>10. Tabled(ms, Remember(ms, tbl, L + 1))
  <2>1. CASE ms[L + 1].outcome = "Unknown"
    BY <2>1, <1>9 DEF Remember
  <2>2. CASE ms[L + 1].outcome # "Unknown"
    <3> DEFINE new == Remember(ms, tbl, L + 1)
    <3>1. new = [key \in DOMAIN tbl \cup {Key(ms[L + 1].position)} |->
                  IF key \in DOMAIN tbl THEN tbl[key] ELSE L + 1]
      BY <2>2 DEF Remember
    <3> HIDE DEF new
    <3>2. ASSUME NEW key \in DOMAIN new
          PROVE  new[key] \in 1..Len(ms) /\ ms[new[key]].outcome # "Unknown" /\ Key(ms[new[key]].position) = key
      <4>1. CASE key \in DOMAIN tbl
        <5>1. new[key] = tbl[key]
          BY <4>1, <3>1
        <5> QED
          BY <4>1, <5>1, <1>9 DEF Tabled
      <4>2. CASE key \notin DOMAIN tbl
        <5>1. key = Key(ms[L + 1].position) /\ new[key] = L + 1
          BY <4>2, <3>1, <3>2
        <5>2. L + 1 \in 1..Len(ms)
          BY <1>1, <1>2
        <5> QED
          BY <5>1, <5>2, <2>2
      <4> QED
        BY <4>1, <4>2
    <3> QED
      BY <3>2 DEF Tabled, new
  <2> QED
    BY <2>1, <2>2
<1>11. ASSUME NEW j \in 1..L, j # k, Counted(att, ns, j) PROVE Counted(att, ms, j)
  <2>1. ms[j] = ns[j]
    BY <1>11, <1>1
  <2>2. \A i \in Children(ns, j) : i \in 1..L
    BY <1>2, ChildrenAre DEF Shaped, L
  <2>3. RecomputedFor(att, ms, j) = RecomputedFor(att, ns, j)
    BY <2>1, <2>2, <1>1, <1>2, <1>4, <1>11, RecomputedSame, SMTT(20)
  <2> QED
    BY <2>1, <2>3, <1>11 DEF Counted
<1>12. Counted(att, ms, L + 1)
  BY <1>1 DEF Counted
<1>13. Tree(att, ms, Remember(ms, tbl, Len(ms)))
  BY <1>1, <1>6, <1>7, <1>8, <1>10 DEF Tree
<1> QED
  BY <1>1, <1>5, <1>11, <1>12, <1>13 DEF ms, L

-----------------------------------------------------------------------------
(* Selection. *)

LEMMA BestIs ==
  ASSUME NEW ns, Shaped(ns), NEW k \in 1..Len(ns), Pending(ns, k) # {}
  PROVE  Best(ns, k) \in Pending(ns, k)
<1> DEFINE number == IF IsOr(ns, k) THEN "proof" ELSE "disproof"
           pending == Pending(ns, k)
           First(j) == ns[j][number]
           Second(j) == ns[j].via
<1>1. number \in {"proof", "disproof"}
  OBVIOUS
<1>2. Best(ns, k) = CHOOSE j \in pending : \A i \in pending : NoLater(<<First(j), Second(j)>>, <<First(i), Second(i)>>)
  BY DEF Best
<1> HIDE DEF number
<1>3. ASSUME NEW j \in pending PROVE First(j) \in Nat /\ Second(j) \in Nat
  <2>1. j \in Children(ns, k) /\ j \in 1..Len(ns)
    BY ChildrenAre DEF Pending, Shaped
  <2>2. Derived(ns, j) /\ WellLinked(ns, j) /\ ns[j].parent = k
    BY <2>1 DEF Shaped, Children
  <2>3. ns[j].via \in Cells
    BY <2>2 DEF Derived, WellLinked
  <2>4. Cells \subseteq Nat
    BY SolverAssumption
  <2> QED
    BY <2>1, <2>3, <2>4, <1>1, ChildIs
<1> DEFINE S == {First(j) : j \in pending}
<1>4. PICK a \in S : \A x \in S : a <= x
  <2>1. S \in SUBSET Nat /\ S # {}
    BY <1>3
  <2> HIDE DEF S
  <2> QED
    BY <2>1, LeastNatural
<1> DEFINE T == {Second(j) : j \in {i \in pending : First(i) = a}}
<1>5. PICK b \in T : \A x \in T : b <= x
  <2>1. T \in SUBSET Nat /\ T # {}
    BY <1>3, <1>4
  <2> HIDE DEF T
  <2> QED
    BY <2>1, LeastNatural
<1>6. PICK j \in pending : First(j) = a /\ Second(j) = b
  BY <1>5
<1> HIDE DEF First, Second
<1>7. ASSUME NEW i \in pending PROVE NoLater(<<First(j), Second(j)>>, <<First(i), Second(i)>>)
  <2>1. First(i) \in Nat /\ Second(i) \in Nat /\ a <= First(i) /\ First(j) = a /\ a \in Nat
    BY <1>3, <1>4, <1>6
  <2>2. First(i) = a => b <= Second(i)
    BY <1>5
  <2>3. First(j) < First(i) \/ (First(j) = First(i) /\ Second(j) <= Second(i))
    BY <2>1, <2>2, <1>6
  <2> QED
    BY <2>3 DEF NoLater
<1>8. \E j1 \in pending : \A i \in pending : NoLater(<<First(j1), Second(j1)>>, <<First(i), Second(i)>>)
  BY <1>6, <1>7
<1> QED
  BY <1>2, <1>8

LEMMA NextIs ==
  ASSUME NEW ns, Shaped(ns), NEW k \in 1..Len(ns), ~StopsAt(ns, k)
  PROVE  /\ Best(ns, k) \in 1..Len(ns) /\ Best(ns, k) > k
         /\ ns[Best(ns, k)].outcome = "Unknown" /\ ns[Best(ns, k)].parent = k
<1>1. Best(ns, k) \in Pending(ns, k)
  BY BestIs DEF StopsAt
<1>2. Best(ns, k) \in Children(ns, k) /\ ns[Best(ns, k)].outcome = "Unknown"
  BY <1>1 DEF Pending
<1>3. Best(ns, k) \in 1..Len(ns) /\ ns[Best(ns, k)].parent = k
  BY <1>2, ChildrenAre DEF Children, Shaped
<1> QED
  BY <1>2, <1>3, ParentIs

(* A selection among the nodes after the m-th. *)
Selects(ns, m, f) ==
  f = [k \in m + 1..Len(ns) |-> IF StopsAt(ns, k) THEN k ELSE f[Best(ns, k)]]

LEMMA SelectExists ==
  ASSUME NEW ns, Shaped(ns), NEW m \in 0..Len(ns)
  PROVE  \E f : Selects(ns, m, f)
<1> DEFINE L == Len(ns)
           Bad == {d \in 0..L : ~ \E f : Selects(ns, L - d, f)}
<1>1. L \in Nat
  BY ShapedIs DEF Shaped
<1>2. Bad = {}
  <2> SUFFICES ASSUME Bad # {} PROVE FALSE
    OBVIOUS
  <2>1. PICK d \in Bad : \A i \in Bad : d <= i
    <3>1. Bad \in SUBSET Nat
      BY <1>1
    <3> HIDE DEF Bad
    <3> QED
      BY <3>1, LeastNatural
  <2>2. CASE d = 0
    <3> DEFINE f == [k \in {} |-> 0]
    <3>1. L - d + 1..L = {}
      BY <2>2, <1>1
    <3>2. Selects(ns, L - d, f)
      BY <3>1 DEF Selects
    <3> QED
      BY <3>2, <2>1
  <2>3. CASE d # 0
    <3> DEFINE c == L - d + 1
    <3>1. /\ d - 1 \in 0..L /\ ~(d <= d - 1) /\ c \in 1..L /\ c = L - (d - 1) /\ d \in Nat
      BY <1>1, <2>1, <2>3
    <3>2. PICK f : Selects(ns, c, f)
      <4>1. d - 1 \notin Bad
        BY <2>1, <3>1
      <4> QED
        BY <4>1, <3>1
    <3> DEFINE g == [k \in c..L |-> IF StopsAt(ns, k) THEN k ELSE f[Best(ns, k)]]
    <3> HIDE DEF c
    <3>3. ASSUME NEW k \in c + 1..L PROVE f[k] = g[k]
      <4>1. k \in c..L
        BY <3>1, <1>1
      <4> QED
        BY <4>1, <3>2 DEF Selects
    <3>4. ASSUME NEW k \in c..L, ~StopsAt(ns, k) PROVE f[Best(ns, k)] = g[Best(ns, k)]
      <4>1. k \in 1..L
        BY <3>1, <1>1
      <4>2. Best(ns, k) \in 1..L /\ Best(ns, k) > k
        BY <4>1, <3>4, NextIs
      <4>3. Best(ns, k) \in c + 1..L
        BY <4>1, <4>2, <3>1, <1>1
      <4> QED
        BY <4>3, <3>3
    <3>5. g = [k \in c..L |-> IF StopsAt(ns, k) THEN k ELSE g[Best(ns, k)]]
      BY <3>4
    <3>6. L - d + 1 = c
      BY DEF c
    <3> HIDE DEF g
    <3>7. Selects(ns, L - d, g)
      BY <3>5, <3>6 DEF Selects
    <3> QED
      BY <3>7, <2>1
  <2> QED
    BY <2>2, <2>3
<1>3. L - m \in 0..L /\ L - (L - m) = m
  BY <1>1
<1>4. \E f : Selects(ns, L - (L - m), f)
  BY <1>2, <1>3
<1> QED
  BY <1>3, <1>4

Open(ns, k) == \A j \in Above(ns, k) : ns[j].outcome = "Unknown"

(* The selected node and all above it are undecided, as the root is. *)
LEMMA MostProvingIs ==
  ASSUME NEW ns, Shaped(ns), ns[1].outcome = "Unknown"
  PROVE  MostProving(ns) \in 1..Len(ns) /\ Open(ns, MostProving(ns))
<1> DEFINE L == Len(ns)
           select == CHOOSE f : f = [k \in DOMAIN ns |-> IF StopsAt(ns, k) THEN k ELSE f[Best(ns, k)]]
<1>1. L \in Nat /\ L >= 1 /\ DOMAIN ns = 1..L
  BY ShapedIs DEF Shaped
<1>2. MostProving(ns) = select[1]
  BY DEF MostProving
<1>3. \A k \in 1..L : select[k] = IF StopsAt(ns, k) THEN k ELSE select[Best(ns, k)]
  <2>1. \E f : Selects(ns, 0, f)
    BY <1>1, SelectExists
  <2>2. \E f : f = [k \in DOMAIN ns |-> IF StopsAt(ns, k) THEN k ELSE f[Best(ns, k)]]
    BY <2>1, <1>1 DEF Selects
  <2>3. select = [k \in DOMAIN ns |-> IF StopsAt(ns, k) THEN k ELSE select[Best(ns, k)]]
    BY <2>2, Zenon
  <2> HIDE DEF select
  <2> QED
    BY <2>3, <1>1
<1> HIDE DEF select
<1> DEFINE Fine(k) == Open(ns, k) => select[k] \in 1..L /\ Open(ns, select[k])
           Bad == {d \in 0..L - 1 : ~ Fine(L - d)}
<1>4. Bad = {}
  <2> SUFFICES ASSUME Bad # {} PROVE FALSE
    OBVIOUS
  <2>1. PICK d \in Bad : \A i \in Bad : d <= i
    <3>1. Bad \in SUBSET Nat
      BY <1>1
    <3> HIDE DEF Bad
    <3> QED
      BY <3>1, LeastNatural
  <2> DEFINE k == L - d
  <2>2. k \in 1..L /\ d \in Nat /\ ~Fine(k)
    BY <1>1, <2>1
  <2>3. CASE StopsAt(ns, k)
    BY <2>2, <2>3, <1>3
  <2>4. CASE ~StopsAt(ns, k)
    <3> DEFINE b == Best(ns, k)
    <3>1. b \in 1..L /\ b > k /\ ns[b].outcome = "Unknown" /\ ns[b].parent = k /\ select[k] = select[b]
      BY <2>2, <2>4, NextIs, <1>3
    <3> HIDE DEF b
    <3>2. L - b \in 0..L - 1 /\ L - b < d /\ L - (L - b) = b
      BY <3>1, <2>2, <1>1
    <3>3. Fine(b)
      BY <3>2, <2>1, <2>2
    <3>4. Above(ns, b) = {b} \cup Above(ns, k)
      BY <3>1, <2>2, AboveIs
    <3>5. Open(ns, k) => Open(ns, b)
      BY <3>1, <3>4 DEF Open
    <3>6. Fine(k)
      BY <3>1, <3>3, <3>5
    <3> QED
      BY <3>6, <2>2
  <2> QED
    BY <2>3, <2>4
<1>5. Fine(1)
  <2>1. L - 1 \in 0..L - 1 /\ L - (L - 1) = 1
    BY <1>1
  <2> QED
    BY <2>1, <1>4
<1>6. Open(ns, 1)
  <2>1. 1 \in 1..L /\ WellLinked(ns, 1)
    BY <1>1 DEF Shaped
  <2>2. ns[1].parent = 0
    BY <2>1 DEF WellLinked
  <2>3. Above(ns, 1) = {1}
    BY <2>1, <2>2, AboveIs
  <2> QED
    BY <2>3 DEF Open
<1> QED
  BY <1>2, <1>5, <1>6

-----------------------------------------------------------------------------
(* Checkpoints. *)

(* What is loaded is what was saved: the parents and moves give the        *)
(* positions back.                                                         *)
LEMMA LoadedIs ==
  ASSUME NEW ns, Shaped(ns)
  PROVE  Loaded(Written(ns)) = ns
<1> DEFINE L == Len(ns)
           file == Written(ns)
           From(f, k) == IF ns[k].parent = 0 THEN ns[1].position
                         ELSE MakeMove(f[ns[k].parent], ns[k].via)
           position == CHOOSE f : f = [k \in DOMAIN file.nodes |->
                                         LET n == file.nodes[k]
                                         IN IF n.parent = 0 THEN file.root ELSE MakeMove(f[n.parent], n.via)]
           true == [k \in 1..L |-> ns[k].position]
<1>1. L \in Nat /\ DOMAIN ns = 1..L /\ ns \in [1..L -> Node] /\ 1 \in 1..L
  BY ShapedIs DEF Shaped
<1>2. /\ file.root = ns[1].position /\ DOMAIN file.nodes = 1..L
      /\ \A k \in 1..L : file.nodes[k] = [field \in DOMAIN ns[k] \ {"position"} |-> ns[k][field]]
  BY <1>1 DEF Written
<1>3. ASSUME NEW k \in 1..L
      PROVE  /\ DOMAIN ns[k] = {"parent", "via", "position", "next", "tried", "outcome", "proof",
                                "disproof", "evidence"}
             /\ ns[k] = [field \in DOMAIN ns[k] |-> ns[k][field]]
  <2>1. ns[k] \in Node
    BY <1>1
  <2> QED
    BY <2>1 DEF Node
<1> HIDE DEF file
<1>4. \A k \in 1..L : file.nodes[k].parent = ns[k].parent /\ file.nodes[k].via = ns[k].via
  <2> SUFFICES ASSUME NEW k \in 1..L
               PROVE  file.nodes[k].parent = ns[k].parent /\ file.nodes[k].via = ns[k].via
    OBVIOUS
  <2> DEFINE n == ns[k]
             m == file.nodes[k]
  <2>1. m = [field \in DOMAIN n \ {"position"} |-> n[field]]
    BY <1>2
  <2>2. {"parent", "via"} \subseteq DOMAIN n \ {"position"}
    BY <1>3
  <2> HIDE DEF n, m
  <2>3. m.parent = n.parent /\ m.via = n.via
    BY <2>1, <2>2
  <2> QED
    BY <2>3 DEF n, m
<1>5. \A f : [k \in DOMAIN file.nodes |->
                LET n == file.nodes[k]
                IN IF n.parent = 0 THEN file.root ELSE MakeMove(f[n.parent], n.via)]
             = [k \in 1..L |-> From(f, k)]
  BY <1>2, <1>4
<1>6. ASSUME NEW k \in 1..L PROVE true[k] = From(true, k)
  <2>1. WellLinked(ns, k) /\ Derived(ns, k)
    BY DEF Shaped
  <2>2. CASE k = 1
    BY <2>1, <2>2 DEF WellLinked
  <2>3. CASE k # 1
    <3>1. ns[k].parent \in 1..L /\ ns[k].parent # 0
      BY <2>1, <2>3, <1>1 DEF WellLinked
    <3> QED
      BY <2>1, <2>3, <3>1 DEF Derived
  <2> QED
    BY <2>2, <2>3
<1>7. true = [k \in 1..L |-> From(true, k)]
  BY <1>6
<1>8. position = [k \in 1..L |-> From(position, k)]
  <2>1. true = [k \in DOMAIN file.nodes |->
                LET n == file.nodes[k]
                IN IF n.parent = 0 THEN file.root ELSE MakeMove(true[n.parent], n.via)]
    BY <1>5, <1>7
  <2> HIDE DEF true
  <2>2. position = [k \in DOMAIN file.nodes |->
                LET n == file.nodes[k]
                IN IF n.parent = 0 THEN file.root ELSE MakeMove(position[n.parent], n.via)]
    BY <2>1, Zenon
  <2> QED
    BY <2>2, <1>5
<1>9. Loaded(file) = [k \in 1..L |->
                        [field \in DOMAIN file.nodes[k] \cup {"position"} |->
                           IF field = "position" THEN position[k] ELSE file.nodes[k][field]]]
  BY <1>2 DEF Loaded
<1> HIDE DEF position, true
<1> DEFINE Bad == {k \in 1..L : position[k] # true[k]}
<1>10. Bad = {}
  <2> SUFFICES ASSUME Bad # {} PROVE FALSE
    OBVIOUS
  <2>1. PICK k \in Bad : \A i \in Bad : k <= i
    <3>1. Bad \in SUBSET Nat
      BY <1>1
    <3> HIDE DEF Bad
    <3> QED
      BY <3>1, LeastNatural
  <2>2. position[k] = From(position, k) /\ true[k] = From(true, k) /\ k \in 1..L
    BY <1>7, <1>8
  <2>3. CASE ns[k].parent = 0
    BY <2>1, <2>2, <2>3
  <2>4. CASE ns[k].parent # 0
    <3>1. ns[k].parent \in 1..L /\ ~(k <= ns[k].parent)
      BY <2>2, <2>4, ParentIs
    <3>2. position[ns[k].parent] = true[ns[k].parent]
      BY <2>1, <3>1
    <3> QED
      BY <2>1, <2>2, <2>4, <3>2
  <2> QED
    BY <2>3, <2>4
<1>11. ASSUME NEW k \in 1..L
       PROVE  [field \in DOMAIN file.nodes[k] \cup {"position"} |->
                           IF field = "position" THEN position[k] ELSE file.nodes[k][field]] = ns[k]
  <2>1. position[k] = ns[k].position
    BY <1>10 DEF true
  <2>2. DOMAIN file.nodes[k] \cup {"position"} = DOMAIN ns[k]
    BY <1>2, <1>3
  <2>3. \A field \in DOMAIN ns[k] :
          (IF field = "position" THEN position[k] ELSE file.nodes[k][field]) = ns[k][field]
    BY <2>1, <1>2, ZenonT(20)
  <2> QED
    BY <2>2, <2>3, <1>3
<1>12. Loaded(file) = [k \in 1..L |-> ns[k]]
  BY <1>9, <1>11
<1>13. [k \in 1..L |-> ns[k]] = ns
  BY <1>1
<1> QED
  BY <1>12, <1>13 DEF file

(* The tree passes every check of load_checkpoint. *)
LEMMA AcceptsIt ==
  ASSUME NEW ns, NEW tbl, Tree(attacker, ns, tbl), \A k \in 1..Len(ns) : Counted(attacker, ns, k)
  PROVE  Accepts(ns)
<1>1. Shaped(ns) /\ Len(ns) \in 1..ResidentLimit /\ DOMAIN ns = 1..Len(ns) /\ Len(ns) \in Nat
  BY ShapedIs DEF Tree, Shaped
<1>2. Len(ns) <= MaxPersisted
  <2>1. ResidentLimit \in 1..MaxPersisted /\ MaxPersisted \in Nat
    BY SolverAssumption
  <2> QED
    BY <2>1, <1>1
<1>3. ASSUME NEW k \in 1..Len(ns)
      PROVE  WellLinked(ns, k) /\ ExpandedInOrder(ns, k) /\ EvidenceHolds(ns, k) /\ NumbersHold(ns, k)
  <2>1. WellLinked(ns, k) /\ ExpandedInOrder(ns, k)
    BY <1>1 DEF Shaped
  <2>2. JudgedAs(attacker, ns, k, ns[k]) /\ Counted(attacker, ns, k) /\ ns[k] \in Node /\ k \in Nat
    BY <1>1, ParentIs DEF Tree, Judged
  <2>3. EvidenceHolds(ns, k)
    <3>1. ns[k].evidence.kind = "Cached" => ns[k].evidence.source < k
      BY <2>2 DEF JudgedAs
    <3> QED
      BY <2>2, <3>1 DEF EvidenceHolds, JudgedAs, Agreed, TerminalOutcome, ImmediateOutcome
  <2>4. NumbersHold(ns, k)
    BY <2>2, RecomputedIsFor DEF NumbersHold, JudgedAs, Agreed, Counted
  <2> QED
    BY <2>1, <2>3, <2>4
<1> QED
  BY <1>1, <1>2, <1>3 DEF Accepts, Sound

(* The table that is loaded is one the tree supports. *)
LEMMA RebuiltIs ==
  ASSUME NEW ns, Shaped(ns)
  PROVE  Tabled(ns, Rebuilt(ns))
<1> DEFINE done == {j \in DOMAIN ns : ns[j].outcome # "Unknown"}
           known == {[key |-> Key(ns[k].position), source |-> k] : k \in done}
           Of(key) == {e.source : e \in {f \in known : f.key = key}}
<1>1. DOMAIN ns = 1..Len(ns) /\ Len(ns) \in Nat
  BY ShapedIs DEF Shaped
<1>2. Rebuilt(ns) = [key \in {e.key : e \in known} |-> Min(Of(key))]
  BY DEF Rebuilt
<1> HIDE DEF known
<1>3. ASSUME NEW key \in {e.key : e \in known}
      PROVE  /\ Of(key) \in SUBSET done /\ Of(key) # {}
             /\ \A s \in Of(key) : Key(ns[s].position) = key
  BY DEF known
<1> HIDE DEF Of
<1>4. ASSUME NEW key \in {e.key : e \in known}
      PROVE  Min(Of(key)) \in Of(key)
  <2>1. Of(key) \in SUBSET Nat /\ Of(key) # {}
    BY <1>3, <1>1
  <2> QED
    BY <2>1, MinIs
<1>5. ASSUME NEW key \in DOMAIN Rebuilt(ns)
      PROVE  /\ Rebuilt(ns)[key] \in 1..Len(ns)
             /\ ns[Rebuilt(ns)[key]].outcome # "Unknown"
             /\ Key(ns[Rebuilt(ns)[key]].position) = key
  <2>1. key \in {e.key : e \in known} /\ Rebuilt(ns)[key] = Min(Of(key))
    BY <1>2
  <2>2. Rebuilt(ns)[key] \in Of(key)
    BY <2>1, <1>4
  <2> QED
    BY <2>1, <2>2, <1>3, <1>1
<1> QED
  BY <1>5 DEF Tabled

-----------------------------------------------------------------------------
(* The invariant. *)

EvidenceKinds == [kind : Kinds, source : Nat, limits : Limits \cup {"none"}]

(* Between the nodes that are looked at and the root, what the children say *)
(* may not have been counted yet; everywhere else it has.                   *)
OnPath(att, ns, ph, nd) ==
  IF ph \in {"between", "check"} THEN \A k \in 1..Len(ns) : Counted(att, ns, k)
  ELSE /\ nd \in 1..Len(ns)
       /\ \A k \in 1..Len(ns) : k \in Above(ns, nd) \/ Counted(att, ns, k)
       /\ \A k \in Above(ns, nd) : k = nd \/ ns[k].outcome = "Unknown"
       /\ IF ph = "propagate" THEN ns[nd].evidence.kind # "Aggregated" ELSE ns[nd].outcome = "Unknown"

Types ==
  /\ attacker \in Stones /\ limits \in Limits \cup {"none"}
  /\ phase \in {"between", "check", "expand", "widen", "propagate"}

SolverInv == Types /\ Tree(attacker, nodes, exact) /\ OnPath(attacker, nodes, phase, node)

-----------------------------------------------------------------------------
(* New nodes and new outcomes. *)

LEMMA TerminalIs ==
  ASSUME NEW att, NEW p
  PROVE  TerminalFor(att, p) \in Outcomes /\ ImmediateFor(att, p) \in Outcomes
BY DEF TerminalFor, ImmediateFor, OutcomeFor, Outcomes

LEMMA EvidenceIs ==
  /\ \A kind \in Kinds : /\ Evidence(kind) \in EvidenceKinds /\ Evidence(kind).kind = kind
                         /\ \A lim \in Limits \cup {"none"} :
                              LET e == [Evidence(kind) EXCEPT !.limits = lim]
                              IN e \in EvidenceKinds /\ e.kind = kind
  /\ \A s \in Nat : /\ CachedFrom(s) \in EvidenceKinds /\ CachedFrom(s).kind = "Cached"
                    /\ CachedFrom(s).source = s
<1>1. ASSUME NEW kind \in Kinds
      PROVE  /\ Evidence(kind) \in EvidenceKinds /\ Evidence(kind).kind = kind
             /\ \A lim \in Limits \cup {"none"} :
                  LET e == [Evidence(kind) EXCEPT !.limits = lim]
                  IN e \in EvidenceKinds /\ e.kind = kind
  BY DEF Evidence, EvidenceKinds
<1>2. ASSUME NEW s \in Nat
      PROVE  /\ CachedFrom(s) \in EvidenceKinds /\ CachedFrom(s).kind = "Cached" /\ CachedFrom(s).source = s
  BY DEF CachedFrom, Evidence, EvidenceKinds, Kinds
<1> QED
  BY <1>1, <1>2

SamePlace(n, m) ==
  n.parent = m.parent /\ n.via = m.via /\ n.position = m.position /\ n.next = m.next

LEMMA SettledIs ==
  ASSUME NEW n \in Node, NEW outcome \in {"ProvenWin", "Refuted"}, NEW e \in EvidenceKinds,
         e.kind # "Unknown"
  PROVE  LET m == Settled(n, outcome, e)
         IN /\ m \in Node /\ SamePlace(m, n) /\ m.tried = n.tried
            /\ m.outcome = outcome /\ m.evidence = e /\ Agreed(m)
            /\ \A b \in BOOLEAN : LET t == [m EXCEPT !.tried = b]
                                  IN /\ t \in Node /\ SamePlace(t, n) /\ t.tried = b
                                     /\ t.outcome = outcome /\ t.evidence = e /\ Agreed(t)
<1> DEFINE m == Settled(n, outcome, e)
<1>1. NumbersOf(outcome).proof \in Nat /\ NumbersOf(outcome).disproof \in Nat /\ outcome \in Outcomes
  BY InfinityIs DEF NumbersOf, Outcomes
<1>2. /\ m \in Node /\ SamePlace(m, n) /\ m.tried = n.tried
      /\ m.outcome = outcome /\ m.evidence = e
      /\ m.proof = NumbersOf(outcome).proof /\ m.disproof = NumbersOf(outcome).disproof
  BY <1>1 DEF Settled, Node, SamePlace, EvidenceKinds
<1> HIDE DEF m
<1>3. ASSUME NEW b \in BOOLEAN
      PROVE  LET t == [m EXCEPT !.tried = b]
             IN /\ t \in Node /\ SamePlace(t, n) /\ t.tried = b
                /\ t.outcome = outcome /\ t.evidence = e
                /\ t.proof = NumbersOf(outcome).proof /\ t.disproof = NumbersOf(outcome).disproof
  BY <1>2 DEF Node, SamePlace
<1>4. Agreed(m) /\ \A b \in BOOLEAN : Agreed([m EXCEPT !.tried = b])
  BY <1>2, <1>3 DEF Agreed
<1> QED
  BY <1>2, <1>3, <1>4 DEF m

LEMMA SettledFrom ==
  ASSUME NEW n \in Node, NEW outcome \in {"ProvenWin", "Refuted"}, NEW s \in Nat
  PROVE  LET m == Settled(n, outcome, CachedFrom(s))
         IN /\ m \in Node /\ SamePlace(m, n) /\ m.tried = n.tried
            /\ m.outcome = outcome /\ m.evidence = CachedFrom(s) /\ Agreed(m)
<1> DEFINE e == CachedFrom(s)
<1>1. e \in EvidenceKinds /\ e.kind # "Unknown"
  BY EvidenceIs
<1> HIDE DEF e
<1>2. LET m == Settled(n, outcome, e)
      IN /\ m \in Node /\ SamePlace(m, n) /\ m.tried = n.tried
         /\ m.outcome = outcome /\ m.evidence = e /\ Agreed(m)
  BY <1>1, SettledIs
<1> QED
  BY <1>2 DEF e

LEMMA FreshIs ==
  ASSUME NEW parent \in Nat, NEW via \in Cells \cup {Nothing}, NEW p \in Boards
  PROVE  LET n == Fresh(parent, via, p)
         IN /\ n \in Node /\ n.parent = parent /\ n.via = via /\ n.position = p
            /\ n.next = 0 /\ n.tried = FALSE /\ n.outcome = "Unknown"
            /\ n.evidence.kind = "Unknown" /\ Agreed(n)
<1>1. Evidence("Unknown") \in EvidenceKinds /\ Evidence("Unknown").kind = "Unknown"
  BY EvidenceIs DEF Kinds
<1> HIDE DEF EvidenceKinds
<1>2. Fresh(parent, via, p) \in Node
  BY <1>1 DEF Fresh, Node, Outcomes, EvidenceKinds
<1> QED
  BY <1>1, <1>2 DEF Fresh, Agreed

(* A new node, decided only if its position ends the game. *)
NewIs(att, n, parent, via, p) ==
  /\ n \in Node /\ n.parent = parent /\ n.via = via /\ n.position = p
  /\ n.next = 0 /\ n.tried = FALSE /\ n.outcome = TerminalFor(att, p)
  /\ n.evidence.kind \in {"Unknown", "Terminal"}
  /\ \A ns, k : JudgedAs(att, ns, k, n)

LEMMA NewNodeIs ==
  ASSUME NEW parent \in Nat, NEW via \in Cells \cup {Nothing}, NEW p \in Boards
  PROVE  NewIs(attacker, NewNode(parent, via, p), parent, via, p)
<1> DEFINE f == Fresh(parent, via, p)
           e == Evidence("Terminal")
           out == TerminalFor(attacker, p)
           n == NewNode(parent, via, p)
<1>1. /\ f \in Node /\ f.parent = parent /\ f.via = via /\ f.position = p
      /\ f.next = 0 /\ f.tried = FALSE /\ f.outcome = "Unknown"
      /\ f.evidence.kind = "Unknown" /\ Agreed(f)
  BY FreshIs
<1>2. e \in EvidenceKinds /\ e.kind = "Terminal"
  BY EvidenceIs DEF Kinds
<1>3. out \in Outcomes
  BY TerminalIs
<1> HIDE DEF f, e
<1>4. CASE out = "Unknown"
  <2>1. n = f
    BY <1>4 DEF NewNode, TerminalOutcome, f
  <2>2. \A ns, k : JudgedAs(attacker, ns, k, f)
    BY <1>1, <1>4 DEF JudgedAs
  <2> QED
    BY <2>1, <2>2, <1>1, <1>4 DEF NewIs
<1>5. CASE out # "Unknown"
  <2> DEFINE m == Settled(f, out, e)
  <2>1. n = m
    BY <1>5 DEF NewNode, TerminalOutcome, f, e
  <2>2. out \in {"ProvenWin", "Refuted"} /\ e.kind # "Unknown"
    BY <1>2, <1>3, <1>5 DEF Outcomes
  <2>3. /\ m \in Node /\ SamePlace(m, f) /\ m.tried = f.tried
        /\ m.outcome = out /\ m.evidence = e /\ Agreed(m)
    BY <2>2, <1>1, <1>2, SettledIs
  <2> HIDE DEF m, out
  <2>4. m.position = p /\ m.evidence.kind = "Terminal"
    BY <2>3, <1>1, <1>2 DEF SamePlace
  <2>5. \A ns, k : JudgedAs(attacker, ns, k, m)
    BY <2>3, <2>4 DEF JudgedAs, ByChildren, out
  <2> QED
    BY <2>1, <2>3, <2>4, <2>5, <1>1 DEF SamePlace, out, NewIs
<1> QED
  BY <1>4, <1>5

-----------------------------------------------------------------------------
(* The node that is looked at learns something. *)
LEMMA NodeLearns ==
  ASSUME NEW att, NEW ns, NEW tbl, Tree(att, ns, tbl), NEW nd, OnPath(att, ns, "expand", nd),
         NEW n \in Node, SamePlace(n, ns[nd]), n.evidence.kind # "Aggregated", JudgedAs(att, ns, nd, n)
  PROVE  LET ms == Replaced(ns, nd, n)
         IN /\ Tree(att, ms, tbl) /\ Tree(att, ms, Remember(ms, tbl, nd))
            /\ OnPath(att, ms, "propagate", nd)
            /\ n.outcome = "Unknown" => OnPath(att, ms, "widen", nd)
<1> DEFINE ms == Replaced(ns, nd, n)
<1>1. /\ nd \in 1..Len(ns) /\ ns[nd].outcome = "Unknown"
      /\ \A k \in 1..Len(ns) : k \in Above(ns, nd) \/ Counted(att, ns, k)
      /\ \A k \in Above(ns, nd) : k = nd \/ ns[k].outcome = "Unknown"
  BY DEF OnPath
<1>2. /\ Tree(att, ms, tbl) /\ Tree(att, ms, Remember(ms, tbl, nd))
      /\ Len(ms) = Len(ns) /\ ms[nd] = n
      /\ \A j \in 1..Len(ns) : j # nd => ms[j] = ns[j]
      /\ \A j \in 1..Len(ns) : Above(ms, j) = Above(ns, j)
      /\ \A j \in 1..Len(ns) : j # nd /\ ns[nd].parent # j /\ Counted(att, ns, j) => Counted(att, ms, j)
  BY <1>1, NodeChanges DEF SamePlace
<1> HIDE DEF ms
<1>3. Shaped(ns)
  BY DEF Tree
<1>4. /\ nd \in Above(ns, nd) /\ Above(ns, nd) \in SUBSET (1..nd)
      /\ ns[nd].parent # 0 => ns[nd].parent \in Above(ns, nd)
  <2>1. \A j \in 1..Len(ns) : j \in Above(ns, j)
    BY <1>3, AboveIs
  <2> QED
    BY <1>1, <1>3, <2>1, AboveIs
<1>5. ASSUME NEW k \in 1..Len(ms) PROVE k \in Above(ms, nd) \/ Counted(att, ms, k)
  <2>1. k \in 1..Len(ns) /\ k # 0
    BY <1>2
  <2>2. Above(ms, nd) = Above(ns, nd)
    BY <1>1, <1>2
  <2>3. CASE k \in Above(ns, nd)
    BY <2>2, <2>3
  <2>4. CASE k \notin Above(ns, nd)
    <3>1. k # nd /\ ns[nd].parent # k
      BY <2>4, <1>4, <2>1
    <3> QED
      BY <3>1, <2>1, <2>4, <1>1, <1>2
  <2> QED
    BY <2>3, <2>4
<1>6. ASSUME NEW k \in Above(ms, nd) PROVE k = nd \/ ms[k].outcome = "Unknown"
  <2>1. k \in Above(ns, nd) /\ k \in 1..Len(ns)
    BY <1>1, <1>2 DEF Above
  <2> QED
    BY <2>1, <1>1, <1>2
<1>7. OnPath(att, ms, "propagate", nd) /\ (n.outcome = "Unknown" => OnPath(att, ms, "widen", nd))
  BY <1>1, <1>2, <1>5, <1>6 DEF OnPath
<1> QED
  BY <1>2, <1>7 DEF ms

-----------------------------------------------------------------------------
(* Counting a node again changes nothing. *)
LEMMA CountedOnce ==
  ASSUME NEW att, NEW ns, Shaped(ns), NEW k \in 1..Len(ns), \A j \in 1..Len(ns) : Agreed(ns[j]),
         Shaped(Replaced(ns, k, RecomputedFor(att, ns, k)))
  PROVE  Counted(att, Replaced(ns, k, RecomputedFor(att, ns, k)), k)
<1> DEFINE r == RecomputedFor(att, ns, k)
           ms == Replaced(ns, k, r)
<1>1. /\ r \in Node /\ r.parent = ns[k].parent /\ r.via = ns[k].via /\ r.position = ns[k].position
      /\ r.next = ns[k].next /\ (~ByChildren(ns[k]) => r = ns[k]) /\ ns[k] \in Node /\ Agreed(r)
      /\ (ByChildren(ns[k]) => ByChildren(r))
  BY RecomputedIs, ParentIs
<1> HIDE DEF r
<1>2. /\ Shaped(ms) /\ ms[k] = r
      /\ \A j \in 1..Len(ns) : j # k => ms[j] = ns[j]
      /\ Omitted(ms, k) = Omitted(ns, k)
      /\ Children(ms, k) = Children(ns, k)
  BY <1>1, ShapeStays
<1> HIDE DEF ms
<1>3. \A j \in Children(ns, k) : j \in 1..Len(ns) /\ ms[j] = ns[j]
  <2>1. WellLinked(ns, k)
    BY DEF Shaped
  <2>2. ns[k].parent # k
    BY <2>1, ParentIs
  <2>3. \A j \in Children(ns, k) : j \in 1..Len(ns) /\ j # k
    BY <2>2, ChildrenAre DEF Children, Shaped
  <2> QED
    BY <2>3, <1>2
<1>4. /\ Total(ms, k, "proof") = Total(ns, k, "proof")
      /\ Total(ms, k, "disproof") = Total(ns, k, "disproof")
      /\ Easiest(ms, k, "proof") = Easiest(ns, k, "proof")
      /\ Easiest(ms, k, "disproof") = Easiest(ns, k, "disproof")
  BY <1>2, <1>3, SameNumbers
<1>5. CASE ~ByChildren(ns[k])
  <2>1. ms[k].evidence.kind \notin {"Unknown", "Aggregated"}
    BY <1>1, <1>2, <1>5 DEF ByChildren
  <2> QED
    BY <2>1 DEF Counted, ms, r
<1>6. CASE ByChildren(ns[k])
  <2> DEFINE or == ns[k].position.side = att
             proof == IF or THEN Easiest(ns, k, "proof") ELSE Total(ns, k, "proof")
             disproof == IF or THEN Total(ns, k, "disproof") ELSE Easiest(ns, k, "disproof")
             outcome == IF proof = 0 THEN "ProvenWin" ELSE IF disproof = 0 THEN "Refuted" ELSE "Unknown"
             e == Evidence(IF outcome = "Unknown" THEN "Unknown" ELSE "Aggregated")
  <2>1. Agreed(ns[k])
    OBVIOUS
  <2>2. ~(ns[k].outcome # "Unknown" /\ ns[k].evidence.kind # "Aggregated")
    BY <2>1, <1>6 DEF Agreed, ByChildren
  <2>3. r = [ns[k] EXCEPT !.proof = proof, !.disproof = disproof, !.outcome = outcome, !.evidence = e]
    BY <2>2 DEF RecomputedFor, r
  <2>4. ~(r.outcome # "Unknown" /\ r.evidence.kind # "Aggregated")
    BY <1>1, <1>6 DEF Agreed, ByChildren
  <2>5. RecomputedFor(att, ms, k)
          = [r EXCEPT !.proof = proof, !.disproof = disproof, !.outcome = outcome, !.evidence = e]
    BY <2>4, <1>1, <1>2, <1>4 DEF RecomputedFor
  <2> HIDE DEF proof, disproof, outcome, e
  <2>6. [r EXCEPT !.proof = proof, !.disproof = disproof, !.outcome = outcome, !.evidence = e] = r
    BY <2>3, <1>1 DEF Node
  <2>7. RecomputedFor(att, ms, k) = ms[k]
    BY <2>5, <2>6, <1>2
  <2> QED
    BY <2>7 DEF Counted, ms, r
<1> QED
  BY <1>5, <1>6

(* The path grows shorter by the node that is counted. *)
LEMMA PathShortens ==
  ASSUME NEW att, NEW ns, NEW tbl, Tree(att, ns, tbl), NEW nd, OnPath(att, ns, "propagate", nd)
  PROVE  LET ms == Replaced(ns, nd, RecomputedFor(att, ns, nd))
         IN /\ Tree(att, ms, Remember(ms, tbl, nd))
            /\ IF ns[nd].parent = 0 THEN OnPath(att, ms, "check", ns[nd].parent)
               ELSE OnPath(att, ms, "propagate", ns[nd].parent)
<1> DEFINE r == RecomputedFor(att, ns, nd)
           ms == Replaced(ns, nd, r)
           up == ns[nd].parent
<1>1. /\ nd \in 1..Len(ns) /\ ns[nd].evidence.kind # "Aggregated"
      /\ \A k \in 1..Len(ns) : k \in Above(ns, nd) \/ Counted(att, ns, k)
      /\ \A k \in Above(ns, nd) : k = nd \/ ns[k].outcome = "Unknown"
  BY DEF OnPath
<1>2. /\ Shaped(ns) /\ \A j \in 1..Len(ns) : JudgedAs(att, ns, j, ns[j]) /\ Agreed(ns[j])
  BY DEF Tree, Judged, JudgedAs
<1>3. /\ r \in Node /\ r.parent = ns[nd].parent /\ r.via = ns[nd].via /\ r.position = ns[nd].position
      /\ r.next = ns[nd].next /\ (~ByChildren(ns[nd]) => r = ns[nd]) /\ Agreed(r)
      /\ (ByChildren(ns[nd]) => ByChildren(r))
  BY <1>1, <1>2, RecomputedIs
<1> HIDE DEF r
<1>4. ns[nd].outcome = "Unknown" \/ r.outcome = ns[nd].outcome
  BY <1>1, <1>2, <1>3 DEF ByChildren, Agreed
<1>5. JudgedAs(att, ns, nd, r)
  <2>1. CASE ByChildren(ns[nd])
    <3>1. TerminalFor(att, r.position) = "Unknown" /\ ByChildren(r)
      BY <2>1, <1>1, <1>2, <1>3 DEF JudgedAs
    <3> QED
      BY <3>1, <1>3 DEF JudgedAs, ByChildren
  <2>2. CASE ~ByChildren(ns[nd])
    BY <2>2, <1>1, <1>2, <1>3
  <2> QED
    BY <2>1, <2>2
<1>6. /\ Tree(att, ms, Remember(ms, tbl, nd))
      /\ Len(ms) = Len(ns) /\ ms[nd] = r
      /\ \A j \in 1..Len(ns) : j # nd => ms[j] = ns[j]
      /\ \A j \in 1..Len(ns) : Above(ms, j) = Above(ns, j)
      /\ \A j \in 1..Len(ns) : j # nd /\ ns[nd].parent # j /\ Counted(att, ns, j) => Counted(att, ms, j)
  BY <1>1, <1>3, <1>4, <1>5, NodeChanges
<1>7. Counted(att, ms, nd)
  <2>1. Shaped(ms)
    BY <1>6 DEF Tree
  <2> QED
    BY <2>1, <1>1, <1>2, CountedOnce DEF r
<1> HIDE DEF ms
<1>8. CASE up = 0
  <2>1. Above(ns, nd) = {nd}
    BY <1>1, <1>2, <1>8, AboveIs
  <2>2. ASSUME NEW k \in 1..Len(ms) PROVE Counted(att, ms, k)
    <3>1. k \in 1..Len(ns) /\ k # 0
      BY <1>6
    <3> QED
      BY <2>1, <3>1, <1>1, <1>6, <1>7, <1>8
  <2>3. OnPath(att, ms, "check", up)
    BY <2>2 DEF OnPath
  <2> QED
    BY <2>3, <1>6, <1>8 DEF ms, r
<1>9. CASE up # 0
  <2>1. /\ up \in 1..Len(ns) /\ up # nd /\ nd \notin Above(ns, up) /\ up \in Above(ns, up)
        /\ Above(ns, nd) = {nd} \cup Above(ns, up)
    <3>1. \A j \in 1..Len(ns) : j \in Above(ns, j)
      BY <1>2, AboveIs
    <3> QED
      BY <1>1, <1>2, <1>9, <3>1, AboveIs
  <2>2. Above(ms, up) = Above(ns, up)
    BY <2>1, <1>6
  <2>3. ASSUME NEW k \in 1..Len(ms) PROVE k \in Above(ms, up) \/ Counted(att, ms, k)
    <3>1. k \in 1..Len(ns)
      BY <1>6
    <3>2. CASE k = nd
      BY <3>2, <1>7
    <3>3. CASE k # nd /\ k \notin Above(ns, up)
      <4>1. Counted(att, ns, k) /\ ns[nd].parent # k
        BY <2>1, <3>1, <3>3, <1>1
      <4> QED
        BY <4>1, <3>1, <3>3, <1>6
    <3> QED
      BY <2>2, <3>2, <3>3
  <2>4. ASSUME NEW k \in Above(ms, up) PROVE ms[k].outcome = "Unknown"
    <3>1. k \in Above(ns, nd) /\ k # nd /\ k \in 1..Len(ns)
      BY <2>1, <2>2, <1>1 DEF Above
    <3> QED
      BY <3>1, <1>1, <1>6
  <2>5. ms[up].evidence.kind # "Aggregated"
    <3>1. ms[up] = ns[up] /\ ms[up].outcome = "Unknown" /\ Agreed(ns[up])
      BY <2>1, <2>2, <2>4, <1>2, <1>6
    <3> QED
      BY <3>1 DEF Agreed
  <2>6. OnPath(att, ms, "propagate", up)
    BY <2>1, <2>3, <2>4, <2>5, <1>6 DEF OnPath
  <2> QED
    BY <2>6, <1>6, <1>9 DEF ms, r
<1> QED
  BY <1>8, <1>9

-----------------------------------------------------------------------------
(* The steps. *)

LEMMA SolverInit == Init => SolverInv
<1> SUFFICES ASSUME Init PROVE SolverInv
  OBVIOUS
<1>1. PICK moves \in Roots : nodes = <<NewNode(0, Nothing, Replay(moves).position)>>
  BY DEF Init
<1> DEFINE p == Replay(moves).position
           n == NewNode(0, Nothing, p)
<1>2. p \in Boards
  BY ReplayMakesBoard
<1> HIDE DEF p
<1>3. /\ n \in Node /\ n.parent = 0 /\ n.position = p /\ n.next = 0 /\ n.tried = FALSE
      /\ n.evidence.kind \in {"Unknown", "Terminal"}
      /\ \A ns, k : JudgedAs(attacker, ns, k, n)
  <2>1. 0 \in Nat /\ Nothing \in Cells \cup {Nothing}
    OBVIOUS
  <2>2. NewIs(attacker, n, 0, Nothing, p)
    BY <2>1, <1>2, NewNodeIs
  <2> QED
    BY <2>2 DEF NewIs
<1> HIDE DEF n
<1>4. nodes = <<n>>
  BY <1>1 DEF n, p
<1>5. nodes \in Seq(Node) /\ Len(nodes) = 1 /\ nodes[1] = n /\ DOMAIN nodes = {1}
  BY <1>3, <1>4
<1>6. Children(nodes, 1) = {}
  BY <1>3, <1>5 DEF Children
<1>7. Shaped(nodes)
  <2>1. ResidentLimit \in Nat /\ ResidentLimit >= 1
    BY SolverAssumption
  <2>2. WellLinked(nodes, 1) /\ Derived(nodes, 1)
    BY <1>3, <1>5 DEF WellLinked, Derived
  <2>3. ExpandedInOrder(nodes, 1)
    BY <1>3, <1>5, <1>6, FS_EmptySet DEF ExpandedInOrder
  <2>4. Cardinality(Empties(p)) \in Nat
    BY OrderedIs
  <2>5. Omitted(nodes, 1) \in Nat
    BY <2>4, <1>3, <1>5 DEF Omitted
  <2>6. Len(nodes) \in 1..ResidentLimit /\ \A k \in 1..Len(nodes) : k = 1
    BY <2>1, <1>5
  <2> QED
    BY <2>2, <2>3, <2>5, <2>6, <1>5 DEF Shaped
<1>8. \A k \in 1..Len(nodes) : k = 1 /\ Judged(attacker, nodes, k) /\ Counted(attacker, nodes, k)
  <2>1. \A k \in 1..Len(nodes) : k = 1
    BY <1>5
  <2>2. Judged(attacker, nodes, 1) /\ Counted(attacker, nodes, 1)
    BY <1>3, <1>5 DEF Judged, Counted
  <2> QED
    BY <2>1, <2>2
<1>9. Tabled(nodes, exact)
  <2>1. exact = Remember(nodes, <<>>, 1)
    BY DEF Init
  <2>2. CASE n.outcome = "Unknown"
    BY <2>1, <2>2, <1>5 DEF Remember, Tabled
  <2>3. CASE n.outcome # "Unknown"
    <3>1. exact = [key \in {Key(nodes[1].position)} |-> 1]
      BY <2>1, <2>3, <1>5 DEF Remember
    <3> QED
      BY <3>1, <2>3, <1>5 DEF Tabled
  <2> QED
    BY <2>2, <2>3
<1>10. Types /\ phase = "between"
  BY DEF Init, Types
<1> QED
  BY <1>7, <1>8, <1>9, <1>10 DEF SolverInv, Tree, OnPath

(* The node that is looked at, and what is known of it. *)
LEMMA NodeIs ==
  ASSUME SolverInv, phase \in {"expand", "widen"}
  PROVE  /\ Tree(attacker, nodes, exact) /\ OnPath(attacker, nodes, "expand", node)
         /\ node \in 1..Len(nodes) /\ nodes[node] \in Node /\ nodes[node].outcome = "Unknown"
         /\ nodes[node].evidence.kind = "Unknown"
         /\ JudgedAs(attacker, nodes, node, nodes[node]) /\ Shaped(nodes)
<1>1. Tree(attacker, nodes, exact) /\ OnPath(attacker, nodes, "expand", node)
  BY DEF SolverInv, OnPath
<1>2. node \in 1..Len(nodes) /\ nodes[node].outcome = "Unknown"
  BY <1>1 DEF OnPath
<1>3. Shaped(nodes) /\ JudgedAs(attacker, nodes, node, nodes[node])
  BY <1>1, <1>2 DEF Tree, Judged
<1>4. nodes[node] \in Node
  BY <1>2, <1>3, ParentIs
<1> QED
  BY <1>1, <1>2, <1>3, <1>4 DEF JudgedAs, Agreed

LEMMA SourceIs ==
  ASSUME NEW ns, NEW tbl, Tabled(ns, tbl), NEW p, NEW s \in SourcesOf(tbl, p)
  PROVE  s \in 1..Len(ns) /\ ns[s].outcome # "Unknown" /\ Key(ns[s].position) = Key(p)
BY DEF Tabled, SourcesOf

LEMMA AdoptStep ==
  ASSUME SolverInv, Adopt PROVE SolverInv'
<1>1. PICK source \in Adoptable(nodes, exact, node) :
        /\ nodes' = [nodes EXCEPT ![node] = Settled(@, nodes[source].outcome, CachedFrom(source))]
        /\ UNCHANGED <<attacker, batch, limits, interrupted, solves>>
  BY DEF Adopt, Keep
<1>2. phase = "expand" /\ phase' = "propagate" /\ UNCHANGED <<exact, node, attacker, limits>>
  BY <1>1 DEF Adopt
<1>3. /\ Tree(attacker, nodes, exact) /\ OnPath(attacker, nodes, "expand", node)
      /\ node \in 1..Len(nodes) /\ nodes[node] \in Node /\ Shaped(nodes)
  BY <1>2, NodeIs
<1>4. source \in SourcesOf(exact, nodes[node].position) /\ source < node
  BY DEF Adoptable
<1>5. /\ source \in 1..Len(nodes) /\ nodes[source].outcome # "Unknown"
      /\ Key(nodes[source].position) = Key(nodes[node].position)
  BY <1>3, <1>4, SourceIs DEF Tree
<1> DEFINE n == Settled(nodes[node], nodes[source].outcome, CachedFrom(source))
<1>6. nodes[source].outcome \in {"ProvenWin", "Refuted"}
  <2>1. nodes[source] \in Node
    BY <1>3, <1>5, ParentIs
  <2> QED
    BY <2>1, <1>5 DEF Node, Outcomes
<1>7. source \in Nat /\ source \in 1..node - 1
  BY <1>3, <1>4, <1>5
<1>8. CachedFrom(source) \in EvidenceKinds /\ CachedFrom(source).kind = "Cached" /\ CachedFrom(source).source = source
  BY <1>7, EvidenceIs
<1>9. /\ n \in Node /\ SamePlace(n, nodes[node]) /\ n.outcome = nodes[source].outcome
      /\ n.evidence = CachedFrom(source) /\ Agreed(n)
  <2> DEFINE old == nodes[node]
             outcome == nodes[source].outcome
             m == Settled(old, outcome, CachedFrom(source))
  <2>1. old \in Node /\ outcome \in {"ProvenWin", "Refuted"} /\ source \in Nat
    BY <1>3, <1>6, <1>7
  <2> HIDE DEF old, outcome
  <2>2. m \in Node /\ SamePlace(m, old) /\ m.outcome = outcome /\ m.evidence = CachedFrom(source) /\ Agreed(m)
    BY <2>1, SettledFrom
  <2> QED
    BY <2>2 DEF old, outcome
<1>10. nodes' = Replaced(nodes, node, n)
  BY <1>1 DEF Replaced
<1> HIDE DEF n
<1>11. JudgedAs(attacker, nodes, node, n)
  BY <1>5, <1>7, <1>8, <1>9 DEF JudgedAs, ByChildren, SamePlace
<1>12. n.evidence.kind # "Aggregated"
  BY <1>8, <1>9
<1> DEFINE ms == Replaced(nodes, node, n)
<1>13. Tree(attacker, ms, exact) /\ OnPath(attacker, ms, "propagate", node)
  BY <1>3, <1>9, <1>11, <1>12, NodeLearns
<1> HIDE DEF ms
<1>14. Types'
  BY <1>2 DEF SolverInv, Types
<1>15. nodes' = ms
  BY <1>10 DEF ms
<1> QED
  BY <1>2, <1>13, <1>14, <1>15 DEF SolverInv

LEMMA DecideStep ==
  ASSUME SolverInv, phase = "expand", NEW outcome \in {"ProvenWin", "Refuted"}, NEW e \in EvidenceKinds,
         Decide(outcome, e), e.kind \in {"Immediate", "Tactical"},
         e.kind = "Immediate" => outcome = ImmediateFor(attacker, nodes[node].position),
         e.kind = "Tactical" => outcome = "ProvenWin"
  PROVE  SolverInv'
<1> DEFINE m == Settled(nodes[node], outcome, e)
           n == [m EXCEPT !.tried = TRUE]
           ms == Replaced(nodes, node, n)
<1>1. /\ nodes' = ms /\ exact' = Remember(ms, exact, node)
      /\ phase' = "propagate" /\ UNCHANGED <<node, attacker, limits>>
  BY DEF Decide, Keep, Replaced
<1>2. /\ Tree(attacker, nodes, exact) /\ OnPath(attacker, nodes, "expand", node)
      /\ node \in 1..Len(nodes) /\ nodes[node] \in Node
  BY NodeIs
<1>3. /\ n \in Node /\ SamePlace(n, nodes[node]) /\ n.outcome = outcome /\ n.evidence = e /\ Agreed(n)
  <2>1. \A b \in BOOLEAN : LET t == [m EXCEPT !.tried = b]
                           IN /\ t \in Node /\ SamePlace(t, nodes[node]) /\ t.tried = b
                              /\ t.outcome = outcome /\ t.evidence = e /\ Agreed(t)
    BY <1>2, SettledIs
  <2> HIDE DEF m
  <2> QED
    BY <2>1
<1> HIDE DEF n, m
<1>4. JudgedAs(attacker, nodes, node, n) /\ n.evidence.kind # "Aggregated"
  BY <1>3 DEF JudgedAs, ByChildren, SamePlace
<1>5. Tree(attacker, ms, Remember(ms, exact, node)) /\ OnPath(attacker, ms, "propagate", node)
  BY <1>2, <1>3, <1>4, NodeLearns
<1>6. Types'
  BY <1>1 DEF SolverInv, Types
<1> HIDE DEF ms
<1> QED
  BY <1>1, <1>5, <1>6 DEF SolverInv

LEMMA ImmediateStep ==
  ASSUME SolverInv, Immediate PROVE SolverInv'
<1> DEFINE out == ImmediateFor(attacker, nodes[node].position)
<1>1. phase = "expand" /\ out # "Unknown" /\ Decide(out, Evidence("Immediate"))
  BY DEF Immediate, FirstVisit, ImmediateOutcome
<1>2. out \in {"ProvenWin", "Refuted"}
  BY <1>1, TerminalIs DEF Outcomes
<1>3. Evidence("Immediate") \in EvidenceKinds /\ Evidence("Immediate").kind = "Immediate"
  BY EvidenceIs DEF Kinds
<1>4. out = ImmediateFor(attacker, nodes[node].position)
  OBVIOUS
<1> HIDE DEF out
<1> QED
  BY <1>1, <1>2, <1>3, <1>4, DecideStep

LEMMA TacticalStep ==
  ASSUME SolverInv, Tactical PROVE SolverInv'
<1> DEFINE e == [Evidence("Tactical") EXCEPT !.limits = limits]
<1>1. phase = "expand" /\ Decide("ProvenWin", e)
  BY DEF Tactical, FirstVisit
<1>2. limits \in Limits \cup {"none"}
  BY DEF SolverInv, Types
<1>3. e \in EvidenceKinds /\ e.kind = "Tactical"
  BY <1>2, EvidenceIs DEF Kinds
<1> HIDE DEF e
<1> QED
  BY <1>1, <1>3, DecideStep

LEMMA StartWideningStep ==
  ASSUME SolverInv, StartWidening PROVE SolverInv'
<1> DEFINE n == [nodes[node] EXCEPT !.tried = TRUE]
           ms == Replaced(nodes, node, n)
<1>1. /\ phase = "expand" /\ nodes' = ms /\ phase' = "widen" /\ UNCHANGED <<exact, node, attacker, limits>>
  BY DEF StartWidening, Replaced
<1>2. /\ Tree(attacker, nodes, exact) /\ OnPath(attacker, nodes, "expand", node)
      /\ node \in 1..Len(nodes) /\ nodes[node] \in Node /\ nodes[node].outcome = "Unknown"
      /\ nodes[node].evidence.kind = "Unknown" /\ JudgedAs(attacker, nodes, node, nodes[node])
  BY <1>1, NodeIs
<1>3. /\ n \in Node /\ SamePlace(n, nodes[node]) /\ n.outcome = "Unknown"
      /\ n.evidence = nodes[node].evidence /\ n.proof = nodes[node].proof /\ n.disproof = nodes[node].disproof
      /\ n.position = nodes[node].position
  BY <1>2 DEF Node, SamePlace
<1> HIDE DEF n
<1>4. JudgedAs(attacker, nodes, node, n) /\ n.evidence.kind # "Aggregated"
  BY <1>2, <1>3 DEF JudgedAs, ByChildren, Agreed
<1>5. Tree(attacker, ms, exact) /\ OnPath(attacker, ms, "widen", node)
  BY <1>2, <1>3, <1>4, NodeLearns
<1>6. Types'
  BY <1>1 DEF SolverInv, Types
<1> HIDE DEF ms
<1> QED
  BY <1>1, <1>5, <1>6 DEF SolverInv

(* The child that AddChild adds. *)
NewChild ==
  LET at == Ordered(nodes[node].position)[nodes[node].next + 1]
      new == NewNode(node, at, MakeMove(nodes[node].position, at))
      known == SourcesOf(exact, new.position)
  IN IF new.outcome # "Unknown" \/ known = {} THEN new
     ELSE LET source == CHOOSE s \in known : TRUE
          IN Settled(new, nodes[source].outcome, CachedFrom(source))

LEMMA NewChildIs ==
  ASSUME SolverInv, phase = "widen", BatchGoesOn
  PROVE  /\ NewChild \in Node /\ NextChild(nodes, node, NewChild) /\ NewChild.tried = FALSE
         /\ NewChild.evidence.kind \in {"Unknown", "Terminal", "Cached"}
         /\ JudgedAs(attacker, nodes, Len(nodes) + 1, NewChild)
<1> DEFINE p == nodes[node].position
           at == Ordered(p)[nodes[node].next + 1]
           new == NewNode(node, at, MakeMove(p, at))
           known == SourcesOf(exact, new.position)
           source == CHOOSE s \in known : TRUE
<1>1. /\ Tree(attacker, nodes, exact) /\ node \in 1..Len(nodes) /\ nodes[node] \in Node /\ Shaped(nodes)
  BY NodeIs
<1>2. p \in Boards /\ nodes[node].next \in Nat /\ node \in Nat /\ Len(nodes) \in Nat
  BY <1>1, ParentIs DEF Node
<1>3. /\ Len(nodes) < ResidentLimit /\ Omitted(nodes, node) > 0
  BY DEF BatchGoesOn
<1>4. at \in Cells /\ Legal(p, at)
  <2>1. /\ Lists(Ordered(p), Empties(p)) /\ Empties(p) \in SUBSET Cells /\ Cardinality(Empties(p)) \in Nat
    BY OrderedIs
  <2>2. /\ Cardinality(Empties(p)) = Len(Ordered(p))
        /\ \A i \in 1..Len(Ordered(p)) : Ordered(p)[i] \in Empties(p)
    BY <2>1, ListsLength
  <2>3. nodes[node].next + 1 \in 1..Len(Ordered(p))
    BY <2>1, <2>2, <1>2, <1>3 DEF Omitted
  <2>4. at \in Empties(p)
    BY <2>2, <2>3
  <2> QED
    BY <2>1, <2>4 DEF Empties
<1>5. MakeMove(p, at) \in Boards
  BY <1>2, <1>4, MoveMakesBoard
<1>6. NewIs(attacker, new, node, at, MakeMove(p, at))
  <2> HIDE DEF p, at
  <2> QED
    BY <1>2, <1>4, <1>5, NewNodeIs
<1>7. NewChild = IF new.outcome # "Unknown" \/ known = {} THEN new
                 ELSE Settled(new, nodes[source].outcome, CachedFrom(source))
  BY DEF NewChild
<1>8. NextChild(nodes, node, new)
  BY <1>3, <1>6 DEF NewIs, NextChild
<1> HIDE DEF new, known, source, p, at
<1>9. CASE new.outcome # "Unknown" \/ known = {}
  BY <1>6, <1>7, <1>8, <1>9 DEF NewIs
<1>10. CASE new.outcome = "Unknown" /\ known # {}
  <2> DEFINE n == Settled(new, nodes[source].outcome, CachedFrom(source))
  <2>1. source \in known
    BY <1>10 DEF source
  <2>2. /\ source \in 1..Len(nodes) /\ nodes[source].outcome # "Unknown"
        /\ Key(nodes[source].position) = Key(new.position)
    BY <2>1, <1>1, SourceIs DEF Tree, known
  <2>3. nodes[source].outcome \in {"ProvenWin", "Refuted"}
    <3>1. nodes[source] \in Node
      BY <1>1, <2>2, ParentIs
    <3> QED
      BY <3>1, <2>2 DEF Node, Outcomes
  <2>4. source \in Nat /\ source \in 1..(Len(nodes) + 1) - 1
    BY <1>2, <2>2
  <2>5. /\ CachedFrom(source) \in EvidenceKinds /\ CachedFrom(source).kind = "Cached"
        /\ CachedFrom(source).source = source
    BY <2>4, EvidenceIs
  <2>6. new \in Node /\ new.tried = FALSE
    BY <1>6 DEF NewIs
  <2>7. /\ n \in Node /\ SamePlace(n, new) /\ n.tried = FALSE /\ n.outcome = nodes[source].outcome
        /\ n.evidence = CachedFrom(source) /\ Agreed(n)
    <3> DEFINE outcome == nodes[source].outcome
               m == Settled(new, outcome, CachedFrom(source))
    <3>1. new \in Node /\ outcome \in {"ProvenWin", "Refuted"} /\ source \in Nat
      BY <2>3, <2>4, <2>6
    <3> HIDE DEF outcome
    <3>2. /\ m \in Node /\ SamePlace(m, new) /\ m.tried = new.tried /\ m.outcome = outcome
          /\ m.evidence = CachedFrom(source) /\ Agreed(m)
      BY <3>1, SettledFrom
    <3> QED
      BY <3>2, <2>6 DEF outcome
  <2>8. NewChild = n
    BY <1>7, <1>10
  <2> HIDE DEF n
  <2>9. NextChild(nodes, node, n)
    BY <1>8, <2>7 DEF NextChild, SamePlace
  <2>10. JudgedAs(attacker, nodes, Len(nodes) + 1, n) /\ n.evidence.kind = "Cached"
    BY <2>2, <2>4, <2>5, <2>7 DEF JudgedAs, ByChildren, SamePlace
  <2> QED
    BY <2>7, <2>8, <2>9, <2>10
<1> QED
  BY <1>9, <1>10

LEMMA AddChildStep ==
  ASSUME SolverInv, AddChild PROVE SolverInv'
<1> DEFINE n == NewChild
           ms == Grown(nodes, node, n)
           L == Len(nodes)
<1>1. /\ phase = "widen" /\ phase' = "widen" /\ BatchGoesOn /\ nodes' = ms /\ exact' = Remember(ms, exact, Len(ms))
      /\ UNCHANGED <<node, attacker, limits>>
  BY DEF AddChild, Grown, NewChild
<1>2. /\ n \in Node /\ NextChild(nodes, node, n) /\ n.tried = FALSE
      /\ n.evidence.kind # "Aggregated" /\ JudgedAs(attacker, nodes, L + 1, n)
  BY <1>1, NewChildIs
<1>3. /\ Tree(attacker, nodes, exact) /\ OnPath(attacker, nodes, "expand", node)
      /\ node \in 1..L /\ nodes[node] \in Node /\ Shaped(nodes) /\ nodes[node].outcome = "Unknown"
  BY <1>1, NodeIs
<1> HIDE DEF n
<1>4. /\ Tree(attacker, ms, Remember(ms, exact, Len(ms)))
      /\ Len(ms) = L + 1 /\ ms[L + 1] = n
      /\ \A j \in 1..L : j # node => ms[j] = nodes[j]
      /\ ms[node] = [nodes[node] EXCEPT !.next = @ + 1]
      /\ \A j \in 1..L : Above(ms, j) = Above(nodes, j)
      /\ \A j \in 1..L : j # node /\ Counted(attacker, nodes, j) => Counted(attacker, ms, j)
      /\ Counted(attacker, ms, L + 1)
  BY <1>2, <1>3, TreeGrows
<1> HIDE DEF ms
<1>5. /\ \A k \in 1..L : k \in Above(nodes, node) \/ Counted(attacker, nodes, k)
      /\ \A k \in Above(nodes, node) : k = node \/ nodes[k].outcome = "Unknown"
  BY <1>3 DEF OnPath
<1>6. node \in Above(nodes, node) /\ Above(nodes, node) \in SUBSET (1..L) /\ L \in Nat
  BY <1>3, AboveIs, ParentIs DEF Above
<1>7. ms[node].outcome = "Unknown"
  BY <1>3, <1>4 DEF Node
<1> HIDE DEF L
<1>8. ASSUME NEW k \in 1..Len(ms) PROVE k \in Above(ms, node) \/ Counted(attacker, ms, k)
  <2>1. k \in 1..L \/ k = L + 1
    BY <1>4, <1>6
  <2>2. CASE k \in 1..L
    BY <2>2, <1>3, <1>4, <1>5, <1>6
  <2>3. CASE k = L + 1
    BY <2>3, <1>4
  <2> QED
    BY <2>1, <2>2, <2>3
<1>9. \A k \in Above(ms, node) : k = node \/ ms[k].outcome = "Unknown"
  BY <1>3, <1>4, <1>5, <1>6
<1>10. node \in 1..Len(ms)
  BY <1>3, <1>4, <1>6
<1>11. OnPath(attacker, ms, "widen", node)
  BY <1>7, <1>8, <1>9, <1>10 DEF OnPath
<1>12. Types'
  BY <1>1 DEF SolverInv, Types
<1> QED
  BY <1>1, <1>4, <1>11, <1>12 DEF SolverInv

LEMMA EndWideningStep ==
  ASSUME SolverInv, EndWidening PROVE SolverInv'
<1>1. phase = "widen" /\ phase' = "propagate" /\ UNCHANGED <<nodes, exact, attacker, node, limits>>
  BY DEF EndWidening, solver
<1>2. nodes[node].evidence.kind = "Unknown" /\ OnPath(attacker, nodes, "expand", node)
  BY <1>1, NodeIs
<1>3. OnPath(attacker, nodes, "propagate", node)
  BY <1>2 DEF OnPath
<1>4. Types'
  BY <1>1 DEF SolverInv, Types
<1> QED
  BY <1>1, <1>3, <1>4 DEF SolverInv

LEMMA PropagateStep ==
  ASSUME SolverInv, Propagate PROVE SolverInv'
<1> DEFINE ms == Replaced(nodes, node, RecomputedFor(attacker, nodes, node))
<1>1. /\ phase = "propagate" /\ nodes' = ms /\ exact' = Remember(ms, exact, node)
      /\ node' = nodes[node].parent /\ UNCHANGED <<attacker, limits>>
      /\ phase' = IF nodes[node].parent = 0 THEN "check" ELSE "propagate"
  BY RecomputedIsFor DEF Propagate, Keep, Replaced
<1>2. Tree(attacker, nodes, exact) /\ OnPath(attacker, nodes, "propagate", node)
  BY <1>1 DEF SolverInv
<1>3. /\ Tree(attacker, ms, Remember(ms, exact, node))
      /\ IF nodes[node].parent = 0 THEN OnPath(attacker, ms, "check", nodes[node].parent)
         ELSE OnPath(attacker, ms, "propagate", nodes[node].parent)
  BY <1>2, PathShortens
<1> HIDE DEF ms
<1>4. OnPath(attacker, ms, phase', node')
  BY <1>1, <1>3
<1>5. Types'
  BY <1>1 DEF SolverInv, Types
<1> QED
  BY <1>1, <1>3, <1>4, <1>5 DEF SolverInv

LEMMA SelectStep ==
  ASSUME SolverInv, Select PROVE SolverInv'
<1>1. /\ phase = "check" /\ phase' = "expand" /\ nodes[1].outcome = "Unknown" /\ node' = MostProving(nodes)
      /\ UNCHANGED <<nodes, exact, attacker, limits>>
  BY DEF Select, Stopping, solver
<1>2. Tree(attacker, nodes, exact) /\ Shaped(nodes) /\ \A k \in 1..Len(nodes) : Counted(attacker, nodes, k)
  BY <1>1 DEF SolverInv, OnPath, Tree
<1> DEFINE m == MostProving(nodes)
<1>3. m \in 1..Len(nodes) /\ Open(nodes, m)
  BY <1>1, <1>2, MostProvingIs
<1> HIDE DEF m
<1>4. OnPath(attacker, nodes, "expand", m)
  <2>1. m \in Above(nodes, m)
    BY <1>2, <1>3, AboveIs
  <2> QED
    BY <2>1, <1>2, <1>3 DEF OnPath, Open
<1>5. Types'
  BY <1>1 DEF SolverInv, Types
<1>6. node' = m
  BY <1>1 DEF m
<1> QED
  BY <1>1, <1>2, <1>4, <1>5, <1>6 DEF SolverInv

LEMMA ResumeStep ==
  ASSUME SolverInv, Resume PROVE SolverInv' /\ nodes' = nodes
<1>1. Shaped(nodes) /\ Tree(attacker, nodes, exact) /\ \A k \in 1..Len(nodes) : Counted(attacker, nodes, k)
  BY DEF SolverInv, Tree, Resume, OnPath
<1>2. Loaded(Written(nodes)) = nodes
  BY <1>1, LoadedIs
<1>3. /\ nodes' = nodes /\ exact' = Rebuilt(nodes) /\ phase = "between"
      /\ UNCHANGED <<attacker, phase, node, limits>>
  BY <1>2 DEF Resume
<1>4. Tree(attacker, nodes, Rebuilt(nodes))
  BY <1>1, RebuiltIs DEF Tree
<1>5. OnPath(attacker, nodes, phase, node)
  BY DEF SolverInv
<1>6. Types'
  BY <1>3 DEF SolverInv, Types
<1> QED
  BY <1>3, <1>4, <1>5, <1>6 DEF SolverInv

LEMMA WaitingStep ==
  ASSUME SolverInv, Solve \/ Interrupt \/ Return PROVE SolverInv'
<1>1. UNCHANGED <<nodes, exact, attacker>> /\ Types'
  BY DEF SolverInv, Types, Solve, Interrupt, Return, solver
<1>2. OnPath(attacker, nodes, phase', node')
  <2>1. CASE Solve \/ Return
    <3>1. phase \in {"between", "check"} /\ phase' \in {"between", "check"}
      BY <2>1 DEF Solve, Return
    <3> QED
      BY <3>1 DEF OnPath, SolverInv
  <2>2. CASE Interrupt
    BY <2>2 DEF Interrupt, SolverInv
  <2> QED
    BY <2>1, <2>2
<1> QED
  BY <1>1, <1>2 DEF SolverInv

LEMMA SolverStep == SolverInv /\ [Next]_vars => SolverInv'
<1> SUFFICES ASSUME SolverInv, [Next]_vars PROVE SolverInv'
  OBVIOUS
<1>1. CASE Step
  BY <1>1, WaitingStep, SelectStep, AdoptStep, ImmediateStep, TacticalStep, StartWideningStep,
     AddChildStep, EndWideningStep, PropagateStep DEF Step
<1>2. CASE Solve \/ Interrupt
  BY <1>2, WaitingStep
<1>3. CASE Resume
  BY <1>3, ResumeStep
<1>4. CASE UNCHANGED vars
  BY <1>4 DEF SolverInv, Types, vars, solver
<1> QED
  BY <1>1, <1>2, <1>3, <1>4 DEF Next

(* For every board and all bounds: the tree is one of the game, each node   *)
(* has its evidence, and only the path that is worked on is yet to count.   *)
THEOREM SolverInvariant == Spec => []SolverInv
<1>1. Init => SolverInv
  BY SolverInit
<1>2. SolverInv /\ [Next]_vars => SolverInv'
  BY SolverStep
<1> QED
  BY <1>1, <1>2, PTL DEF Spec

(* Every tree that is saved between two solve calls passes all the checks   *)
(* of load_checkpoint and is loaded as it was, positions included.          *)
THEOREM CheckpointsLoad == Spec => []CheckpointLoads
<1>1. SolverInv => CheckpointLoads
  <2> SUFFICES ASSUME SolverInv, phase = "between"
               PROVE  \A loaded \in {Loaded(Written(nodes))} : Accepts(loaded) /\ loaded = nodes
    BY DEF CheckpointLoads
  <2>1. Shaped(nodes) /\ Tree(attacker, nodes, exact) /\ \A k \in 1..Len(nodes) : Counted(attacker, nodes, k)
    BY DEF SolverInv, Tree, OnPath
  <2> QED
    BY <2>1, LoadedIs, AcceptsIt
<1> QED
  BY <1>1, SolverInvariant, PTL

-----------------------------------------------------------------------------
(* The game itself. *)

Over(p) == p.winner # Nothing \/ IsFull(p)

(* A stone wins p if every board in W is won for it. *)
WonIn(W, stone, p) ==
  \/ p.winner = stone
  \/ ~Over(p) /\ p.side = stone /\ \E c \in Empties(p) : MakeMove(p, c) \in W
  \/ ~Over(p) /\ p.side # stone /\ \A c \in Empties(p) : MakeMove(p, c) \in W

(* The boards from which a stone forces a win, by the rules and over all    *)
(* legal replies: the least set that holds whatever is won in it.          *)
HoldsWins(W, stone) == \A p \in Boards : WonIn(W, stone, p) => p \in W
ForcedBy(stone) == {p \in Boards : \A W \in SUBSET Boards : HoldsWins(W, stone) => p \in W}

LEMMA WonInMore ==
  ASSUME NEW stone, NEW W, NEW V, W \subseteq V, NEW p, WonIn(W, stone, p)
  PROVE  WonIn(V, stone, p)
BY DEF WonIn

LEMMA ForcedIs ==
  ASSUME NEW stone, NEW p \in Boards
  PROVE  p \in ForcedBy(stone) <=> WonIn(ForcedBy(stone), stone, p)
<1> DEFINE F == ForcedBy(stone)
<1>1. ASSUME NEW q \in Boards, WonIn(F, stone, q) PROVE q \in F
  <2>1. ASSUME NEW W \in SUBSET Boards, HoldsWins(W, stone) PROVE q \in W
    <3>1. F \subseteq W
      BY <2>1 DEF ForcedBy
    <3>2. WonIn(W, stone, q)
      BY <3>1, <1>1, WonInMore
    <3> QED
      BY <3>2, <2>1 DEF HoldsWins
  <2> QED
    BY <2>1 DEF ForcedBy
<1>2. ASSUME p \in F PROVE WonIn(F, stone, p)
  <2> DEFINE W == {q \in Boards : WonIn(F, stone, q)}
  <2>1. W \subseteq F
    BY <1>1
  <2>2. HoldsWins(W, stone)
    <3> SUFFICES ASSUME NEW q \in Boards, WonIn(W, stone, q) PROVE WonIn(F, stone, q)
      BY DEF HoldsWins
    <3> HIDE DEF W, F
    <3> QED
      BY <2>1, WonInMore
  <2>3. p \in W
    <3>1. W \in SUBSET Boards
      OBVIOUS
    <3> HIDE DEF W
    <3> QED
      BY <1>2, <2>2, <3>1 DEF ForcedBy
  <2> QED
    BY <2>3
<1> QED
  BY <1>1, <1>2

LEMMA BoardIs ==
  ASSUME NEW p \in Boards
  PROVE  /\ p.cells \in [Cells -> Stones \cup {Nothing}] /\ p.side \in Stones
         /\ p.winner \in Stones \cup {Nothing}
         /\ p.count = Cardinality(Taken(p))
         /\ \A stone \in Stones : p.winner = stone <=> InRow(p.cells, stone)
         /\ IsFull(p) <=> \A c \in Cells : p.cells[c] # Nothing
BY TakenIs DEF Boards, Positions, IsFull

(* An empty cell of a board that goes on is a legal move, and the other way. *)
LEMMA EmptiesAre ==
  ASSUME NEW p \in Boards, NEW c \in Cells
  PROVE  c \in Empties(p) <=> p.winner = Nothing /\ p.cells[c] = Nothing
BY BoardIs DEF Empties, Legal

LEMMA OngoingIs ==
  ASSUME NEW p \in Boards, NEW c \in Empties(p)
  PROVE  /\ c \in Cells /\ ~Over(p) /\ p.cells[c] = Nothing /\ p.winner = Nothing
         /\ MakeMove(p, c) \in Boards
<1>1. c \in Cells /\ Legal(p, c)
  BY DEF Empties
<1> QED
  BY <1>1, MoveMakesBoard DEF Legal, Over

(* The winner of a finished board is all there is to it. *)
LEMMA FinishedIs ==
  ASSUME NEW stone \in Stones, NEW p \in Boards, Over(p)
  PROVE  p \in ForcedBy(stone) <=> p.winner = stone
BY ForcedIs DEF WonIn

(* A stone that can take five at once wins, and its opponent does not. *)
LEMMA FiveNow ==
  ASSUME NEW p \in Boards, NEW c \in Wins(p, p.side)
  PROVE  /\ p \in ForcedBy(p.side) /\ p \notin ForcedBy(Opponent(p.side))
<1> DEFINE s == p.side
           q == MakeMove(p, c)
<1>1. c \in Empties(p) /\ HasFiveFrom([p.cells EXCEPT ![c] = s], c, s)
  BY DEF Wins
<1>2. s \in Stones /\ Opponent(s) \in Stones /\ Opponent(s) # s
  BY BoardIs, StonesAre
<1>3. ~Over(p) /\ q \in Boards /\ p.winner = Nothing
  BY <1>1, OngoingIs
<1>4. q.winner = s
  BY <1>1 DEF MakeMove
<1>5. Over(q)
  BY <1>2, <1>4, StonesAre DEF Over
<1>6. q \in ForcedBy(s) /\ q \notin ForcedBy(Opponent(s))
  BY <1>2, <1>3, <1>4, <1>5, FinishedIs
<1>7. p \in ForcedBy(s)
  BY <1>1, <1>3, <1>6, ForcedIs DEF WonIn
<1>8. p \notin ForcedBy(Opponent(s))
  <2>1. p.winner # Opponent(s)
    BY <1>2, <1>3, StonesAre
  <2> QED
    BY <2>1, <1>1, <1>2, <1>3, <1>6, ForcedIs DEF WonIn
<1> QED
  BY <1>7, <1>8

(* Two fives of the opponent cannot both be stopped. *)
LEMMA TwoFivesNext ==
  ASSUME NEW p \in Boards, Wins(p, p.side) = {}, NEW c \in Wins(p, Opponent(p.side)),
         NEW d \in Wins(p, Opponent(p.side)), c # d
  PROVE  /\ p \in ForcedBy(Opponent(p.side)) /\ p \notin ForcedBy(p.side)
<1> DEFINE s == p.side
           o == Opponent(p.side)
<1>1. s \in Stones /\ o \in Stones /\ o # s /\ Opponent(o) = s /\ s # Nothing /\ o # Nothing
  BY BoardIs, StonesAre DEF Stones, Opponent
<1>2. /\ \A e \in {c, d} : /\ e \in Empties(p)
                           /\ HasFiveFrom([p.cells EXCEPT ![e] = o], e, o)
  BY DEF Wins
<1>3. ~Over(p) /\ p.winner = Nothing
  BY <1>2, OngoingIs
<1>4. ASSUME NEW e \in Empties(p)
      PROVE  /\ MakeMove(p, e) \in ForcedBy(o) /\ MakeMove(p, e) \notin ForcedBy(s)
  <2> DEFINE q == MakeMove(p, e)
  <2>1. q \in Boards /\ e \in Cells /\ p.cells[e] = Nothing
    BY OngoingIs
  <2>2. PICK f \in {c, d} : f # e
    OBVIOUS
  <2>3. f \in Empties(p) /\ f \in Cells /\ p.cells[f] = Nothing /\ HasFiveFrom([p.cells EXCEPT ![f] = o], f, o)
    BY <1>2, <2>2, OngoingIs
  <2>4. ~HasFiveFrom([p.cells EXCEPT ![e] = s], e, s)
    BY DEF Wins
  <2>5. q.cells = [p.cells EXCEPT ![e] = s] /\ q.side = o /\ q.winner = Nothing
    BY <2>4 DEF MakeMove
  <2>6. p.cells \in [Cells -> Stones \cup {Nothing}]
    BY BoardIs
  <2> HIDE DEF q
  <2>7. q.cells[f] = Nothing
    BY <2>1, <2>2, <2>3, <2>5, <2>6
  <2>8. f \in Empties(q)
    BY <2>1, <2>3, <2>5, <2>7, EmptiesAre
  <2>9. HasFiveFrom([q.cells EXCEPT ![f] = o], f, o)
    <3>1. PICK line \in Lines : f \in line /\ \A x \in line : [p.cells EXCEPT ![f] = o][x] = o
      BY <2>3 DEF HasFiveFrom
    <3>2. line \subseteq Cells
      BY BoardAssumption
    <3>3. e \notin line
      BY <3>1, <2>1, <2>2, <2>6, <1>1
    <3>4. \A x \in line : [q.cells EXCEPT ![f] = o][x] = o
      BY <3>1, <3>2, <3>3, <2>1, <2>5, <2>6
    <3> QED
      BY <3>1, <3>4 DEF HasFiveFrom
  <2>10. f \in Wins(q, q.side)
    BY <2>5, <2>8, <2>9 DEF Wins
  <2>11. q \in ForcedBy(q.side) /\ q \notin ForcedBy(Opponent(q.side))
    BY <2>1, <2>10, FiveNow
  <2> QED
    BY <2>5, <2>11, <1>1 DEF q
<1>5. p \in ForcedBy(o)
  BY <1>1, <1>3, <1>4, ForcedIs DEF WonIn
<1>6. p \notin ForcedBy(s)
  BY <1>1, <1>3, <1>4, ForcedIs DEF WonIn
<1> QED
  BY <1>5, <1>6

-----------------------------------------------------------------------------
(* A board seen through a symmetry. *)

Seen(g, p, q) == q.side = p.side /\ \A c \in Cells : q.cells[c] = p.cells[g[c]]
Inverses(g, h) == \A c \in Cells : h[g[c]] = c /\ g[h[c]] = c

LEMMA InverseIs ==
  ASSUME NEW g \in Symmetries
  PROVE  g \in [Cells -> Cells] /\ \E h \in Symmetries : Inverses(g, h)
<1>1. \A f \in Symmetries : f \in [Cells -> Cells] /\ \E h \in Symmetries : \A c \in Cells : h[f[c]] = c
  BY SymmetryAssumption
<1>2. PICK h \in Symmetries : \A c \in Cells : h[g[c]] = c
  BY <1>1
<1>3. PICK f \in Symmetries : \A c \in Cells : f[h[c]] = c
  BY <1>1
<1>4. ASSUME NEW c \in Cells PROVE g[h[c]] = c
  <2>1. h[c] \in Cells /\ g[h[c]] \in Cells
    BY <1>1
  <2>2. f[h[g[h[c]]]] = g[h[c]]
    BY <2>1, <1>3
  <2>3. h[g[h[c]]] = h[c]
    BY <2>1, <1>2
  <2> QED
    BY <2>2, <2>3, <1>3
<1> QED
  BY <1>1, <1>2, <1>4 DEF Inverses

LEMMA SeenBack ==
  ASSUME NEW g \in Symmetries, NEW h \in Symmetries, Inverses(g, h), NEW p, NEW q, Seen(g, p, q)
  PROVE  Seen(h, q, p) /\ Inverses(h, g)
<1>1. \A c \in Cells : h[c] \in Cells
  BY InverseIs
<1> QED
  BY <1>1 DEF Seen, Inverses

(* Positions with the same key are one seen through a symmetry. *)
LEMMA KeySeen ==
  ASSUME NEW p \in Boards, NEW q \in Boards, Key(p) = Key(q)
  PROVE  \E g \in Symmetries : Seen(g, p, q)
<1>1. Canonical(p) = Canonical(q) /\ p.side = q.side
  BY DEF Key
<1>2. \A x : Canonical(x) \in {Image(x, g) : g \in Symmetries}
  BY SymmetryAssumption DEF Canonical
<1>3. PICK g \in Symmetries : Canonical(p) = Image(p, g)
  BY <1>2
<1>4. PICK h \in Symmetries : Canonical(q) = Image(q, h)
  BY <1>2
<1>5. PICK k \in Symmetries : Inverses(h, k)
  BY InverseIs
<1> DEFINE f == [c \in Cells |-> g[k[c]]]
<1>6. f \in Symmetries
  BY SymmetryAssumption
<1>7. ASSUME NEW c \in Cells PROVE q.cells[c] = p.cells[f[c]]
  <2>1. k[c] \in Cells
    BY InverseIs
  <2>2. Image(q, h)[k[c]] = q.cells[h[k[c]]] /\ Image(p, g)[k[c]] = p.cells[g[k[c]]]
    BY <2>1 DEF Image
  <2>3. h[k[c]] = c /\ f[c] = g[k[c]]
    BY <1>5 DEF Inverses
  <2> HIDE DEF f
  <2> QED
    BY <2>2, <2>3, <1>1, <1>3, <1>4
<1> HIDE DEF f
<1> QED
  BY <1>1, <1>6, <1>7 DEF Seen

LEMMA SeenRow ==
  ASSUME NEW g \in Symmetries, NEW p, NEW q, Seen(g, p, q), NEW stone, InRow(q.cells, stone)
  PROVE  InRow(p.cells, stone)
<1>1. PICK line \in Lines : \A c \in line : q.cells[c] = stone
  BY DEF InRow
<1>2. line \subseteq Cells /\ {g[c] : c \in line} \in Lines
  BY BoardAssumption, SymmetryAssumption
<1>3. \A c \in line : p.cells[g[c]] = stone
  BY <1>1, <1>2 DEF Seen
<1> QED
  BY <1>2, <1>3 DEF InRow

LEMMA SeenEnd ==
  ASSUME NEW g \in Symmetries, NEW p \in Boards, NEW q \in Boards, Seen(g, p, q)
  PROVE  p.winner = q.winner /\ IsFull(p) = IsFull(q) /\ Over(p) = Over(q)
<1>1. PICK h \in Symmetries : Inverses(g, h)
  BY InverseIs
<1>2. Seen(h, q, p)
  BY <1>1, SeenBack
<1>3. \A stone \in Stones : p.winner = stone <=> q.winner = stone
  BY <1>2, SeenRow, BoardIs
<1>4. p.winner = q.winner
  BY <1>3, BoardIs
<1>5. IsFull(p) <=> IsFull(q)
  <2>1. \A c \in Cells : g[c] \in Cells /\ h[c] \in Cells
    BY InverseIs
  <2>2. (\A c \in Cells : p.cells[c] # Nothing) <=> (\A c \in Cells : q.cells[c] # Nothing)
    BY <2>1, <1>2 DEF Seen
  <2> QED
    BY <2>2, BoardIs
<1> QED
  BY <1>4, <1>5 DEF Over, IsFull

LEMMA SeenMove ==
  ASSUME NEW g \in Symmetries, NEW p \in Boards, NEW q \in Boards, Seen(g, p, q), NEW c \in Empties(q)
  PROVE  g[c] \in Empties(p) /\ Seen(g, MakeMove(p, g[c]), MakeMove(q, c))
<1>1. PICK h \in Symmetries : Inverses(g, h)
  BY InverseIs
<1>2. c \in Cells /\ q.winner = Nothing /\ q.cells[c] = Nothing
  BY OngoingIs
<1>3. g \in [Cells -> Cells]
  BY InverseIs
<1>4. g[c] \in Empties(p)
  BY <1>2, <1>3, SeenEnd, EmptiesAre DEF Seen
<1> DEFINE s == q.side
<1>5. /\ MakeMove(p, g[c]).cells = [p.cells EXCEPT ![g[c]] = s]
      /\ MakeMove(p, g[c]).side = Opponent(s)
      /\ MakeMove(q, c).cells = [q.cells EXCEPT ![c] = s] /\ MakeMove(q, c).side = Opponent(s)
  BY DEF MakeMove, Seen
<1>6. p.cells \in [Cells -> Stones \cup {Nothing}] /\ q.cells \in [Cells -> Stones \cup {Nothing}]
  BY BoardIs
<1>7. ASSUME NEW d \in Cells
      PROVE  [q.cells EXCEPT ![c] = s][d] = [p.cells EXCEPT ![g[c]] = s][g[d]]
  <2>1. g[d] \in Cells /\ (g[d] = g[c] <=> d = c)
    BY <1>1, <1>2, <1>3 DEF Inverses
  <2> QED
    BY <2>1, <1>2, <1>3, <1>6 DEF Seen
<1> QED
  BY <1>4, <1>5, <1>7 DEF Seen

(* A win is forced from a board if it is from its image. *)
LEMMA SeenForced ==
  ASSUME NEW g \in Symmetries, NEW p \in Boards, NEW q \in Boards, Seen(g, p, q), NEW stone,
         p \in ForcedBy(stone)
  PROVE  q \in ForcedBy(stone)
<1> DEFINE F == ForcedBy(stone)
           W == {x \in Boards : \A y \in Boards : Seen(g, x, y) => y \in F}
<1>1. PICK h \in Symmetries : Inverses(g, h)
  BY InverseIs
<1>2. ASSUME NEW x \in Boards, WonIn(W, stone, x), NEW y \in Boards, Seen(g, x, y)
      PROVE  WonIn(F, stone, y)
  <2>1. y.winner = x.winner /\ Over(y) = Over(x) /\ y.side = x.side
    BY <1>2, SeenEnd DEF Seen
  <2>2. Seen(h, y, x) /\ Inverses(h, g)
    BY <1>1, <1>2, SeenBack
  <2>3. ASSUME NEW c \in Empties(x), MakeMove(x, c) \in W
        PROVE  \E d \in Empties(y) : MakeMove(y, d) \in F
    <3>1. h[c] \in Empties(y) /\ Seen(h, MakeMove(y, h[c]), MakeMove(x, c))
      BY <2>2, SeenMove
    <3>2. Seen(g, MakeMove(x, c), MakeMove(y, h[c]))
      BY <3>1, <2>2, SeenBack
    <3>3. MakeMove(y, h[c]) \in Boards
      BY <3>1, OngoingIs
    <3> QED
      BY <3>1, <3>2, <3>3, <2>3
  <2>4. ASSUME NEW d \in Empties(y), \A c \in Empties(x) : MakeMove(x, c) \in W
        PROVE  MakeMove(y, d) \in F
    <3>1. g[d] \in Empties(x) /\ Seen(g, MakeMove(x, g[d]), MakeMove(y, d))
      BY <1>2, SeenMove
    <3>2. MakeMove(y, d) \in Boards
      BY OngoingIs
    <3> QED
      BY <3>1, <3>2, <2>4
  <2> HIDE DEF W, F
  <2> QED
    BY <1>2, <2>1, <2>3, <2>4 DEF WonIn
<1>3. HoldsWins(W, stone)
  <2> SUFFICES ASSUME NEW x \in Boards, WonIn(W, stone, x), NEW y \in Boards, Seen(g, x, y)
               PROVE  y \in F
    BY DEF HoldsWins
  <2>1. WonIn(F, stone, y)
    BY <1>2
  <2> QED
    BY <2>1, ForcedIs
<1>4. p \in W
  <2>1. W \in SUBSET Boards
    OBVIOUS
  <2> HIDE DEF W
  <2> QED
    BY <2>1, <1>3 DEF ForcedBy
<1> QED
  BY <1>4

(* What is forced goes by the key. *)
LEMMA KeyForced ==
  ASSUME NEW p \in Boards, NEW q \in Boards, Key(p) = Key(q), NEW stone
  PROVE  p \in ForcedBy(stone) <=> q \in ForcedBy(stone)
BY KeySeen, SeenForced

-----------------------------------------------------------------------------
(* Every verdict is true. *)

(* What is known of a node is what the game makes of its position. *)
TrueAs(att, n) ==
  n.outcome # "Unknown" => (n.outcome = "ProvenWin" <=> n.position \in ForcedBy(att))
Truthful(att, ns) == \A k \in 1..Len(ns) : TrueAs(att, ns[k])

LEMMA TerminalTrue ==
  ASSUME NEW att \in Stones, NEW p \in Boards
  PROVE  /\ TerminalFor(att, p) = "Unknown" <=> ~Over(p)
         /\ Over(p) => (TerminalFor(att, p) = "ProvenWin" <=> p \in ForcedBy(att))
<1>1. att # Nothing
  BY StonesAre
<1> QED
  BY <1>1, FinishedIs DEF TerminalFor, OutcomeFor, Over

LEMMA TwoOf ==
  ASSUME NEW S, IsFiniteSet(S), Cardinality(S) > 1
  PROVE  \E c, d \in S : c # d
<1> SUFFICES ASSUME \A c, d \in S : c = d PROVE FALSE
  OBVIOUS
<1>1. S # {}
  BY FS_EmptySet
<1>2. PICK c \in S : S = {c}
  BY <1>1
<1>3. Cardinality({c}) = 1
  BY FS_Singleton
<1> QED
  BY <1>2, <1>3

LEMMA ImmediateTrue ==
  ASSUME NEW att \in Stones, NEW p \in Boards, ImmediateFor(att, p) # "Unknown"
  PROVE  ImmediateFor(att, p) = "ProvenWin" <=> p \in ForcedBy(att)
<1> DEFINE s == p.side
           o == Opponent(p.side)
<1>1. s \in Stones /\ o \in Stones /\ o # s /\ (att = s \/ att = o)
  BY BoardIs, StonesAre
<1>2. CASE Wins(p, s) # {}
  <2>1. p \in ForcedBy(s) /\ p \notin ForcedBy(o)
    BY <1>2, FiveNow
  <2> QED
    BY <2>1, <1>1, <1>2 DEF ImmediateFor, OutcomeFor
<1>3. CASE Wins(p, s) = {}
  <2>1. Cardinality(Wins(p, o)) > 1 /\ ImmediateFor(att, p) = OutcomeFor(att, o)
    BY <1>3 DEF ImmediateFor
  <2>2. IsFiniteSet(Wins(p, o))
    <3>1. Wins(p, o) \in SUBSET Empties(p)
      BY DEF Wins
    <3> QED
      BY <3>1, OrderedIs, FS_Subset
  <2>3. \E c, d \in Wins(p, o) : c # d
    <3> DEFINE S == Wins(p, o)
    <3> HIDE DEF S
    <3>1. \E c, d \in S : c # d
      BY <2>1, <2>2, TwoOf DEF S
    <3> QED
      BY <3>1 DEF S
  <2>4. p \in ForcedBy(o) /\ p \notin ForcedBy(s)
    BY <2>3, <1>3, TwoFivesNext
  <2> QED
    BY <2>1, <2>4, <1>1 DEF OutcomeFor
<1> QED
  BY <1>2, <1>3

(* Once no move is left out, every move leads to a child. *)
LEMMA AllTried ==
  ASSUME NEW ns, Shaped(ns), NEW k \in 1..Len(ns), Omitted(ns, k) = 0,
         NEW c \in Empties(ns[k].position)
  PROVE  \E j \in Children(ns, k) : ns[j].via = c
<1> DEFINE p == ns[k].position
           E == Empties(p)
           kids == Children(ns, k)
           order == Ordered(p)
           Rank(j) == Cardinality(kids \cap 1..j)
<1>1. /\ IsFiniteSet(E) /\ Cardinality(E) \in Nat /\ Lists(order, E)
      /\ Cardinality(E) = Len(order) /\ \A i \in 1..Len(order) : order[i] \in E
  BY OrderedIs, ListsLength
<1>2. IsFiniteSet(kids) /\ kids \in SUBSET (1..Len(ns)) /\ Len(ns) \in Nat
  BY ChildrenAre, ShapedIs DEF Shaped
<1>3. Cardinality(kids) = ns[k].next /\ \A j \in kids : ns[j].via = order[Rank(j)]
  BY DEF Shaped, ExpandedInOrder
<1>4. Cardinality(kids) = Cardinality(E)
  <2>1. ns[k].next \in Nat
    BY ParentIs DEF Node
  <2> QED
    BY <2>1, <1>1, <1>3 DEF Omitted
<1> HIDE DEF kids, order, E, p
<1>5. ASSUME NEW j \in kids
      PROVE  /\ Rank(j) \in 1..Len(order) /\ IsFiniteSet(kids \cap 1..j)
             /\ \A i \in kids : i < j => Rank(i) < Rank(j)
  <2>1. /\ IsFiniteSet(kids \cap 1..j) /\ Cardinality(kids \cap 1..j) <= Cardinality(kids)
        /\ Cardinality(kids \cap 1..j) \in Nat
    BY <1>2, FS_Subset, FS_CardinalityType
  <2>2. j \in kids \cap 1..j
    BY <1>2
  <2>3. Cardinality(kids \cap 1..j) # 0
    BY <2>1, <2>2, FS_EmptySet
  <2>4. ASSUME NEW i \in kids, i < j PROVE Rank(i) < Rank(j)
    <3>1. kids \cap 1..i \in SUBSET (kids \cap 1..j)
      BY <1>2, <2>4
    <3>2. j \notin kids \cap 1..i
      BY <1>2, <2>4
    <3>3. /\ Cardinality(kids \cap 1..i) <= Cardinality(kids \cap 1..j)
          /\ Cardinality(kids \cap 1..i) # Cardinality(kids \cap 1..j)
      <4> DEFINE S == kids \cap 1..j
                 T == kids \cap 1..i
      <4>1. IsFiniteSet(S) /\ T \in SUBSET S /\ T # S
        BY <2>1, <2>2, <3>1, <3>2
      <4> HIDE DEF S, T
      <4>2. Cardinality(T) <= Cardinality(S) /\ Cardinality(T) # Cardinality(S)
        BY <4>1, FS_Subset
      <4> QED
        BY <4>2 DEF S, T
    <3>4. Cardinality(kids \cap 1..i) \in Nat
      BY <1>2, FS_Subset, FS_CardinalityType
    <3> QED
      BY <3>3, <3>4, <2>1
  <2>5. Rank(j) \in 1..Len(order)
    <3> DEFINE r == Rank(j)
    <3>1. r \in Nat /\ r # 0 /\ r <= Cardinality(kids) /\ Cardinality(kids) = Len(order) /\ Len(order) \in Nat
      BY <2>1, <2>3, <1>1, <1>4
    <3> HIDE DEF r
    <3>2. r \in 1..Len(order)
      BY <3>1
    <3> QED
      BY <3>2 DEF r
  <2> QED
    BY <2>1, <2>4, <2>5
<1>6. ASSUME NEW i \in kids, NEW j \in kids, ns[i].via = ns[j].via PROVE i = j
  <2>1. order[Rank(i)] = order[Rank(j)] /\ Rank(i) \in 1..Len(order) /\ Rank(j) \in 1..Len(order)
    BY <1>3, <1>5, <1>6
  <2>2. Rank(i) = Rank(j)
    BY <2>1, <1>1 DEF Lists
  <2>3. (i < j => Rank(i) < Rank(j)) /\ (j < i => Rank(j) < Rank(i))
    BY <1>5
  <2>4. Rank(i) \in Int /\ i \in Int /\ j \in Int
    BY <2>1, <1>1, <1>2
  <2> HIDE DEF Rank
  <2> QED
    BY <2>2, <2>3, <2>4
<1> SUFFICES ASSUME \A j \in kids : ns[j].via # c PROVE FALSE
  BY DEF kids
<1> DEFINE f == [j \in kids |-> ns[j].via]
           T == E \ {c}
<1>7. f \in [kids -> T]
  <2>1. \A j \in kids : ns[j].via \in E
    BY <1>1, <1>3, <1>5
  <2> QED
    BY <2>1
<1>8. IsFiniteSet(T) /\ Cardinality(T) < Cardinality(kids)
  <2>1. c \in E
    BY DEF E, p
  <2>2. IsFiniteSet(E \ {c}) /\ Cardinality(E \ {c}) = Cardinality(E) - 1
    BY <2>1, <1>1, FS_RemoveElement
  <2> QED
    BY <2>2, <1>1, <1>4
<1> HIDE DEF T
<1>9. \E i, j \in kids : i # j /\ f[i] = f[j]
  <2> HIDE DEF f
  <2> QED
    BY <1>2, <1>7, <1>8, FS_PigeonHole
<1> QED
  BY <1>9, <1>6

(* What its children make of a node is true if what is known of them is. *)
LEMMA DecidedTrue ==
  ASSUME NEW att \in Stones, NEW ns, Shaped(ns), Truthful(att, ns), NEW k \in 1..Len(ns),
         TerminalFor(att, ns[k].position) = "Unknown",
         NEW outcome \in {"ProvenWin", "Refuted"}, Decided(att, ns, k, outcome)
  PROVE  outcome = "ProvenWin" <=> ns[k].position \in ForcedBy(att)
<1> DEFINE p == ns[k].position
           F == ForcedBy(att)
<1>1. p \in Boards /\ ~Over(p) /\ p.winner # att
  <2>1. p \in Boards
    BY ParentIs DEF Node
  <2>2. ~Over(p)
    BY <2>1, TerminalTrue
  <2> QED
    BY <2>1, <2>2, StonesAre DEF Over
<1>2. ASSUME NEW j \in Children(ns, k)
      PROVE  /\ ns[j].via \in Empties(p) /\ ns[j].position = MakeMove(p, ns[j].via)
             /\ ns[j].outcome # "Unknown" => (ns[j].outcome = "ProvenWin" <=> MakeMove(p, ns[j].via) \in F)
  <2>1. j \in 1..Len(ns) /\ ns[j].parent = k /\ k # 0
    BY ChildrenAre DEF Shaped, Children
  <2>2. WellLinked(ns, j) /\ Derived(ns, j)
    BY <2>1 DEF Shaped
  <2>3. j # 1
    BY <2>1, <2>2 DEF WellLinked
  <2>4. ns[j].via \in Cells /\ Legal(p, ns[j].via) /\ ns[j].position = MakeMove(p, ns[j].via)
    BY <2>1, <2>2, <2>3 DEF WellLinked, Derived
  <2> QED
    BY <2>1, <2>4 DEF Empties, Truthful, TrueAs
<1>3. p \in F <=> WonIn(F, att, p)
  BY <1>1, ForcedIs
<1>4. Omitted(ns, k) = 0 => \A c \in Empties(p) : \E j \in Children(ns, k) : ns[j].via = c
  BY AllTried
<1> HIDE DEF p, F
<1>5. CASE p.side = att
  <2>1. p \in F <=> \E c \in Empties(p) : MakeMove(p, c) \in F
    BY <1>1, <1>3, <1>5 DEF WonIn
  <2>2. CASE outcome = "ProvenWin"
    <3>1. \E j \in Children(ns, k) : ns[j].outcome = "ProvenWin"
      BY <2>2, <1>5 DEF Decided, p
    <3> QED
      BY <3>1, <2>1, <2>2, <1>2 DEF p, F
  <2>3. CASE outcome = "Refuted"
    <3>1. Omitted(ns, k) = 0 /\ \A j \in Children(ns, k) : ns[j].outcome = "Refuted"
      BY <2>3, <1>5 DEF Decided, p
    <3>2. \A c \in Empties(p) : MakeMove(p, c) \notin F
      BY <3>1, <1>2, <1>4
    <3> QED
      BY <3>2, <2>1, <2>3 DEF p, F
  <2> QED
    BY <2>2, <2>3
<1>6. CASE p.side # att
  <2>1. p \in F <=> \A c \in Empties(p) : MakeMove(p, c) \in F
    BY <1>1, <1>3, <1>6 DEF WonIn
  <2>2. CASE outcome = "Refuted"
    <3>1. \E j \in Children(ns, k) : ns[j].outcome = "Refuted"
      BY <2>2, <1>6 DEF Decided, p
    <3> QED
      BY <3>1, <2>1, <2>2, <1>2 DEF p, F
  <2>3. CASE outcome = "ProvenWin"
    <3>1. Omitted(ns, k) = 0 /\ \A j \in Children(ns, k) : ns[j].outcome = "ProvenWin"
      BY <2>3, <1>6 DEF Decided, p
    <3>2. \A c \in Empties(p) : MakeMove(p, c) \in F
      BY <3>1, <1>2, <1>4
    <3> QED
      BY <3>2, <2>1, <2>3 DEF p, F
  <2> QED
    BY <2>2, <2>3
<1> QED
  BY <1>5, <1>6 DEF p, F

(* A winning move of a VCF or VCT attempt is worth its name. *)
TacticsSound ==
  \A p \in Boards : \A stone \in Stones : Tactic(p, stone) # {} => p \in ForcedBy(stone)

(* Where one node is new, or known better, and says what it was told. *)
LEMMA OneChanges ==
  ASSUME NEW att \in Stones, NEW ns, Shaped(ns), Truthful(att, ns), NEW ms, Shaped(ms), NEW k \in 1..Len(ms),
         \A j \in 1..Len(ms) :
           j # k => j \in 1..Len(ns) /\ ms[j].outcome = ns[j].outcome /\ ms[j].position = ns[j].position,
         Judged(att, ms, k), ms[k].evidence.kind \in {"Unknown", "Terminal", "Immediate", "Cached"}
  PROVE  Truthful(att, ms)
<1> DEFINE n == ms[k]
<1>1. n \in Node /\ JudgedAs(att, ms, k, n) /\ k \in Nat /\ Len(ms) \in Nat
  BY ParentIs DEF Judged
<1>2. \A j \in 1..Len(ms) : j # k => TrueAs(att, ms[j])
  BY DEF Truthful, TrueAs
<1>3. n.position \in Boards /\ Agreed(n)
  BY <1>1 DEF Node, JudgedAs
<1> HIDE DEF n
<1>4. CASE n.evidence.kind = "Unknown"
  BY <1>3, <1>4, <1>2 DEF Agreed, TrueAs, Truthful, n
<1>5. CASE n.evidence.kind = "Terminal"
  <2>1. n.outcome = TerminalFor(att, n.position)
    BY <1>1, <1>5 DEF JudgedAs
  <2>2. TrueAs(att, n)
    BY <2>1, <1>3, TerminalTrue DEF TrueAs
  <2> QED
    BY <2>2, <1>2 DEF Truthful, n
<1>6. CASE n.evidence.kind = "Immediate"
  <2>1. n.outcome = ImmediateFor(att, n.position)
    BY <1>1, <1>6 DEF JudgedAs
  <2>2. TrueAs(att, n)
    BY <2>1, <1>3, ImmediateTrue DEF TrueAs
  <2> QED
    BY <2>2, <1>2 DEF Truthful, n
<1>7. CASE n.evidence.kind = "Cached"
  <2> DEFINE s == n.evidence.source
  <2>1. s \in 1..k - 1 /\ ms[s].outcome = n.outcome /\ Key(ms[s].position) = Key(n.position)
    BY <1>1, <1>7 DEF JudgedAs
  <2>2. s \in 1..Len(ms) /\ s # k
    BY <2>1, <1>1
  <2>3. TrueAs(att, ms[s]) /\ ms[s].position \in Boards
    BY <2>2, <1>2, ParentIs DEF Node
  <2>4. TrueAs(att, n)
    BY <2>1, <2>3, <1>3, KeyForced DEF TrueAs
  <2> QED
    BY <2>4, <1>2 DEF Truthful, n
<1> QED
  BY <1>4, <1>5, <1>6, <1>7 DEF n

(* The node a step settles, and the rest of the tree. *)
LEMMA SettledNode ==
  ASSUME SolverInv, phase = "expand", NEW outcome \in {"ProvenWin", "Refuted"}, NEW e \in EvidenceKinds,
         e.kind # "Unknown", NEW n,
         n = Settled(nodes[node], outcome, e) \/ n = [Settled(nodes[node], outcome, e) EXCEPT !.tried = TRUE],
         nodes' = Replaced(nodes, node, n)
  PROVE  /\ node \in 1..Len(nodes) /\ Len(nodes') = Len(nodes)
         /\ \A j \in 1..Len(nodes') : j # node => nodes'[j] = nodes[j]
         /\ nodes'[node].outcome = outcome /\ nodes'[node].evidence = e
         /\ nodes'[node].position = nodes[node].position
<1>1. node \in 1..Len(nodes) /\ nodes[node] \in Node /\ Shaped(nodes)
  BY NodeIs
<1>2. n \in Node /\ SamePlace(n, nodes[node]) /\ n.outcome = outcome /\ n.evidence = e
  <2> DEFINE m == Settled(nodes[node], outcome, e)
             t == [m EXCEPT !.tried = TRUE]
  <2>1. /\ m \in Node /\ SamePlace(m, nodes[node]) /\ m.outcome = outcome /\ m.evidence = e
        /\ \A b \in BOOLEAN : LET u == [m EXCEPT !.tried = b]
                              IN u \in Node /\ SamePlace(u, nodes[node]) /\ u.outcome = outcome /\ u.evidence = e
    <3> DEFINE old == nodes[node]
               s == Settled(old, outcome, e)
    <3>1. old \in Node
      BY <1>1
    <3> HIDE DEF old
    <3>2. /\ s \in Node /\ SamePlace(s, old) /\ s.outcome = outcome /\ s.evidence = e
          /\ \A b \in BOOLEAN : LET u == [s EXCEPT !.tried = b]
                                IN u \in Node /\ SamePlace(u, old) /\ u.outcome = outcome /\ u.evidence = e
      BY <3>1, SettledIs
    <3> QED
      BY <3>2 DEF old
  <2> HIDE DEF m
  <2>2. t \in Node /\ SamePlace(t, nodes[node]) /\ t.outcome = outcome /\ t.evidence = e
    BY <2>1
  <2> HIDE DEF t
  <2>3. n = m \/ n = t
    BY DEF m, t
  <2> QED
    BY <2>1, <2>2, <2>3
<1> DEFINE ms == Replaced(nodes, node, n)
<1>3. Len(ms) = Len(nodes) /\ ms[node] = n /\ \A j \in 1..Len(nodes) : j # node => ms[j] = nodes[j]
  BY <1>1, <1>2, ShapeStays DEF SamePlace
<1> HIDE DEF ms
<1>4. nodes' = ms
  BY DEF ms
<1> QED
  BY <1>1, <1>2, <1>3, <1>4 DEF SamePlace

TruthInv == SolverInv /\ Truthful(attacker, nodes)

LEMMA TruthInit == Init => TruthInv
<1> SUFFICES ASSUME Init PROVE TruthInv
  OBVIOUS
<1>1. SolverInv
  BY SolverInit
<1>2. PICK moves \in Roots : nodes = <<NewNode(0, Nothing, Replay(moves).position)>>
  BY DEF Init
<1> DEFINE p == Replay(moves).position
           n == NewNode(0, Nothing, p)
<1>3. p \in Boards
  BY ReplayMakesBoard
<1> HIDE DEF p
<1>4. n.position = p /\ n.outcome = TerminalFor(attacker, p)
  <2>1. 0 \in Nat /\ Nothing \in Cells \cup {Nothing}
    OBVIOUS
  <2>2. NewIs(attacker, n, 0, Nothing, p)
    BY <2>1, <1>3, NewNodeIs
  <2> QED
    BY <2>2 DEF NewIs
<1>5. attacker \in Stones
  BY DEF Init
<1>6. nodes = <<n>>
  BY <1>2 DEF p
<1> HIDE DEF n
<1>7. TrueAs(attacker, n)
  BY <1>3, <1>4, <1>5, TerminalTrue DEF TrueAs
<1> QED
  BY <1>1, <1>6, <1>7 DEF TruthInv, Truthful

LEMMA TruthStep == TacticsSound /\ TruthInv /\ [Next]_vars => TruthInv'
<1> SUFFICES ASSUME TacticsSound, TruthInv, [Next]_vars PROVE TruthInv'
  OBVIOUS
<1>1. SolverInv /\ SolverInv' /\ Truthful(attacker, nodes)
  BY SolverStep DEF TruthInv
<1>2. attacker \in Stones /\ attacker' = attacker
  <2>1. attacker' = attacker
    BY DEF Next, Step, Solve, Interrupt, Resume, Return, Select, Adopt, Immediate, Tactical, StartWidening,
           AddChild, EndWidening, Propagate, Decide, Keep, solver, vars
  <2> QED
    BY <2>1, <1>1 DEF SolverInv, Types
<1>3. Shaped(nodes) /\ Shaped(nodes') /\ \A k \in 1..Len(nodes') : Judged(attacker, nodes', k)
  BY <1>1, <1>2 DEF SolverInv, Tree
<1> SUFFICES Truthful(attacker, nodes')
  BY <1>1, <1>2 DEF TruthInv
<1>4. CASE UNCHANGED nodes
  BY <1>1, <1>4
<1>5. CASE Adopt
  <2>1. PICK source \in Adoptable(nodes, exact, node) :
          nodes' = [nodes EXCEPT ![node] = Settled(@, nodes[source].outcome, CachedFrom(source))]
    BY <1>5 DEF Adopt, Keep
  <2>2. phase = "expand"
    BY <1>5 DEF Adopt
  <2>3. source \in SourcesOf(exact, nodes[node].position) /\ Tabled(nodes, exact)
    BY <1>1 DEF Adoptable, SolverInv, Tree
  <2>4. source \in 1..Len(nodes) /\ nodes[source].outcome # "Unknown"
    BY <2>3, SourceIs
  <2>5. source \in Nat /\ nodes[source].outcome \in {"ProvenWin", "Refuted"}
    <3>1. nodes[source] \in Node /\ source \in Nat
      BY <2>4, <1>3, ParentIs
    <3> QED
      BY <3>1, <2>4 DEF Node, Outcomes
  <2> DEFINE e == CachedFrom(source)
             out == nodes[source].outcome
             n == Settled(nodes[node], out, e)
  <2>6. e \in EvidenceKinds /\ e.kind = "Cached"
    BY <2>5, EvidenceIs
  <2>7. nodes' = Replaced(nodes, node, n) /\ out \in {"ProvenWin", "Refuted"}
    BY <2>1, <2>5 DEF Replaced
  <2> HIDE DEF e, out
  <2>8. /\ node \in 1..Len(nodes) /\ Len(nodes') = Len(nodes)
        /\ \A j \in 1..Len(nodes') : j # node => nodes'[j] = nodes[j]
        /\ nodes'[node].evidence = e
    BY <1>1, <2>2, <2>6, <2>7, SettledNode
  <2> QED
    BY <2>6, <2>8, <1>1, <1>2, <1>3, OneChanges
<1>6. CASE Immediate
  <2> DEFINE e == Evidence("Immediate")
             out == ImmediateFor(attacker, nodes[node].position)
             n == [Settled(nodes[node], out, e) EXCEPT !.tried = TRUE]
  <2>1. phase = "expand" /\ out # "Unknown" /\ nodes' = Replaced(nodes, node, n)
    BY <1>6 DEF Immediate, FirstVisit, ImmediateOutcome, Decide, Keep, Replaced
  <2>2. out \in {"ProvenWin", "Refuted"}
    BY <2>1, TerminalIs DEF Outcomes
  <2>3. e \in EvidenceKinds /\ e.kind = "Immediate"
    BY EvidenceIs DEF Kinds
  <2> HIDE DEF e, out
  <2>4. /\ node \in 1..Len(nodes) /\ Len(nodes') = Len(nodes)
        /\ \A j \in 1..Len(nodes') : j # node => nodes'[j] = nodes[j]
        /\ nodes'[node].evidence = e
    BY <1>1, <2>1, <2>2, <2>3, SettledNode
  <2> QED
    BY <2>3, <2>4, <1>1, <1>2, <1>3, OneChanges
<1>7. CASE Tactical
  <2> DEFINE e == [Evidence("Tactical") EXCEPT !.limits = limits]
             n == [Settled(nodes[node], "ProvenWin", e) EXCEPT !.tried = TRUE]
  <2>1. phase = "expand" /\ nodes' = Replaced(nodes, node, n)
    BY <1>7 DEF Tactical, FirstVisit, Decide, Keep, Replaced
  <2>2. limits \in Limits \cup {"none"}
    BY <1>1 DEF SolverInv, Types
  <2>3. e \in EvidenceKinds /\ e.kind # "Unknown"
    BY <2>2, EvidenceIs DEF Kinds
  <2> HIDE DEF e
  <2>4. /\ node \in 1..Len(nodes) /\ Len(nodes') = Len(nodes)
        /\ \A j \in 1..Len(nodes') : j # node => nodes'[j] = nodes[j]
        /\ nodes'[node].outcome = "ProvenWin" /\ nodes'[node].position = nodes[node].position
    BY <1>1, <2>1, <2>3, SettledNode
  <2>5. nodes[node].position \in Boards
    BY <2>4, <1>3, ParentIs DEF Node
  <2>6. Tactic(nodes[node].position, attacker) # {}
    BY <1>7 DEF Tactical, TacticFound, TacticalAttempt
  <2>7. nodes[node].position \in ForcedBy(attacker)
    BY <2>5, <2>6, <1>2 DEF TacticsSound
  <2> QED
    BY <2>4, <2>7, <1>1 DEF Truthful, TrueAs
<1>8. CASE StartWidening
  <2> DEFINE n == [nodes[node] EXCEPT !.tried = TRUE]
             ms == Replaced(nodes, node, n)
  <2>1. phase = "expand" /\ nodes' = ms
    BY <1>8 DEF StartWidening, Replaced
  <2>2. node \in 1..Len(nodes) /\ nodes[node] \in Node
    BY <2>1, <1>1, NodeIs
  <2>3. n \in Node /\ SamePlace(n, nodes[node]) /\ n.outcome = nodes[node].outcome
    BY <2>2 DEF Node, SamePlace
  <2> HIDE DEF n
  <2>4. Len(ms) = Len(nodes) /\ ms[node] = n /\ \A j \in 1..Len(nodes) : j # node => ms[j] = nodes[j]
    BY <2>2, <2>3, <1>3, ShapeStays DEF SamePlace
  <2> HIDE DEF ms
  <2> QED
    BY <2>1, <2>3, <2>4, <1>1 DEF Truthful, TrueAs, SamePlace
<1>9. CASE AddChild
  <2> DEFINE n == NewChild
             ms == Grown(nodes, node, n)
             L == Len(nodes)
  <2>1. phase = "widen" /\ BatchGoesOn /\ nodes' = ms
    BY <1>9 DEF AddChild, Grown, NewChild
  <2>2. /\ n \in Node /\ NextChild(nodes, node, n)
        /\ n.evidence.kind \in {"Unknown", "Terminal", "Cached"}
    BY <2>1, <1>1, NewChildIs
  <2>3. node \in 1..L /\ nodes[node] \in Node /\ L \in Nat
    BY <2>1, <1>1, <1>3, NodeIs, ParentIs
  <2> HIDE DEF n
  <2>4. /\ Len(ms) = L + 1 /\ ms[L + 1] = n
        /\ \A j \in 1..L : j # node => ms[j] = nodes[j]
        /\ ms[node] = [nodes[node] EXCEPT !.next = @ + 1]
    BY <2>2, <2>3, <1>3, ShapeGrows
  <2> HIDE DEF ms
  <2>5. ms[node].outcome = nodes[node].outcome /\ ms[node].position = nodes[node].position
    BY <2>3, <2>4 DEF Node
  <2>6. L + 1 \in 1..Len(ms) /\ \A j \in 1..Len(ms) : j # L + 1 => j \in 1..L
    BY <2>3, <2>4
  <2> DEFINE k == L + 1
  <2>7. /\ k \in 1..Len(ms)
        /\ \A j \in 1..Len(ms) :
             j # k => j \in 1..Len(nodes) /\ ms[j].outcome = nodes[j].outcome /\ ms[j].position = nodes[j].position
        /\ ms[k].evidence.kind \in {"Unknown", "Terminal", "Immediate", "Cached"}
    BY <2>2, <2>4, <2>5, <2>6
  <2> HIDE DEF k
  <2> QED
    BY <2>1, <2>7, <1>1, <1>2, <1>3, OneChanges
<1>10. CASE Propagate
  <2> DEFINE r == RecomputedFor(attacker, nodes, node)
             ms == Replaced(nodes, node, r)
  <2>1. phase = "propagate" /\ nodes' = ms
    BY <1>10, RecomputedIsFor DEF Propagate, Keep, Replaced
  <2>2. /\ node \in 1..Len(nodes)
        /\ \A j \in 1..Len(nodes) : Agreed(nodes[j]) /\ JudgedAs(attacker, nodes, j, nodes[j])
    BY <2>1, <1>1 DEF SolverInv, OnPath, Tree, Judged, JudgedAs
  <2>3. /\ r \in Node /\ r.parent = nodes[node].parent /\ r.via = nodes[node].via
        /\ r.position = nodes[node].position /\ r.next = nodes[node].next
        /\ ~ByChildren(nodes[node]) => r = nodes[node]
        /\ ByChildren(nodes[node]) /\ r.outcome # "Unknown" =>
             Decided(attacker, nodes, node, r.outcome)
    BY <2>2, <1>3, RecomputedIs
  <2> HIDE DEF r
  <2>4. Len(ms) = Len(nodes) /\ ms[node] = r /\ \A j \in 1..Len(nodes) : j # node => ms[j] = nodes[j]
    BY <2>2, <2>3, <1>3, ShapeStays
  <2> HIDE DEF ms
  <2>5. TrueAs(attacker, r)
    <3>1. CASE ~ByChildren(nodes[node])
      BY <3>1, <2>2, <2>3, <1>1 DEF Truthful
    <3>2. CASE ByChildren(nodes[node]) /\ r.outcome # "Unknown"
      <4>1. TerminalFor(attacker, nodes[node].position) = "Unknown"
        BY <3>2, <2>2 DEF JudgedAs
      <4>2. r.outcome \in {"ProvenWin", "Refuted"} /\ Decided(attacker, nodes, node, r.outcome)
        BY <3>2, <2>3 DEF Node, Outcomes
      <4>3. r.outcome = "ProvenWin" <=> nodes[node].position \in ForcedBy(attacker)
        BY <4>1, <4>2, <2>2, <1>1, <1>2, <1>3, DecidedTrue
      <4> QED
        BY <4>3, <2>3 DEF TrueAs
    <3> QED
      BY <3>1, <3>2 DEF TrueAs
  <2> QED
    BY <2>1, <2>4, <2>5, <1>1 DEF Truthful
<1>11. CASE Resume
  <2>1. nodes' = nodes
    BY <1>1, <1>11, ResumeStep
  <2> QED
    BY <2>1, <1>4
<1> QED
  BY <1>4, <1>5, <1>6, <1>7, <1>8, <1>9, <1>10, <1>11
     DEF Next, Step, Solve, Interrupt, Return, Select, EndWidening, solver, vars

(* No limit, omitted move, reused result or resumed tree ever makes the    *)
(* solver call a position won or refuted that is not, if its tactics are    *)
(* sound: a node that is decided has the outcome that the rules and all     *)
(* legal replies give its position.                                        *)
THEOREM VerdictsAreTrue ==
  ASSUME TacticsSound PROVE Spec => []Truthful(attacker, nodes)
<1>1. Init => TruthInv
  BY TruthInit
<1>2. TruthInv /\ [Next]_vars => TruthInv'
  BY TruthStep
<1>3. TruthInv => Truthful(attacker, nodes)
  BY DEF TruthInv
<1> QED
  BY <1>1, <1>2, <1>3, PTL DEF Spec

-----------------------------------------------------------------------------
(* The game worked out from the full boards down. *)
AnyTurn == [cells : [Cells -> Stones \cup {Nothing}], side : Stones]
TurnOf(p) == [cells |-> p.cells, side |-> p.side]
Below(f, n) == IF n = 0 THEN {} ELSE f[n - 1]
LevelOver(fuller, n, stone) == fuller \cup {x \in Turns(n) : WinsFrom(fuller, stone, x)}
Levels(f, m, stone) == f = [n \in 0..m |-> LevelOver(Below(f, n), n, stone)]

(* The empty cells are no more than the cells. *)
LEMMA FreeIs ==
  ASSUME NEW cells
  PROVE  IsFiniteSet(Free(cells)) /\ Cardinality(Free(cells)) \in 0..Cardinality(Cells)
<1> DEFINE S == Free(cells)
<1>1. S \subseteq Cells /\ IsFiniteSet(Cells)
  BY DEF Free
<1> HIDE DEF S
<1>2. IsFiniteSet(S) /\ Cardinality(S) <= Cardinality(Cells)
  BY <1>1, FS_Subset
<1>3. Cardinality(S) \in Nat /\ Cardinality(Cells) \in Nat
  BY <1>1, <1>2, FS_CardinalityType
<1> QED
  BY <1>2, <1>3 DEF S

(* The levels can be worked out, one after the other. *)
LEMMA LevelsExist ==
  ASSUME NEW m \in Nat, NEW stone
  PROVE  \E f : Levels(f, m, stone)
<1> DEFINE Bad == {n \in Nat : ~ \E f : Levels(f, n, stone)}
<1>1. ASSUME Bad # {} PROVE FALSE
  <2>1. PICK n \in Bad : \A k \in Bad : n <= k
    <3>1. Bad \in SUBSET Nat
      OBVIOUS
    <3> HIDE DEF Bad
    <3> QED
      BY <1>1, <3>1, LeastNatural
  <2>2. n \in Nat /\ ~ \E f : Levels(f, n, stone)
    OBVIOUS
  <2>3. CASE n = 0
    <3> DEFINE f == [k \in 0..0 |-> LevelOver({}, k, stone)]
    <3>1. f = [k \in 0..0 |-> LevelOver(Below(f, k), k, stone)]
      <4>1. \A k \in 0..0 : Below(f, k) = {}
        BY DEF Below
      <4> HIDE DEF f
      <4>2. [k \in 0..0 |-> LevelOver(Below(f, k), k, stone)] = [k \in 0..0 |-> LevelOver({}, k, stone)]
        BY <4>1, Zenon
      <4> QED
        BY <4>2 DEF f
    <3> HIDE DEF f
    <3> QED
      BY <2>2, <2>3, <3>1 DEF Levels
  <2>4. CASE n # 0
    <3>1. n - 1 \in Nat /\ ~(n <= n - 1)
      BY <2>2, <2>4
    <3>2. PICK g : Levels(g, n - 1, stone)
      BY <2>1, <3>1
    <3> DEFINE f == [k \in 0..n |-> IF k = n THEN LevelOver(g[n - 1], k, stone) ELSE g[k]]
               h == [k \in 0..n |-> LevelOver(Below(f, k), k, stone)]
    <3>3. ASSUME NEW k \in 0..n PROVE f[k] = LevelOver(Below(f, k), k, stone)
      <4>1. CASE k = n
        <5>1. n - 1 \in 0..n /\ n - 1 # n
          BY <3>1
        <5>2. f[n - 1] = g[n - 1]
          BY <5>1
        <5>3. Below(f, k) = g[n - 1]
          BY <4>1, <2>4, <5>2 DEF Below
        <5>4. f[k] = LevelOver(g[n - 1], k, stone)
          BY <4>1
        <5> QED
          BY <5>3, <5>4
      <4>2. CASE k # n
        <5>1. k \in 0..(n - 1)
          BY <2>2, <4>2
        <5>2. g[k] = LevelOver(Below(g, k), k, stone)
          BY <3>2, <5>1 DEF Levels
        <5>3. Below(f, k) = Below(g, k)
          <6>1. CASE k = 0
            BY <6>1 DEF Below
          <6>2. CASE k # 0
            <7>1. k - 1 \in 0..n /\ k - 1 # n
              BY <5>1, <6>2, <2>2
            <7>2. f[k - 1] = g[k - 1]
              BY <7>1
            <7> QED
              BY <6>2, <7>2 DEF Below
          <6> QED
            BY <6>1, <6>2
        <5>4. f[k] = g[k]
          BY <4>2
        <5> QED
          BY <5>2, <5>3, <5>4
      <4> QED
        BY <4>1, <4>2
    <3>4. f = [k \in 0..n |-> f[k]]
      OBVIOUS
    <3> HIDE DEF f
    <3>5. f = h
      BY <3>3, <3>4, Zenon
    <3> QED
      BY <2>2, <3>5 DEF Levels, h
  <2> QED
    BY <2>3, <2>4
<1> QED
  BY <1>1

(* ForcedWins is the last level. *)
LEMMA ForcedWinsIs ==
  ASSUME NEW stone \in Stones
  PROVE  \E f : Levels(f, Cardinality(Cells), stone) /\ ForcedWins[stone] = f[Cardinality(Cells)]
<1> DEFINE N == Cardinality(Cells)
           H(f) == [n \in 0..N |-> LevelOver(Below(f, n), n, stone)]
           u == CHOOSE f : f = H(f)
<1>1. N \in Nat
  BY FS_CardinalityType
<1>2. \E f : f = H(f)
  BY <1>1, LevelsExist DEF Levels
<1>3. u = H(u)
  <2> HIDE DEF H
  <2> QED
    BY <1>2, Zenon
<1>4. ForcedWins[stone] = u[N]
  BY DEF ForcedWins, LevelOver, Below
<1> HIDE DEF u
<1>5. Levels(u, N, stone)
  BY <1>3 DEF Levels
<1> QED
  BY <1>4, <1>5

(* A level has who wins on the boards of at most so many empty cells. *)
LEMMA LevelsAre ==
  ASSUME NEW m \in Nat, NEW stone, NEW f, Levels(f, m, stone), NEW k \in 0..m, NEW x \in AnyTurn
  PROVE  LET n == Cardinality(Free(x.cells))
         IN x \in f[k] <=> n <= k /\ WinsFrom(Below(f, n), stone, x)
<1> DEFINE n == Cardinality(Free(x.cells))
           Good(j) == x \in f[j] <=> n <= j /\ WinsFrom(Below(f, n), stone, x)
           Bad == {j \in Nat : j \in 0..m /\ ~Good(j)}
<1>1. n \in Nat
  BY FreeIs, FS_CardinalityType
<1>2. \A j \in 0..m : f[j] = LevelOver(Below(f, j), j, stone)
  BY DEF Levels
<1>3. \A j : x \in Turns(j) <=> j = n
  BY DEF Turns, AnyTurn
<1> HIDE DEF n
<1>4. ASSUME Bad # {} PROVE FALSE
  <2>1. PICK j \in Bad : \A i \in Bad : j <= i
    <3>1. Bad \in SUBSET Nat
      OBVIOUS
    <3> HIDE DEF Bad
    <3> QED
      BY <1>4, <3>1, LeastNatural
  <2>2. j \in Nat /\ j \in 0..m /\ ~Good(j)
    OBVIOUS
  <2>3. x \in f[j] <=> x \in Below(f, j) \/ (j = n /\ WinsFrom(Below(f, j), stone, x))
    BY <1>2, <1>3, <2>2 DEF LevelOver
  <2>4. x \in Below(f, j) <=> n <= j - 1 /\ WinsFrom(Below(f, n), stone, x)
    <3>1. CASE j = 0
      BY <1>1, <3>1 DEF Below
    <3>2. CASE j # 0
      <4>1. j - 1 \in Nat /\ j - 1 \in 0..m /\ ~(j <= j - 1)
        BY <2>2, <3>2
      <4>2. Good(j - 1)
        BY <2>1, <4>1
      <4> QED
        BY <3>2, <4>2 DEF Below
    <3> QED
      BY <3>1, <3>2
  <2>5. CASE n = j
    <3>1. ~(n <= j - 1)
      BY <2>2, <2>5
    <3> QED
      BY <1>1, <2>2, <2>3, <2>4, <2>5, <3>1
  <2>6. CASE n # j
    <3>1. n <= j - 1 <=> n <= j
      BY <1>1, <2>2, <2>6
    <3> QED
      BY <2>2, <2>3, <2>4, <2>6, <3>1
  <2> QED
    BY <2>5, <2>6
<1>5. Good(k)
  BY <1>4
<1> QED
  BY <1>5 DEF n

(* A move, on the board alone. *)
LEMMA AfterIs ==
  ASSUME NEW p \in Boards, ~Over(p), NEW c \in Free(p.cells)
  PROVE  /\ c \in Empties(p) /\ MakeMove(p, c) \in Boards /\ TurnOf(MakeMove(p, c)) = After(TurnOf(p), c)
         /\ Cardinality(Free(MakeMove(p, c).cells)) = Cardinality(Free(p.cells)) - 1
<1> DEFINE q == MakeMove(p, c)
<1>1. c \in Cells /\ p.cells[c] = Nothing /\ p.winner = Nothing
  BY DEF Free, Over
<1>2. c \in Empties(p)
  BY <1>1, EmptiesAre
<1>3. q \in Boards
  BY <1>2, OngoingIs
<1>4. q.cells = [p.cells EXCEPT ![c] = p.side] /\ q.side = Opponent(p.side)
  BY DEF MakeMove
<1>5. TurnOf(q) = After(TurnOf(p), c)
  BY <1>4 DEF TurnOf, After
<1>6. p.cells \in [Cells -> Stones \cup {Nothing}] /\ p.side # Nothing
  BY BoardIs
<1>7. Free(q.cells) = Free(p.cells) \ {c}
  BY <1>1, <1>4, <1>6 DEF Free
<1> DEFINE S == Free(p.cells)
<1>8. IsFiniteSet(S) /\ c \in S
  BY FreeIs
<1> HIDE DEF q, S
<1>9. Cardinality(S \ {c}) = Cardinality(S) - 1
  BY <1>8, FS_RemoveElement
<1> QED
  BY <1>2, <1>3, <1>5, <1>7, <1>9 DEF q, S

(* A board of the game, with what its facts say. *)
LEMMA TurnIs ==
  ASSUME NEW p \in Boards
  PROVE  /\ TurnOf(p) \in AnyTurn /\ TurnOf(p).cells = p.cells /\ TurnOf(p).side = p.side
         /\ \A stone \in Stones : FiveOn(p.cells, stone) <=> p.winner = stone
         /\ IsFull(p) <=> Free(p.cells) = {}
         /\ ~Over(p) => Empties(p) = Free(p.cells)
<1>1. p.cells \in [Cells -> Stones \cup {Nothing}] /\ p.side \in Stones
  BY BoardIs
<1>2. \A stone \in Stones : FiveOn(p.cells, stone) <=> p.winner = stone
  BY BoardIs DEF InRow, FiveOn
<1>3. IsFull(p) <=> Free(p.cells) = {}
  BY BoardIs DEF Free
<1>4. ASSUME ~Over(p) PROVE Empties(p) = Free(p.cells)
  <2>1. \A c \in Cells : c \in Empties(p) <=> c \in Free(p.cells)
    BY <1>4, EmptiesAre DEF Over, Free
  <2> QED
    BY <2>1 DEF Empties, Free
<1> QED
  BY <1>1, <1>2, <1>3, <1>4 DEF TurnOf, AnyTurn

(* Working the game out finds the positions a stone forces a win from. *)
LEMMA WorkedOut ==
  ASSUME NEW stone \in Stones, NEW p \in Boards
  PROVE  TurnOf(p) \in ForcedWins[stone] <=> p \in ForcedBy(stone)
<1> DEFINE N == Cardinality(Cells)  F == ForcedBy(stone)
           FreeOf(q) == Cardinality(Free(q.cells))
<1>1. N \in Nat
  BY FS_CardinalityType
<1>2. PICK f : Levels(f, N, stone) /\ ForcedWins[stone] = f[N]
  BY ForcedWinsIs
<1> DEFINE Good(n) == \A q \in Boards : FreeOf(q) = n => (TurnOf(q) \in f[n] <=> q \in F)
           Bad == {n \in Nat : n \in 0..N /\ ~Good(n)}
<1>3. ASSUME NEW q \in Boards, NEW k \in 0..N
      PROVE  TurnOf(q) \in f[k] <=> FreeOf(q) <= k /\ WinsFrom(Below(f, FreeOf(q)), stone, TurnOf(q))
  <2>1. TurnOf(q) \in AnyTurn /\ TurnOf(q).cells = q.cells
    BY TurnIs
  <2> DEFINE x == TurnOf(q)
  <2> HIDE DEF x
  <2>2. LET n == Cardinality(Free(x.cells)) IN x \in f[k] <=> n <= k /\ WinsFrom(Below(f, n), stone, x)
    BY <1>1, <1>2, <2>1, LevelsAre DEF x
  <2> QED
    BY <2>1, <2>2 DEF x
<1>4. ASSUME NEW q \in Boards
      PROVE  FreeOf(q) \in Nat /\ FreeOf(q) \in 0..N /\ FreeOf(q) <= N
  BY <1>1, FreeIs
<1>5. ASSUME Bad # {} PROVE FALSE
  <2>1. PICK n \in Bad : \A k \in Bad : n <= k
    <3>1. Bad \in SUBSET Nat
      OBVIOUS
    <3> HIDE DEF Bad
    <3> QED
      BY <1>5, <3>1, LeastNatural
  <2>2. n \in Nat /\ n \in 0..N /\ ~Good(n)
    OBVIOUS
  <2>3. ASSUME NEW q \in Boards, FreeOf(q) = n PROVE TurnOf(q) \in f[n] <=> q \in F
    <3> DEFINE x == TurnOf(q)
    <3>1. x.cells = q.cells /\ x.side = q.side
          /\ (\A s \in Stones : FiveOn(q.cells, s) <=> q.winner = s)
          /\ (IsFull(q) <=> Free(q.cells) = {})
          /\ (~Over(q) => Empties(q) = Free(q.cells))
      BY TurnIs
    <3>2. x \in f[n] <=> WinsFrom(Below(f, n), stone, x)
      BY <1>3, <2>2, <2>3
    <3>3. q \in F <=> WonIn(F, stone, q)
      BY ForcedIs
    <3>4. Opponent(stone) \in Stones /\ Opponent(stone) # stone /\ Opponent(stone) # Nothing
      BY StonesAre
    <3>5. CASE Over(q)
      <4>1. WonIn(F, stone, q) <=> q.winner = stone
        BY <3>5 DEF WonIn
      <4>2. WinsFrom(Below(f, n), stone, x) <=> q.winner = stone
        <5>1. q.winner = Nothing => Free(q.cells) = {}
          BY <3>1, <3>5 DEF Over
        <5>2. q.winner \in Stones \cup {Nothing}
          BY BoardIs
        <5>3. q.winner = stone \/ q.winner = Opponent(stone) \/ q.winner = Nothing
          BY <5>2, StonesAre
        <5> HIDE DEF x
        <5> QED
          BY <3>1, <3>4, <5>1, <5>3 DEF WinsFrom
      <4> QED
        BY <3>2, <3>3, <4>1, <4>2
    <3>6. CASE ~Over(q)
      <4>1. q.winner = Nothing /\ Free(q.cells) # {} /\ Empties(q) = Free(q.cells)
        BY <3>1, <3>6 DEF Over
      <4>2. stone # Nothing
        BY StonesAre
      <4>3. ASSUME NEW c \in Free(q.cells)
            PROVE  After(x, c) \in Below(f, n) <=> MakeMove(q, c) \in F
        <5> DEFINE r == MakeMove(q, c)
        <5>1. r \in Boards /\ TurnOf(r) = After(x, c) /\ FreeOf(r) = FreeOf(q) - 1
          BY <3>6, AfterIs
        <5>2. FreeOf(r) \in Nat /\ FreeOf(r) \in 0..N
          BY <1>4, <5>1
        <5> HIDE DEF r, x
        <5>3. n # 0 /\ n - 1 \in Nat /\ n - 1 \in 0..N /\ ~(n <= n - 1) /\ FreeOf(r) = n - 1
          BY <2>2, <2>3, <5>1, <5>2
        <5>4. Good(n - 1)
          BY <2>1, <5>3
        <5>5. TurnOf(r) \in f[n - 1] <=> r \in F
          BY <5>1, <5>3, <5>4
        <5> QED
          BY <5>1, <5>3, <5>5 DEF Below, r
      <4>4. WonIn(F, stone, q) <=> IF q.side = stone THEN \E c \in Free(q.cells) : MakeMove(q, c) \in F
                                   ELSE \A c \in Free(q.cells) : MakeMove(q, c) \in F
        BY <3>6, <4>1, <4>2 DEF WonIn
      <4>5. WinsFrom(Below(f, n), stone, x)
              <=> IF q.side = stone THEN \E c \in Free(q.cells) : After(x, c) \in Below(f, n)
                  ELSE \A c \in Free(q.cells) : After(x, c) \in Below(f, n)
        <5> HIDE DEF x
        <5>1. ~FiveOn(q.cells, stone) /\ ~FiveOn(q.cells, Opponent(stone))
          BY <3>1, <3>4, <4>1, <4>2
        <5> QED
          BY <3>1, <4>1, <5>1 DEF WinsFrom
      <4>6. WonIn(F, stone, q) <=> WinsFrom(Below(f, n), stone, x)
        <5> HIDE DEF F, x
        <5>1. CASE q.side = stone
          BY <4>3, <4>4, <4>5, <5>1
        <5>2. CASE q.side # stone
          BY <4>3, <4>4, <4>5, <5>2
        <5> QED
          BY <5>1, <5>2
      <4> QED
        BY ONLY <3>2, <3>3, <4>6
    <3> QED
      BY <3>5, <3>6
  <2> QED
    BY <2>2, <2>3
<1> DEFINE n == FreeOf(p)
<1>6. n \in Nat /\ n \in 0..N /\ n <= N /\ N \in 0..N
  BY <1>1, <1>4
<1>7. TurnOf(p) \in f[n] <=> p \in F
  BY <1>5, <1>6
<1> HIDE DEF n, F
<1>8. TurnOf(p) \in f[N] <=> TurnOf(p) \in f[n]
  <2>1. n <= n
    BY <1>6
  <2> QED
    BY <1>3, <1>6, <2>1 DEF n
<1> QED
  BY <1>2, <1>7, <1>8 DEF F

(* No limit, omitted move, reused result or resumed tree ever makes the    *)
(* solver call a position won or refuted that is not, if its tactics are    *)
(* sound: a node that is decided has the outcome that working out the whole *)
(* game gives its position.                                                *)
THEOREM OutcomesTrue ==
  ASSUME TacticsSound PROVE Spec => []OutcomesAreTrue
<1>1. TruthInv => OutcomesAreTrue
  <2> SUFFICES ASSUME TruthInv, NEW k \in DOMAIN nodes, nodes[k].outcome # "Unknown"
               PROVE  (nodes[k].outcome = "ProvenWin") = (TurnOf(nodes[k].position) \in ForcedWins[attacker])
    BY DEF OutcomesAreTrue, TurnOf
  <2>1. Shaped(nodes) /\ Truthful(attacker, nodes) /\ attacker \in Stones
    BY DEF TruthInv, SolverInv, Tree, Types
  <2>2. k \in 1..Len(nodes) /\ nodes[k].position \in Boards
    BY <2>1, ShapedIs DEF Shaped, Node
  <2>3. nodes[k].outcome = "ProvenWin" <=> nodes[k].position \in ForcedBy(attacker)
    BY <2>1, <2>2 DEF Truthful, TrueAs
  <2> QED
    BY <2>1, <2>2, <2>3, WorkedOut
<1>2. Spec => []TruthInv
  <2>1. Init => TruthInv
    BY TruthInit
  <2>2. TruthInv /\ [Next]_vars => TruthInv'
    BY TruthStep
  <2> QED
    BY <2>1, <2>2, PTL DEF Spec
<1> QED
  BY <1>1, <1>2, PTL
=============================================================================
