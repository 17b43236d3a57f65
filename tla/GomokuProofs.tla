---------------------------- MODULE GomokuProofs ----------------------------
(***************************************************************************)
(* Facts about games, for every board, every set of winning lines and      *)
(* every length of play.                                                   *)
(*                                                                         *)
(* The argument.  A game is a cursor on a line of play (IsLine): GameAt    *)
(* says what the position, the status, the history and the future of the   *)
(* game are once its first n moves are made, without any recursion.  Each  *)
(* operation of a game moves the cursor (UndoIs, RedoIs, UndoPliesIs,      *)
(* RedoPliesIs) or cuts the line behind it and extends it (CutIs, PlayIs), *)
(* and a record that replays is the end of such a line (RecordIs).         *)
(* A recursion is followed along its line by the least number it could     *)
(* fail at (LeastNatural): there is none.                                  *)
(***************************************************************************)
EXTENDS Gomoku, FiniteSetTheorems, SequenceTheorems, TLAPS

USE BoardAssumption, NothingAssumption

Stone(i) == IF i % 2 = 1 THEN "Black" ELSE "White"

(* The cells of one stone after the first n moves of a line of play. *)
HeldBy(line, n, stone) == {line[i] : i \in {j \in 1..n : Stone(j) = stone}}

CellsAt(line, n) ==
  [c \in Cells |-> IF c \in HeldBy(line, n, "Black") THEN "Black"
                   ELSE IF c \in HeldBy(line, n, "White") THEN "White" ELSE Nothing]

LastAt(line, n) == IF n = 0 THEN Nothing ELSE line[n]

WinnerAt(line, n) ==
  IF n # 0 /\ HasFiveFrom(CellsAt(line, n), line[n], Stone(n)) THEN Stone(n) ELSE Nothing

StatusAt(line, n) ==
  IF WinnerAt(line, n) # Nothing THEN WinnerAt(line, n)
  ELSE IF n = Cardinality(Cells) THEN "Draw" ELSE "Ongoing"

PositionAt(line, n) ==
  [cells |-> CellsAt(line, n), side |-> Stone(n + 1), count |-> n,
   last |-> LastAt(line, n), winner |-> WinnerAt(line, n)]

UndoAt(line, i) ==
  [played |-> line[i], stone |-> Stone(i), last |-> LastAt(line, i - 1),
   winner |-> WinnerAt(line, i - 1)]

HistoryAt(line, n) == [i \in 1..n |-> [at |-> line[i], undo |-> UndoAt(line, i)]]

FutureAt(line, n) == [j \in 1..Len(line) - n |-> line[Len(line) + 1 - j]]

GameAt(line, n) ==
  [position |-> PositionAt(line, n), status |-> StatusAt(line, n),
   history |-> HistoryAt(line, n), future |-> FutureAt(line, n)]

(* A line of play takes no cell twice and goes on only while nobody has won. *)
IsLine(line) ==
  /\ line \in Seq(Cells)
  /\ \A i, j \in 1..Len(line) : line[i] = line[j] => i = j
  /\ \A k \in 0..Len(line) - 1 : WinnerAt(line, k) = Nothing

-----------------------------------------------------------------------------
(* A set of naturals has a least element. *)
LEMMA LeastNatural ==
  ASSUME NEW T \in SUBSET Nat, T # {}
  PROVE  \E n \in T : \A m \in T : n <= m
<1>1. PICK n \in T : \A m \in T : <<m, n>> \notin OpToRel(<, Nat)
  BY WFMin, NatLessThanWellFounded, Zenon
<1>2. \A m \in T : ~ (m < n)
  BY <1>1, Zenon DEF OpToRel
<1> QED
  BY <1>2

(* The stones take turns. *)
LEMMA StoneFacts ==
  ASSUME NEW i \in Int
  PROVE  /\ Stone(i) \in Stones /\ Stone(i) # Nothing
         /\ Stone(i + 1) = Opponent(Stone(i)) /\ Stone(i + 1) # Stone(i)
<1>1. (i % 2 = 1 /\ (i + 1) % 2 = 0) \/ (i % 2 = 0 /\ (i + 1) % 2 = 1)
  OBVIOUS
<1>2. Stone(i) \in Stones /\ Stone(i + 1) = Opponent(Stone(i)) /\ Stone(i + 1) # Stone(i)
  BY <1>1 DEF Stone, Stones, Opponent
<1> QED
  BY <1>2

(* The cells after some moves of a line: the stones of the moves, and no others. *)
LEMMA CellFacts ==
  ASSUME NEW line \in Seq(Cells), \A i, j \in 1..Len(line) : line[i] = line[j] => i = j,
         NEW n \in 0..Len(line)
  PROVE  /\ \A i \in 1..n : line[i] \in Cells /\ CellsAt(line, n)[line[i]] = Stone(i)
         /\ \A c \in Cells : (\A i \in 1..n : line[i] # c) => CellsAt(line, n)[c] = Nothing
         /\ \A c \in Cells : CellsAt(line, n)[c] # Nothing => \E i \in 1..n : line[i] = c
         /\ CellsAt(line, n) \in [Cells -> Stones \cup {Nothing}]
<1>1. \A i \in 1..n : i \in 1..Len(line) /\ line[i] \in Cells
  BY LenProperties
<1>2. ASSUME NEW i \in 1..n PROVE CellsAt(line, n)[line[i]] = Stone(i)
  <2>1. line[i] \in HeldBy(line, n, Stone(i))
    BY DEF HeldBy
  <2>2. ASSUME NEW stone \in Stones, line[i] \in HeldBy(line, n, stone) PROVE stone = Stone(i)
    <3>1. PICK j \in 1..n : Stone(j) = stone /\ line[j] = line[i]
      BY <2>2 DEF HeldBy
    <3>2. j = i
      BY <1>1, <3>1
    <3> QED
      BY <3>1, <3>2
  <2>3. Stone(i) \in Stones
    BY StoneFacts
  <2> QED
    BY <1>1, <2>1, <2>2, <2>3 DEF CellsAt, Stones
<1>3. ASSUME NEW c \in Cells, \A i \in 1..n : line[i] # c PROVE CellsAt(line, n)[c] = Nothing
  BY <1>3 DEF CellsAt, HeldBy
<1>4. CellsAt(line, n) \in [Cells -> Stones \cup {Nothing}]
  BY DEF CellsAt, Stones
<1> QED
  BY <1>1, <1>2, <1>3, <1>4

(* One more move of a line. *)
LEMMA NextCells ==
  ASSUME NEW line \in Seq(Cells), \A i, j \in 1..Len(line) : line[i] = line[j] => i = j,
         NEW n \in 0..Len(line) - 1
  PROVE  /\ CellsAt(line, n + 1) = [CellsAt(line, n) EXCEPT ![line[n + 1]] = Stone(n + 1)]
         /\ CellsAt(line, n) = [CellsAt(line, n + 1) EXCEPT ![line[n + 1]] = Nothing]
         /\ CellsAt(line, n)[line[n + 1]] = Nothing
         /\ line[n + 1] \in Cells
<1> DEFINE d == line[n + 1]
<1>1. n \in 0..Len(line) /\ n + 1 \in 0..Len(line) /\ n + 1 \in 1..n + 1 /\ n \in Nat /\ Len(line) \in Nat
  BY LenProperties
<1>2. /\ \A i \in 1..n : line[i] \in Cells /\ CellsAt(line, n)[line[i]] = Stone(i)
      /\ \A c \in Cells : (\A i \in 1..n : line[i] # c) => CellsAt(line, n)[c] = Nothing
      /\ CellsAt(line, n) \in [Cells -> Stones \cup {Nothing}]
  BY <1>1, CellFacts
<1>3. /\ \A i \in 1..n + 1 : line[i] \in Cells /\ CellsAt(line, n + 1)[line[i]] = Stone(i)
      /\ \A c \in Cells : (\A i \in 1..n + 1 : line[i] # c) => CellsAt(line, n + 1)[c] = Nothing
      /\ CellsAt(line, n + 1) \in [Cells -> Stones \cup {Nothing}]
  BY <1>1, CellFacts
<1>4. \A i \in 1..n : i \in 1..Len(line) /\ i \in 1..n + 1 /\ i # n + 1 /\ n + 1 \in 1..Len(line)
  BY <1>1
<1>5. n + 1 \in 1..Len(line)
  BY <1>1
<1>6. \A i \in 1..n : line[i] # d
  BY <1>4
<1>7. CellsAt(line, n)[d] = Nothing /\ CellsAt(line, n + 1)[d] = Stone(n + 1) /\ d \in Cells
  BY <1>1, <1>2, <1>3, <1>6
<1>8. ASSUME NEW c \in Cells, c # d PROVE CellsAt(line, n + 1)[c] = CellsAt(line, n)[c]
  <2>1. CASE \E i \in 1..n : line[i] = c
    BY <1>2, <1>3, <1>4, <2>1
  <2>2. CASE \A i \in 1..n : line[i] # c
    <3>1. \A i \in 1..n + 1 : i \in 1..n \/ i = n + 1
      BY <1>1
    <3>2. \A i \in 1..n + 1 : line[i] # c
      BY <1>8, <2>2, <3>1
    <3> QED
      BY <1>2, <1>3, <2>2, <3>2
  <2> QED
    BY <2>1, <2>2
<1>9. CellsAt(line, n + 1) = [CellsAt(line, n) EXCEPT ![d] = Stone(n + 1)]
  <2> HIDE DEF d
  <2> QED
    BY <1>2, <1>3, <1>7, <1>8
<1>10. CellsAt(line, n) = [CellsAt(line, n + 1) EXCEPT ![d] = Nothing]
  <2> HIDE DEF d
  <2> QED
    BY <1>2, <1>3, <1>7, <1>8
<1> QED
  BY <1>7, <1>9, <1>10

(* What a line says of its first n moves depends on them alone. *)
LEMMA SamePrefix ==
  ASSUME NEW line \in Seq(Cells), NEW other \in Seq(Cells), NEW n \in Nat,
         n <= Len(line), n <= Len(other), \A i \in 1..n : line[i] = other[i]
  PROVE  \A k \in 0..n :
           /\ CellsAt(line, k) = CellsAt(other, k) /\ LastAt(line, k) = LastAt(other, k)
           /\ WinnerAt(line, k) = WinnerAt(other, k) /\ StatusAt(line, k) = StatusAt(other, k)
           /\ PositionAt(line, k) = PositionAt(other, k) /\ HistoryAt(line, k) = HistoryAt(other, k)
<1>1. ASSUME NEW k \in 0..n
      PROVE  /\ CellsAt(line, k) = CellsAt(other, k) /\ LastAt(line, k) = LastAt(other, k)
             /\ WinnerAt(line, k) = WinnerAt(other, k)
  <2>1. \A j \in 1..k : j \in 1..n /\ line[j] = other[j]
    OBVIOUS
  <2>2. \A stone : HeldBy(line, k, stone) = HeldBy(other, k, stone)
    BY <2>1 DEF HeldBy
  <2>3. CellsAt(line, k) = CellsAt(other, k)
    BY <2>2 DEF CellsAt
  <2>4. k # 0 => line[k] = other[k]
    BY <2>1
  <2> QED
    BY <2>3, <2>4 DEF LastAt, WinnerAt
<1>2. ASSUME NEW k \in 0..n PROVE HistoryAt(line, k) = HistoryAt(other, k)
  <2>1. ASSUME NEW i \in 1..k PROVE line[i] = other[i] /\ UndoAt(line, i) = UndoAt(other, i)
    <3>1. i \in 1..n /\ i - 1 \in 0..n
      OBVIOUS
    <3> QED
      BY <1>1, <3>1 DEF UndoAt
  <2> QED
    BY <2>1 DEF HistoryAt
<1> QED
  BY <1>1, <1>2 DEF StatusAt, PositionAt

-----------------------------------------------------------------------------
(* No line of play is longer than the board. *)
LEMMA LineFits ==
  ASSUME NEW line, IsLine(line)
  PROVE  /\ Len(line) \in Nat /\ Cardinality(Cells) \in Nat /\ Cardinality(Cells) # 0
         /\ Len(line) <= Cardinality(Cells)
<1>1. line \in Seq(Cells) /\ Len(line) \in Nat /\ line \in [1..Len(line) -> Cells]
  BY LenProperties DEF IsLine
<1>2. line \in Injection(1..Len(line), Cells)
  BY <1>1 DEF IsLine, Injection, IsInjective
<1>3. Cardinality(1..Len(line)) <= Cardinality(Cells)
  BY <1>2, FS_Injection
<1>4. Cardinality(1..Len(line)) = Len(line)
  BY <1>1, FS_Interval
<1>5. Cardinality(Cells) \in Nat /\ Cardinality(Cells) # 0
  BY FS_CardinalityType, FS_EmptySet
<1> QED
  BY <1>1, <1>3, <1>4, <1>5

(* Before its end a line is an ongoing game with room for its next move. *)
LEMMA StillOpen ==
  ASSUME NEW line, IsLine(line), NEW n \in 0..Len(line) - 1
  PROVE  /\ StatusAt(line, n) = "Ongoing" /\ WinnerAt(line, n) = Nothing
         /\ Playable(GameAt(line, n), line[n + 1]) /\ line[n + 1] \in Cells
<1>1. n # Cardinality(Cells) /\ WinnerAt(line, n) = Nothing
  BY LineFits DEF IsLine
<1>2. CellsAt(line, n)[line[n + 1]] = Nothing /\ line[n + 1] \in Cells
  BY NextCells DEF IsLine
<1> QED
  BY <1>1, <1>2 DEF StatusAt, Playable, GameAt, PositionAt, Legal, IsFull

(* Making a move on the position of a line is the position of the line one *)
(* move later, and so are its status and its history.                      *)
LEMMA MakeMoveIs ==
  ASSUME NEW line, IsLine(line), NEW n \in 0..Len(line) - 1
  PROVE  /\ MakeMove(PositionAt(line, n), line[n + 1]) = PositionAt(line, n + 1)
         /\ StatusAfter(PositionAt(line, n), PositionAt(line, n + 1)) = StatusAt(line, n + 1)
         /\ Token(PositionAt(line, n), line[n + 1]) = UndoAt(line, n + 1)
<1>1. CellsAt(line, n + 1) = [CellsAt(line, n) EXCEPT ![line[n + 1]] = Stone(n + 1)]
  BY NextCells DEF IsLine
<1>2. n \in Nat /\ n + 1 # 0 /\ n + 1 - 1 = n
  OBVIOUS
<1>3. Stone(n + 1) # Nothing /\ Stone((n + 1) + 1) = Opponent(Stone(n + 1))
  BY <1>2, StoneFacts
<1>4. MakeMove(PositionAt(line, n), line[n + 1]) = PositionAt(line, n + 1)
  BY <1>1, <1>2, <1>3 DEF MakeMove, PositionAt, WinnerAt, LastAt
<1>5. StatusAfter(PositionAt(line, n), PositionAt(line, n + 1)) = StatusAt(line, n + 1)
  BY <1>2, <1>3 DEF StatusAfter, PositionAt, StatusAt, WinnerAt, IsFull
<1>6. Token(PositionAt(line, n), line[n + 1]) = UndoAt(line, n + 1)
  BY <1>2 DEF Token, PositionAt, UndoAt
<1> QED
  BY <1>4, <1>5, <1>6

(* Append, and taking the last element off again, of a sequence one longer. *)
LEMMA AppendIs ==
  ASSUME NEW S, NEW s \in Seq(S), NEW t \in Seq(S), NEW e \in S, Len(t) = Len(s) + 1,
         \A i \in 1..Len(s) : t[i] = s[i], t[Len(s) + 1] = e
  PROVE  Append(s, e) = t /\ Popped(t) = s /\ Top(t) = e
<1>1. Len(s) \in Nat
  BY LenProperties
<1>2. /\ Append(s, e) \in Seq(S) /\ Len(Append(s, e)) = Len(s) + 1
      /\ \A i \in 1..Len(s) : Append(s, e)[i] = s[i]
      /\ Append(s, e)[Len(s) + 1] = e
  BY AppendProperties
<1>3. \A i \in 1..Len(t) : i \in 1..Len(s) \/ i = Len(s) + 1
  BY <1>1
<1>4. Append(s, e) = t
  <2>1. \A i \in 1..Len(t) : Append(s, e)[i] = t[i]
    BY <1>2, <1>3
  <2> QED
    BY <1>2, <2>1, SeqEqual
<1>5. Popped(t) = s
  <2>1. \A i \in 1..Len(s) : t[i] \in S
    BY <1>1, ElementOfSeq
  <2>2. /\ SubSeq(t, 1, Len(s)) \in Seq(S)
        /\ Len(SubSeq(t, 1, Len(s))) = Len(s)
        /\ \A i \in 1..Len(s) : SubSeq(t, 1, Len(s))[i] = t[i]
    BY <1>1, <2>1, SubSeqProperties
  <2>3. Len(t) - 1 = Len(s)
    BY <1>1
  <2>4. SubSeq(t, 1, Len(s)) = s
    BY <2>2, SeqEqual
  <2> QED
    BY <2>3, <2>4 DEF Popped
<1> QED
  BY <1>4, <1>5 DEF Top

Entered(line) == {[at |-> line[i], undo |-> UndoAt(line, i)] : i \in 1..Len(line)}

(* The history and the future of a game on a line, element by element. *)
LEMMA HistoryIs ==
  ASSUME NEW line \in Seq(Cells), NEW n \in 0..Len(line)
  PROVE  /\ HistoryAt(line, n) \in Seq(Entered(line))
         /\ Len(HistoryAt(line, n)) = n /\ DOMAIN HistoryAt(line, n) = 1..n
         /\ \A i \in 1..n : HistoryAt(line, n)[i] = [at |-> line[i], undo |-> UndoAt(line, i)]
         /\ FutureAt(line, n) \in Seq(Cells)
         /\ Len(FutureAt(line, n)) = Len(line) - n
         /\ \A j \in 1..Len(line) - n : FutureAt(line, n)[j] = line[Len(line) + 1 - j]
<1>1. n \in Nat /\ Len(line) - n \in Nat /\ Len(line) \in Nat
  BY LenProperties
<1>2. ASSUME NEW i \in 1..n PROVE [at |-> line[i], undo |-> UndoAt(line, i)] \in Entered(line)
  BY <1>1 DEF Entered
<1>3. HistoryAt(line, n) \in [1..n -> Entered(line)]
  BY <1>2 DEF HistoryAt
<1>4. ASSUME NEW j \in 1..Len(line) - n PROVE line[Len(line) + 1 - j] \in Cells
  <2>1. Len(line) + 1 - j \in 1..Len(line)
    BY <1>1
  <2> QED
    BY <2>1, ElementOfSeq
<1>5. FutureAt(line, n) \in [1..Len(line) - n -> Cells]
  BY <1>4 DEF FutureAt
<1>6. HistoryAt(line, n) \in Seq(Entered(line)) /\ FutureAt(line, n) \in Seq(Cells)
  BY <1>1, <1>3, <1>5, SeqDef
<1>7. Len(HistoryAt(line, n)) = n /\ Len(FutureAt(line, n)) = Len(line) - n
  BY <1>1, <1>3, <1>5, <1>6, LenProperties
<1> QED
  BY <1>3, <1>6, <1>7 DEF HistoryAt, FutureAt

(* One move later, the history is one longer and the future one shorter. *)
LEMMA HistoryGrows ==
  ASSUME NEW line \in Seq(Cells), NEW n \in 0..Len(line) - 1
  PROVE  /\ Append(HistoryAt(line, n), [at |-> line[n + 1], undo |-> UndoAt(line, n + 1)])
              = HistoryAt(line, n + 1)
         /\ Popped(HistoryAt(line, n + 1)) = HistoryAt(line, n)
         /\ Top(HistoryAt(line, n + 1)) = [at |-> line[n + 1], undo |-> UndoAt(line, n + 1)]
         /\ Append(FutureAt(line, n + 1), line[n + 1]) = FutureAt(line, n)
         /\ Popped(FutureAt(line, n)) = FutureAt(line, n + 1)
         /\ Top(FutureAt(line, n)) = line[n + 1]
<1>1. /\ n \in 0..Len(line) /\ n + 1 \in 0..Len(line) /\ n \in Nat /\ Len(line) \in Nat
      /\ n + 1 \in 1..Len(line)
  BY LenProperties
<1> DEFINE s == HistoryAt(line, n)  t == HistoryAt(line, n + 1)
           e == [at |-> line[n + 1], undo |-> UndoAt(line, n + 1)]
<1>2. Append(s, e) = t /\ Popped(t) = s /\ Top(t) = e
  <2>1. /\ s \in Seq(Entered(line)) /\ Len(s) = n /\ t \in Seq(Entered(line)) /\ Len(t) = n + 1
        /\ \A i \in 1..n : s[i] = [at |-> line[i], undo |-> UndoAt(line, i)]
        /\ \A i \in 1..n + 1 : t[i] = [at |-> line[i], undo |-> UndoAt(line, i)]
    BY <1>1, HistoryIs
  <2>2. e \in Entered(line)
    BY <1>1 DEF Entered
  <2>3. /\ \A i \in 1..n : i \in 1..n + 1
        /\ n + 1 \in 1..n + 1
    BY <1>1
  <2> HIDE DEF s, t
  <2>4. \A i \in 1..Len(s) : t[i] = s[i]
    BY <2>1, <2>3
  <2>5. t[Len(s) + 1] = e
    BY <2>1, <2>3
  <2> HIDE DEF e
  <2> QED
    BY <2>1, <2>2, <2>4, <2>5, AppendIs
<1> DEFINE u == FutureAt(line, n + 1)  v == FutureAt(line, n)
<1>3. Append(u, line[n + 1]) = v /\ Popped(v) = u /\ Top(v) = line[n + 1]
  <2>1. /\ u \in Seq(Cells) /\ Len(u) = Len(line) - (n + 1) /\ v \in Seq(Cells) /\ Len(v) = Len(line) - n
        /\ \A j \in 1..Len(line) - (n + 1) : u[j] = line[Len(line) + 1 - j]
        /\ \A j \in 1..Len(line) - n : v[j] = line[Len(line) + 1 - j]
    BY <1>1, HistoryIs
  <2>2. line[n + 1] \in Cells
    BY <1>1, ElementOfSeq
  <2>3. /\ \A j \in 1..Len(line) - (n + 1) : j \in 1..Len(line) - n
        /\ Len(line) - n \in 1..Len(line) - n
        /\ Len(line) + 1 - (Len(line) - n) = n + 1
    BY <1>1
  <2> HIDE DEF u, v
  <2>4. \A j \in 1..Len(u) : v[j] = u[j]
    BY <2>1, <2>3
  <2>5. Len(v) = Len(u) + 1 /\ Len(u) + 1 = Len(line) - n
    BY <1>1, <2>1
  <2>6. v[Len(u) + 1] = line[n + 1]
    <3>1. v[Len(line) - n] = line[Len(line) + 1 - (Len(line) - n)]
      BY <2>1, <2>3
    <3> QED
      BY <2>3, <2>5, <3>1
  <2> DEFINE x == line[n + 1]
  <2>7. x \in Cells /\ Len(v) = Len(u) + 1 /\ v[Len(u) + 1] = x
    BY <2>2, <2>5, <2>6
  <2>8. u \in Seq(Cells) /\ v \in Seq(Cells)
    BY <2>1
  <2> HIDE DEF x
  <2>9. Append(u, x) = v /\ Popped(v) = u /\ Top(v) = x
    BY <2>4, <2>7, <2>8, AppendIs
  <2> QED
    BY <2>9 DEF x
<1> QED
  BY <1>2, <1>3

-----------------------------------------------------------------------------
(* The operations of a game move the cursor on the line. *)
LEMMA UndoIs ==
  ASSUME NEW line, IsLine(line), NEW n \in 0..Len(line) - 1
  PROVE  Undo(GameAt(line, n + 1)) = GameAt(line, n)
<1>1. line \in Seq(Cells) /\ n \in Nat /\ (n + 1) - 1 = n
  BY DEF IsLine
<1>2. Top(GameAt(line, n + 1).history) = [at |-> line[n + 1], undo |-> UndoAt(line, n + 1)]
  BY <1>1, HistoryGrows DEF GameAt
<1>3. CellsAt(line, n) = [CellsAt(line, n + 1) EXCEPT ![line[n + 1]] = Nothing]
  BY NextCells DEF IsLine
<1>4. UnmakeMove(PositionAt(line, n + 1), UndoAt(line, n + 1)) = PositionAt(line, n)
  BY <1>1, <1>3 DEF UnmakeMove, PositionAt, UndoAt
<1>5. StatusAt(line, n) = "Ongoing"
  BY StillOpen
<1>6. /\ Popped(HistoryAt(line, n + 1)) = HistoryAt(line, n)
      /\ Append(FutureAt(line, n + 1), line[n + 1]) = FutureAt(line, n)
  BY <1>1, HistoryGrows
<1> QED
  BY <1>2, <1>4, <1>5, <1>6 DEF Undo, GameAt

(* Redo is one move of the line. *)
LEMMA RedoIs ==
  ASSUME NEW line, IsLine(line), NEW n \in 0..Len(line) - 1
  PROVE  Redo(GameAt(line, n)) = GameAt(line, n + 1)
<1>1. /\ Top(GameAt(line, n).future) = line[n + 1]
      /\ Popped(GameAt(line, n).future) = FutureAt(line, n + 1)
      /\ Append(HistoryAt(line, n), [at |-> line[n + 1], undo |-> UndoAt(line, n + 1)])
           = HistoryAt(line, n + 1)
  BY HistoryGrows DEF GameAt, IsLine
<1> QED
  BY <1>1, MakeMoveIs DEF Redo, Played, GameAt

(* A new move cuts the line behind the cursor and extends it. *)
Cut(line, n, at) == Append(SubSeq(line, 1, n), at)

(* Cutting a line behind a cursor and extending it is a line again. *)
LEMMA CutIs ==
  ASSUME NEW line, IsLine(line), NEW n \in 0..Len(line), NEW at \in Cells,
         Playable(GameAt(line, n), at)
  PROVE  /\ IsLine(Cut(line, n, at)) /\ Len(Cut(line, n, at)) = n + 1
         /\ Cut(line, n, at)[n + 1] = at
         /\ \A i \in 1..n : Cut(line, n, at)[i] = line[i]
         /\ PositionAt(Cut(line, n, at), n) = PositionAt(line, n)
         /\ HistoryAt(Cut(line, n, at), n) = HistoryAt(line, n)
<1> DEFINE cut == Cut(line, n, at)
<1>1. line \in Seq(Cells) /\ Len(line) \in Nat /\ n \in Nat /\ \A i \in 1..n : line[i] \in Cells
  BY LenProperties DEF IsLine
<1>2. /\ SubSeq(line, 1, n) \in Seq(Cells) /\ Len(SubSeq(line, 1, n)) = n
      /\ \A i \in 1..n : SubSeq(line, 1, n)[i] = line[i]
  BY <1>1, SubSeqProperties
<1>3. /\ cut \in Seq(Cells) /\ Len(cut) = n + 1 /\ cut[n + 1] = at
      /\ \A i \in 1..n : cut[i] = line[i]
  BY <1>2, AppendProperties DEF Cut
<1> HIDE DEF cut
<1>4. WinnerAt(line, n) = Nothing /\ CellsAt(line, n)[at] = Nothing
  BY DEF Playable, GameAt, PositionAt, Legal
<1>5. \A k \in 0..n :
        /\ WinnerAt(line, k) = WinnerAt(cut, k)
        /\ PositionAt(line, k) = PositionAt(cut, k) /\ HistoryAt(line, k) = HistoryAt(cut, k)
  BY <1>1, <1>3, SamePrefix
<1>6. \A i \in 1..n : line[i] # at
  <2>1. \A i \in 1..n : CellsAt(line, n)[line[i]] = Stone(i) /\ Stone(i) # Nothing
    <3>1. \A i \in 1..n : CellsAt(line, n)[line[i]] = Stone(i)
      BY CellFacts DEF IsLine
    <3> QED
      BY <3>1, StoneFacts
  <2> QED
    BY <1>4, <2>1
<1>7. \A i, j \in 1..Len(cut) : cut[i] = cut[j] => i = j
  <2>1. \A i \in 1..n + 1 : i \in 1..n \/ i = n + 1
    BY <1>1
  <2>2. \A i, j \in 1..n : line[i] = line[j] => i = j
    BY <1>1 DEF IsLine
  <2> QED
    BY <1>3, <1>6, <2>1, <2>2
<1>8. \A k \in 0..Len(cut) - 1 : WinnerAt(cut, k) = Nothing
  <2> TAKE k \in 0..Len(cut) - 1
  <2>1. k \in 0..n /\ (k = n \/ k \in 0..Len(line) - 1)
    BY <1>1, <1>3
  <2> QED
    BY <1>4, <1>5, <2>1 DEF IsLine
<1>9. IsLine(cut)
  BY <1>3, <1>7, <1>8 DEF IsLine
<1>10. n \in 0..n
  BY <1>1
<1> QED
  BY <1>3, <1>5, <1>9, <1>10 DEF cut

(* A playable move is the last one of the line that is cut and extended by it. *)
LEMMA PlayIs ==
  ASSUME NEW line, IsLine(line), NEW n \in 0..Len(line), NEW at \in Cells,
         Playable(GameAt(line, n), at)
  PROVE  PlayMove(GameAt(line, n), at) = GameAt(Cut(line, n, at), n + 1)
<1> DEFINE cut == Cut(line, n, at)
<1>1. /\ IsLine(cut) /\ Len(cut) = n + 1 /\ cut[n + 1] = at
      /\ PositionAt(cut, n) = PositionAt(line, n) /\ HistoryAt(cut, n) = HistoryAt(line, n)
  BY CutIs
<1> HIDE DEF cut
<1>2. n \in 0..Len(cut) - 1 /\ cut \in Seq(Cells)
  BY <1>1 DEF IsLine
<1>3. /\ MakeMove(PositionAt(cut, n), at) = PositionAt(cut, n + 1)
      /\ StatusAfter(PositionAt(cut, n), PositionAt(cut, n + 1)) = StatusAt(cut, n + 1)
      /\ Token(PositionAt(cut, n), at) = UndoAt(cut, n + 1)
  BY <1>1, <1>2, MakeMoveIs
<1>4. Append(HistoryAt(cut, n), [at |-> at, undo |-> UndoAt(cut, n + 1)]) = HistoryAt(cut, n + 1)
  BY <1>1, <1>2, HistoryGrows
<1>5. FutureAt(cut, n + 1) = <<>>
  <2>1. n + 1 \in 0..Len(cut) /\ Len(cut) - (n + 1) = 0
    BY <1>1
  <2>2. FutureAt(cut, n + 1) \in Seq(Cells) /\ Len(FutureAt(cut, n + 1)) = 0
    BY <1>2, <2>1, HistoryIs
  <2> QED
    BY <2>2, EmptySeq
<1>6. PlayMove(GameAt(line, n), at) = GameAt(cut, n + 1)
  BY <1>1, <1>3, <1>4, <1>5 DEF PlayMove, Played, GameAt
<1> QED
  BY <1>6 DEF cut

(* A new game is the empty line. *)
LEMMA NewGameIs == IsLine(<<>>) /\ NewGame = GameAt(<<>>, 0) /\ Len(<<>>) = 0
<1>1. <<>> \in Seq(Cells) /\ Len(<<>>) = 0
  BY EmptySeq
<1>2. IsLine(<<>>)
  BY <1>1 DEF IsLine
<1>3. CellsAt(<<>>, 0) = [c \in Cells |-> Nothing]
  BY DEF CellsAt, HeldBy
<1>4. WinnerAt(<<>>, 0) = Nothing /\ Stone(0 + 1) = "Black" /\ LastAt(<<>>, 0) = Nothing
  BY DEF WinnerAt, Stone, LastAt
<1>5. StatusAt(<<>>, 0) = "Ongoing"
  BY <1>2, <1>4, LineFits DEF StatusAt
<1>6. HistoryAt(<<>>, 0) = <<>> /\ FutureAt(<<>>, 0) = <<>>
  <2>1. 0 \in 0..Len(<<>>) /\ Len(<<>>) - 0 = 0
    BY <1>1
  <2>2. /\ HistoryAt(<<>>, 0) \in Seq(Entered(<<>>)) /\ Len(HistoryAt(<<>>, 0)) = 0
        /\ FutureAt(<<>>, 0) \in Seq(Cells) /\ Len(FutureAt(<<>>, 0)) = 0
    BY <1>1, <2>1, HistoryIs
  <2> QED
    BY <2>2, EmptySeq
<1> QED
  BY <1>1, <1>2, <1>3, <1>4, <1>5, <1>6 DEF NewGame, EmptyPosition, GameAt, PositionAt

-----------------------------------------------------------------------------
(* Several steps at once: the recursions, unfolded along the line. *)

(* Undoing some plies moves the cursor back, to the start at most. *)
LEMMA UndoPliesIs ==
  ASSUME NEW line, IsLine(line), NEW n \in 0..Len(line), NEW k \in Nat
  PROVE  UndoPlies(GameAt(line, n), k) = GameAt(line, IF k < n THEN n - k ELSE 0)
<1> DEFINE g == GameAt(line, n)
           Step(f) == [j \in 0..n |-> IF j = 0 THEN g ELSE Undo(f[j - 1])]
           undone == CHOOSE f : f = Step(f)
<1>1. line \in Seq(Cells) /\ n \in Nat /\ Len(line) \in Nat
  BY LenProperties DEF IsLine
<1>2. Len(g.history) = n
  BY <1>1, HistoryIs DEF GameAt
<1>3. UndoPlies(g, k) = undone[IF k < n THEN k ELSE n]
  BY <1>2, Zenon DEF UndoPlies
<1>4. ASSUME NEW j \in 1..n PROVE Undo(GameAt(line, n - (j - 1))) = GameAt(line, n - j)
  <2>1. n - j \in 0..Len(line) - 1 /\ n - (j - 1) = (n - j) + 1
    BY <1>1
  <2> QED
    BY <2>1, UndoIs
<1> HIDE DEF g
<1>5. undone = Step(undone)
  <2> DEFINE w == [j \in 0..n |-> GameAt(line, n - j)]
  <2>1. ASSUME NEW j \in 0..n PROVE w[j] = IF j = 0 THEN g ELSE Undo(w[j - 1])
    <3>1. CASE j = 0
      BY <1>1, <3>1 DEF g
    <3>2. CASE j # 0
      <4>1. j \in 1..n /\ j - 1 \in 0..n
        BY <1>1, <3>2
      <4> QED
        BY <1>4, <3>2, <4>1
    <3> QED
      BY <3>1, <3>2
  <2>2. w = Step(w)
    BY <2>1
  <2> HIDE DEF w
  <2> QED
    BY <2>2
<1> HIDE DEF undone
<1>6. \A j \in 0..n : undone[j] = GameAt(line, n - j)
  <2> DEFINE T == {j \in 0..n : undone[j] # GameAt(line, n - j)}
  <2> SUFFICES ASSUME T # {} PROVE FALSE
    OBVIOUS
  <2>1. T \in SUBSET Nat
    BY <1>1
  <2>2. PICK j \in T : \A i \in T : j <= i
    BY <2>1, LeastNatural
  <2>3. j \in 0..n /\ undone[j] = IF j = 0 THEN g ELSE Undo(undone[j - 1])
    BY <1>5
  <2>4. CASE j = 0
    BY <1>1, <2>3, <2>4 DEF g
  <2>5. CASE j # 0
    <3>1. j \in 1..n /\ j - 1 \in 0..n /\ ~(j <= j - 1)
      BY <1>1, <2>3, <2>5
    <3>2. undone[j - 1] = GameAt(line, n - (j - 1))
      BY <2>2, <3>1
    <3> QED
      BY <1>4, <2>3, <2>5, <3>1, <3>2
  <2> QED
    BY <2>4, <2>5
<1>7. CASE k < n
  BY <1>3, <1>6, <1>7 DEF g
<1>8. CASE ~(k < n)
  BY <1>1, <1>3, <1>6, <1>8 DEF g
<1> QED
  BY <1>7, <1>8

(* Redoing some plies moves the cursor on, to the end at most. *)
LEMMA RedoPliesIs ==
  ASSUME NEW line, IsLine(line), NEW n \in 0..Len(line), NEW k \in Nat
  PROVE  RedoPlies(GameAt(line, n), k)
           = GameAt(line, IF k < Len(line) - n THEN n + k ELSE Len(line))
<1> DEFINE g == GameAt(line, n)
           left == Len(line) - n
           Step(f) == [j \in 0..left |-> IF j = 0 THEN g ELSE Redo(f[j - 1])]
           redone == CHOOSE f : f = Step(f)
<1>1. line \in Seq(Cells) /\ n \in Nat /\ Len(line) \in Nat /\ left \in Nat
  BY LenProperties DEF IsLine
<1>2. Len(g.future) = left
  BY <1>1, HistoryIs DEF GameAt
<1> HIDE DEF left
<1>3. RedoPlies(g, k) = redone[IF k < left THEN k ELSE left]
  BY <1>2, Zenon DEF RedoPlies
<1> USE DEF left
<1>4. ASSUME NEW j \in 1..left PROVE Redo(GameAt(line, n + (j - 1))) = GameAt(line, n + j)
  <2>1. n + (j - 1) \in 0..Len(line) - 1 /\ n + j = (n + (j - 1)) + 1
    BY <1>1
  <2> QED
    BY <2>1, RedoIs
<1> HIDE DEF g
<1>5. redone = Step(redone)
  <2> DEFINE w == [j \in 0..left |-> GameAt(line, n + j)]
  <2>1. ASSUME NEW j \in 0..left PROVE w[j] = IF j = 0 THEN g ELSE Redo(w[j - 1])
    <3>1. CASE j = 0
      BY <1>1, <3>1 DEF g
    <3>2. CASE j # 0
      <4>1. j \in 1..left /\ j - 1 \in 0..left
        BY <1>1, <3>2
      <4> QED
        BY <1>4, <3>2, <4>1
    <3> QED
      BY <3>1, <3>2
  <2>2. w = Step(w)
    BY <2>1
  <2> HIDE DEF w
  <2> QED
    BY <2>2
<1> HIDE DEF redone
<1>6. \A j \in 0..left : redone[j] = GameAt(line, n + j)
  <2> DEFINE T == {j \in 0..left : redone[j] # GameAt(line, n + j)}
  <2> SUFFICES ASSUME T # {} PROVE FALSE
    OBVIOUS
  <2>1. T \in SUBSET Nat
    BY <1>1
  <2>2. PICK j \in T : \A i \in T : j <= i
    BY <2>1, LeastNatural
  <2>3. j \in 0..left /\ redone[j] = IF j = 0 THEN g ELSE Redo(redone[j - 1])
    BY <1>5
  <2>4. CASE j = 0
    BY <1>1, <2>3, <2>4 DEF g
  <2>5. CASE j # 0
    <3>1. j \in 1..left /\ j - 1 \in 0..left /\ ~(j <= j - 1)
      BY <1>1, <2>3, <2>5
    <3>2. redone[j - 1] = GameAt(line, n + (j - 1))
      BY <2>2, <3>1
    <3> QED
      BY <1>4, <2>3, <2>5, <3>1, <3>2
  <2> QED
    BY <2>4, <2>5
<1>7. CASE k < left
  BY <1>3, <1>6, <1>7 DEF g
<1>8. CASE ~(k < left)
  BY <1>1, <1>3, <1>6, <1>8 DEF g
<1> QED
  BY <1>7, <1>8

(* The recursion of a record is one, whatever its moves. *)
LEMMA ReplaysIs ==
  ASSUME NEW moves \in Seq(Cells)
  PROVE  \A k \in 0..Len(moves) :
           Replays(moves)[k] = IF k = 0 THEN NewGame ELSE PlayMove(Replays(moves)[k - 1],
           moves[k])
<1> DEFINE N == Len(moves)
           Step(f, k) == [j \in 0..k |-> IF j = 0 THEN NewGame ELSE PlayMove(f[j - 1],
           moves[j])]
           T == {k \in Nat : ~ \E f : f = Step(f, k)}
<1>1. N \in Nat
  BY LenProperties
<1> HIDE DEF N
<1>2. T = {}
  <2> SUFFICES ASSUME T # {} PROVE FALSE
    OBVIOUS
  <2>1. PICK k \in T : \A i \in T : k <= i
    <3>1. T \in SUBSET Nat
      OBVIOUS
    <3> HIDE DEF T
    <3> QED
      BY <3>1, LeastNatural
  <2>2. CASE k = 0
    <3> DEFINE w == [j \in 0..0 |-> NewGame]
    <3>1. w = Step(w, 0)
      OBVIOUS
    <3> HIDE DEF w
    <3> QED
      BY <2>1, <2>2, <3>1
  <2>3. CASE k # 0
    <3>1. k - 1 \in Nat /\ ~(k <= k - 1)
      BY <2>1, <2>3
    <3>2. k - 1 \notin T
      BY <2>1, <3>1
    <3>3. PICK f : f = Step(f, k - 1)
      BY <3>1, <3>2
    <3> DEFINE w == [j \in 0..k |-> IF j < k THEN f[j] ELSE PlayMove(f[k - 1], moves[k])]
    <3>4. ASSUME NEW j \in 0..k
          PROVE  w[j] = IF j = 0 THEN NewGame ELSE PlayMove(w[j - 1], moves[j])
      <4>1. CASE j = k
        BY <2>3, <3>1, <4>1
      <4>2. CASE j < k
        <5>1. j \in 0..k - 1 /\ w[j] = f[j] /\ (j # 0 => j - 1 \in 0..k /\ w[j - 1] = f[j - 1])
          BY <4>2
        <5>2. f[j] = IF j = 0 THEN NewGame ELSE PlayMove(f[j - 1], moves[j])
          BY <3>3, <5>1
        <5> HIDE DEF w
        <5> QED
          BY <5>1, <5>2
      <4>3. j = k \/ j < k
        BY <3>1
      <4> QED
        BY <4>1, <4>2, <4>3
    <3>5. w = Step(w, k)
      BY <3>4
    <3> HIDE DEF w
    <3> QED
      BY <2>1, <3>5
  <2> QED
    BY <2>2, <2>3
<1>3. \E f : f = Step(f, N)
  BY <1>1, <1>2
<1>4. Replays(moves) = CHOOSE f : f = Step(f, N)
  BY Zenon DEF Replays, N
<1>5. Replays(moves) = Step(Replays(moves), N)
  BY <1>3, <1>4
<1> QED
  BY <1>5 DEF N

(* A record that replays is a line of play, and its game stands at the end.*)
LEMMA RecordIs ==
  ASSUME NEW moves \in Seq(Cells), IsRecord(moves)
  PROVE  IsLine(moves) /\ Replay(moves) = GameAt(moves, Len(moves))
<1> DEFINE N == Len(moves)
           Prefix(k) == SubSeq(moves, 1, k)
           Good(k) == IsLine(Prefix(k)) /\ Replays(moves)[k] = GameAt(Prefix(k), k)
           T == {k \in 0..N : ~Good(k)}
<1>1. N \in Nat
  BY LenProperties
<1>2. T = {}
  <2> SUFFICES ASSUME T # {} PROVE FALSE
    OBVIOUS
  <2>1. PICK k \in T : \A i \in T : k <= i
    <3>1. T \in SUBSET Nat
      BY <1>1
    <3> HIDE DEF T
    <3> QED
      BY <3>1, LeastNatural
  <2>2. CASE k = 0
    <3>1. Prefix(0) = <<>>
      BY SubSeqEmpty
    <3>2. Replays(moves)[0] = NewGame
      BY <1>1, ReplaysIs
    <3> QED
      BY <2>1, <2>2, <3>1, <3>2, NewGameIs
  <2>3. CASE k # 0
    <3>1. k \in 1..N /\ k - 1 \in 0..N /\ ~(k <= k - 1) /\ k - 1 \in Nat
      BY <1>1, <2>1, <2>3
    <3>2. Good(k - 1)
      BY <2>1, <3>1
    <3> DEFINE line == Prefix(k - 1)
    <3>3. /\ line \in Seq(Cells) /\ Len(line) = k - 1
          /\ Replays(moves)[k] = PlayMove(Replays(moves)[k - 1], moves[k])
          /\ moves[k] \in Cells
      <4>1. \A i \in 1..k - 1 : moves[i] \in Cells
        BY <3>1, ElementOfSeq
      <4>2. line \in Seq(Cells) /\ Len(line) = k - 1
        BY <3>1, <4>1, SubSeqProperties
      <4>3. Replays(moves)[k] = PlayMove(Replays(moves)[k - 1], moves[k])
        BY <2>3, <3>1, ReplaysIs
      <4> QED
        BY <3>1, <4>2, <4>3, ElementOfSeq
    <3>4. Playable(GameAt(line, k - 1), moves[k])
      <4>1. Playable(Replays(moves)[k - 1], moves[k])
        BY <3>1 DEF IsRecord
      <4> QED
        BY <3>2, <4>1
    <3>5. Cut(line, k - 1, moves[k]) = Prefix(k)
      <4>1. SubSeq(line, 1, k - 1) = line
        BY <3>3, SubSeqFull
      <4>2. Prefix(k) = Prefix(k - 1) \o <<moves[k]>>
        BY <3>1, SubSeqRecursiveSecond
      <4>3. Append(line, moves[k]) = line \o <<moves[k]>>
        BY <3>3, AppendIsConcat
      <4> QED
        BY <4>1, <4>2, <4>3 DEF Cut
    <3> HIDE DEF line
    <3>6. IsLine(line) /\ k - 1 \in 0..Len(line) /\ (k - 1) + 1 = k
      BY <3>1, <3>2, <3>3 DEF line
    <3>7. IsLine(Prefix(k)) /\ PlayMove(GameAt(line, k - 1), moves[k]) = GameAt(Prefix(k), k)
      <4>1. IsLine(Cut(line, k - 1, moves[k]))
        BY <3>3, <3>4, <3>6, CutIs
      <4>2. PlayMove(GameAt(line, k - 1), moves[k]) = GameAt(Cut(line, k - 1, moves[k]), (k - 1) + 1)
        BY <3>3, <3>4, <3>6, PlayIs
      <4> HIDE DEF Prefix
      <4> QED
        BY <3>5, <3>6, <4>1, <4>2
    <3>8. Replays(moves)[k] = GameAt(Prefix(k), k)
      BY <3>2, <3>3, <3>7 DEF line
    <3> QED
      BY <2>1, <3>7, <3>8
  <2> QED
    BY <2>2, <2>3
<1>3. N \in 0..N /\ Prefix(N) = moves
  BY <1>1, SubSeqFull
<1>4. Good(N)
  BY <1>2, <1>3
<1> QED
  BY <1>3, <1>4 DEF Replay

-----------------------------------------------------------------------------
(* What others see of a game on a line. *)
LEMMA MovesIs ==
  ASSUME NEW line \in Seq(Cells), NEW n \in 0..Len(line)
  PROVE  Moves(GameAt(line, n)) = [i \in 1..n |-> line[i]]
<1>1. /\ DOMAIN HistoryAt(line, n) = 1..n
      /\ \A i \in 1..n : HistoryAt(line, n)[i] = [at |-> line[i], undo |-> UndoAt(line, i)]
  BY HistoryIs
<1>2. Moves(GameAt(line, n)) = [i \in 1..n |-> HistoryAt(line, n)[i].at]
  BY <1>1 DEF Moves, GameAt
<1> QED
  BY <1>1, <1>2

(* A position on a line is a position. *)
LEMMA PositionIn ==
  ASSUME NEW line, IsLine(line), NEW n \in 0..Len(line)
  PROVE  PositionAt(line, n) \in Positions
<1>1. line \in Seq(Cells) /\ Len(line) \in Nat /\ n \in Nat
  BY LenProperties DEF IsLine
<1>2. CellsAt(line, n) \in [Cells -> Stones \cup {Nothing}]
  BY CellFacts DEF IsLine
<1>3. Stone(n + 1) \in Stones /\ Stone(n) \in Stones
  BY <1>1, StoneFacts
<1>4. LastAt(line, n) \in Cells \cup {Nothing}
  <2>1. CASE n = 0
    BY <2>1 DEF LastAt
  <2>2. CASE n # 0
    <3>1. n \in 1..Len(line)
      BY <1>1, <2>2
    <3> QED
      BY <1>1, <2>2, <3>1, LenProperties DEF LastAt
  <2> QED
    BY <2>1, <2>2
<1>5. WinnerAt(line, n) \in Stones \cup {Nothing}
  BY <1>3, Zenon DEF WinnerAt
<1> HIDE DEF IsLine
<1> QED
  BY <1>1, <1>2, <1>3, <1>4, <1>5 DEF PositionAt, Positions

-----------------------------------------------------------------------------
(* Of a set of finite sets, one with the least number of elements. *)
LEMMA LeastSet ==
  ASSUME NEW T, T # {}, \A s \in T : IsFiniteSet(s)
  PROVE  \E s \in T : \A t \in T : Cardinality(s) <= Cardinality(t)
<1> DEFINE Sizes == {Cardinality(s) : s \in T}
<1>1. Sizes \in SUBSET Nat /\ Sizes # {}
  BY FS_CardinalityType
<1>2. PICK n \in Sizes : \A m \in Sizes : n <= m
  BY <1>1, LeastNatural
<1> QED
  BY <1>2

LEMMA OneLess ==
  ASSUME NEW s, IsFiniteSet(s), NEW x \in s
  PROVE  /\ IsFiniteSet(s \ {x}) /\ Cardinality(s \ {x}) < Cardinality(s)
         /\ s \ {x} \in SUBSET s
<1>1. Cardinality(s) \in Nat /\ Cardinality(s \ {x}) = Cardinality(s) - 1 /\ IsFiniteSet(s \ {x})
  BY FS_CardinalityType, FS_RemoveElement
<1> QED
  BY <1>1

(* Sums over finite sets. *)

(* The sum over S satisfies its recursion on all subsets of S. *)
Summing(f, S, g) ==
  g = [s \in SUBSET S |-> IF s = {} THEN 0
                          ELSE LET x == CHOOSE x \in s : TRUE IN f[x] + g[s \ {x}]]

LEMMA SummingAgrees ==
  ASSUME NEW f, NEW S, IsFiniteSet(S), NEW T \in SUBSET S, NEW g, NEW h,
         Summing(f, S, g), Summing(f, T, h)
  PROVE  g[T] = h[T]
<1> DEFINE Bad == {s \in SUBSET T : g[s] # h[s]}
<1>1. \A s \in SUBSET T : s \in SUBSET S /\ IsFiniteSet(s) /\ Cardinality(s) \in Nat
  BY FS_Subset, FS_CardinalityType
<1>2. CASE Bad = {}
  BY <1>2
<1>3. CASE Bad # {}
  <2>3. PICK s \in Bad : \A t \in Bad : Cardinality(s) <= Cardinality(t)
    BY <1>1, <1>3, LeastSet
  <2>4. CASE s = {}
    <3>1. g[s] = 0 /\ h[s] = 0
      BY <2>4 DEF Summing
    <3> QED
      BY <3>1, <2>3
  <2>5. CASE s # {}
    <3> DEFINE x == CHOOSE x \in s : TRUE
    <3>1. x \in s
      BY <2>5
    <3>4. g[s] = f[x] + g[s \ {x}]
      BY <2>5, <1>1 DEF Summing
    <3>5. h[s] = f[x] + h[s \ {x}]
      BY <2>5 DEF Summing
    <3> HIDE DEF x
    <3>2. s \ {x} \in SUBSET T /\ Cardinality(s \ {x}) < Cardinality(s)
      BY <3>1, <1>1, OneLess
    <3>6. Cardinality(s \ {x}) \in Nat /\ Cardinality(s) \in Nat
      BY <3>2, <1>1
    <3>3. g[s \ {x}] = h[s \ {x}]
      BY <3>2, <3>6, <2>3
    <3> QED
      BY <3>3, <3>4, <3>5, <2>3
  <2> QED
    BY <2>4, <2>5
<1> QED
  BY <1>2, <1>3

LEMMA SummingExists ==
  ASSUME NEW f, NEW S, IsFiniteSet(S)
  PROVE  \E g : Summing(f, S, g)
<1> DEFINE Bad == {s \in SUBSET S : ~ \E g : Summing(f, s, g)}
           Pick(s) == CHOOSE x \in s : TRUE
           Of(s) == CHOOSE g : Summing(f, s, g)
<1>1. \A s \in SUBSET S : IsFiniteSet(s) /\ Cardinality(s) \in Nat
  BY FS_Subset, FS_CardinalityType
<1> SUFFICES ASSUME Bad # {} PROVE FALSE
  OBVIOUS
<1>2. PICK s \in Bad : \A t \in Bad : Cardinality(s) <= Cardinality(t)
  BY <1>1, LeastSet
<1> HIDE DEF Pick
<1>3. \A t \in SUBSET s : t # {} => Pick(t) \in t
  BY DEF Pick
<1>4. \A t \in SUBSET s : t # s => Summing(f, t, Of(t))
  <2> SUFFICES ASSUME NEW t \in SUBSET s, t # s PROVE Summing(f, t, Of(t))
    OBVIOUS
  <2>1. Cardinality(t) < Cardinality(s)
    <3>1. IsFiniteSet(s) /\ Cardinality(s) \in Nat /\ Cardinality(t) \in Nat
      BY <1>1
    <3>2. Cardinality(t) <= Cardinality(s) /\ (Cardinality(s) = Cardinality(t) => s = t)
      BY <3>1, FS_Subset
    <3> QED
      BY <3>1, <3>2
  <2>2. t \notin Bad
    BY <2>1, <1>2, <1>1
  <2>3. \E g : Summing(f, t, g)
    BY <2>2
  <2> QED
    BY <2>3, Zenon
<1> HIDE DEF Of
<1> DEFINE G == [t \in SUBSET s |-> IF t = {} THEN 0
                                    ELSE f[Pick(t)] + Of(t \ {Pick(t)})[t \ {Pick(t)}]]
<1>5. \A t \in SUBSET s : t # s => G[t] = Of(t)[t]
  <2> SUFFICES ASSUME NEW t \in SUBSET s, t # s PROVE G[t] = Of(t)[t]
    OBVIOUS
  <2>1. CASE t = {}
    BY <2>1, <1>4 DEF Summing
  <2>2. CASE t # {}
    <3> DEFINE u == t \ {Pick(t)}
    <3>1. u \in SUBSET t /\ u \in SUBSET s /\ u # s /\ IsFiniteSet(t)
      BY <2>2, <1>3, <1>1
    <3>2. Summing(f, t, Of(t)) /\ Summing(f, u, Of(u))
      BY <3>1, <1>4
    <3>3. Of(t)[t] = f[Pick(t)] + Of(t)[u]
      BY <3>2, <2>2 DEF Summing, Pick
    <3> HIDE DEF u
    <3>4. Of(t)[u] = Of(u)[u]
      BY <3>1, <3>2, SummingAgrees
    <3>5. G[t] = f[Pick(t)] + Of(u)[u]
      BY <2>2 DEF u
    <3> QED
      BY <3>3, <3>4, <3>5
  <2> QED
    BY <2>1, <2>2
<1>6. \A t \in SUBSET s : t # {} => G[t] = f[Pick(t)] + G[t \ {Pick(t)}]
  <2> SUFFICES ASSUME NEW t \in SUBSET s, t # {} PROVE G[t] = f[Pick(t)] + G[t \ {Pick(t)}]
    OBVIOUS
  <2>1. t \ {Pick(t)} \in SUBSET s /\ t \ {Pick(t)} # s
    BY <1>3
  <2>2. G[t \ {Pick(t)}] = Of(t \ {Pick(t)})[t \ {Pick(t)}]
    BY <2>1, <1>5
  <2> QED
    BY <2>2
<1>7. G[{}] = 0 /\ G = [t \in SUBSET s |-> G[t]]
  OBVIOUS
<1>8. Summing(f, s, G)
  <2> HIDE DEF G
  <2>1. \A t \in SUBSET s : G[t] = IF t = {} THEN 0 ELSE f[Pick(t)] + G[t \ {Pick(t)}]
    BY <1>6, <1>7
  <2> QED
    BY <2>1, <1>7 DEF Summing, Pick
<1> QED
  BY <1>8, <1>2
=============================================================================
