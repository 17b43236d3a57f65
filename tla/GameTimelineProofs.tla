------------------------- MODULE GameTimelineProofs -------------------------
(***************************************************************************)
(* Proofs about a game under play, undo, redo and import, and about the    *)
(* board of a search on one of its positions, for every board.             *)
(*                                                                         *)
(* The game.  In every reachable state it is a cursor on a line of play    *)
(* (GameInv), so what can be redone is the rest of the line, and each of   *)
(* its moves is legal in its turn.  The abstract timeline keeps that line  *)
(* and the cursor alone and looks for five in a row on the whole board;    *)
(* the game only looks around its last move, which finds the same          *)
(* (WinsIs): nobody had five before, so whoever has five now has them      *)
(* through the last move.                                                  *)
(*                                                                         *)
(* The search.  Every board it can stand on is BoardAt(p, n): a position   *)
(* p, n turns, and sidecars that are computed afresh from p.  A move       *)
(* touches the windows its cell is in and nothing else, so the tables it   *)
(* leaves are the tables of the next position (sections on tables and      *)
(* windows), the sums it leaves are the sums over the new windows          *)
(* (sections on sums: a sum changes by what its changed terms change by),  *)
(* and what its token keeps is what taking back needs (MadeIs, PassedIs).  *)
(* That alone is not inductive: a board taken back is exact only if it is  *)
(* the board that was left.  So SearchInv remembers the boards from the    *)
(* root of the search to where it stands: each is exact and is what the    *)
(* token above it takes the next one back to (Trailed).                    *)
(***************************************************************************)
EXTENDS BoardState, GomokuProofs

USE BoardAssumption, NothingAssumption, RecordsAssumption

(* A game is a cursor on a line of play. *)
GameInv == \E l : \E n \in 0..Len(l) : IsLine(l) /\ game = GameAt(l, n)

(* A new game is on a line. *)
LEMMA InitGameInv == Init => GameInv
<1> SUFFICES ASSUME Init PROVE GameInv
  OBVIOUS
<1>1. IsLine(<<>>) /\ game = GameAt(<<>>, 0) /\ 0 \in 0..Len(<<>>)
  BY NewGameIs DEF Init
<1> QED
  BY <1>1 DEF GameInv

(* The steps, on the line of play. *)
LEMMA StepIs ==
  ASSUME NEW l, IsLine(l), NEW n \in 0..Len(l), game = GameAt(l, n), Next
  PROVE  \/ \E at \in Cells : /\ Playable(game, at) /\ IsLine(Cut(l, n, at))
                              /\ Len(Cut(l, n, at)) = n + 1
                              /\ game' = GameAt(Cut(l, n, at), n + 1)
         \/ \E m \in 0..Len(l) : game' = GameAt(l, m)
         \/ \E moves \in Records : IsLine(moves) /\ game' = GameAt(moves, Len(moves))
<1>1. l \in Seq(Cells) /\ Len(l) \in Nat /\ n \in Nat
  BY LenProperties DEF IsLine
<1>2. CASE \E at \in Cells : PlayNew(at)
  BY <1>2, CutIs, PlayIs DEF PlayNew
<1>3. ASSUME NEW k \in 1..Cardinality(Cells), UndoSome(k)
      PROVE  \E m \in 0..Len(l) : game' = GameAt(l, m)
  <2>1. k \in Nat /\ game' = UndoPlies(GameAt(l, n), k)
    BY <1>3, LineFits DEF UndoSome
  <2>2. game' = GameAt(l, IF k < n THEN n - k ELSE 0)
    BY <2>1, UndoPliesIs
  <2>3. (IF k < n THEN n - k ELSE 0) \in 0..Len(l)
    BY <1>1, <2>1
  <2> QED
    BY <2>2, <2>3
<1>4. ASSUME NEW k \in 1..Cardinality(Cells), RedoSome(k)
      PROVE  \E m \in 0..Len(l) : game' = GameAt(l, m)
  <2>1. k \in Nat /\ game' = RedoPlies(GameAt(l, n), k)
    BY <1>4, LineFits DEF RedoSome
  <2>2. game' = GameAt(l, IF k < Len(l) - n THEN n + k ELSE Len(l))
    BY <2>1, RedoPliesIs
  <2>3. (IF k < Len(l) - n THEN n + k ELSE Len(l)) \in 0..Len(l)
    BY <1>1, <2>1
  <2> QED
    BY <2>2, <2>3
<1>5. ASSUME NEW moves \in Records, Import(moves)
      PROVE  IsLine(moves) /\ game' = GameAt(moves, Len(moves))
  BY <1>5, RecordIs DEF Import
<1> QED
  BY <1>2, <1>3, <1>4, <1>5 DEF Next

(* Every step leaves the game on a line. *)
LEMMA NextGameInv == GameInv /\ [Next]_game => GameInv'
<1> SUFFICES ASSUME GameInv, [Next]_game PROVE GameInv'
  OBVIOUS
<1>1. PICK l : \E n \in 0..Len(l) : IsLine(l) /\ game = GameAt(l, n)
  BY DEF GameInv
<1>2. PICK n \in 0..Len(l) : IsLine(l) /\ game = GameAt(l, n)
  BY <1>1
<1>3. CASE UNCHANGED game
  BY <1>2, <1>3 DEF GameInv
<1>4. CASE Next
  <2>1. CASE \E at \in Cells : /\ IsLine(Cut(l, n, at)) /\ Len(Cut(l, n, at)) = n + 1
                               /\ game' = GameAt(Cut(l, n, at), n + 1)
    <3>1. n + 1 \in 0..n + 1
      OBVIOUS
    <3> QED
      BY <2>1, <3>1 DEF GameInv
  <2>2. CASE \E m \in 0..Len(l) : game' = GameAt(l, m)
    BY <1>2, <2>2 DEF GameInv
  <2>3. CASE \E moves \in Records : IsLine(moves) /\ game' = GameAt(moves, Len(moves))
    <3>1. PICK moves \in Records : IsLine(moves) /\ game' = GameAt(moves, Len(moves))
      BY <2>3
    <3>2. Len(moves) \in 0..Len(moves)
      BY <3>1, LineFits
    <3> QED
      BY <3>1, <3>2 DEF GameInv
  <2> QED
    BY <1>2, <1>4, <2>1, <2>2, <2>3, StepIs
<1> QED
  BY <1>3, <1>4

(* In every reachable state the game is a cursor on a line of play. *)
THEOREM GameIsALine == Spec => []GameInv
  BY InitGameInv, NextGameInv, PTL DEF Spec

(* Whatever was played, undone, redone and imported: every undone move can *)
(* be played again in its turn.                                            *)
THEOREM RedoLegal == Spec => []RedoStaysLegal
<1>1. GameInv => RedoStaysLegal
  <2> SUFFICES ASSUME GameInv, NEW k \in 1..Len(game.future)
               PROVE  Playable(RedoPlies(game, k - 1), game.future[Len(game.future) - k + 1])
    BY DEF RedoStaysLegal
  <2>1. PICK l : \E n \in 0..Len(l) : IsLine(l) /\ game = GameAt(l, n)
    BY DEF GameInv
  <2>2. PICK n \in 0..Len(l) : IsLine(l) /\ game = GameAt(l, n)
    BY <2>1
  <2>3. /\ l \in Seq(Cells) /\ Len(l) \in Nat /\ n \in Nat
        /\ Len(game.future) = Len(l) - n
        /\ \A j \in 1..Len(l) - n : game.future[j] = l[Len(l) + 1 - j]
    <3>1. l \in Seq(Cells) /\ Len(l) \in Nat /\ n \in Nat
      BY <2>2, LineFits DEF IsLine
    <3>2. game.future = FutureAt(l, n)
      BY <2>2 DEF GameAt
    <3> QED
      BY <3>1, <3>2, HistoryIs
  <2>4. /\ k - 1 \in Nat /\ k - 1 < Len(l) - n /\ n + (k - 1) \in 0..Len(l) - 1
        /\ Len(game.future) - k + 1 \in 1..Len(l) - n
        /\ Len(l) + 1 - (Len(game.future) - k + 1) = (n + (k - 1)) + 1
    BY <2>3
  <2>5. RedoPlies(game, k - 1) = GameAt(l, n + (k - 1))
    BY <2>2, <2>4, RedoPliesIs
  <2>6. game.future[Len(game.future) - k + 1] = l[(n + (k - 1)) + 1]
    <3>1. PICK j \in 1..Len(l) - n : j = Len(game.future) - k + 1
      BY <2>4
    <3>2. game.future[j] = l[Len(l) + 1 - j]
      BY <2>3
    <3>3. Len(l) + 1 - j = (n + (k - 1)) + 1
      BY <2>4, <3>1
    <3> QED
      BY <3>1, <3>2, <3>3
  <2> QED
    BY <2>2, <2>4, <2>5, <2>6, StillOpen
<1> QED
  BY <1>1, GameIsALine, PTL

-----------------------------------------------------------------------------
(* The abstract timeline. *)
LEMMA LineOf ==
  ASSUME NEW l, IsLine(l), NEW n \in 0..Len(l)
  PROVE  /\ Moves(GameAt(l, n)) \o Reverse(GameAt(l, n).future) = l
         /\ Len(GameAt(l, n).history) = n
<1>1. /\ l \in Seq(Cells) /\ Len(l) \in Nat /\ n \in Nat
      /\ Len(HistoryAt(l, n)) = n /\ DOMAIN HistoryAt(l, n) = 1..n
      /\ \A i \in 1..n : HistoryAt(l, n)[i] = [at |-> l[i], undo |-> UndoAt(l, i)]
      /\ Len(FutureAt(l, n)) = Len(l) - n
      /\ \A j \in 1..Len(l) - n : FutureAt(l, n)[j] = l[Len(l) + 1 - j]
  <2>1. l \in Seq(Cells) /\ Len(l) \in Nat /\ n \in Nat
    BY LineFits DEF IsLine
  <2> QED
    BY <2>1, HistoryIs
<1> DEFINE before == [i \in 1..n |-> l[i]]
           after == [i \in 1..Len(l) - n |-> l[n + i]]
<1>2. Moves(GameAt(l, n)) = before
  BY <1>1 DEF Moves, GameAt
<1>3. Reverse(GameAt(l, n).future) = after
  <2>1. \A i \in 1..Len(l) - n : /\ Len(l) - n - i + 1 \in 1..Len(l) - n
                                 /\ Len(l) + 1 - (Len(l) - n - i + 1) = n + i
    BY <1>1
  <2>2. \A i \in 1..Len(l) - n : FutureAt(l, n)[Len(l) - n - i + 1] = l[n + i]
    BY <1>1, <2>1
  <2> QED
    BY <1>1, <2>2 DEF Reverse, GameAt
<1>4. before \o after = l
  <2>1. ASSUME NEW i \in 1..Len(l) PROVE l[i] \in Cells
    BY <1>1, ElementOfSeq
  <2>2. before \in [1..n -> Cells] /\ after \in [1..Len(l) - n -> Cells]
    <3>1. \A i \in 1..n : i \in 1..Len(l)
      BY <1>1
    <3>2. \A i \in 1..Len(l) - n : n + i \in 1..Len(l)
      BY <1>1
    <3> QED
      BY <2>1, <3>1, <3>2
  <2>3. before \in Seq(Cells) /\ after \in Seq(Cells)
    BY <1>1, <2>2, SeqDef
  <2>4. Len(before) = n /\ Len(after) = Len(l) - n
    BY <1>1, <2>2, <2>3, LenProperties
  <2>5. \A i \in 1..n : before[i] = l[i]
    OBVIOUS
  <2>6. \A i \in 1..Len(l) - n : after[i] = l[n + i]
    OBVIOUS
  <2> HIDE DEF before, after
  <2>7. /\ before \o after \in Seq(Cells)
        /\ Len(before \o after) = Len(before) + Len(after)
        /\ \A i \in 1..Len(before) + Len(after) : (before \o after)[i] =
              IF i <= Len(before) THEN before[i] ELSE after[i - Len(before)]
    BY <2>3, ConcatProperties
  <2>8. ASSUME NEW i \in 1..Len(l) PROVE (before \o after)[i] = l[i]
    <3>1. CASE i <= n
      BY <1>1, <2>4, <2>5, <2>7, <3>1
    <3>2. CASE ~(i <= n)
      <4>1. i - n \in 1..Len(l) - n /\ n + (i - n) = i /\ i \in 1..n + (Len(l) - n)
        BY <1>1, <3>2
      <4>2. (before \o after)[i] = after[i - n]
        BY <2>4, <2>7, <3>2, <4>1
      <4> QED
        BY <2>6, <4>1, <4>2
    <3> QED
      BY <3>1, <3>2
  <2>9. Len(before \o after) = Len(l)
    BY <1>1, <2>4, <2>7
  <2> QED
    BY <1>1, <2>7, <2>8, <2>9, SeqEqual
<1> QED
  BY <1>1, <1>2, <1>3, <1>4 DEF GameAt

(* The board of the abstract timeline is that of the game. *)
LEMMA OwnedIs ==
  ASSUME NEW l \in Seq(Cells), NEW n \in 0..Len(l)
  PROVE  /\ SubSeq(l, 1, n) \in Seq(Cells) /\ Len(SubSeq(l, 1, n)) = n
         /\ \A i \in 1..n : SubSeq(l, 1, n)[i] = l[i]
         /\ \A stone \in Stones : Abstract!Owned(SubSeq(l, 1, n), stone) = HeldBy(l, n, stone)
         /\ Abstract!Board(SubSeq(l, 1, n)) = CellsAt(l, n)
<1> DEFINE s == SubSeq(l, 1, n)
<1>1. n \in Nat /\ Len(l) \in Nat /\ \A i \in 1..n : l[i] \in Cells
  BY LenProperties
<1>2. s \in Seq(Cells) /\ Len(s) = n /\ \A i \in 1..n : s[i] = l[i]
  BY <1>1, SubSeqProperties
<1>3. DOMAIN s = 1..n
  BY <1>2, LenProperties
<1> HIDE DEF s
<1>4. ASSUME NEW stone \in Stones PROVE Abstract!Owned(s, stone) = HeldBy(l, n, stone)
  <2>1. ASSUME NEW j \in 1..n PROVE ((j % 2 = 1) = (stone = "Black")) <=> Stone(j) = stone
    BY DEF Stone, Stones
  <2>2. Abstract!Owned(s, stone) = {s[i] : i \in {j \in 1..n : (j % 2 = 1) = (stone = "Black")}}
    BY <1>3 DEF Abstract!Owned
  <2>3. {j \in 1..n : (j % 2 = 1) = (stone = "Black")} = {j \in 1..n : Stone(j) = stone}
    BY <2>1
  <2>4. {s[i] : i \in {j \in 1..n : Stone(j) = stone}} = {l[i] : i \in {j \in 1..n : Stone(j) = stone}}
    BY <1>2
  <2> QED
    BY <2>2, <2>3, <2>4 DEF HeldBy
<1>5. Abstract!Board(s) = CellsAt(l, n)
  BY <1>4 DEF Abstract!Board, CellsAt, Stones
<1> QED
  BY <1>2, <1>4, <1>5 DEF s

(* Looking around the last move finds what a scan of every line would. *)
LEMMA WinsIs ==
  ASSUME NEW l, IsLine(l)
  PROVE  \A n \in 0..Len(l) : \A stone \in Stones :
           Abstract!Wins(SubSeq(l, 1, n), stone) <=> WinnerAt(l, n) = stone
<1> DEFINE Won(n, stone) == \E row \in Lines : row \subseteq HeldBy(l, n, stone)
           Agree(n) == \A stone \in Stones : Won(n, stone) <=> WinnerAt(l, n) = stone
           T == {n \in 0..Len(l) : ~Agree(n)}
<1>1. l \in Seq(Cells) /\ Len(l) \in Nat
  BY LineFits DEF IsLine
<1>2. T = {}
  <2> SUFFICES ASSUME T # {} PROVE FALSE
    OBVIOUS
  <2>1. PICK n \in T : \A i \in T : n <= i
    <3>1. T \in SUBSET Nat
      BY <1>1
    <3> HIDE DEF T
    <3> QED
      BY <3>1, LeastNatural
  <2>2. n \in 0..Len(l) /\ n \in Nat /\ ~Agree(n)
    BY <1>1, <2>1
  <2>3. CASE n = 0
    <3>1. \A stone \in Stones : HeldBy(l, 0, stone) = {} /\ stone # WinnerAt(l, 0)
      BY DEF HeldBy, WinnerAt
    <3>2. \A stone \in Stones : ~Won(0, stone)
      BY <3>1
    <3> QED
      BY <2>2, <2>3, <3>1, <3>2
  <2>4. CASE n # 0
    <3>1. n - 1 \in 0..Len(l) - 1 /\ n - 1 \in 0..Len(l) /\ ~(n <= n - 1) /\ n \in 1..n
      BY <1>1, <2>2, <2>4
    <3>2. \A stone \in Stones : ~Won(n - 1, stone)
      <4>1. Agree(n - 1)
        BY <2>1, <3>1
      <4>2. WinnerAt(l, n - 1) = Nothing
        BY <3>1 DEF IsLine
      <4> QED
        BY <4>1, <4>2
    <3>3. /\ \A i \in 1..n : l[i] \in Cells /\ CellsAt(l, n)[l[i]] = Stone(i)
          /\ \A c \in Cells : CellsAt(l, n)[c] # Nothing => \E i \in 1..n : l[i] = c
      BY <2>2, CellFacts DEF IsLine
    <3>4. ASSUME NEW stone \in Stones, WinnerAt(l, n) = stone PROVE Won(n, stone)
      <4>1. HasFiveFrom(CellsAt(l, n), l[n], Stone(n)) /\ stone = Stone(n)
        BY <3>4 DEF WinnerAt
      <4>2. PICK row \in Lines : \A c \in row : CellsAt(l, n)[c] = stone
        BY <4>1 DEF HasFiveFrom
      <4>3. ASSUME NEW c \in row PROVE c \in HeldBy(l, n, stone)
        <5>1. PICK i \in 1..n : l[i] = c
          BY <3>3, <4>2
        <5>2. Stone(i) = stone
          BY <3>3, <4>2, <5>1
        <5> QED
          BY <5>1, <5>2 DEF HeldBy
      <4> QED
        BY <4>3
    <3>5. ASSUME NEW stone \in Stones, Won(n, stone) PROVE WinnerAt(l, n) = stone
      <4>1. PICK row \in Lines : row \subseteq HeldBy(l, n, stone)
        BY <3>5
      <4>2. l[n] \in row
        <5> SUFFICES ASSUME l[n] \notin row PROVE FALSE
          OBVIOUS
        <5>1. ASSUME NEW c \in row PROVE c \in HeldBy(l, n - 1, stone)
          <6>1. PICK i \in 1..n : Stone(i) = stone /\ l[i] = c
            BY <4>1 DEF HeldBy
          <6>2. i \in 1..n - 1
            BY <2>2, <6>1
          <6> QED
            BY <6>1, <6>2 DEF HeldBy
        <5> QED
          BY <3>2, <5>1
      <4>3. ASSUME NEW c \in row PROVE CellsAt(l, n)[c] = stone
        BY <3>3, <4>1 DEF HeldBy
      <4>4. stone = Stone(n)
        BY <3>1, <3>3, <4>2, <4>3
      <4>5. HasFiveFrom(CellsAt(l, n), l[n], Stone(n))
        BY <4>2, <4>3, <4>4 DEF HasFiveFrom
      <4> QED
        BY <2>4, <4>4, <4>5 DEF WinnerAt
    <3> QED
      BY <2>2, <3>4, <3>5
  <2> QED
    BY <2>3, <2>4
<1>3. ASSUME NEW n \in 0..Len(l), NEW stone \in Stones
      PROVE  Abstract!Wins(SubSeq(l, 1, n), stone) <=> Won(n, stone)
  BY <1>1, OwnedIs DEF Abstract!Wins
<1>4. \A n \in 0..Len(l) : Agree(n)
  BY <1>2
<1> HIDE DEF Won
<1> QED
  BY <1>3, <1>4

(* The result of the abstract timeline is the status of the game. *)
LEMMA ResultIs ==
  ASSUME NEW l, IsLine(l), NEW n \in 0..Len(l)
  PROVE  Abstract!Result(SubSeq(l, 1, n)) = StatusAt(l, n)
<1> DEFINE s == SubSeq(l, 1, n)
<1>1. l \in Seq(Cells) /\ Len(l) \in Nat /\ n \in Nat /\ Cardinality(Cells) \in Nat
  BY LineFits DEF IsLine
<1>2. s \in Seq(Cells) /\ Len(s) = n /\ \A i \in 1..n : s[i] = l[i]
  BY <1>1, OwnedIs
<1>3. s \in [1..n -> Cells]
  BY <1>2, LenProperties
<1>4. /\ Abstract!Wins(s, "Black") <=> WinnerAt(l, n) = "Black"
      /\ Abstract!Wins(s, "White") <=> WinnerAt(l, n) = "White"
  BY WinsIs DEF Stones
<1>5. WinnerAt(l, n) \in {"Black", "White", Nothing}
  BY <1>1, StoneFacts DEF WinnerAt, Stones
<1>6. "Black" # Nothing /\ "White" # Nothing
  BY DEF Stones
<1> HIDE DEF s
<1>7. ToSet(s) = Cells <=> n = Cardinality(Cells)
  <2>1. s \in Injection(1..n, Cells)
    <3>1. \A i, j \in 1..n : s[i] = s[j] => i = j
      BY <1>1, <1>2 DEF IsLine
    <3> QED
      BY <1>3, <3>1 DEF Injection, IsInjective
  <2>2. Cardinality(1..n) = Cardinality(Cells) <=> s \in Surjection(1..n, Cells)
    BY <2>1, FS_Injection
  <2>3. Cardinality(1..n) = n
    BY <1>1, FS_Interval
  <2>4. s \in Surjection(1..n, Cells) <=> ToSet(s) = Cells
    BY <1>3 DEF Surjection, ToSet
  <2> QED
    BY <2>2, <2>3, <2>4
<1>8. Abstract!ToSet(s) = ToSet(s)
  BY DEF Abstract!ToSet, ToSet
<1>9. Abstract!Result(s) = StatusAt(l, n)
  BY <1>4, <1>5, <1>6, <1>7, <1>8 DEF Abstract!Result, StatusAt
<1> QED
  BY <1>9 DEF s

(* A line of play is a lawful one. *)
LEMMA LawfulIs ==
  ASSUME NEW l, IsLine(l)
  PROVE  Abstract!Lawful(l)
<1>1. l \in Seq(Cells) /\ Len(l) \in Nat /\ DOMAIN l = 1..Len(l)
  BY LenProperties DEF IsLine
<1>2. Abstract!IsInjective(l)
  BY <1>1 DEF Abstract!IsInjective, IsLine
<1>3. ASSUME NEW k \in 0..Len(l) - 1 PROVE Abstract!Result(SubSeq(l, 1, k)) = "Ongoing"
  <2>1. k \in 0..Len(l)
    BY <1>1
  <2> QED
    BY <2>1, ResultIs, StillOpen
<1> QED
  BY <1>2, <1>3 DEF Abstract!Lawful

(* What the abstract timeline shows of a game on a line. *)
LEMMA ShownIs ==
  ASSUME NEW l, IsLine(l), NEW n \in 0..Len(l)
  PROVE  /\ GameAt(l, n).position.cells = Abstract!Board(SubSeq(l, 1, n))
         /\ GameAt(l, n).status = Abstract!Result(SubSeq(l, 1, n))
<1>1. l \in Seq(Cells)
  BY DEF IsLine
<1> QED
  BY <1>1, OwnedIs, ResultIs DEF GameAt, PositionAt

(* What the abstract timeline shows after a step. *)
LEMMA ShowIs ==
  ASSUME NEW l, IsLine(l), NEW n \in 0..Len(l), game' = GameAt(l, n)
  PROVE  Abstract!Show(l, n)
<1>1. /\ Moves(game') \o Reverse(game'.future) = l
      /\ Len(game'.history) = n
  BY LineOf
<1>2. (Moves(game) \o Reverse(game.future))' = Moves(game') \o Reverse(game'.future)
  BY DEF Moves, Reverse
<1>3. /\ game'.position.cells = Abstract!Board(SubSeq(l, 1, n))
      /\ game'.status = Abstract!Result(SubSeq(l, 1, n))
  BY ShownIs
<1> QED
  BY <1>1, <1>2, <1>3 DEF Abstract!Show

(* Game implements the abstract timeline, its incremental winner and status included. *)
THEOREM ImplementsAbstract == Spec => ImplementsTimeline
<1>1. Init => Abstract!Init
  <2> SUFFICES ASSUME Init PROVE Abstract!Init
    OBVIOUS
  <2>1. IsLine(<<>>) /\ game = GameAt(<<>>, 0) /\ Len(<<>>) = 0 /\ 0 \in 0..Len(<<>>)
    BY NewGameIs DEF Init
  <2>2. SubSeq(<<>>, 1, 0) = <<>>
    BY SubSeqEmpty
  <2>3. /\ Moves(game) \o Reverse(game.future) = <<>> /\ Len(game.history) = 0
        /\ game.position.cells = Abstract!Board(<<>>) /\ game.status = "Ongoing"
    <3>1. Moves(GameAt(<<>>, 0)) \o Reverse(GameAt(<<>>, 0).future) = <<>>
          /\ Len(GameAt(<<>>, 0).history) = 0
      BY <2>1, LineOf
    <3>2. GameAt(<<>>, 0).position.cells = Abstract!Board(SubSeq(<<>>, 1, 0))
      BY <2>1, ShownIs
    <3>3. game.status = "Ongoing"
      BY DEF Init, NewGame
    <3> QED
      BY <2>1, <2>2, <3>1, <3>2, <3>3
  <2> QED
    BY <2>3 DEF Abstract!Init
<1>2. GameInv /\ [Next]_game => [Abstract!Next]_(Abstract!vars)
  <2> SUFFICES ASSUME GameInv, [Next]_game PROVE [Abstract!Next]_(Abstract!vars)
    OBVIOUS
  <2>1. CASE UNCHANGED game
    BY <2>1 DEF Abstract!vars, Moves, Reverse
  <2>2. CASE Next
    <3>1. PICK l : \E n \in 0..Len(l) : IsLine(l) /\ game = GameAt(l, n)
      BY DEF GameInv
    <3>2. PICK n \in 0..Len(l) : IsLine(l) /\ game = GameAt(l, n)
      BY <3>1
    <3>3. /\ Moves(game) \o Reverse(game.future) = l /\ Len(game.history) = n
          /\ l \in Seq(Cells) /\ Len(l) \in Nat
      BY <3>2, LineOf, LineFits DEF IsLine
    <3>4. ASSUME NEW at \in Cells, Playable(game, at), IsLine(Cut(l, n, at)),
                 Len(Cut(l, n, at)) = n + 1, game' = GameAt(Cut(l, n, at), n + 1)
          PROVE  Abstract!Play(at)
      <4>1. Abstract!Show(Cut(l, n, at), n + 1)
        <5>1. n + 1 \in 0..Len(Cut(l, n, at))
          BY <3>4
        <5> QED
          BY <3>4, <5>1, ShowIs
      <4>2. game.position.cells[at] = Nothing /\ game.status = "Ongoing"
        BY <3>4 DEF Playable, Legal
      <4> QED
        BY <3>3, <4>1, <4>2 DEF Abstract!Play, Cut
    <3>5. ASSUME NEW m \in 0..Len(l), game' = GameAt(l, m) PROVE Abstract!Seek(m)
      BY <3>2, <3>3, <3>5, ShowIs DEF Abstract!Seek
    <3>6. ASSUME NEW moves \in Records, IsLine(moves), game' = GameAt(moves, Len(moves))
          PROVE  Abstract!Start
      <4>1. moves \in Seq(Cells) /\ Abstract!Lawful(moves) /\ Len(moves) \in 0..Len(moves)
        BY <3>6, LawfulIs, LineFits DEF IsLine
      <4>2. Abstract!Show(moves, Len(moves))
        BY <3>6, <4>1, ShowIs
      <4> QED
        BY <4>1, <4>2 DEF Abstract!Start, Abstract!Show
    <3>7. CASE \E at \in Cells : /\ Playable(game, at) /\ IsLine(Cut(l, n, at))
                                 /\ Len(Cut(l, n, at)) = n + 1
                                 /\ game' = GameAt(Cut(l, n, at), n + 1)
      BY <3>4, <3>7 DEF Abstract!Next
    <3>8. CASE \E m \in 0..Len(l) : game' = GameAt(l, m)
      BY <3>3, <3>5, <3>8 DEF Abstract!Next
    <3>9. CASE \E moves \in Records : IsLine(moves) /\ game' = GameAt(moves, Len(moves))
      BY <3>6, <3>9 DEF Abstract!Next
    <3> QED
      BY <2>2, <3>2, <3>7, <3>8, <3>9, StepIs
  <2> QED
    BY <2>1, <2>2
<1> QED
  BY <1>1, <1>2, GameIsALine, PTL DEF Spec, Abstract!Spec, ImplementsTimeline

HIDE RecordsAssumption

-----------------------------------------------------------------------------
(* A fold over a finite set is the function that agrees with each step of it. *)
LEMMA FoldAgrees ==
  ASSUME NEW S, IsFiniteSet(S), NEW g, NEW h, g[{}] = h[{}],
         \A s \in SUBSET S : s # {} /\ (\A x \in s : g[s \ {x}] = h[s \ {x}]) => g[s] = h[s]
  PROVE  g[S] = h[S]
<1> DEFINE Bad == {s \in SUBSET S : g[s] # h[s]}
<1>1. \A s \in SUBSET S : IsFiniteSet(s) /\ Cardinality(s) \in Nat
  BY FS_Subset, FS_CardinalityType
<1>2. ASSUME Bad # {} PROVE FALSE
  <2>1. PICK s \in Bad : \A t \in Bad : Cardinality(s) <= Cardinality(t)
    BY <1>1, <1>2, LeastSet
  <2>2. ASSUME NEW x \in s PROVE g[s \ {x}] = h[s \ {x}]
    <3>1. Cardinality(s \ {x}) < Cardinality(s) /\ s \ {x} \in SUBSET S
      BY <1>1, OneLess
    <3>2. Cardinality(s \ {x}) \in Nat /\ Cardinality(s) \in Nat
      BY <1>1, <3>1
    <3> QED
      BY <2>1, <3>1, <3>2
  <2> QED
    BY <2>1, <2>2
<1> QED
  BY <1>2

-----------------------------------------------------------------------------
(* Sums over finite sets, which change as much as their terms do. *)

SumOf(f, S) == (CHOOSE g : Summing(f, S, g))[S]

(* A sum is what any function that sums step by step says. *)
LEMMA SumIs ==
  ASSUME NEW f, NEW S, IsFiniteSet(S), NEW T, IsFiniteSet(T), S \in SUBSET T, NEW g, Summing(f, T, g)
  PROVE  SumOf(f, S) = g[S]
<1> DEFINE h == CHOOSE h : Summing(f, S, h)
<1>1. Summing(f, S, h)
  BY SummingExists, Zenon
<1>2. SumOf(f, S) = h[S]
  BY DEF SumOf
<1> HIDE DEF h
<1> QED
  BY <1>1, <1>2, SummingAgrees

(* The sum of nothing. *)
LEMMA SumEmpty == ASSUME NEW f PROVE SumOf(f, {}) = 0
<1>1. IsFiniteSet({})
  BY FS_EmptySet
<1>2. PICK g : Summing(f, {}, g)
  BY <1>1, SummingExists
<1>3. g[{}] = 0
  BY <1>2 DEF Summing
<1> QED
  BY <1>1, <1>2, <1>3, SumIs

(* A sum is one of its terms and the rest. *)
LEMMA SumChosen ==
  ASSUME NEW f, NEW S, IsFiniteSet(S), S # {}
  PROVE  \E c \in S : SumOf(f, S) = f[c] + SumOf(f, S \ {c})
<1> DEFINE c == CHOOSE c \in S : TRUE
<1>1. PICK g : Summing(f, S, g)
  BY SummingExists
<1>2. g[S] = f[c] + g[S \ {c}]
  BY <1>1 DEF Summing
<1>3. c \in S
  OBVIOUS
<1> HIDE DEF c
<1>4. IsFiniteSet(S \ {c}) /\ S \ {c} \in SUBSET S
  BY <1>3, OneLess
<1>5. SumOf(f, S) = g[S] /\ SumOf(f, S \ {c}) = g[S \ {c}]
  BY <1>1, <1>4, SumIs
<1> QED
  BY <1>2, <1>3, <1>5

(* A sum of integers is an integer. *)
LEMMA SumInt ==
  ASSUME NEW S, IsFiniteSet(S), NEW f, \A x \in S : f[x] \in Int
  PROVE  SumOf(f, S) \in Int
<1> DEFINE Bad == {s \in SUBSET S : SumOf(f, s) \notin Int}
<1>1. \A s \in SUBSET S : IsFiniteSet(s) /\ Cardinality(s) \in Nat
  BY FS_Subset, FS_CardinalityType
<1>2. ASSUME Bad # {} PROVE FALSE
  <2>1. PICK s \in Bad : \A t \in Bad : Cardinality(s) <= Cardinality(t)
    BY <1>1, <1>2, LeastSet
  <2>2. CASE s = {}
    BY <2>1, <2>2, SumEmpty
  <2>3. CASE s # {}
    <3>1. PICK c \in s : SumOf(f, s) = f[c] + SumOf(f, s \ {c})
      BY <1>1, <2>3, SumChosen
    <3>2. Cardinality(s \ {c}) < Cardinality(s) /\ s \ {c} \in SUBSET S
      BY <1>1, OneLess
    <3>3. Cardinality(s \ {c}) \in Nat /\ Cardinality(s) \in Nat
      BY <1>1, <3>2
    <3>4. SumOf(f, s \ {c}) \in Int
      BY <2>1, <3>2, <3>3
    <3> QED
      BY <2>1, <3>1, <3>4
  <2> QED
    BY <2>2, <2>3
<1> QED
  BY <1>2

(* Any term can be taken out of a sum: the order does not matter. *)
LEMMA SumAny ==
  ASSUME NEW S, IsFiniteSet(S), NEW f, \A x \in S : f[x] \in Int, NEW x \in S
  PROVE  SumOf(f, S) = f[x] + SumOf(f, S \ {x})
<1> DEFINE Good(s) == \A y \in s : SumOf(f, s) = f[y] + SumOf(f, s \ {y})
           Bad == {s \in SUBSET S : ~ Good(s)}
<1>1. \A s \in SUBSET S : IsFiniteSet(s) /\ Cardinality(s) \in Nat /\ SumOf(f, s) \in Int
  <2>1. \A s \in SUBSET S : IsFiniteSet(s) /\ Cardinality(s) \in Nat
    BY FS_Subset, FS_CardinalityType
  <2> QED
    BY <2>1, SumInt
<1>2. ASSUME Bad # {} PROVE FALSE
  <2>1. PICK s \in Bad : \A t \in Bad : Cardinality(s) <= Cardinality(t)
    BY <1>1, <1>2, LeastSet
  <2>2. PICK y \in s : SumOf(f, s) # f[y] + SumOf(f, s \ {y})
    BY <2>1
  <2>3. PICK c \in s : SumOf(f, s) = f[c] + SumOf(f, s \ {c})
    BY <1>1, <2>2, SumChosen
  <2>4. c # y
    BY <2>2, <2>3
  <2> DEFINE less == s \ {c}  other == s \ {y}  both == s \ {c, y}
  <2>5. /\ Cardinality(less) < Cardinality(s) /\ less \in SUBSET S
        /\ Cardinality(other) < Cardinality(s) /\ other \in SUBSET S
    BY <1>1, OneLess
  <2>6. Cardinality(less) \in Nat /\ Cardinality(other) \in Nat /\ Cardinality(s) \in Nat
    BY <1>1, <2>5
  <2>7. less \notin Bad /\ other \notin Bad
    BY <2>1, <2>5, <2>6
  <2>8. Good(less) /\ Good(other)
    BY <2>5, <2>7
  <2>9. y \in less /\ c \in other /\ less \ {y} = both /\ other \ {c} = both /\ both \in SUBSET S
    BY <2>4
  <2>10. SumOf(f, less) = f[y] + SumOf(f, both) /\ SumOf(f, other) = f[c] + SumOf(f, both)
    BY <2>8, <2>9
  <2>11. f[c] \in Int /\ f[y] \in Int /\ SumOf(f, both) \in Int
    BY <1>1, <2>9
  <2> QED
    BY <2>2, <2>3, <2>10, <2>11
<1> QED
  BY <1>2

(* Equal terms have equal sums. *)
LEMMA SumSame ==
  ASSUME NEW S, IsFiniteSet(S), NEW f, NEW g, \A x \in S : f[x] = g[x]
  PROVE  SumOf(f, S) = SumOf(g, S)
<1> DEFINE F(k, h) == h = [s \in SUBSET S |-> IF s = {} THEN 0
                             ELSE LET x == CHOOSE x \in s : TRUE IN k[x] + h[s \ {x}]]
<1>1. ASSUME NEW h PROVE F(f, h) <=> F(g, h)
  <2>1. ASSUME NEW s \in SUBSET S, s # {}
        PROVE  (LET x == CHOOSE x \in s : TRUE IN f[x] + h[s \ {x}])
                 = (LET x == CHOOSE x \in s : TRUE IN g[x] + h[s \ {x}])
    <3> DEFINE x == CHOOSE x \in s : TRUE
    <3>1. x \in s
      BY <2>1
    <3> HIDE DEF x
    <3>2. f[x] + h[s \ {x}] = g[x] + h[s \ {x}]
      BY <3>1
    <3> QED
      BY <3>2 DEF x
  <2> QED
    BY <2>1
<1>2. PICK h : Summing(f, S, h)
  BY SummingExists
<1>3. F(f, h)
  BY <1>2, Zenon DEF Summing
<1>5. F(g, h)
  BY <1>1, <1>3
<1>4. Summing(g, S, h) /\ S \in SUBSET S
  BY <1>5, Zenon DEF Summing
<1> HIDE DEF F
<1>6. SumOf(f, S) = h[S]
  BY <1>2, <1>4, SumIs
<1>7. SumOf(g, S) = h[S]
  BY <1>4, SumIs
<1> QED
  BY <1>6, <1>7

(* Where the terms of a sum move by h, wherever they are, so does the sum. *)
(* Every term that changes from f to g is one of T, with its change h. *)
Moving(S, f, g, T, h, e) ==
  /\ \A x \in S : f[x] \in Int /\ g[x] \in Int
  /\ \A t \in T : e[t] \in S /\ h[t] = g[e[t]] - f[e[t]]
  /\ \A t, u \in T : e[t] = e[u] => t = u
  /\ \A x \in S : f[x] # g[x] => \E t \in T : e[t] = x

(* A sum changes by the sum of what its changed terms change by. *)
LEMMA SumMoves ==
  ASSUME NEW S, IsFiniteSet(S), NEW T, IsFiniteSet(T), NEW f, NEW g, NEW h, NEW e,
         Moving(S, f, g, T, h, e)
  PROVE  SumOf(g, S) = SumOf(f, S) + SumOf(h, T)
<1> USE DEF Moving
<1> DEFINE Part(U) == [x \in S |-> IF \E t \in U : e[t] = x THEN g[x] ELSE f[x]]
           Good(U) == SumOf(Part(U), S) = SumOf(f, S) + SumOf(h, U)
           Bad == {U \in SUBSET T : ~ Good(U)}
<1>1. \A s \in SUBSET T : IsFiniteSet(s) /\ Cardinality(s) \in Nat
  BY FS_Subset, FS_CardinalityType
<1>2. \A t \in T : h[t] \in Int
  OBVIOUS
<1>3. ASSUME Bad # {} PROVE FALSE
  <2>1. PICK U \in Bad : \A V \in Bad : Cardinality(U) <= Cardinality(V)
    BY <1>1, <1>3, LeastSet
  <2>2. CASE U = {}
    <3>1. SumOf(Part(U), S) = SumOf(f, S)
      BY <2>2, SumSame
    <3>2. SumOf(f, S) \in Int /\ SumOf(h, U) = 0
      BY <2>2, SumInt, SumEmpty
    <3> QED
      BY <2>1, <3>1, <3>2
  <2>3. CASE U # {}
    <3>1. PICK t \in U : TRUE
      BY <2>3
    <3> DEFINE V == U \ {t}  x == e[t]
    <3>2. Cardinality(V) < Cardinality(U) /\ V \in SUBSET T
      BY <1>1, OneLess
    <3>3. Cardinality(V) \in Nat /\ Cardinality(U) \in Nat /\ IsFiniteSet(U) /\ IsFiniteSet(V)
      BY <1>1, <3>2
    <3>4. V \notin Bad
      BY <2>1, <3>2, <3>3
    <3>5. Good(V)
      BY <3>2, <3>4
    <3>6. x \in S /\ (\A y \in S : Part(U)[y] \in Int /\ Part(V)[y] \in Int)
      OBVIOUS
    <3>7. Part(U)[x] = g[x] /\ Part(V)[x] = f[x]
      BY <3>6
    <3>8. \A y \in S \ {x} : Part(U)[y] = Part(V)[y]
      OBVIOUS
    <3> HIDE DEF Part, V, x
    <3>9. IsFiniteSet(S \ {x})
      BY <3>6, OneLess
    <3>10. SumOf(Part(U), S \ {x}) = SumOf(Part(V), S \ {x})
      BY <3>8, <3>9, SumSame
    <3>11. /\ SumOf(Part(U), S) = g[x] + SumOf(Part(U), S \ {x})
           /\ SumOf(Part(V), S) = f[x] + SumOf(Part(V), S \ {x})
      BY <3>6, <3>7, SumAny
    <3>12. SumOf(Part(V), S \ {x}) \in Int
      BY <3>6, <3>9, SumInt
    <3>13. SumOf(h, U) = h[t] + SumOf(h, V) /\ SumOf(h, V) \in Int /\ SumOf(f, S) \in Int
      <4>1. SumOf(h, U) = h[t] + SumOf(h, U \ {t})
        BY <1>2, <3>3, SumAny
      <4>2. SumOf(h, V) \in Int
        BY <1>2, <3>2, <3>3, SumInt
      <4> QED
        BY <4>1, <4>2, SumInt DEF V
    <3>14. h[t] = g[x] - f[x] /\ g[x] \in Int /\ f[x] \in Int
      BY <3>6 DEF x
    <3>15. Good(U)
      BY <3>5, <3>10, <3>11, <3>12, <3>13, <3>14
    <3> QED
      BY <2>1, <3>15
  <2> QED
    BY <2>2, <2>3
<1>4. Good(T)
  BY <1>3
<1>5. SumOf(Part(T), S) = SumOf(g, S)
  <2>1. \A x \in S : Part(T)[x] = g[x]
    OBVIOUS
  <2> HIDE DEF Part
  <2> QED
    BY <2>1, SumSame
<1> QED
  BY <1>4, <1>5

-----------------------------------------------------------------------------
(* Positions and moves. *)

Occupied(p) == {c \in Cells : p.cells[c] # Nothing}
WellFormed(p) == p \in Positions /\ p.count = Cardinality(Occupied(p))

(* What a legal move changes in a position, and that it is taken back. *)
LEMMA MoveIs ==
  ASSUME NEW p, WellFormed(p), NEW at \in Cells, Legal(p, at), NEW q, q = MakeMove(p, at)
  PROVE  /\ WellFormed(q)
         /\ at \notin Occupied(p) /\ Occupied(q) = Occupied(p) \cup {at}
         /\ p.cells[at] = Nothing /\ q.cells[at] = p.side /\ p.side \in Stones
         /\ \A c \in Cells : c # at => q.cells[c] = p.cells[c]
         /\ q.side = Opponent(p.side) /\ q.last = at
         /\ UnmakeMove(q, Token(p, at)) = p
<1>1. /\ p = [cells |-> p.cells, side |-> p.side, count |-> p.count, last |-> p.last, winner |-> p.winner]
      /\ p.cells \in [Cells -> Stones \cup {Nothing}] /\ p.side \in Stones /\ p.count \in Nat
      /\ p.last \in Cells \cup {Nothing} /\ p.winner \in Stones \cup {Nothing}
      /\ p.count = Cardinality(Occupied(p)) /\ p.cells[at] = Nothing
  BY DEF WellFormed, Positions, Legal
<1> DEFINE cells == [p.cells EXCEPT ![at] = p.side]
           winner == IF HasFiveFrom(cells, at, p.side) THEN p.side ELSE Nothing
<1>2. /\ q.cells = cells /\ q.side = Opponent(p.side) /\ q.count = p.count + 1 /\ q.last = at
      /\ q = [cells |-> cells, side |-> Opponent(p.side), count |-> p.count + 1, last |-> at,
              winner |-> winner]
  BY DEF MakeMove
<1>3. /\ cells \in [Cells -> Stones \cup {Nothing}] /\ cells[at] = p.side
      /\ \A c \in Cells : c # at => cells[c] = p.cells[c]
  BY <1>1
<1>4. [cells EXCEPT ![at] = Nothing] = p.cells
  BY <1>1
<1>5. winner \in Stones \cup {Nothing}
  BY <1>1
<1> HIDE DEF cells, winner
<1>6. Occupied(q) = Occupied(p) \cup {at} /\ at \notin Occupied(p)
  BY <1>1, <1>2, <1>3 DEF Occupied
<1>7. IsFiniteSet(Occupied(p))
  BY FS_Subset DEF Occupied
<1>8. Cardinality(Occupied(q)) = Cardinality(Occupied(p)) + 1
  BY <1>6, <1>7, FS_AddElement
<1>9. q \in Positions
  <2>1. Opponent(p.side) \in Stones /\ p.count + 1 \in Nat
    BY <1>1 DEF Opponent, Stones
  <2> QED
    BY <2>1, <1>2, <1>3, <1>5 DEF Positions
<1>10. UnmakeMove(q, Token(p, at)) = p
  <2>1. p.count + 1 - 1 = p.count
    BY <1>1
  <2>2. UnmakeMove(q, Token(p, at))
          = [cells |-> [cells EXCEPT ![at] = Nothing], side |-> p.side, count |-> p.count + 1 - 1,
             last |-> p.last, winner |-> p.winner]
    <3>1. Token(p, at).played = at /\ Token(p, at).stone = p.side /\ Token(p, at).last = p.last
          /\ Token(p, at).winner = p.winner
      BY DEF Token
    <3> DEFINE t == Token(p, at)
    <3>2. UnmakeMove(q, t)
            = [cells |-> [q.cells EXCEPT ![t.played] = Nothing], side |-> t.stone,
               count |-> q.count - 1, last |-> t.last, winner |-> t.winner]
      BY DEF UnmakeMove
    <3>3. [q.cells EXCEPT ![t.played] = Nothing] = [cells EXCEPT ![at] = Nothing]
      BY <1>2, <3>1
    <3> HIDE DEF t
    <3>5. q.count = p.count + 1
      BY <1>2
    <3>4. q.count - 1 = p.count + 1 - 1
      BY <1>1, <3>5
    <3> QED
      BY <3>1, <3>2, <3>3, <3>4 DEF t
  <2> QED
    BY <1>1, <1>4, <2>1, <2>2
<1> QED
  BY <1>1, <1>2, <1>3, <1>6, <1>8, <1>9, <1>10 DEF WellFormed

-----------------------------------------------------------------------------
(* The key. *)

(* Toggling both side keys changes the side in the key. *)
LEMMA SidesToggle ==
  ASSUME NEW stone \in Stones
  PROVE  /\ Xor(SideKey(stone), SideKey("Black") \cup SideKey("White")) = SideKey(Opponent(stone))
         /\ Opponent(stone) # stone /\ Opponent(Opponent(stone)) = stone /\ Opponent(stone) \in Stones
<1>1. "Black" # "White"
  OBVIOUS
<1> QED
  BY DEF Xor, SideKey, Opponent, Stones

PiecesOf(p) == {<<p.cells[c], c>> : c \in Occupied(p)}

(* One toggle is the key of the next position, another the key of the one  *)
(* before.                                                                 *)
LEMMA KeyMoves ==
  ASSUME NEW p, WellFormed(p), NEW at \in Cells, Legal(p, at), NEW q, q = MakeMove(p, at)
  PROVE  /\ ToggleMove(KeyOf(p), at, p.side) = KeyOf(q)
         /\ ToggleMove(KeyOf(q), at, p.side) = KeyOf(p)
<1>1. /\ at \notin Occupied(p) /\ Occupied(q) = Occupied(p) \cup {at}
      /\ q.cells[at] = p.side /\ p.side \in Stones
      /\ \A c \in Cells : c # at => q.cells[c] = p.cells[c]
      /\ q.side = Opponent(p.side)
  BY MoveIs
<1>2. Occupied(p) \subseteq Cells
  BY DEF Occupied
<1>3. PiecesOf(q) = PiecesOf(p) \cup {<<p.side, at>>}
  BY <1>1, <1>2 DEF PiecesOf
<1>4. <<p.side, at>> \notin PiecesOf(p)
  BY <1>1 DEF PiecesOf
<1>5. \A s : <<s, Nothing>> \notin PiecesOf(p) /\ <<s, Nothing>> # <<p.side, at>>
  BY <1>2 DEF PiecesOf
<1>6. KeyOf(p) = SideKey(p.side) \cup PiecesOf(p) /\ KeyOf(q) = SideKey(q.side) \cup PiecesOf(q)
  BY DEF KeyOf, PiecesOf, Occupied
<1>7. /\ Opponent(p.side) # p.side /\ {p.side, Opponent(p.side)} = {"Black", "White"}
  BY <1>1 DEF Opponent, Stones
<1> DEFINE one == <<p.side, Nothing>>  two == <<Opponent(p.side), Nothing>>  x == <<p.side, at>>
<1>8. one # two /\ one # x /\ two # x
  BY <1>5, <1>7
<1>9. SideKey("Black") \cup SideKey("White") = {one, two} /\ SideKey(p.side) = {one}
      /\ SideKey(Opponent(p.side)) = {two} /\ PieceKey(p.side, at) = {x}
  BY <1>7 DEF SideKey, PieceKey
<1>10. one \notin PiecesOf(p) /\ two \notin PiecesOf(p) /\ x \notin PiecesOf(p)
  BY <1>4, <1>5
<1> DEFINE pieces == PiecesOf(p)
<1>11. KeyOf(p) = {one} \cup pieces /\ KeyOf(q) = {two} \cup (pieces \cup {x})
  BY <1>1, <1>3, <1>6, <1>9
<1> HIDE DEF one, two, x, pieces
<1>12. /\ Xor(Xor({one} \cup pieces, {one, two}), {x}) = {two} \cup (pieces \cup {x})
       /\ Xor(Xor({two} \cup (pieces \cup {x}), {one, two}), {x}) = {one} \cup pieces
  BY <1>8, <1>10 DEF Xor, pieces
<1> QED
  BY <1>9, <1>11, <1>12 DEF ToggleMove, ToggleAnalysisTurn

(* A pass and its end toggle the sides alone. *)
LEMMA KeyPasses ==
  ASSUME NEW p, WellFormed(p), NEW q, q = [p EXCEPT !.side = Opponent(@)]
  PROVE  ToggleAnalysisTurn(KeyOf(p)) = KeyOf(q) /\ ToggleAnalysisTurn(KeyOf(q)) = KeyOf(p)
<1>1. p.side \in Stones /\ q.side = Opponent(p.side) /\ q.cells = p.cells
  BY DEF WellFormed, Positions
<1>2. Opponent(p.side) # p.side /\ {p.side, Opponent(p.side)} = {"Black", "White"}
  BY <1>1 DEF Opponent, Stones
<1> DEFINE one == <<p.side, Nothing>>  two == <<Opponent(p.side), Nothing>>  pieces == PiecesOf(p)
<1>3. one \notin pieces /\ two \notin pieces
  BY DEF PiecesOf, Occupied
<1>4. KeyOf(p) = {one} \cup pieces /\ KeyOf(q) = {two} \cup pieces
  BY <1>1 DEF KeyOf, SideKey, PiecesOf, Occupied
<1>5. SideKey("Black") \cup SideKey("White") = {one, two} /\ one # two
  BY <1>2 DEF SideKey
<1> HIDE DEF one, two, pieces
<1>6. Xor({one} \cup pieces, {one, two}) = {two} \cup pieces
      /\ Xor({two} \cup pieces, {one, two}) = {one} \cup pieces
  BY <1>3, <1>5 DEF Xor
<1> QED
  BY <1>4, <1>5, <1>6 DEF ToggleAnalysisTurn

-----------------------------------------------------------------------------
(* The frontier of some stones: the cells near one of them, and near how   *)
(* many of them.                                                           *)
NearTo(S, c) == {d \in S : c \in Near[d]}

FrontierAt(S) ==
  [occupied |-> S, frontier |-> (UNION {Near[d] : d \in S}),
   counts |-> [c \in Cells |-> Cardinality(NearTo(S, c))]]

(* A stone put down counts for the cells near it. *)
LEMMA FrontierMakeIs ==
  ASSUME NEW S \in SUBSET Cells, NEW at \in S
  PROVE  FrontierMake(FrontierAt(S \ {at}), at) = FrontierAt(S)
<1> DEFINE R == S \ {at}
<1>1. IsFiniteSet(S) /\ Near \in [Cells -> SUBSET Cells]
  BY FS_Subset, NearAssumption
<1>2. ASSUME NEW c \in Cells
      PROVE  Cardinality(NearTo(S, c))
               = IF c \in Near[at] THEN Cardinality(NearTo(R, c)) + 1 ELSE Cardinality(NearTo(R, c))
  <2>1. CASE c \in Near[at]
    <3>1. NearTo(S, c) = NearTo(R, c) \cup {at} /\ at \notin NearTo(R, c) /\ NearTo(R, c) \subseteq S
      BY <2>1 DEF NearTo
    <3>2. IsFiniteSet(NearTo(R, c))
      BY <1>1, <3>1, FS_Subset
    <3> QED
      BY <2>1, <3>1, <3>2, FS_AddElement
  <2>2. CASE c \notin Near[at]
    <3>1. NearTo(S, c) = NearTo(R, c)
      BY <2>2 DEF NearTo
    <3> QED
      BY <2>2, <3>1
  <2> QED
    BY <2>1, <2>2
<1>3. (UNION {Near[d] : d \in S}) = (UNION {Near[d] : d \in R}) \cup Near[at] /\ S = R \cup {at}
  OBVIOUS
<1> HIDE DEF R
<1>4. [c \in Cells |-> Cardinality(NearTo(S, c))]
        = [c \in Cells |-> IF c \in Near[at] THEN Cardinality(NearTo(R, c)) + 1
                                             ELSE Cardinality(NearTo(R, c))]
  BY <1>2
<1>5. FrontierMake(FrontierAt(R), at)
        = [occupied |-> R \cup {at}, frontier |-> (UNION {Near[d] : d \in R}) \cup Near[at],
           counts |-> [c \in Cells |-> IF c \in Near[at] THEN Cardinality(NearTo(R, c)) + 1
                                                         ELSE Cardinality(NearTo(R, c))]]
  BY Zenon DEF FrontierMake, FrontierAt
<1> QED
  BY <1>3, <1>4, <1>5 DEF R, FrontierAt

(* A stone taken away no longer counts for the cells near it. *)
LEMMA FrontierUnmakeIs ==
  ASSUME NEW S \in SUBSET Cells, NEW at \in S
  PROVE  FrontierUnmake(FrontierAt(S), at) = FrontierAt(S \ {at})
<1> DEFINE R == S \ {at}
<1>1. IsFiniteSet(S) /\ Near \in [Cells -> SUBSET Cells]
  BY FS_Subset, NearAssumption
<1>2. ASSUME NEW c \in Cells
      PROVE  /\ Cardinality(NearTo(R, c))
                  = IF c \in Near[at] THEN Cardinality(NearTo(S, c)) - 1 ELSE Cardinality(NearTo(S, c))
             /\ c \in Near[at] => (Cardinality(NearTo(S, c)) = 1 <=> NearTo(R, c) = {})
  <2>1. CASE c \in Near[at]
    <3>1. NearTo(S, c) = NearTo(R, c) \cup {at} /\ at \notin NearTo(R, c) /\ NearTo(R, c) \subseteq S
      BY <2>1 DEF NearTo
    <3>2. IsFiniteSet(NearTo(R, c))
      BY <1>1, <3>1, FS_Subset
    <3>3. Cardinality(NearTo(R, c)) \in Nat /\ (Cardinality(NearTo(R, c)) = 0 <=> NearTo(R, c) = {})
      BY <3>2, FS_CardinalityType, FS_EmptySet
    <3>4. Cardinality(NearTo(S, c)) = Cardinality(NearTo(R, c)) + 1
      BY <3>1, <3>2, FS_AddElement
    <3>5. /\ Cardinality(NearTo(R, c)) = Cardinality(NearTo(S, c)) - 1
          /\ Cardinality(NearTo(S, c)) = 1 <=> Cardinality(NearTo(R, c)) = 0
      BY <3>3, <3>4
    <3> QED
      BY <2>1, <3>3, <3>5, Zenon
  <2>2. CASE c \notin Near[at]
    <3>1. NearTo(S, c) = NearTo(R, c)
      BY <2>2 DEF NearTo
    <3> QED
      BY <2>2, <3>1
  <2> QED
    BY <2>1, <2>2
<1> DEFINE gone == {c \in Near[at] : Cardinality(NearTo(S, c)) = 1}
<1>3. (UNION {Near[d] : d \in R}) = (UNION {Near[d] : d \in S}) \ gone
  <2>1. gone = {c \in Near[at] : NearTo(R, c) = {}}
    BY <1>1, <1>2
  <2> HIDE DEF gone
  <2> QED
    BY <2>1, <1>1 DEF NearTo
<1>4. [c \in Cells |-> Cardinality(NearTo(R, c))]
        = [c \in Cells |-> IF c \in Near[at] THEN Cardinality(NearTo(S, c)) - 1
                                             ELSE Cardinality(NearTo(S, c))]
  BY <1>2
<1>5. FrontierUnmake(FrontierAt(S), at)
        = [occupied |-> S \ {at},
           frontier |-> (UNION {Near[d] : d \in S})
                          \ {c \in Near[at] : [x \in Cells |-> Cardinality(NearTo(S, x))][c] = 1},
           counts |-> [c \in Cells |-> IF c \in Near[at] THEN Cardinality(NearTo(S, c)) - 1
                                                         ELSE Cardinality(NearTo(S, c))]]
  BY Zenon DEF FrontierUnmake, FrontierAt
<1>6. {c \in Near[at] : [x \in Cells |-> Cardinality(NearTo(S, x))][c] = 1} = gone
  BY <1>1
<1> HIDE DEF gone
<1> QED
  BY <1>3, <1>4, <1>5, <1>6 DEF FrontierAt

(* A frontier is that of the stones on the board, in whatever order they   *)
(* came.                                                                   *)
LEMMA FrontierIs ==
  ASSUME NEW p
  PROVE  FrontierOf(p) = FrontierAt(Occupied(p))
<1> DEFINE S == Occupied(p)
           base == [occupied |-> {}, frontier |-> {}, counts |-> [c \in Cells |-> 0]]
           H(g) == [s \in SUBSET S |-> IF s = {} THEN base
                                       ELSE LET x == CHOOSE x \in s : TRUE
                                            IN FrontierMake(g[s \ {x}], x)]
           g == CHOOSE g : g = H(g)
           h == [s \in SUBSET S |-> FrontierAt(s)]
<1>1. S \in SUBSET Cells /\ IsFiniteSet(S)
  BY FS_Subset DEF Occupied
<1>2. FrontierOf(p) = g[S]
  BY DEF FrontierOf, FoldSet, MapThenFoldSet, Occupied
<1> HIDE DEF S
<1>3. base = FrontierAt({})
  <2>1. \A c \in Cells : Cardinality(NearTo({}, c)) = 0
    BY FS_EmptySet DEF NearTo
  <2> QED
    BY <2>1 DEF FrontierAt
<1>4. h = H(h)
  <2>1. ASSUME NEW s \in SUBSET S, s # {}
        PROVE  h[s] = (LET x == CHOOSE x \in s : TRUE IN FrontierMake(h[s \ {x}], x))
    <3> DEFINE x == CHOOSE x \in s : TRUE
    <3>1. x \in s
      BY <2>1
    <3> HIDE DEF x
    <3>2. h[s \ {x}] = FrontierAt(s \ {x}) /\ h[s] = FrontierAt(s) /\ s \in SUBSET Cells
      BY <1>1
    <3>3. h[s] = FrontierMake(h[s \ {x}], x)
      BY <3>1, <3>2, FrontierMakeIs
    <3> QED
      BY <3>3 DEF x
  <2>2. h[{}] = base /\ h = [s \in SUBSET S |-> h[s]]
    BY <1>3
  <2> HIDE DEF h, base
  <2> QED
    BY <2>1, <2>2
<1> HIDE DEF h
<1>5. g = H(g)
  <2> HIDE DEF H
  <2> QED
    BY <1>4, Zenon
<1> HIDE DEF g
<1>6. g[{}] = h[{}]
  BY <1>4, <1>5
<1>7. ASSUME NEW s \in SUBSET S, s # {}, \A x \in s : g[s \ {x}] = h[s \ {x}]
      PROVE  g[s] = h[s]
  <2> DEFINE x == CHOOSE x \in s : TRUE
  <2>1. x \in s
    BY <1>7
  <2>2. g[s] = FrontierMake(g[s \ {x}], x)
    BY <1>5, <1>7
  <2>3. h[s] = FrontierMake(h[s \ {x}], x)
    BY <1>4, <1>7
  <2> HIDE DEF x
  <2> QED
    BY <1>7, <2>1, <2>2, <2>3
<1> HIDE DEF H
<1>8. g[S] = h[S]
  BY <1>1, <1>6, <1>7, FoldAgrees
<1> QED
  BY <1>2, <1>8 DEF h, S

-----------------------------------------------------------------------------
(* The tables of the patterns, with the cells of K filed under their classes. *)
FiledAs(K, P, s, x) == {c \in K : P[c][s] = x}
CountsOf(K, P) == [s \in Stones |-> [x \in Profiles |-> Cardinality(FiledAs(K, P, s, x))]]
BitsOf(K, P) == [s \in Stones |-> [x \in Profiles |-> FiledAs(K, P, s, x)]]
ShownOf(K, P) == [c \in Cells |-> IF c \in K THEN P[c] ELSE AllQuiet]
Classes == [Cells -> [Stones -> Profiles]]

Tables(o, l, k, f, n, b) ==
  [occupied |-> o, lines |-> l, codes |-> k, profiles |-> f, counts |-> n, bits |-> b]

Filed(K, occupied, lines, codes, P) ==
  Tables(occupied, lines, codes, ShownOf(K, P), CountsOf(K, P), BitsOf(K, P))

(* The fields of the tables, one by one. *)
LEMMA TablesAre ==
  ASSUME NEW o, NEW l, NEW k, NEW f, NEW n, NEW b, NEW x
  PROVE  /\ Tables(o, l, k, f, n, b).occupied = o /\ Tables(o, l, k, f, n, b).lines = l
         /\ Tables(o, l, k, f, n, b).codes = k /\ Tables(o, l, k, f, n, b).profiles = f
         /\ Tables(o, l, k, f, n, b).counts = n /\ Tables(o, l, k, f, n, b).bits = b
         /\ [Tables(o, l, k, f, n, b) EXCEPT !.occupied = x] = Tables(x, l, k, f, n, b)
         /\ [Tables(o, l, k, f, n, b) EXCEPT !.lines = x] = Tables(o, x, k, f, n, b)
         /\ [Tables(o, l, k, f, n, b) EXCEPT !.codes = x] = Tables(o, l, x, f, n, b)
         /\ [Tables(o, l, k, f, n, b) EXCEPT !.profiles = x] = Tables(o, l, k, x, n, b)
         /\ [Tables(o, l, k, f, n, b) EXCEPT !.counts = x] = Tables(o, l, k, f, x, b)
         /\ [Tables(o, l, k, f, n, b) EXCEPT !.bits = x] = Tables(o, l, k, f, n, x)
<1>1. [Tables(o, l, k, f, n, b) EXCEPT !.occupied = x] = Tables(x, l, k, f, n, b)
  BY DEF Tables
<1>2. [Tables(o, l, k, f, n, b) EXCEPT !.lines = x] = Tables(o, x, k, f, n, b)
  BY DEF Tables
<1>3. [Tables(o, l, k, f, n, b) EXCEPT !.codes = x] = Tables(o, l, x, f, n, b)
  BY DEF Tables
<1>4. [Tables(o, l, k, f, n, b) EXCEPT !.profiles = x] = Tables(o, l, k, x, n, b)
  BY DEF Tables
<1>5. [Tables(o, l, k, f, n, b) EXCEPT !.counts = x] = Tables(o, l, k, f, x, b)
  BY DEF Tables
<1>6. [Tables(o, l, k, f, n, b) EXCEPT !.bits = x] = Tables(o, l, k, f, n, x)
  BY DEF Tables
<1>7. /\ Tables(o, l, k, f, n, b).occupied = o /\ Tables(o, l, k, f, n, b).lines = l
      /\ Tables(o, l, k, f, n, b).codes = k /\ Tables(o, l, k, f, n, b).profiles = f
      /\ Tables(o, l, k, f, n, b).counts = n /\ Tables(o, l, k, f, n, b).bits = b
  BY DEF Tables
<1> QED
  BY <1>1, <1>2, <1>3, <1>4, <1>5, <1>6, <1>7

(* remove_profile takes a cell out of the counts and bits alone. *)
LEMMA RemoveIs ==
  ASSUME NEW o, NEW l, NEW k, NEW f, NEW n, NEW b, NEW c
  PROVE  RemoveProfile(Tables(o, l, k, f, n, b), c)
           = Tables(o, l, k, f, Uncounted(n, f[c]), Unlisted(b, f[c], c))
<1> DEFINE t == Tables(o, l, k, f, n, b)  x == Uncounted(n, f[c])  y == Unlisted(b, f[c], c)
<1>1. t.counts = n /\ t.bits = b /\ t.profiles = f
  BY TablesAre
<1> HIDE DEF t
<1>2. RemoveProfile(t, c) = [[t EXCEPT !.counts = x] EXCEPT !.bits = y]
  BY <1>1 DEF RemoveProfile
<1> HIDE DEF x, y
<1>3. [t EXCEPT !.counts = x] = Tables(o, l, k, f, x, b)
  BY TablesAre DEF t
<1>4. [Tables(o, l, k, f, x, b) EXCEPT !.bits = y] = Tables(o, l, k, f, x, y)
  BY TablesAre
<1> QED
  BY <1>2, <1>3, <1>4 DEF t, x, y

(* add_profile files a cell under its classes. *)
LEMMA AddIs ==
  ASSUME NEW o, NEW l, NEW k, NEW f, NEW n, NEW b, NEW c, NEW r
  PROVE  AddProfile(Tables(o, l, k, f, n, b), c, r)
           = Tables(o, l, k, [f EXCEPT ![c] = r], Counted(n, r), Listed(b, r, c))
<1> DEFINE t == Tables(o, l, k, f, n, b)  x == Counted(n, r)  y == Listed(b, r, c)
           z == [f EXCEPT ![c] = r]
<1>1. t.counts = n /\ t.bits = b
  BY TablesAre
<1> HIDE DEF t
<1>2. AddProfile(t, c, r) = [[[t EXCEPT !.counts = x] EXCEPT !.bits = y] EXCEPT !.profiles[c] = r]
  BY <1>1 DEF AddProfile
<1> HIDE DEF x, y
<1>3. [t EXCEPT !.counts = x] = Tables(o, l, k, f, x, b)
  BY TablesAre DEF t
<1>4. [Tables(o, l, k, f, x, b) EXCEPT !.bits = y] = Tables(o, l, k, f, x, y)
  BY TablesAre
<1> DEFINE u == Tables(o, l, k, f, x, y)
<1>5. u.profiles = f
  BY TablesAre
<1> HIDE DEF u
<1>6. [u EXCEPT !.profiles[c] = r] = [u EXCEPT !.profiles = [u.profiles EXCEPT ![c] = r]]
  OBVIOUS
<1>7. [u EXCEPT !.profiles[c] = r] = [u EXCEPT !.profiles = z]
  BY <1>5, <1>6
<1> HIDE DEF z
<1>8. [u EXCEPT !.profiles = z] = Tables(o, l, k, z, x, y)
  BY TablesAre DEF u
<1> QED
  BY <1>2, <1>3, <1>4, <1>7, <1>8 DEF t, u, x, y, z

(* Counts and bits are those of the cells filed. *)
LEMMA FiledIs ==
  ASSUME NEW K \in SUBSET Cells, NEW P, NEW s \in Stones, NEW x \in Profiles
  PROVE  /\ CountsOf(K, P)[s][x] = Cardinality(FiledAs(K, P, s, x))
         /\ BitsOf(K, P)[s][x] = FiledAs(K, P, s, x)
         /\ IsFiniteSet(FiledAs(K, P, s, x)) /\ Cardinality(FiledAs(K, P, s, x)) \in Nat
<1>1. FiledAs(K, P, s, x) \subseteq Cells
  BY DEF FiledAs
<1>2. IsFiniteSet(FiledAs(K, P, s, x))
  BY <1>1, FS_Subset
<1> QED
  BY <1>2, FS_CardinalityType DEF CountsOf, BitsOf

Reclassed(P, c, r) == [P EXCEPT ![c] = r]

(* Other classes for one cell. *)
LEMMA ReclassedIs ==
  ASSUME NEW P \in Classes, NEW c \in Cells, NEW r \in [Stones -> Profiles]
  PROVE  /\ Reclassed(P, c, r) \in Classes /\ Reclassed(P, c, r)[c] = r
         /\ \A y \in Cells : y # c => Reclassed(P, c, r)[y] = P[y]
  BY DEF Reclassed, Classes

(* A cell is taken out of the tables. *)
LEMMA TakenOut ==
  ASSUME NEW K \in SUBSET Cells, NEW c \in K, NEW P \in Classes
  PROVE  /\ CountsOf(K \ {c}, P) = Uncounted(CountsOf(K, P), P[c])
         /\ BitsOf(K \ {c}, P) = Unlisted(BitsOf(K, P), P[c], c)
<1> DEFINE R == K \ {c}
<1>1. R \in SUBSET Cells /\ \A s \in Stones : P[c][s] \in Profiles
  BY DEF Classes
<1>2. ASSUME NEW s \in Stones, NEW x \in Profiles
      PROVE  /\ FiledAs(R, P, s, x) = IF x = P[c][s] THEN FiledAs(K, P, s, x) \ {c} ELSE FiledAs(K, P, s, x)
             /\ x = P[c][s] => c \in FiledAs(K, P, s, x)
  BY DEF FiledAs
<1> HIDE DEF R
<1>3. ASSUME NEW s \in Stones, NEW x \in Profiles
      PROVE  /\ CountsOf(R, P)[s][x] = IF x = P[c][s] THEN CountsOf(K, P)[s][x] - 1 ELSE CountsOf(K, P)[s][x]
             /\ BitsOf(R, P)[s][x] = IF x = P[c][s] THEN BitsOf(K, P)[s][x] \ {c} ELSE BitsOf(K, P)[s][x]
  <2>0. /\ CountsOf(R, P)[s][x] = Cardinality(FiledAs(R, P, s, x))
        /\ CountsOf(K, P)[s][x] = Cardinality(FiledAs(K, P, s, x))
        /\ BitsOf(R, P)[s][x] = FiledAs(R, P, s, x) /\ BitsOf(K, P)[s][x] = FiledAs(K, P, s, x)
    BY <1>1, FiledIs
  <2>1. CASE x = P[c][s]
    <3>1. IsFiniteSet(FiledAs(K, P, s, x)) /\ c \in FiledAs(K, P, s, x)
      BY <1>2, <2>1, FiledIs
    <3>2. FiledAs(R, P, s, x) = FiledAs(K, P, s, x) \ {c}
      BY <1>2, <2>1
    <3>3. Cardinality(FiledAs(R, P, s, x)) = Cardinality(FiledAs(K, P, s, x)) - 1
      <4> DEFINE A == FiledAs(K, P, s, x)
      <4>1. Cardinality(A \ {c}) = Cardinality(A) - 1
        <5> HIDE DEF A
        <5>1. IsFiniteSet(A) /\ c \in A
          BY <3>1 DEF A
        <5> QED
          BY <5>1, FS_RemoveElement
      <4> QED
        BY <4>1, <3>2
    <3> QED
      BY <2>0, <2>1, <3>2, <3>3
  <2>2. CASE x # P[c][s]
    <3>1. FiledAs(R, P, s, x) = FiledAs(K, P, s, x)
      BY <1>2, <2>2
    <3> QED
      BY <2>0, <2>2, <3>1
  <2> QED
    BY <2>1, <2>2
<1>4. \A J : /\ CountsOf(J, P) = [s \in Stones |-> [x \in Profiles |-> CountsOf(J, P)[s][x]]]
             /\ BitsOf(J, P) = [s \in Stones |-> [x \in Profiles |-> BitsOf(J, P)[s][x]]]
  BY DEF CountsOf, BitsOf
<1>5. \A s \in Stones : /\ CountsOf(K, P)[s] = [x \in Profiles |-> CountsOf(K, P)[s][x]]
                        /\ BitsOf(K, P)[s] = [x \in Profiles |-> BitsOf(K, P)[s][x]]
  BY DEF CountsOf, BitsOf
<1>6. ASSUME NEW s \in Stones
      PROVE  /\ [x \in Profiles |-> CountsOf(R, P)[s][x]]
                  = [CountsOf(K, P)[s] EXCEPT ![P[c][s]] = CountsOf(K, P)[s][P[c][s]] - 1]
             /\ [x \in Profiles |-> BitsOf(R, P)[s][x]]
                  = [BitsOf(K, P)[s] EXCEPT ![P[c][s]] = BitsOf(K, P)[s][P[c][s]] \ {c}]
  <2> DEFINE n == CountsOf(K, P)[s]  b == BitsOf(K, P)[s]  r == P[c][s]
  <2>1. n = [x \in Profiles |-> n[x]] /\ b = [x \in Profiles |-> b[x]] /\ r \in Profiles
    BY <1>1, <1>5
  <2>2. \A x \in Profiles : /\ CountsOf(R, P)[s][x] = IF x = r THEN n[x] - 1 ELSE n[x]
                            /\ BitsOf(R, P)[s][x] = IF x = r THEN b[x] \ {c} ELSE b[x]
    BY <1>3
  <2> HIDE DEF n, b, r
  <2>3. [n EXCEPT ![r] = n[r] - 1] = [x \in Profiles |-> IF x = r THEN n[x] - 1 ELSE n[x]]
    BY <2>1
  <2>4. [b EXCEPT ![r] = b[r] \ {c}] = [x \in Profiles |-> IF x = r THEN b[x] \ {c} ELSE b[x]]
    BY <2>1
  <2>5. /\ [x \in Profiles |-> CountsOf(R, P)[s][x]] = [n EXCEPT ![r] = n[r] - 1]
        /\ [x \in Profiles |-> BitsOf(R, P)[s][x]] = [b EXCEPT ![r] = b[r] \ {c}]
    BY <2>2, <2>3, <2>4
  <2> QED
    BY <2>5 DEF n, b, r
<1>7. CountsOf(R, P) = Uncounted(CountsOf(K, P), P[c]) /\ BitsOf(R, P) = Unlisted(BitsOf(K, P), P[c], c)
  <2>1. /\ Uncounted(CountsOf(K, P), P[c])
             = [s \in Stones |-> [CountsOf(K, P)[s] EXCEPT ![P[c][s]] = CountsOf(K, P)[s][P[c][s]] - 1]]
        /\ Unlisted(BitsOf(K, P), P[c], c)
             = [s \in Stones |-> [BitsOf(K, P)[s] EXCEPT ![P[c][s]] = BitsOf(K, P)[s][P[c][s]] \ {c}]]
    BY DEF Uncounted, Unlisted
  <2>2. /\ CountsOf(R, P) = [s \in Stones |-> [x \in Profiles |-> CountsOf(R, P)[s][x]]]
        /\ BitsOf(R, P) = [s \in Stones |-> [x \in Profiles |-> BitsOf(R, P)[s][x]]]
    BY <1>4
  <2> QED
    BY <1>6, <2>1, <2>2, Zenon
<1> QED
  BY <1>7 DEF R

(* A cell is put into the tables. *)
LEMMA PutIn ==
  ASSUME NEW K \in SUBSET Cells, NEW c \in Cells, c \notin K, NEW P \in Classes,
         NEW r \in [Stones -> Profiles], NEW Q, Q = Reclassed(P, c, r)
  PROVE  /\ CountsOf(K \cup {c}, Q) = Counted(CountsOf(K, P), r)
         /\ BitsOf(K \cup {c}, Q) = Listed(BitsOf(K, P), r, c)
<1> DEFINE J == K \cup {c}
<1>1. J \in SUBSET Cells /\ (\A s \in Stones : r[s] \in Profiles)
  OBVIOUS
<1>2. Q[c] = r /\ \A y \in K : Q[y] = P[y]
  <2>1. \A y \in K : y \in Cells /\ y # c
    OBVIOUS
  <2> QED
    BY <2>1, ReclassedIs
<1>4. ASSUME NEW s \in Stones, NEW x \in Profiles
      PROVE  /\ FiledAs(J, Q, s, x) = IF x = r[s] THEN FiledAs(K, P, s, x) \cup {c} ELSE FiledAs(K, P, s, x)
             /\ c \notin FiledAs(K, P, s, x)
  BY <1>2 DEF FiledAs
<1> HIDE DEF J
<1>5. ASSUME NEW s \in Stones, NEW x \in Profiles
      PROVE  /\ CountsOf(J, Q)[s][x] = IF x = r[s] THEN CountsOf(K, P)[s][x] + 1 ELSE CountsOf(K, P)[s][x]
             /\ BitsOf(J, Q)[s][x] = IF x = r[s] THEN BitsOf(K, P)[s][x] \cup {c} ELSE BitsOf(K, P)[s][x]
  <2>0. /\ CountsOf(J, Q)[s][x] = Cardinality(FiledAs(J, Q, s, x))
        /\ CountsOf(K, P)[s][x] = Cardinality(FiledAs(K, P, s, x))
        /\ BitsOf(J, Q)[s][x] = FiledAs(J, Q, s, x) /\ BitsOf(K, P)[s][x] = FiledAs(K, P, s, x)
    BY <1>1, FiledIs
  <2>1. CASE x = r[s]
    <3>1. IsFiniteSet(FiledAs(K, P, s, x)) /\ c \notin FiledAs(K, P, s, x)
      BY <1>4, <2>1, FiledIs
    <3>2. FiledAs(J, Q, s, x) = FiledAs(K, P, s, x) \cup {c}
      BY <1>4, <2>1
    <3>3. Cardinality(FiledAs(J, Q, s, x)) = Cardinality(FiledAs(K, P, s, x)) + 1
      BY <3>1, <3>2, FS_AddElement
    <3> QED
      BY <2>0, <2>1, <3>2, <3>3
  <2>2. CASE x # r[s]
    <3>1. FiledAs(J, Q, s, x) = FiledAs(K, P, s, x)
      BY <1>4, <2>2
    <3> QED
      BY <2>0, <2>2, <3>1
  <2> QED
    BY <2>1, <2>2
<1>6. /\ CountsOf(J, Q) = [s \in Stones |-> [x \in Profiles |-> CountsOf(J, Q)[s][x]]]
      /\ BitsOf(J, Q) = [s \in Stones |-> [x \in Profiles |-> BitsOf(J, Q)[s][x]]]
  BY DEF CountsOf, BitsOf
<1>7. ASSUME NEW s \in Stones
      PROVE  /\ [x \in Profiles |-> CountsOf(J, Q)[s][x]]
                  = [CountsOf(K, P)[s] EXCEPT ![r[s]] = CountsOf(K, P)[s][r[s]] + 1]
             /\ [x \in Profiles |-> BitsOf(J, Q)[s][x]]
                  = [BitsOf(K, P)[s] EXCEPT ![r[s]] = BitsOf(K, P)[s][r[s]] \cup {c}]
  <2> DEFINE n == CountsOf(K, P)[s]  b == BitsOf(K, P)[s]  i == r[s]
  <2>1. n = [x \in Profiles |-> n[x]] /\ b = [x \in Profiles |-> b[x]] /\ i \in Profiles
    BY <1>1 DEF CountsOf, BitsOf
  <2>2. \A x \in Profiles : /\ CountsOf(J, Q)[s][x] = IF x = i THEN n[x] + 1 ELSE n[x]
                            /\ BitsOf(J, Q)[s][x] = IF x = i THEN b[x] \cup {c} ELSE b[x]
    BY <1>5
  <2> HIDE DEF n, b, i
  <2>3. [n EXCEPT ![i] = n[i] + 1] = [x \in Profiles |-> IF x = i THEN n[x] + 1 ELSE n[x]]
    BY <2>1
  <2>4. [b EXCEPT ![i] = b[i] \cup {c}] = [x \in Profiles |-> IF x = i THEN b[x] \cup {c} ELSE b[x]]
    BY <2>1
  <2>5. /\ [x \in Profiles |-> CountsOf(J, Q)[s][x]] = [n EXCEPT ![i] = n[i] + 1]
        /\ [x \in Profiles |-> BitsOf(J, Q)[s][x]] = [b EXCEPT ![i] = b[i] \cup {c}]
    <3>1. [x \in Profiles |-> CountsOf(J, Q)[s][x]] = [n EXCEPT ![i] = n[i] + 1]
      <4>1. [x \in Profiles |-> CountsOf(J, Q)[s][x]] = [x \in Profiles |-> IF x = i THEN n[x] + 1 ELSE n[x]]
        BY <2>2, Zenon
      <4> QED
        BY <4>1, <2>3, Zenon
    <3>2. [x \in Profiles |-> BitsOf(J, Q)[s][x]] = [b EXCEPT ![i] = b[i] \cup {c}]
      <4>1. [x \in Profiles |-> BitsOf(J, Q)[s][x]]
              = [x \in Profiles |-> IF x = i THEN b[x] \cup {c} ELSE b[x]]
        BY <2>2, Zenon
      <4> QED
        BY <4>1, <2>4, Zenon
    <3> QED
      BY <3>1, <3>2
  <2> QED
    BY <2>5 DEF n, b, i
<1>8. CountsOf(J, Q) = Counted(CountsOf(K, P), r) /\ BitsOf(J, Q) = Listed(BitsOf(K, P), r, c)
  <2>1. /\ Counted(CountsOf(K, P), r)
             = [s \in Stones |-> [CountsOf(K, P)[s] EXCEPT ![r[s]] = CountsOf(K, P)[s][r[s]] + 1]]
        /\ Listed(BitsOf(K, P), r, c)
             = [s \in Stones |-> [BitsOf(K, P)[s] EXCEPT ![r[s]] = BitsOf(K, P)[s][r[s]] \cup {c}]]
    BY DEF Counted, Listed
  <2>2. CountsOf(J, Q) = Counted(CountsOf(K, P), r)
    <3>1. CountsOf(J, Q) = [s \in Stones |-> [x \in Profiles |-> CountsOf(J, Q)[s][x]]]
      BY <1>6
    <3>2. \A s \in Stones : [x \in Profiles |-> CountsOf(J, Q)[s][x]]
            = [CountsOf(K, P)[s] EXCEPT ![r[s]] = CountsOf(K, P)[s][r[s]] + 1]
      BY <1>7
    <3> QED
      BY ONLY <2>1, <3>1, <3>2, ZenonT(40)
  <2>3. BitsOf(J, Q) = Listed(BitsOf(K, P), r, c)
    <3>1. BitsOf(J, Q) = [s \in Stones |-> [x \in Profiles |-> BitsOf(J, Q)[s][x]]]
      BY <1>6
    <3>2. \A s \in Stones : [x \in Profiles |-> BitsOf(J, Q)[s][x]]
            = [BitsOf(K, P)[s] EXCEPT ![r[s]] = BitsOf(K, P)[s][r[s]] \cup {c}]
      BY <1>7
    <3> QED
      BY ONLY <2>1, <3>1, <3>2, ZenonT(40)
  <2> QED
    BY <2>2, <2>3
<1> QED
  BY <1>8 DEF J

(* The counts with one cell more. *)
LEMMA PutInCounts ==
  ASSUME NEW K \in SUBSET Cells, NEW c \in Cells, c \notin K, NEW P \in Classes,
         NEW r \in [Stones -> Profiles], NEW Q, Q = Reclassed(P, c, r)
  PROVE  CountsOf(K \cup {c}, Q) = Counted(CountsOf(K, P), r)
<1>1. /\ CountsOf(K \cup {c}, Q) = Counted(CountsOf(K, P), r)
      /\ BitsOf(K \cup {c}, Q) = Listed(BitsOf(K, P), r, c)
  BY PutIn
<1> QED
  BY <1>1

(* The bits with one cell more. *)
LEMMA PutInBits ==
  ASSUME NEW K \in SUBSET Cells, NEW c \in Cells, c \notin K, NEW P \in Classes,
         NEW r \in [Stones -> Profiles], NEW Q, Q = Reclassed(P, c, r)
  PROVE  BitsOf(K \cup {c}, Q) = Listed(BitsOf(K, P), r, c)
<1>1. /\ CountsOf(K \cup {c}, Q) = Counted(CountsOf(K, P), r)
      /\ BitsOf(K \cup {c}, Q) = Listed(BitsOf(K, P), r, c)
  BY PutIn
<1> QED
  BY <1>1

(* A cell is filed, taken out, and filed again under another class. *)
LEMMA FileIs ==
  ASSUME NEW K \in SUBSET Cells, NEW c \in Cells, c \notin K, NEW P \in Classes,
         NEW r \in [Stones -> Profiles], NEW o, NEW l, NEW k
  PROVE  AddProfile(Filed(K, o, l, k, P), c, r) = Filed(K \cup {c}, o, l, k, Reclassed(P, c, r))
<1> DEFINE Q == Reclassed(P, c, r)
<1>1. /\ CountsOf(K \cup {c}, Q) = Counted(CountsOf(K, P), r)
      /\ BitsOf(K \cup {c}, Q) = Listed(BitsOf(K, P), r, c)
  <2>1. Q = Reclassed(P, c, r)
    OBVIOUS
  <2> HIDE DEF Q
  <2> QED
    BY <2>1, PutIn
<1>3. Q[c] = r /\ \A y \in Cells : y # c => Q[y] = P[y]
  BY ReclassedIs
<1> HIDE DEF Q
<1>4. ShownOf(K \cup {c}, Q) = [ShownOf(K, P) EXCEPT ![c] = r]
  <2>1. \A y \in K : Q[y] = P[y]
    BY <1>3
  <2> QED
    BY <1>3, <2>1 DEF ShownOf
<1>2. AddProfile(Filed(K, o, l, k, P), c, r) = Filed(K \cup {c}, o, l, k, Q)
  BY <1>1, <1>4, AddIs DEF Filed
<1> QED
  BY <1>2 DEF Q

(* A cell leaves the tables for a stone. *)
Covered(t, c, u) == [RemoveProfile(t, c) EXCEPT !.profiles[c] = AllQuiet, !.occupied = u]

(* Taking a cell out leaves the tables of the other cells. *)
LEMMA UnfileIs ==
  ASSUME NEW K \in SUBSET Cells, NEW c \in K, NEW P \in Classes, NEW o, NEW l, NEW k, NEW u
  PROVE  Covered(Filed(K, o, l, k, P), c, u) = Filed(K \ {c}, u, l, k, P)
<1> DEFINE f == ShownOf(K, P)
           n == Uncounted(CountsOf(K, P), P[c])
           b == Unlisted(BitsOf(K, P), P[c], c)
<1>1. f[c] = P[c] /\ [f EXCEPT ![c] = AllQuiet] = ShownOf(K \ {c}, P)
  BY DEF ShownOf
<1>2. CountsOf(K \ {c}, P) = n /\ BitsOf(K \ {c}, P) = b
  BY TakenOut
<1>3. RemoveProfile(Filed(K, o, l, k, P), c) = Tables(o, l, k, f, n, b)
  BY <1>1, RemoveIs DEF Filed
<1> HIDE DEF f, n, b
<1>4. [Tables(o, l, k, f, n, b) EXCEPT !.profiles[c] = AllQuiet, !.occupied = u]
        = Tables(u, l, k, [f EXCEPT ![c] = AllQuiet], n, b)
  <2> DEFINE z == [f EXCEPT ![c] = AllQuiet]
             t == Tables(o, l, k, f, n, b)  v == Tables(o, l, k, z, n, b)
  <2>1. t.profiles = f
    BY TablesAre
  <2>3. [t EXCEPT !.profiles[c] = AllQuiet, !.occupied = u]
          = [[t EXCEPT !.profiles = [t.profiles EXCEPT ![c] = AllQuiet]] EXCEPT !.occupied = u]
    OBVIOUS
  <2>4. [t EXCEPT !.profiles[c] = AllQuiet, !.occupied = u] = [[t EXCEPT !.profiles = z] EXCEPT !.occupied = u]
    BY <2>1, <2>3
  <2> HIDE DEF z
  <2>5. [t EXCEPT !.profiles = z] = v /\ [v EXCEPT !.occupied = u] = Tables(u, l, k, z, n, b)
    BY TablesAre
  <2> QED
    BY <2>4, <2>5 DEF z
<1> QED
  BY <1>1, <1>2, <1>3, <1>4 DEF Filed, Covered

(* Out of its old classes and into the new ones: the tables of the new     *)
(* classes.                                                                *)
LEMMA RefileIs ==
  ASSUME NEW K \in SUBSET Cells, NEW c \in K, NEW P \in Classes,
         NEW r \in [Stones -> Profiles], NEW o, NEW l, NEW k
  PROVE  AddProfile(RemoveProfile(Filed(K, o, l, k, P), c), c, r) = Filed(K, o, l, k, Reclassed(P, c, r))
<1> DEFINE f == ShownOf(K, P)  R == K \ {c}  Q == Reclassed(P, c, r)
<1>1. f[c] = P[c] /\ [f EXCEPT ![c] = r] = ShownOf(K, Q)
  <2>1. Q[c] = r /\ \A y \in Cells : y # c => Q[y] = P[y]
    BY ReclassedIs
  <2> HIDE DEF Q
  <2> QED
    BY <2>1 DEF ShownOf
<1>2. RemoveProfile(Filed(K, o, l, k, P), c) = Tables(o, l, k, f, CountsOf(R, P), BitsOf(R, P))
  <2>1. CountsOf(R, P) = Uncounted(CountsOf(K, P), P[c]) /\ BitsOf(R, P) = Unlisted(BitsOf(K, P), P[c], c)
    BY TakenOut
  <2> HIDE DEF f, R
  <2> QED
    BY <1>1, <2>1, RemoveIs DEF Filed, f
<1>3. R \in SUBSET Cells /\ c \notin R /\ c \in Cells
  OBVIOUS
<1>6. R \cup {c} = K
  OBVIOUS
<1>4. /\ CountsOf(R \cup {c}, Q) = Counted(CountsOf(R, P), r)
      /\ BitsOf(R \cup {c}, Q) = Listed(BitsOf(R, P), r, c)
  <2>1. Q = Reclassed(P, c, r)
    OBVIOUS
  <2> HIDE DEF Q
  <2>2. ASSUME NEW T \in SUBSET Cells, c \notin T
        PROVE  /\ CountsOf(T \cup {c}, Q) = Counted(CountsOf(T, P), r)
               /\ BitsOf(T \cup {c}, Q) = Listed(BitsOf(T, P), r, c)
    BY <1>3, <2>1, <2>2, PutInCounts, PutInBits
  <2> HIDE DEF R
  <2> QED
    BY <1>3, <2>2, SMTT(30)
<1> HIDE DEF f, R, Q
<1>5. AddProfile(Tables(o, l, k, f, CountsOf(R, P), BitsOf(R, P)), c, r)
        = Tables(o, l, k, ShownOf(K, Q), CountsOf(K, Q), BitsOf(K, Q))
  BY <1>1, <1>4, <1>6, AddIs
<1> QED
  BY <1>2, <1>5 DEF Filed, Q

-----------------------------------------------------------------------------
(* What the tables are for some stones and the keys of their windows.      *)
Keyed == [Cells -> [Directions -> [Offsets -> Codes]]]
AllCodes(L) == [c \in Cells |-> [d \in Directions |-> CodesOf(L[c][d])]]
AllClasses(L) == [c \in Cells |-> ProfilesOf(AllCodes(L)[c])]
Scan(occupied, L) == Filed(Cells \ occupied, occupied, L, AllCodes(L), AllClasses(L))
LinesOf(p) == [c \in Cells |-> [d \in Directions |-> LineKey(p, c, d)]]

(* The classes of a cell, from its codes. *)
LEMMA ClassIn == ASSUME NEW codes PROVE ProfilesOf(codes) \in [Stones -> Profiles]
<1>1. ASSUME NEW f PROVE ProfileOf(f) \in Profiles
  <2> DEFINE n(code) == Cardinality({d \in DOMAIN f : f[d] = code})
  <2>1. ProfileOf(f) = CASE n(5) > 0 -> WinningMove
          [] n(5) = 0 /\ n(4) > 0 -> OpenFour
          [] n(5) + n(4) = 0 /\ n(3) >= 2 -> DoubleFour
          [] n(5) + n(4) = 0 /\ n(3) = 1 -> IF n(2) > 0 THEN FourThree ELSE Four
          [] n(5) + n(4) + n(3) = 0 /\ n(2) > 0 -> IF n(2) >= 2 THEN DoubleThree ELSE OpenThree
          [] OTHER -> IF n(1) > 0 THEN Three ELSE Quiet
    BY DEF ProfileOf
  <2> HIDE DEF n
  <2> QED
    BY <2>1 DEF Profiles, Quiet, Three, OpenThree, DoubleThree, Four, FourThree, DoubleFour,
                OpenFour, WinningMove
<1> QED
  BY <1>1 DEF ProfilesOf

(* The classes of all cells. *)
LEMMA ClassesIn ==
  ASSUME NEW L
  PROVE  AllClasses(L) \in Classes /\ \A c \in Cells : AllClasses(L)[c] = ProfilesOf(AllCodes(L)[c])
  BY ClassIn DEF AllClasses, Classes

(* A cell given the classes it has. *)
LEMMA ReclassedAsIs ==
  ASSUME NEW P \in Classes, NEW c \in Cells
  PROVE  Reclassed(P, c, P[c]) = P
  BY DEF Reclassed, Classes

(* Only the classes of the filed cells matter. *)
LEMMA FiledSame ==
  ASSUME NEW K \in SUBSET Cells, NEW P, NEW Q, \A c \in K : P[c] = Q[c], NEW o, NEW l, NEW k
  PROVE  Filed(K, o, l, k, P) = Filed(K, o, l, k, Q)
<1>1. ShownOf(K, P) = ShownOf(K, Q)
  BY DEF ShownOf
<1>2. ASSUME NEW s \in Stones, NEW x \in Profiles PROVE FiledAs(K, P, s, x) = FiledAs(K, Q, s, x)
  BY DEF FiledAs
<1>3. CountsOf(K, P) = CountsOf(K, Q) /\ BitsOf(K, P) = BitsOf(K, Q)
  BY <1>2 DEF CountsOf, BitsOf
<1> QED
  BY <1>1, <1>3 DEF Filed

(* A cell that is free again is filed under what its windows say. *)
LEMMA RefreshIs ==
  ASSUME NEW K \in SUBSET Cells, NEW c \in Cells, c \notin K, NEW o, NEW L
  PROVE  RefreshProfile(Filed(K, o, L, AllCodes(L), AllClasses(L)), c)
           = Filed(K \cup {c}, o, L, AllCodes(L), AllClasses(L))
<1> DEFINE P == AllClasses(L)  C == AllCodes(L)  t == Filed(K, o, L, C, P)
<1>1. P \in Classes /\ P[c] = ProfilesOf(C[c]) /\ P[c] \in [Stones -> Profiles]
  BY ClassesIn DEF Classes
<1>2. t.codes = C
  BY TablesAre DEF Filed
<1> HIDE DEF P, C
<1>3. RefreshProfile(t, c) = AddProfile(t, c, P[c])
  BY <1>1, <1>2 DEF RefreshProfile
<1>4. AddProfile(t, c, P[c]) = Filed(K \cup {c}, o, L, C, Reclassed(P, c, P[c]))
  BY <1>1, FileIs
<1>5. Reclassed(P, c, P[c]) = P
  BY <1>1, ReclassedAsIs
<1> QED
  BY <1>3, <1>4, <1>5 DEF P, C

(* Scanning a position cell by cell. *)
LEMMA PatternsAre ==
  ASSUME NEW p
  PROVE  PatternsOf(p) = Scan(Occupied(p), LinesOf(p))
<1> DEFINE o == Occupied(p)  S == Cells \ o  L == LinesOf(p)  C == AllCodes(L)  P == AllClasses(L)
           base == [occupied |-> o, lines |-> L, codes |-> C, profiles |-> [c \in Cells |-> AllQuiet],
                    counts |-> [s \in Stones |-> [x \in Profiles |-> 0]],
                    bits |-> [s \in Stones |-> [x \in Profiles |-> {}]]]
           H(g) == [s \in SUBSET S |-> IF s = {} THEN base
                                       ELSE LET x == CHOOSE x \in s : TRUE
                                            IN RefreshProfile(g[s \ {x}], x)]
           g == CHOOSE g : g = H(g)
           h == [s \in SUBSET S |-> Filed(s, o, L, C, P)]
<1>1. S \in SUBSET Cells /\ IsFiniteSet(S)
  BY FS_Subset
<1>2. PatternsOf(p) = g[S]
  BY DEF PatternsOf, FoldSet, MapThenFoldSet, Occupied, LinesOf, AllCodes
<1>3. base = Filed({}, o, L, C, P)
  <2>1. ShownOf({}, P) = [c \in Cells |-> AllQuiet]
    BY DEF ShownOf
  <2>2. \A s \in Stones, x \in Profiles : FiledAs({}, P, s, x) = {} /\ Cardinality(FiledAs({}, P, s, x)) = 0
    BY FS_EmptySet DEF FiledAs
  <2>3. /\ CountsOf({}, P) = [s \in Stones |-> [x \in Profiles |-> 0]]
        /\ BitsOf({}, P) = [s \in Stones |-> [x \in Profiles |-> {}]]
    BY <2>2 DEF CountsOf, BitsOf
  <2> HIDE DEF o, L, C, P
  <2> QED
    BY <2>1, <2>3, Zenon DEF Filed, Tables
<1> HIDE DEF S
<1>4. h = H(h)
  <2>1. ASSUME NEW s \in SUBSET S, s # {}
        PROVE  h[s] = (LET x == CHOOSE x \in s : TRUE IN RefreshProfile(h[s \ {x}], x))
    <3> DEFINE x == CHOOSE x \in s : TRUE
    <3>1. x \in s
      BY <2>1
    <3> HIDE DEF x, C, P
    <3>2. /\ h[s \ {x}] = Filed(s \ {x}, o, L, C, P) /\ h[s] = Filed(s, o, L, C, P)
          /\ s \ {x} \in SUBSET Cells /\ x \in Cells /\ x \notin s \ {x} /\ (s \ {x}) \cup {x} = s
      BY <1>1, <3>1
    <3>3. RefreshProfile(Filed(s \ {x}, o, L, C, P), x) = Filed((s \ {x}) \cup {x}, o, L, C, P)
      <4> DEFINE r == s \ {x}
      <4>1. r \in SUBSET Cells /\ x \in Cells /\ x \notin r
        BY <3>2
      <4> HIDE DEF r, o, L
      <4> QED
        BY <4>1, RefreshIs DEF C, P, r
    <3>4. h[s] = RefreshProfile(h[s \ {x}], x)
      BY <3>2, <3>3
    <3> QED
      BY <3>4 DEF x
  <2>2. h[{}] = base /\ h = [s \in SUBSET S |-> h[s]]
    BY <1>3
  <2> HIDE DEF h, base
  <2> QED
    BY <2>1, <2>2
<1> HIDE DEF h, base
<1>5. g = H(g)
  <2> HIDE DEF H
  <2> QED
    BY <1>4, Zenon
<1> HIDE DEF g
<1>6. g[{}] = h[{}]
  BY <1>4, <1>5
<1>7. ASSUME NEW s \in SUBSET S, s # {}, \A x \in s : g[s \ {x}] = h[s \ {x}]
      PROVE  g[s] = h[s]
  <2> DEFINE x == CHOOSE x \in s : TRUE
  <2>1. x \in s
    BY <1>7
  <2>2. g[s] = RefreshProfile(g[s \ {x}], x)
    BY <1>5, <1>7
  <2>3. h[s] = RefreshProfile(h[s \ {x}], x)
    BY <1>4, <1>7
  <2> HIDE DEF x
  <2> QED
    BY <1>7, <2>1, <2>2, <2>3
<1> HIDE DEF H
<1>8. g[S] = h[S]
  BY <1>1, <1>6, <1>7, FoldAgrees
<1>9. h[S] = Filed(S, o, L, C, P)
  BY DEF h
<1> QED
  BY <1>2, <1>8, <1>9 DEF S, Scan

-----------------------------------------------------------------------------
(* One window is updated. *)
LEMMA UpdateIs ==
  ASSUME NEW o \in SUBSET Cells, NEW L \in Keyed, NEW M \in Keyed, NEW code,
         NEW x \in Cells \X Directions \X Offsets,
         \A c \in Cells, d \in Directions, i \in Offsets :
           M[c][d][i] = IF <<c, d, i>> = x THEN code ELSE L[c][d][i]
  PROVE  UpdateLine(Scan(o, L), x, code) = Scan(o, M)
<1> DEFINE at == x[1]  d == x[2]  i == x[3]  K == Cells \ o  t == Scan(o, L)
           P == AllClasses(L)  Q == AllClasses(M)  C == AllCodes(L)  D == AllCodes(M)
<1>1. at \in Cells /\ d \in Directions /\ i \in Offsets /\ x = <<at, d, i>>
  OBVIOUS
<1>2. M[at][d] = [L[at][d] EXCEPT ![i] = code]
  <2>1. L[at][d] \in [Offsets -> Codes] /\ M[at][d] \in [Offsets -> Codes]
    BY <1>1 DEF Keyed
  <2>2. \A j \in Offsets : M[at][d][j] = IF j = i THEN code ELSE L[at][d][j]
    BY <1>1
  <2> HIDE DEF at, d, i
  <2> QED
    BY <2>1, <2>2, <1>1
<1>3. \A c \in Cells, e \in Directions : <<c, e>> # <<at, d>> => M[c][e] = L[c][e]
  <2> SUFFICES ASSUME NEW c \in Cells, NEW e \in Directions, <<c, e>> # <<at, d>> PROVE M[c][e] = L[c][e]
    OBVIOUS
  <2>1. L[c][e] \in [Offsets -> Codes] /\ M[c][e] \in [Offsets -> Codes]
    BY DEF Keyed
  <2>2. \A j \in Offsets : M[c][e][j] = L[c][e][j]
    BY <1>1
  <2> QED
    BY <2>1, <2>2
<1> DEFINE key == M[at][d]
<1>4. [L EXCEPT ![at][d] = key] = M
  <2>1. L = [c \in Cells |-> [e \in Directions |-> L[c][e]]] /\ M = [c \in Cells |-> [e \in Directions |-> M[c][e]]]
    BY DEF Keyed
  <2> HIDE DEF at, d, i
  <2>2. \A c \in Cells : M[c] = IF c = at THEN [L[at] EXCEPT ![d] = key] ELSE L[c]
    <3> SUFFICES ASSUME NEW c \in Cells
                 PROVE  M[c] = IF c = at THEN [L[at] EXCEPT ![d] = key] ELSE L[c]
      OBVIOUS
    <3>1. /\ M[c] = [e \in Directions |-> M[c][e]] /\ L[c] = [e \in Directions |-> L[c][e]]
          /\ L[at] = [e \in Directions |-> L[at][e]]
      BY <1>1 DEF Keyed
    <3>2. \A e \in Directions : M[c][e] = IF c = at /\ e = d THEN key ELSE L[c][e]
      BY <1>3
    <3> HIDE DEF key
    <3> QED
      BY <1>1, <3>1, <3>2
  <2>3. [L EXCEPT ![at][d] = key] = [L EXCEPT ![at] = [L[at] EXCEPT ![d] = key]]
    OBVIOUS
  <2> HIDE DEF key
  <2> QED
    BY <1>1, <2>1, <2>2, <2>3
<1>5. [C EXCEPT ![at][d] = CodesOf(key)] = D
  <2> HIDE DEF at, d, i
  <2>1. \A c \in Cells : D[c] = IF c = at THEN [C[at] EXCEPT ![d] = CodesOf(key)] ELSE C[c]
    <3> SUFFICES ASSUME NEW c \in Cells
                 PROVE  D[c] = IF c = at THEN [C[at] EXCEPT ![d] = CodesOf(key)] ELSE C[c]
      OBVIOUS
    <3>1. /\ D[c] = [e \in Directions |-> D[c][e]] /\ C[c] = [e \in Directions |-> C[c][e]]
          /\ C[at] = [e \in Directions |-> C[at][e]]
      BY <1>1 DEF AllCodes
    <3>2. \A e \in Directions : D[c][e] = IF c = at /\ e = d THEN CodesOf(key) ELSE C[c][e]
      BY <1>3, <1>1 DEF AllCodes
    <3> HIDE DEF key, C, D
    <3> QED
      BY <1>1, <3>1, <3>2
  <2>2. C = [c \in Cells |-> C[c]] /\ D = [c \in Cells |-> D[c]]
    BY DEF AllCodes
  <2> HIDE DEF key, C, D
  <2>3. [C EXCEPT ![at][d] = CodesOf(key)] = [C EXCEPT ![at] = [C[at] EXCEPT ![d] = CodesOf(key)]]
    OBVIOUS
  <2> QED
    BY <1>1, <2>1, <2>2, <2>3
<1>6. \A c \in Cells : c # at => Q[c] = P[c]
  <2> SUFFICES ASSUME NEW c \in Cells, c # at PROVE Q[c] = P[c]
    OBVIOUS
  <2>1. D[c] = C[c]
    BY <1>3 DEF AllCodes
  <2> QED
    BY <2>1 DEF AllClasses
<1>7. P \in Classes /\ Q \in Classes /\ Q[at] = ProfilesOf(D[at]) /\ P[at] = ProfilesOf(C[at])
  BY <1>1, ClassesIn
<1> DEFINE u == Filed(K, o, M, D, P)
<1>8. /\ t.lines = L /\ t.codes = C /\ t.occupied = o /\ (at \notin o => t.profiles[at] = P[at])
  <2>1. at \notin o => ShownOf(K, P)[at] = P[at]
    BY <1>1 DEF ShownOf
  <2> QED
    BY <2>1, TablesAre DEF Scan, Filed
<1>9. u.codes = D
  BY TablesAre DEF Filed
<1>10. [t EXCEPT !.lines[at][d] = key, !.codes[at][d] = CodesOf(key)] = u
  <2> HIDE DEF at, d, i, key, P, Q
  <2>1. [t EXCEPT !.lines[at][d] = key, !.codes[at][d] = CodesOf(key)]
          = [[t EXCEPT !.lines = [t.lines EXCEPT ![at][d] = key]]
                EXCEPT !.codes = [t.codes EXCEPT ![at][d] = CodesOf(key)]]
    <3> HIDE DEF t
    <3> QED
      OBVIOUS
  <2>2. t = Tables(o, L, C, ShownOf(K, P), CountsOf(K, P), BitsOf(K, P))
    BY DEF Scan, Filed, P
  <2>3. u = Tables(o, M, D, ShownOf(K, P), CountsOf(K, P), BitsOf(K, P))
    BY DEF Filed
  <2> HIDE DEF t, u, C, D, K
  <2>4. [t EXCEPT !.lines[at][d] = key, !.codes[at][d] = CodesOf(key)]
          = [[t EXCEPT !.lines = M] EXCEPT !.codes = D]
    BY <1>4, <1>5, <1>8, <2>1
  <2>5. [t EXCEPT !.lines = M] = Tables(o, M, C, ShownOf(K, P), CountsOf(K, P), BitsOf(K, P))
    BY <2>2, TablesAre
  <2>6. [Tables(o, M, C, ShownOf(K, P), CountsOf(K, P), BitsOf(K, P)) EXCEPT !.codes = D] = u
    BY <2>3, TablesAre
  <2> QED
    BY <2>4, <2>5, <2>6
<1>11. UpdateLine(t, x, code)
         = IF D[at][d] = C[at][d] \/ at \in o \/ ProfilesOf(D[at]) = t.profiles[at] THEN u
           ELSE AddProfile(RemoveProfile(u, at), at, ProfilesOf(D[at]))
  <2> DEFINE k(v) == [v EXCEPT ![i] = code]
             w(v) == [t EXCEPT !.lines[at][d] = v, !.codes[at][d] = CodesOf(v)]
  <2>1. key = k(t.lines[at][d])
    <3> HIDE DEF t, at, d, i
    <3> QED
      BY <1>2, <1>8
  <2>2. w(key) = u
    BY <1>10
  <2> HIDE DEF t, u, C, D, P, Q, K, key
  <2>3. UpdateLine(t, x, code)
          = IF w(k(t.lines[at][d])).codes[at][d] = t.codes[at][d] \/ at \in t.occupied
               \/ ProfilesOf(w(k(t.lines[at][d])).codes[at]) = t.profiles[at]
            THEN w(k(t.lines[at][d]))
            ELSE AddProfile(RemoveProfile(w(k(t.lines[at][d])), at), at, ProfilesOf(w(k(t.lines[at][d])).codes[at]))
    BY Zenon DEF UpdateLine
  <2> HIDE DEF w, k, at, d
  <2>4. w(k(t.lines[at][d])) = u
    BY <2>1, <2>2
  <2> QED
    BY <1>8, <1>9, <2>3, <2>4
<1>12. CASE \A c \in K : P[c] = Q[c]
  <2>1. u = Filed(K, o, M, D, Q) /\ u = Scan(o, M)
    <3>1. K \in SUBSET Cells
      OBVIOUS
    <3> HIDE DEF P, Q, D
    <3>2. u = Filed(K, o, M, D, Q)
      BY <1>12, <3>1, FiledSame
    <3> QED
      BY <3>2 DEF Scan, Q, D
  <2>2. ASSUME at \in K
        PROVE  AddProfile(RemoveProfile(u, at), at, ProfilesOf(D[at])) = u
    <3>1. /\ K \in SUBSET Cells /\ P[at] = ProfilesOf(D[at]) /\ P[at] \in [Stones -> Profiles]
          /\ Reclassed(P, at, P[at]) = P
      BY <1>7, <1>12, <2>2, ReclassedAsIs DEF Classes
    <3> HIDE DEF K, P, Q, D, at
    <3> QED
      BY <1>7, <2>2, <3>1, RefileIs
  <2>3. at \in o \/ at \in K
    BY <1>1
  <2> HIDE DEF u, K, t, at, d, D, C
  <2> QED
    BY <1>11, <2>1, <2>2, <2>3 DEF t
<1>13. CASE at \in K /\ Q[at] # P[at]
  <2>1. D[at] # C[at] /\ at \notin o
    BY <1>7, <1>13
  <2>2. D[at][d] # C[at][d]
    <3>1. /\ D[at] = [e \in Directions |-> D[at][e]] /\ C[at] = [e \in Directions |-> C[at][e]]
      BY <1>1 DEF AllCodes
    <3>2. \A e \in Directions : e # d => D[at][e] = C[at][e]
      BY <1>1, <1>3 DEF AllCodes
    <3> HIDE DEF C, D, at, d
    <3> QED
      BY <1>1, <2>1, <3>1, <3>2
  <2>3. UpdateLine(t, x, code) = AddProfile(RemoveProfile(u, at), at, Q[at])
    <3> HIDE DEF t, u, at, d, C, D, P, Q
    <3> QED
      BY <1>7, <1>8, <1>11, <1>13, <2>1, <2>2
  <2>4. Q = Reclassed(P, at, Q[at])
    <3> HIDE DEF P, Q, at
    <3>1. Q = [c \in Cells |-> Q[c]] /\ P = [c \in Cells |-> P[c]]
      BY <1>7 DEF Classes
    <3> QED
      BY <1>1, <1>6, <3>1 DEF Reclassed
  <2>5. Q[at] \in [Stones -> Profiles] /\ K \in SUBSET Cells
    BY <1>1, <1>7 DEF Classes
  <2>6. AddProfile(RemoveProfile(u, at), at, Q[at]) = Filed(K, o, M, D, Reclassed(P, at, Q[at]))
    <3> HIDE DEF P, Q, at, K, D
    <3> QED
      BY <1>7, <1>13, <2>5, RefileIs
  <2> HIDE DEF t, P
  <2> QED
    BY <2>3, <2>4, <2>6 DEF Scan, t
<1> QED
  <2> HIDE DEF P, Q, t, K, at
  <2> QED
    BY <1>6, <1>12, <1>13 DEF t, K

-----------------------------------------------------------------------------
(* All windows a cell is in are updated. *)
Recoded(L, S, code) ==
  [c \in Cells |-> [d \in Directions |-> [i \in Offsets |-> IF <<c, d, i>> \in S THEN code ELSE L[c][d][i]]]]

(* The windows are finitely many. *)
LEMMA OffsetsFinite == IsFiniteSet(Offsets) /\ IsFiniteSet(Directions) /\ IsFiniteSet(Cells)
<1>1. IsFiniteSet((1 - WinLength)..(WinLength - 1))
  BY WinLengthAssumption, FS_Interval
<1>2. IsFiniteSet(Offsets)
  BY <1>1, FS_Subset DEF Offsets, Window
<1> QED
  BY <1>2, GeometryAssumption

(* A cell is in finitely many windows. *)
LEMMA InfluencesFinite == ASSUME NEW at PROVE IsFiniteSet(Influences(at))
<1> DEFINE S == (Cells \X Directions) \X Offsets  T == Cells \X Directions \X Offsets
           f == [x \in S |-> <<x[1][1], x[1][2], x[2]>>]
<1>1. IsFiniteSet(S)
  <2>1. IsFiniteSet(Cells \X Directions)
    BY OffsetsFinite, FS_Product
  <2> QED
    BY <2>1, OffsetsFinite, FS_Product
<1>2. f \in Surjection(S, T)
  <2>1. f \in [S -> T]
    OBVIOUS
  <2>2. ASSUME NEW t \in T PROVE \E s \in S : f[s] = t
    <3>1. <<<<t[1], t[2]>>, t[3]>> \in S /\ f[<<<<t[1], t[2]>>, t[3]>>] = t
      OBVIOUS
    <3> QED
      BY <3>1
  <2> HIDE DEF f, S, T
  <2> QED
    BY <2>1, <2>2 DEF Surjection
<1> HIDE DEF f, S
<1>3. IsFiniteSet(T)
  BY <1>1, <1>2, FS_Surjection
<1> QED
  BY <1>3, FS_Subset DEF Influences

(* The keys with one code written into some windows. *)
LEMMA RecodedIs ==
  ASSUME NEW L \in Keyed, NEW S, NEW code \in Codes
  PROVE  /\ Recoded(L, S, code) \in Keyed
         /\ \A c \in Cells, d \in Directions, i \in Offsets :
              Recoded(L, S, code)[c][d][i] = IF <<c, d, i>> \in S THEN code ELSE L[c][d][i]
  BY DEF Recoded, Keyed

(* Keys with the same codes are the same. *)
LEMMA KeysSame ==
  ASSUME NEW L \in Keyed, NEW M \in Keyed,
         \A c \in Cells, d \in Directions, i \in Offsets : M[c][d][i] = L[c][d][i]
  PROVE  L = M
<1>1. \A c \in Cells, d \in Directions : L[c][d] = M[c][d]
  <2> SUFFICES ASSUME NEW c \in Cells, NEW d \in Directions PROVE L[c][d] = M[c][d]
    OBVIOUS
  <2>1. L[c][d] \in [Offsets -> Codes] /\ M[c][d] \in [Offsets -> Codes]
    BY DEF Keyed
  <2> QED
    BY <2>1
<1>2. \A c \in Cells : L[c] = M[c]
  <2> SUFFICES ASSUME NEW c \in Cells PROVE L[c] = M[c]
    OBVIOUS
  <2>1. L[c] \in [Directions -> [Offsets -> Codes]] /\ M[c] \in [Directions -> [Offsets -> Codes]]
    BY DEF Keyed
  <2> QED
    BY <1>1, <2>1
<1> QED
  BY <1>2 DEF Keyed

(* update_lines leaves the tables of the keys with the cell recoded. *)
LEMMA UpdateLinesIs ==
  ASSUME NEW o \in SUBSET Cells, NEW L \in Keyed, NEW at, NEW code \in Codes
  PROVE  UpdateLines(Scan(o, L), at, code) = Scan(o, Recoded(L, Influences(at), code))
<1> DEFINE S == Influences(at)  base == Scan(o, L)
           H(g) == [s \in SUBSET S |-> IF s = {} THEN base
                                       ELSE LET x == CHOOSE x \in s : TRUE
                                            IN UpdateLine(g[s \ {x}], x, code)]
           g == CHOOSE g : g = H(g)
           h == [s \in SUBSET S |-> Scan(o, Recoded(L, s, code))]
<1>1. IsFiniteSet(S) /\ S \subseteq Cells \X Directions \X Offsets
  BY InfluencesFinite DEF Influences
<1>2. UpdateLines(Scan(o, L), at, code) = g[S]
  BY DEF UpdateLines, FoldSet, MapThenFoldSet
<1> HIDE DEF S
<1>3. base = Scan(o, Recoded(L, {}, code))
  <2> DEFINE M == Recoded(L, {}, code)
  <2>1. M \in Keyed /\ \A c \in Cells, d \in Directions, i \in Offsets : M[c][d][i] = L[c][d][i]
    <3>1. M \in Keyed
      BY RecodedIs
    <3>2. \A c \in Cells, d \in Directions, i \in Offsets : M[c][d][i] = L[c][d][i]
      BY DEF Recoded
    <3> QED
      BY <3>1, <3>2
  <2> HIDE DEF M
  <2>2. M = L
    BY <2>1, KeysSame
  <2> QED
    BY <2>2 DEF M
<1>4. h = H(h)
  <2>1. ASSUME NEW s \in SUBSET S, s # {}
        PROVE  h[s] = (LET x == CHOOSE x \in s : TRUE IN UpdateLine(h[s \ {x}], x, code))
    <3> DEFINE x == CHOOSE x \in s : TRUE
    <3>1. x \in s
      BY <2>1
    <3> HIDE DEF x
    <3> DEFINE M == Recoded(L, s \ {x}, code)  N == Recoded(L, s, code)
    <3>2. h[s \ {x}] = Scan(o, M) /\ h[s] = Scan(o, N) /\ x \in Cells \X Directions \X Offsets
      BY <1>1, <3>1
    <3>3. M \in Keyed /\ N \in Keyed
      BY RecodedIs
    <3>4. \A c \in Cells, d \in Directions, i \in Offsets :
            N[c][d][i] = IF <<c, d, i>> = x THEN code ELSE M[c][d][i]
      <4>1. \A c \in Cells, d \in Directions, i \in Offsets :
              M[c][d][i] = IF <<c, d, i>> \in s \ {x} THEN code ELSE L[c][d][i]
        BY DEF Recoded
      <4>2. \A c \in Cells, d \in Directions, i \in Offsets :
              N[c][d][i] = IF <<c, d, i>> \in s THEN code ELSE L[c][d][i]
        BY DEF Recoded
      <4> HIDE DEF M, N
      <4> SUFFICES ASSUME NEW c \in Cells, NEW d \in Directions, NEW i \in Offsets
                   PROVE  N[c][d][i] = IF <<c, d, i>> = x THEN code ELSE M[c][d][i]
        OBVIOUS
      <4>3. /\ M[c][d][i] = IF <<c, d, i>> \in s \ {x} THEN code ELSE L[c][d][i]
            /\ N[c][d][i] = IF <<c, d, i>> \in s THEN code ELSE L[c][d][i]
        BY <4>1, <4>2
      <4> DEFINE y == <<c, d, i>>  m == M[c][d][i]  n == N[c][d][i]  l == L[c][d][i]
      <4> HIDE DEF y, m, n, l
      <4>4. n = IF y = x THEN code ELSE m
        <5>1. m = (IF y \in s \ {x} THEN code ELSE l) /\ n = IF y \in s THEN code ELSE l
          BY <4>3 DEF y, m, n, l
        <5> QED
          BY <3>1, <5>1
      <4> QED
        BY <4>4 DEF y, m, n
    <3> HIDE DEF M, N, h
    <3>5. UpdateLine(Scan(o, M), x, code) = Scan(o, N)
      BY <3>2, <3>3, <3>4, UpdateIs
    <3>6. h[s] = UpdateLine(h[s \ {x}], x, code)
      BY <3>2, <3>5
    <3> QED
      BY <3>6 DEF x
  <2>2. h[{}] = base /\ h = [s \in SUBSET S |-> h[s]]
    BY <1>3
  <2> HIDE DEF h, base
  <2> QED
    BY <2>1, <2>2
<1> HIDE DEF h, base
<1>5. g = H(g)
  <2> HIDE DEF H
  <2> QED
    BY <1>4, Zenon
<1> HIDE DEF g
<1>6. g[{}] = h[{}]
  BY <1>4, <1>5
<1>7. ASSUME NEW s \in SUBSET S, s # {}, \A x \in s : g[s \ {x}] = h[s \ {x}]
      PROVE  g[s] = h[s]
  <2> DEFINE x == CHOOSE x \in s : TRUE
  <2>1. x \in s
    BY <1>7
  <2>2. g[s] = UpdateLine(g[s \ {x}], x, code)
    BY <1>5, <1>7
  <2>3. h[s] = UpdateLine(h[s \ {x}], x, code)
    BY <1>4, <1>7
  <2> HIDE DEF x
  <2> QED
    BY <1>7, <2>1, <2>2, <2>3
<1> HIDE DEF H
<1>8. g[S] = h[S]
  BY <1>1, <1>6, <1>7, FoldAgrees
<1>9. h[S] = Scan(o, Recoded(L, S, code))
  BY DEF h
<1> QED
  BY <1>2, <1>8, <1>9 DEF S

-----------------------------------------------------------------------------
(* The keys of a position follow its stones. *)
LEMMA LinesKeyed ==
  ASSUME NEW p \in Positions
  PROVE  LinesOf(p) \in Keyed
<1>1. \A c \in Cells, d \in Directions, i \in Offsets : LineCells[c][d][i] \in Cells \cup {Nothing}
  BY GeometryAssumption
<1>2. \A c \in Cells : p.cells[c] \in Stones \cup {Nothing}
  BY DEF Positions
<1>3. \A x \in Stones \cup {Nothing} : CodeOf(x) \in Codes
  BY DEF CodeOf, Codes, Stones
<1>4. ASSUME NEW c \in Cells, NEW d \in Directions
      PROVE  LineKey(p, c, d) \in [Offsets -> Codes]
  <2>1. ASSUME NEW i \in Offsets
        PROVE  (IF LineCells[c][d][i] = Nothing THEN "Wall" ELSE CodeOf(p.cells[LineCells[c][d][i]])) \in Codes
    <3>1. CASE LineCells[c][d][i] = Nothing
      BY <3>1 DEF Codes
    <3>2. CASE LineCells[c][d][i] # Nothing
      BY <1>1, <1>2, <1>3, <3>2
    <3> QED
      BY <3>1, <3>2
  <2> QED
    BY <2>1 DEF LineKey
<1> QED
  BY <1>4 DEF LinesOf, Keyed

(* A cell that changes is recoded in the windows it is in, and nowhere     *)
(* else.                                                                   *)
LEMMA LinesMove ==
  ASSUME NEW p \in Positions, NEW q \in Positions, NEW at \in Cells,
         \A c \in Cells : c # at => q.cells[c] = p.cells[c]
  PROVE  LinesOf(q) = Recoded(LinesOf(p), Influences(at), CodeOf(q.cells[at]))
<1> DEFINE L == LinesOf(p)  M == LinesOf(q)  code == CodeOf(q.cells[at])
           N == Recoded(L, Influences(at), code)
<1>1. L \in Keyed /\ M \in Keyed
  BY LinesKeyed
<1>2. code \in Codes
  <2>1. q.cells[at] \in Stones \cup {Nothing}
    BY DEF Positions
  <2> QED
    BY <2>1 DEF CodeOf, Codes, Stones
<1>3. N \in Keyed /\ \A c \in Cells, d \in Directions, i \in Offsets :
              N[c][d][i] = IF <<c, d, i>> \in Influences(at) THEN code ELSE L[c][d][i]
  BY <1>1, <1>2, RecodedIs
<1>4. ASSUME NEW c \in Cells, NEW d \in Directions, NEW i \in Offsets
      PROVE  N[c][d][i] = M[c][d][i]
  <2> DEFINE x == LineCells[c][d][i]
  <2>1. /\ L[c][d][i] = IF x = Nothing THEN "Wall" ELSE CodeOf(p.cells[x])
        /\ M[c][d][i] = IF x = Nothing THEN "Wall" ELSE CodeOf(q.cells[x])
    BY DEF LinesOf, LineKey
  <2>2. <<c, d, i>> \in Influences(at) <=> x = at
    BY DEF Influences
  <2>3. x \in Cells \cup {Nothing}
    BY GeometryAssumption
  <2>4. N[c][d][i] = IF x = at THEN code ELSE L[c][d][i]
    BY <1>3, <2>2
  <2> HIDE DEF x, L, M, N
  <2> QED
    BY <2>1, <2>3, <2>4
<1> HIDE DEF L, M, N
<1>5. M = N
  BY <1>1, <1>3, <1>4, KeysSame
<1> QED
  BY <1>5 DEF L, M, N

-----------------------------------------------------------------------------
(* A stone is put down, and taken back. *)
LEMMA TakenIs ==
  ASSUME NEW o \in SUBSET Cells, NEW L \in Keyed, NEW at \in Cells \ o
  PROVE  [RemoveProfile(Scan(o, L), at) EXCEPT !.profiles[at] = AllQuiet, !.occupied = @ \cup {at}]
           = Scan(o \cup {at}, L)
<1> DEFINE K == Cells \ o  C == AllCodes(L)  P == AllClasses(L)  u == o \cup {at}
           r == RemoveProfile(Scan(o, L), at)
<1>1. K \in SUBSET Cells /\ at \in K /\ P \in Classes /\ Cells \ u = K \ {at}
  BY ClassesIn
<1>2. Scan(o, L) = Filed(K, o, L, C, P) /\ Scan(u, L) = Filed(Cells \ u, u, L, C, P)
  BY DEF Scan
<1>3. r.occupied = o
  <2>1. r = Tables(o, L, C, ShownOf(K, P), Uncounted(CountsOf(K, P), ShownOf(K, P)[at]),
                   Unlisted(BitsOf(K, P), ShownOf(K, P)[at], at))
    <3> HIDE DEF C, P, K
    <3> QED
      BY <1>2, RemoveIs DEF Filed
  <2> HIDE DEF r, K, C, P
  <2> QED
    BY <2>1, TablesAre
<1>4. [r EXCEPT !.profiles[at] = AllQuiet, !.occupied = @ \cup {at}]
        = [r EXCEPT !.profiles[at] = AllQuiet, !.occupied = u]
  <2> HIDE DEF r
  <2>1. [r EXCEPT !.profiles[at] = AllQuiet, !.occupied = @ \cup {at}]
          = [r EXCEPT !.profiles[at] = AllQuiet, !.occupied = r.occupied \cup {at}]
    OBVIOUS
  <2> QED
    BY <1>3, <2>1
<1>5. Covered(Filed(K, o, L, C, P), at, u) = Filed(K \ {at}, u, L, C, P)
  <2> HIDE DEF K, C, P, u
  <2>1. K \in SUBSET Cells /\ at \in K /\ P \in Classes
    BY <1>1
  <2> QED
    BY <2>1, UnfileIs
<1> HIDE DEF K, C, P
<1> QED
  BY <1>1, <1>2, <1>4, <1>5 DEF Covered

(* A stone leaves the tables of the board with that stone. *)
LEMMA PatternsMakeIs ==
  ASSUME NEW o \in SUBSET Cells, NEW L \in Keyed, NEW at \in Cells \ o, NEW code \in Codes
  PROVE  PatternsMake(Scan(o, L), at, code) = Scan(o \cup {at}, Recoded(L, Influences(at), code))
<1> DEFINE u == o \cup {at}
<1>1. PatternsMake(Scan(o, L), at, code) = UpdateLines(Scan(u, L), at, code)
  BY TakenIs DEF PatternsMake
<1>2. u \in SUBSET Cells
  OBVIOUS
<1> HIDE DEF u
<1> QED
  BY <1>1, <1>2, UpdateLinesIs DEF u

(* Taking a stone away leaves the tables of the board without it. *)
LEMMA PatternsUnmakeIs ==
  ASSUME NEW o \in SUBSET Cells, NEW L \in Keyed, NEW at \in o
  PROVE  PatternsUnmake(Scan(o, L), at) = Scan(o \ {at}, Recoded(L, Influences(at), "None"))
<1> DEFINE M == Recoded(L, Influences(at), "None")  K == Cells \ o  u == o \ {at}
           C == AllCodes(M)  P == AllClasses(M)  t == Scan(o, M)
<1>1. M \in Keyed /\ UpdateLines(Scan(o, L), at, "None") = t
  <2>1. "None" \in Codes
    BY DEF Codes
  <2> QED
    BY <2>1, RecodedIs, UpdateLinesIs
<1>2. K \in SUBSET Cells /\ at \in Cells /\ at \notin K /\ K \cup {at} = Cells \ u
  OBVIOUS
<1>3. t = Filed(K, o, M, C, P) /\ t = Tables(o, M, C, ShownOf(K, P), CountsOf(K, P), BitsOf(K, P))
  BY DEF Scan, Filed
<1>4. [t EXCEPT !.occupied = @ \ {at}] = Filed(K, u, M, C, P)
  <2>1. t.occupied = o
    BY <1>3, TablesAre
  <2>2. [t EXCEPT !.occupied = @ \ {at}] = [t EXCEPT !.occupied = t.occupied \ {at}]
    OBVIOUS
  <2>3. [t EXCEPT !.occupied = @ \ {at}] = [t EXCEPT !.occupied = u]
    BY <2>1, <2>2
  <2> HIDE DEF t, C, P, K, M, u
  <2>4. [t EXCEPT !.occupied = u] = Tables(u, M, C, ShownOf(K, P), CountsOf(K, P), BitsOf(K, P))
    BY <1>3, TablesAre
  <2> QED
    BY <2>3, <2>4 DEF Filed
<1>5. PatternsUnmake(Scan(o, L), at) = RefreshProfile([t EXCEPT !.occupied = @ \ {at}], at)
  BY <1>1 DEF PatternsUnmake
<1>6. RefreshProfile(Filed(K, u, M, C, P), at) = Filed(K \cup {at}, u, M, C, P)
  <2> HIDE DEF K, u, M
  <2> QED
    BY <1>2, RefreshIs
<1> HIDE DEF t, C, P, K, M, u
<1> QED
  BY <1>2, <1>4, <1>5, <1>6 DEF Scan, M, C, P, u

(* A legal move, on the tables. *)
LEMMA PatternsMove ==
  ASSUME NEW p, WellFormed(p), NEW at \in Cells, Legal(p, at), NEW q, q = MakeMove(p, at)
  PROVE  /\ PatternsMake(PatternsOf(p), at, p.side) = PatternsOf(q)
         /\ PatternsUnmake(PatternsOf(q), at) = PatternsOf(p)
<1>1. /\ WellFormed(q) /\ at \notin Occupied(p) /\ Occupied(q) = Occupied(p) \cup {at}
      /\ p.cells[at] = Nothing /\ q.cells[at] = p.side /\ p.side \in Stones
      /\ \A c \in Cells : c # at => q.cells[c] = p.cells[c]
  BY MoveIs
<1>2. p \in Positions /\ q \in Positions
  BY <1>1 DEF WellFormed
<1> DEFINE o == Occupied(p)  u == Occupied(q)  L == LinesOf(p)  M == LinesOf(q)
<1>3. L \in Keyed /\ M \in Keyed
  BY <1>2, LinesKeyed
<1>4. CodeOf(p.side) = p.side /\ CodeOf(Nothing) = "None" /\ p.side \in Codes
  BY <1>1 DEF CodeOf, Codes, Stones
<1>5. M = Recoded(L, Influences(at), p.side)
  <2>1. M = Recoded(L, Influences(at), CodeOf(q.cells[at]))
    BY <1>1, <1>2, LinesMove
  <2> QED
    BY <1>1, <1>4, <2>1
<1>6. L = Recoded(M, Influences(at), "None")
  <2>1. \A c \in Cells : c # at => p.cells[c] = q.cells[c]
    BY <1>1
  <2>2. L = Recoded(M, Influences(at), CodeOf(p.cells[at]))
    BY <1>2, <2>1, LinesMove
  <2> QED
    BY <1>1, <1>4, <2>2
<1>7. o \in SUBSET Cells /\ u \in SUBSET Cells /\ at \in Cells \ o /\ at \in u /\ u \ {at} = o /\ u = o \cup {at}
  BY <1>1 DEF Occupied
<1>8. PatternsOf(p) = Scan(o, L) /\ PatternsOf(q) = Scan(u, M)
  BY PatternsAre
<1> HIDE DEF o, u, L, M
<1>9. PatternsMake(Scan(o, L), at, p.side) = Scan(o \cup {at}, Recoded(L, Influences(at), p.side))
  BY <1>3, <1>4, <1>7, PatternsMakeIs
<1>10. PatternsUnmake(Scan(u, M), at) = Scan(u \ {at}, Recoded(M, Influences(at), "None"))
  BY <1>3, <1>7, PatternsUnmakeIs
<1> QED
  BY <1>5, <1>6, <1>7, <1>8, <1>9, <1>10

(* The fold that adds up is the sum. *)
LEMMA TotalIs ==
  ASSUME NEW S, IsFiniteSet(S), NEW f, f = [x \in S |-> f[x]]
  PROVE  Total(f) = SumOf(f, S)
<1> DEFINE H(g) == [s \in SUBSET S |-> IF s = {} THEN 0
                                       ELSE LET x == CHOOSE x \in s : TRUE IN f[x] + g[s \ {x}]]
           c == CHOOSE g : g = H(g)
<1>1. DOMAIN f = S
  OBVIOUS
<1>2. Total(f) = c[DOMAIN f]
  BY <1>1, Zenon DEF Total, FoldFunction, FoldFunctionOnSet, MapThenFoldSet
<1>3. \A g : g = H(g) <=> Summing(f, S, g)
  BY DEF Summing
<1>4. \E g : Summing(f, S, g)
  BY SummingExists, Zenon
<1> HIDE DEF H
<1>5. Summing(f, S, c)
  BY <1>3, <1>4, Zenon
<1>6. SumOf(f, S) = c[S]
  <2>1. S \in SUBSET S
    OBVIOUS
  <2> HIDE DEF c
  <2> QED
    BY <1>5, <2>1, SumIs
<1> QED
  BY <1>1, <1>2, <1>6

(* The tables of the evaluators are tables of integers. *)
IntegerWeights ==
  /\ \A key \in [Offsets -> Codes] : Weight(key) \in Int
  /\ \A owner \in {"None", "Own", "Other"} : CenterWeight(owner) \in Int
  /\ \A n \in Int : Activate(n) \in Int

(* Weights are integers for either side. *)
LEMMA WeightsAre ==
  ASSUME IntegerWeights, NEW s \in Stones
  PROVE  /\ \A key \in [Offsets -> Codes] : Weight(Relative(key, s)) \in Int
         /\ \A x : CenterWeight(OwnerOf(x, s)) \in Int
<1>1. ASSUME NEW key \in [Offsets -> Codes] PROVE Relative(key, s) \in [Offsets -> Codes]
  BY DEF Relative, Codes, Stones, Opponent
<1>2. \A x : OwnerOf(x, s) \in {"None", "Own", "Other"}
  BY DEF OwnerOf
<1>3. \A x : CenterWeight(OwnerOf(x, s)) \in Int
  <2> SUFFICES ASSUME NEW x PROVE CenterWeight(OwnerOf(x, s)) \in Int
    OBVIOUS
  <2>1. CASE OwnerOf(x, s) = "None"
    BY <2>1 DEF IntegerWeights
  <2>2. CASE OwnerOf(x, s) = "Own"
    BY <2>2 DEF IntegerWeights
  <2>3. CASE OwnerOf(x, s) = "Other"
    BY <2>3 DEF IntegerWeights
  <2> QED
    BY <1>2, <2>1, <2>2, <2>3
<1>4. ASSUME NEW key \in [Offsets -> Codes] PROVE Weight(Relative(key, s)) \in Int
  <2> DEFINE k == Relative(key, s)
  <2>1. k \in [Offsets -> Codes]
    BY <1>1
  <2> HIDE DEF k
  <2>2. Weight(k) \in Int
    BY <2>1, Zenon DEF IntegerWeights
  <2> QED
    BY <2>2 DEF k
<1> QED
  BY <1>3, <1>4

(* A move is in one window of each other cell at most. *)
LEMMA OneInfluence ==
  ASSUME NEW at \in Cells, NEW x \in Influences(at), NEW y \in Influences(at), x[1] = y[1]
  PROVE  x = y
<1> DEFINE c == x[1]  A == {z \in Directions \X Offsets : LineCells[c][z[1]][z[2]] = at}
           v == <<x[2], x[3]>>  w == <<y[2], y[3]>>
<1>1. c \in Cells /\ x = <<c, x[2], x[3]>> /\ y = <<c, y[2], y[3]>> /\ v \in A /\ w \in A
  BY DEF Influences
<1>2. IsFiniteSet(A)
  <2>1. IsFiniteSet(Directions \X Offsets)
    BY OffsetsFinite, FS_Product
  <2> QED
    BY <2>1, FS_Subset
<1>3. Cardinality(A) <= 1
  BY <1>1, GeometryAssumption
<1> HIDE DEF A
<1>4. ASSUME v # w PROVE FALSE
  <2> DEFINE B == A \ {v}
  <2>1. IsFiniteSet(B) /\ w \in B
    BY <1>1, <1>2, <1>4, FS_Subset
  <2>2. Cardinality(B) = Cardinality(A) - 1 /\ Cardinality(A) \in Nat
    BY <1>1, <1>2, FS_RemoveElement, FS_CardinalityType
  <2> HIDE DEF B
  <2>3. Cardinality(B) \in Nat /\ Cardinality(B) # 0
    BY <2>1, FS_CardinalityType, FS_EmptySet
  <2> QED
    BY <1>3, <2>2, <2>3
<1>5. v[1] = x[2] /\ v[2] = x[3] /\ w[1] = y[2] /\ w[2] = y[3]
  OBVIOUS
<1> HIDE DEF c, v, w
<1> QED
  BY <1>1, <1>4, <1>5

(* The windows of a move, before and after: one for each centre, in its direction. *)
LEMMA DeltaIs ==
  ASSUME NEW at \in Cells, NEW t, NEW u, NEW delta, delta = Delta(t, u, at)
  PROVE  \E e \in [delta -> Cells \X Directions] :
           /\ \A x \in delta : /\ x.center = e[x][1]
                               /\ x.old = t.lines[e[x][1]][e[x][2]]
                               /\ x.new = u.lines[e[x][1]][e[x][2]]
           /\ \A x, y \in delta : x.center = y.center => x = y
           /\ \A z \in Influences(at) : \E x \in delta : e[x] = <<z[1], z[2]>>
           /\ IsFiniteSet(delta)
<1> DEFINE I == Influences(at)
           D(z) == [center |-> z[1], old |-> t.lines[z[1]][z[2]], new |-> u.lines[z[1]][z[2]]]
           At(x) == CHOOSE z \in I : D(z) = x
           e == [x \in delta |-> <<At(x)[1], At(x)[2]>>]
<1>1. delta = {D(z) : z \in I}
  BY DEF Delta
<1>2. \A z \in I : z \in Cells \X Directions \X Offsets
  BY DEF Influences
<1>3. \A z \in I : /\ D(z).center = z[1] /\ D(z).old = t.lines[z[1]][z[2]]
                   /\ D(z).new = u.lines[z[1]][z[2]]
  OBVIOUS
<1>4. \A y, z \in I : y[1] = z[1] => y = z
  BY OneInfluence
<1> HIDE DEF D, I
<1>5. \A x \in delta : At(x) \in I /\ D(At(x)) = x
  <2> SUFFICES ASSUME NEW x \in delta PROVE At(x) \in I /\ D(At(x)) = x
    OBVIOUS
  <2>1. \E z \in I : D(z) = x
    BY <1>1
  <2> QED
    BY <2>1
<1>6. \A z \in I : D(z) \in delta /\ At(D(z)) = z
  <2> SUFFICES ASSUME NEW z \in I PROVE D(z) \in delta /\ At(D(z)) = z
    OBVIOUS
  <2>1. D(z) \in delta
    BY <1>1
  <2> DEFINE y == At(D(z))
  <2>2. y \in I /\ D(y) = D(z)
    BY <1>5, <2>1
  <2> HIDE DEF y
  <2>3. y[1] = z[1]
    BY <1>3, <2>2
  <2> QED
    BY <1>4, <2>1, <2>2, <2>3 DEF y
<1>7. IsFiniteSet(delta)
  <2> DEFINE f == [z \in I |-> D(z)]
  <2>1. f \in Surjection(I, delta)
    BY <1>1 DEF Surjection
  <2>2. IsFiniteSet(I)
    BY InfluencesFinite DEF I
  <2> HIDE DEF f
  <2> QED
    BY <2>1, <2>2, FS_Surjection
<1> HIDE DEF At
<1>8. e \in [delta -> Cells \X Directions]
  BY <1>2, <1>5
<1>9. \A x \in delta : /\ x.center = e[x][1] /\ x.old = t.lines[e[x][1]][e[x][2]]
                       /\ x.new = u.lines[e[x][1]][e[x][2]]
  <2> SUFFICES ASSUME NEW x \in delta
               PROVE  /\ x.center = e[x][1] /\ x.old = t.lines[e[x][1]][e[x][2]]
                      /\ x.new = u.lines[e[x][1]][e[x][2]]
    OBVIOUS
  <2>1. e[x][1] = At(x)[1] /\ e[x][2] = At(x)[2]
    OBVIOUS
  <2> QED
    BY <1>3, <1>5, <2>1
<1>10. \A x, y \in delta : x.center = y.center => x = y
  BY <1>3, <1>4, <1>5
<1>11. \A z \in I : \E x \in delta : e[x] = <<z[1], z[2]>>
  <2> SUFFICES ASSUME NEW z \in I PROVE \E x \in delta : e[x] = <<z[1], z[2]>>
    OBVIOUS
  <2>1. D(z) \in delta /\ e[D(z)] = <<z[1], z[2]>>
    BY <1>6
  <2> HIDE DEF e
  <2> QED
    BY <2>1
<1> HIDE DEF e
<1> QED
  BY <1>7, <1>8, <1>9, <1>10, <1>11 DEF I

-----------------------------------------------------------------------------
(* One line of keys for another, at a move. *)
LinesDiffer(L, M, at) ==
  \A c \in Cells, d \in Directions :
    L[c][d] # M[c][d] => \E i \in Offsets : <<c, d, i>> \in Influences(at)

Weighed(L, s) == [x \in Cells \X Directions |-> Weight(Relative(L[x[1]][x[2]], s))]
WeighedAt(L, s, c) == [d \in Directions |-> Weight(Relative(L[c][d], s))]
Changed(T, s) == [x \in T |-> Weight(Relative(x.new, s)) - Weight(Relative(x.old, s))]

(* The windows around a cell add what those in the delta have changed by. *)
LEMMA LocalMoves ==
  ASSUME IntegerWeights, NEW at \in Cells, NEW t, NEW u, t.lines \in Keyed, u.lines \in Keyed,
         LinesDiffer(t.lines, u.lines, at), NEW s \in Stones, NEW c \in Cells,
         NEW delta, delta = Delta(t, u, at),
         NEW T \in SUBSET delta, \A x \in delta : x \in T <=> x.center = c
  PROVE  /\ Total(WeighedAt(u.lines, s, c)) = Total(WeighedAt(t.lines, s, c)) + Total(Changed(T, s))
         /\ Total(WeighedAt(u.lines, s, c)) \in Int /\ Total(WeighedAt(t.lines, s, c)) \in Int
         /\ Total(Changed(T, s)) \in Int
<1> DEFINE L == t.lines  M == u.lines  f == WeighedAt(L, s, c)  g == WeighedAt(M, s, c)  h == Changed(T, s)
<1>1. PICK e \in [delta -> Cells \X Directions] :
           /\ \A x \in delta : /\ x.center = e[x][1] /\ x.old = L[e[x][1]][e[x][2]]
                               /\ x.new = M[e[x][1]][e[x][2]]
           /\ \A x, y \in delta : x.center = y.center => x = y
           /\ \A z \in Influences(at) : \E x \in delta : e[x] = <<z[1], z[2]>>
           /\ IsFiniteSet(delta)
  BY DeltaIs
<1>2. \A k \in [Offsets -> Codes] : Weight(Relative(k, s)) \in Int
  BY WeightsAre
<1>3. \A d \in Directions : L[c][d] \in [Offsets -> Codes] /\ M[c][d] \in [Offsets -> Codes]
  BY DEF Keyed
<1>4. \A d \in Directions : f[d] \in Int /\ g[d] \in Int
  BY <1>2, <1>3 DEF WeighedAt
<1> DEFINE k == [x \in T |-> e[x][2]]
<1>5. IsFiniteSet(T) /\ IsFiniteSet(Directions)
  BY <1>1, FS_Subset, OffsetsFinite
<1>6. \A x \in T : k[x] \in Directions /\ h[x] = g[k[x]] - f[k[x]]
  <2> SUFFICES ASSUME NEW x \in T PROVE k[x] \in Directions /\ h[x] = g[k[x]] - f[k[x]]
    OBVIOUS
  <2>1. x \in delta /\ x.center = c /\ e[x] \in Cells \X Directions
    OBVIOUS
  <2>2. k[x] = e[x][2] /\ e[x][2] \in Directions /\ e[x][1] = c
    BY <1>1, <2>1
  <2>3. x.old = L[c][k[x]] /\ x.new = M[c][k[x]]
    BY <1>1, <2>1, <2>2
  <2> QED
    BY <2>2, <2>3 DEF Changed, WeighedAt
<1>7. \A x, y \in T : k[x] = k[y] => x = y
  BY <1>1
<1>8. \A d \in Directions : f[d] # g[d] => \E x \in T : k[x] = d
  <2> SUFFICES ASSUME NEW d \in Directions, f[d] # g[d] PROVE \E x \in T : k[x] = d
    OBVIOUS
  <2>1. L[c][d] # M[c][d]
    BY DEF WeighedAt
  <2>2. PICK i \in Offsets : <<c, d, i>> \in Influences(at)
    BY <2>1 DEF LinesDiffer
  <2>3. PICK x \in delta : e[x] = <<c, d>>
    BY <1>1, <2>2
  <2>4. x.center = c /\ e[x][2] = d
    BY <1>1, <2>3
  <2> QED
    BY <2>4
<1>9. \A x \in T : h[x] \in Int
  <2> HIDE DEF f, g, h, k
  <2> QED
    BY <1>4, <1>6
<1>10. Total(f) = SumOf(f, Directions) /\ Total(g) = SumOf(g, Directions) /\ Total(h) = SumOf(h, T)
  <2>1. f = [d \in Directions |-> f[d]] /\ g = [d \in Directions |-> g[d]] /\ h = [x \in T |-> h[x]]
    BY DEF WeighedAt, Changed
  <2> HIDE DEF f, g, h
  <2> QED
    BY <1>5, <2>1, TotalIs
<1> HIDE DEF f, g, h, k, L, M
<1>11. SumOf(g, Directions) = SumOf(f, Directions) + SumOf(h, T)
  <2>1. Moving(Directions, f, g, T, h, k)
    BY <1>4, <1>6, <1>7, <1>8 DEF Moving
  <2> QED
    BY <1>5, <2>1, SumMoves
<1>12. SumOf(g, Directions) \in Int /\ SumOf(f, Directions) \in Int /\ SumOf(h, T) \in Int
  BY <1>4, <1>5, <1>9, SumInt
<1> QED
  BY <1>10, <1>11, <1>12 DEF f, g, h, L, M

(* The linear value changes by the sum over the whole delta. *)
LEMMA LinearMoves ==
  ASSUME IntegerWeights, NEW at \in Cells, NEW t, NEW u, t.lines \in Keyed, u.lines \in Keyed,
         LinesDiffer(t.lines, u.lines, at), NEW s \in Stones, NEW delta, delta = Delta(t, u, at)
  PROVE  Total(Weighed(u.lines, s)) = Total(Weighed(t.lines, s)) + Total(Changed(delta, s))
<1> DEFINE L == t.lines  M == u.lines  f == Weighed(L, s)  g == Weighed(M, s)  h == Changed(delta, s)
           S == Cells \X Directions
<1>1. PICK e \in [delta -> S] :
           /\ \A x \in delta : /\ x.center = e[x][1] /\ x.old = L[e[x][1]][e[x][2]]
                               /\ x.new = M[e[x][1]][e[x][2]]
           /\ \A x, y \in delta : x.center = y.center => x = y
           /\ \A z \in Influences(at) : \E x \in delta : e[x] = <<z[1], z[2]>>
           /\ IsFiniteSet(delta)
  BY DeltaIs
<1>2. \A k \in [Offsets -> Codes] : Weight(Relative(k, s)) \in Int
  BY WeightsAre
<1>3. \A y \in S : L[y[1]][y[2]] \in [Offsets -> Codes] /\ M[y[1]][y[2]] \in [Offsets -> Codes]
  BY DEF Keyed
<1>4. \A y \in S : f[y] \in Int /\ g[y] \in Int
  BY <1>2, <1>3 DEF Weighed
<1>5. IsFiniteSet(delta) /\ IsFiniteSet(S)
  BY <1>1, FS_Product, OffsetsFinite
<1>6. \A x \in delta : e[x] \in S /\ h[x] = g[e[x]] - f[e[x]]
  <2> SUFFICES ASSUME NEW x \in delta PROVE e[x] \in S /\ h[x] = g[e[x]] - f[e[x]]
    OBVIOUS
  <2>1. e[x] \in S /\ x.old = L[e[x][1]][e[x][2]] /\ x.new = M[e[x][1]][e[x][2]]
    BY <1>1
  <2> QED
    BY <2>1 DEF Changed, Weighed
<1>7. \A x, y \in delta : e[x] = e[y] => x = y
  BY <1>1
<1>8. \A y \in S : f[y] # g[y] => \E x \in delta : e[x] = y
  <2> SUFFICES ASSUME NEW y \in S, f[y] # g[y] PROVE \E x \in delta : e[x] = y
    OBVIOUS
  <2>1. L[y[1]][y[2]] # M[y[1]][y[2]] /\ y[1] \in Cells /\ y[2] \in Directions /\ y = <<y[1], y[2]>>
    BY DEF Weighed
  <2>2. PICK i \in Offsets : <<y[1], y[2], i>> \in Influences(at)
    BY <2>1 DEF LinesDiffer
  <2>3. PICK x \in delta : e[x] = <<y[1], y[2]>>
    BY <1>1, <2>2
  <2> QED
    BY <2>1, <2>3
<1>10. Total(f) = SumOf(f, S) /\ Total(g) = SumOf(g, S) /\ Total(h) = SumOf(h, delta)
  <2>1. f = [y \in S |-> f[y]] /\ g = [y \in S |-> g[y]] /\ h = [x \in delta |-> h[x]]
    BY DEF Weighed, Changed
  <2> HIDE DEF f, g, h, S
  <2> QED
    BY <1>5, <2>1, TotalIs
<1> HIDE DEF f, g, h, S, L, M
<1>11. SumOf(g, S) = SumOf(f, S) + SumOf(h, delta)
  <2>1. Moving(S, f, g, delta, h, e)
    BY <1>4, <1>6, <1>7, <1>8 DEF Moving
  <2> QED
    BY <1>5, <2>1, SumMoves
<1> QED
  BY <1>10, <1>11 DEF f, g, h, S, L, M

Valued(local, s) == [c \in Cells |-> Activate(local[s][c])]
Revalued(D, new, old, s) == [c \in D |-> Activate(new[s][c]) - Activate(old[s][c])]
Locals(p, t) == [s \in Stones |-> [c \in Cells |-> LocalOf(p, t, s, c)]]

(* What a cell counts for is an integer. *)
LEMMA LocalInt ==
  ASSUME IntegerWeights, NEW p, NEW t, t.lines \in Keyed, NEW s \in Stones, NEW c \in Cells
  PROVE  LocalOf(p, t, s, c) \in Int
<1> DEFINE f == WeighedAt(t.lines, s, c)
<1>1. \A d \in Directions : t.lines[c][d] \in [Offsets -> Codes]
  BY DEF Keyed
<1>2. \A d \in Directions : f[d] \in Int
  BY <1>1, WeightsAre DEF WeighedAt
<1>3. f = [d \in Directions |-> f[d]] /\ IsFiniteSet(Directions)
  BY OffsetsFinite DEF WeighedAt
<1>4. LocalOf(p, t, s, c) = CenterWeight(OwnerOf(p.cells[c], s)) + Total(f)
  BY DEF LocalOf, WeighedAt
<1> HIDE DEF f
<1>5. Total(f) \in Int
  BY <1>2, <1>3, TotalIs, SumInt
<1>6. CenterWeight(OwnerOf(p.cells[c], s)) \in Int
  BY WeightsAre
<1> QED
  BY <1>4, <1>5, <1>6

(* One move, on the accumulators: forwards and backwards alike. *)
LEMMA ApplyIs ==
  ASSUME IntegerWeights, NEW at \in Cells, NEW p, NEW q, \A c \in Cells : c # at => q.cells[c] = p.cells[c],
         NEW t, NEW u, t.lines \in Keyed, u.lines \in Keyed, LinesDiffer(t.lines, u.lines, at)
  PROVE  Apply(AccumulatorsOf(p, t), Delta(t, u, at), at, p.cells[at], q.cells[at]) = AccumulatorsOf(q, u)
<1> DEFINE delta == Delta(t, u, at)  dirty == {at} \cup {x.center : x \in delta}
           old == Locals(p, t)  new == Locals(q, u)
           Of(c) == {x \in delta : x.center = c}
           from == p.cells[at]  to == q.cells[at]
<1>0. delta = Delta(t, u, at)
  OBVIOUS
<1>1. /\ \A x \in delta : x.center \in Cells
      /\ IsFiniteSet(delta) /\ IsFiniteSet(dirty) /\ dirty \in SUBSET Cells
      /\ \A c \in Cells, d \in Directions, i \in Offsets : <<c, d, i>> \in Influences(at) => c \in dirty
  <2> HIDE DEF delta
  <2>1. PICK e \in [delta -> Cells \X Directions] :
           /\ \A x \in delta : /\ x.center = e[x][1] /\ x.old = t.lines[e[x][1]][e[x][2]]
                               /\ x.new = u.lines[e[x][1]][e[x][2]]
           /\ \A x, y \in delta : x.center = y.center => x = y
           /\ \A z \in Influences(at) : \E x \in delta : e[x] = <<z[1], z[2]>>
           /\ IsFiniteSet(delta)
    BY <1>0, DeltaIs
  <2>2. \A x \in delta : x.center \in Cells
    BY <2>1
  <2>3. dirty \in SUBSET Cells
    BY <2>2
  <2>4. \A c \in Cells, d \in Directions, i \in Offsets : <<c, d, i>> \in Influences(at) => c \in dirty
    BY <2>1
  <2>5. IsFiniteSet(dirty)
    BY <2>3, FS_Subset
  <2> QED
    BY <2>1, <2>2, <2>3, <2>4, <2>5
<1> HIDE DEF delta
<1>2. ASSUME NEW s \in Stones, NEW c \in Cells
      PROVE  /\ new[s][c] = old[s][c]
                   + (IF c = at THEN CenterWeight(OwnerOf(to, s)) - CenterWeight(OwnerOf(from, s)) ELSE 0)
                   + Total(Changed(Of(c), s))
             /\ new[s][c] \in Int /\ old[s][c] \in Int
  <2> DEFINE T == Of(c)  a == CenterWeight(OwnerOf(p.cells[c], s))  b == CenterWeight(OwnerOf(q.cells[c], s))
             x == Total(WeighedAt(t.lines, s, c))  y == Total(WeighedAt(u.lines, s, c))
             z == Total(Changed(T, s))
  <2>1. T \in SUBSET delta /\ \A r \in delta : r \in T <=> r.center = c
    OBVIOUS
  <2>2. a \in Int /\ b \in Int
    BY WeightsAre
  <2>3. c # at => b = a
    OBVIOUS
  <2>4. old[s][c] = a + x /\ new[s][c] = b + y
    BY DEF Locals, LocalOf, WeighedAt
  <2> HIDE DEF T, a, b
  <2>5. y = x + z /\ x \in Int /\ y \in Int /\ z \in Int
    BY <1>0, <2>1, LocalMoves
  <2>6. c = at => a = CenterWeight(OwnerOf(from, s)) /\ b = CenterWeight(OwnerOf(to, s))
    BY DEF a, b
  <2> HIDE DEF x, y, z, old, new, from, to
  <2>7. new[s][c] = old[s][c]
           + (IF c = at THEN CenterWeight(OwnerOf(to, s)) - CenterWeight(OwnerOf(from, s)) ELSE 0) + z
    <3>1. CASE c = at
      BY <2>2, <2>4, <2>5, <2>6, <3>1
    <3>2. CASE c # at
      BY <2>2, <2>3, <2>4, <2>5, <3>2
    <3> QED
      BY <3>1, <3>2
  <2>8. new[s][c] \in Int /\ old[s][c] \in Int
    BY <2>2, <2>4, <2>5
  <2> QED
    BY <2>7, <2>8 DEF z, T
<1>3. ASSUME NEW s \in Stones
      PROVE  Total(Valued(new, s)) = Total(Valued(old, s)) + Total(Revalued(dirty, new, old, s))
  <2> DEFINE f == Valued(old, s)  g == Valued(new, s)  h == Revalued(dirty, new, old, s)
             k == [c \in dirty |-> c]
  <2>1. \A c \in Cells : f[c] \in Int /\ g[c] \in Int
    <3> SUFFICES ASSUME NEW c \in Cells PROVE f[c] \in Int /\ g[c] \in Int
      OBVIOUS
    <3>1. new[s][c] \in Int /\ old[s][c] \in Int
      BY <1>2
    <3>2. f[c] = Activate(old[s][c]) /\ g[c] = Activate(new[s][c])
      BY DEF Valued
    <3> HIDE DEF old, new, f, g
    <3> QED
      BY <3>1, <3>2 DEF IntegerWeights
  <2>2. \A c \in dirty : k[c] \in Cells /\ h[c] = g[k[c]] - f[k[c]]
    <3> SUFFICES ASSUME NEW c \in dirty PROVE k[c] \in Cells /\ h[c] = g[k[c]] - f[k[c]]
      OBVIOUS
    <3> HIDE DEF old, new
    <3>1. c \in Cells /\ k[c] = c
      BY <1>1
    <3> HIDE DEF dirty, k
    <3> QED
      BY <3>1 DEF Valued, Revalued
  <2>3. \A b, c \in dirty : k[b] = k[c] => b = c
    OBVIOUS
  <2>4. \A c \in Cells : f[c] # g[c] => \E b \in dirty : k[b] = c
    <3> SUFFICES ASSUME NEW c \in Cells, c \notin dirty PROVE f[c] = g[c]
      <4> HIDE DEF f, g, dirty
      <4> QED
        OBVIOUS
    <3>1. \A d \in Directions : t.lines[c][d] = u.lines[c][d]
      <4> HIDE DEF dirty
      <4> QED
        BY <1>1 DEF LinesDiffer
    <3>2. c # at /\ q.cells[c] = p.cells[c]
      OBVIOUS
    <3>3. LocalOf(q, u, s, c) = LocalOf(p, t, s, c)
      BY <3>1, <3>2, Zenon DEF LocalOf
    <3> HIDE DEF dirty
    <3>4. new[s][c] = old[s][c]
      BY <3>3 DEF Locals
    <3> HIDE DEF new, old
    <3> QED
      BY <3>4 DEF Valued
  <2>5. f = [c \in Cells |-> f[c]] /\ g = [c \in Cells |-> g[c]] /\ h = [c \in dirty |-> h[c]]
    BY DEF Valued, Revalued
  <2> HIDE DEF f, g, h, k, dirty
  <2>6. Moving(Cells, f, g, dirty, h, k)
    BY <2>1, <2>2, <2>3, <2>4 DEF Moving
  <2>7. SumOf(g, Cells) = SumOf(f, Cells) + SumOf(h, dirty)
    BY <1>1, <2>6, OffsetsFinite, SumMoves
  <2>8. Total(f) = SumOf(f, Cells) /\ Total(g) = SumOf(g, Cells) /\ Total(h) = SumOf(h, dirty)
    BY <1>1, <2>5, OffsetsFinite, TotalIs
  <2> QED
    BY <2>7, <2>8 DEF f, g, h
<1>4. ASSUME NEW s \in Stones
      PROVE  Total(Weighed(u.lines, s)) = Total(Weighed(t.lines, s)) + Total(Changed(delta, s))
  BY LinearMoves DEF delta
<1>5. /\ AccumulatorsOf(p, t) = [local |-> old, linear |-> [s \in Stones |-> Total(Weighed(t.lines, s))],
                                 values |-> [s \in Stones |-> Total(Valued(old, s))]]
      /\ AccumulatorsOf(q, u) = [local |-> new, linear |-> [s \in Stones |-> Total(Weighed(u.lines, s))],
                                 values |-> [s \in Stones |-> Total(Valued(new, s))]]
  BY Zenon DEF AccumulatorsOf, Locals, Weighed, Valued
<1> DEFINE acc == AccumulatorsOf(p, t)
<1>6. acc.local = old /\ (\A s \in Stones : acc.linear[s] = Total(Weighed(t.lines, s))
                                            /\ acc.values[s] = Total(Valued(old, s)))
  BY <1>5
<1> DEFINE local == [s \in Stones |-> [c \in Cells |->
                  acc.local[s][c]
                    + (IF c = at THEN CenterWeight(OwnerOf(to, s)) - CenterWeight(OwnerOf(from, s)) ELSE 0)
                    + Total(Changed(Of(c), s))]]
<1>7. Apply(acc, delta, at, from, to)
        = [local |-> local,
           linear |-> [s \in Stones |-> acc.linear[s] + Total(Changed(delta, s))],
           values |-> [s \in Stones |-> acc.values[s] + Total(Revalued(dirty, local, acc.local, s))]]
  <2> HIDE DEF acc, from, to
  <2> QED
    BY Zenon DEF Apply, Changed, Revalued
<1> HIDE DEF acc, dirty
<1>8. local = new
  <2>1. new = [s \in Stones |-> [c \in Cells |-> new[s][c]]]
    BY DEF Locals
  <2> HIDE DEF new, old, Of, from, to
  <2>2. ASSUME NEW s \in Stones, NEW c \in Cells
        PROVE  new[s][c] = acc.local[s][c]
                    + (IF c = at THEN CenterWeight(OwnerOf(to, s)) - CenterWeight(OwnerOf(from, s)) ELSE 0)
                    + Total(Changed(Of(c), s))
    BY <1>2, <1>6
  <2> QED
    BY <2>1, <2>2, Zenon
<1> HIDE DEF local, old, new, from, to
<1>9. [s \in Stones |-> acc.linear[s] + Total(Changed(delta, s))] = [s \in Stones |-> Total(Weighed(u.lines, s))]
  BY <1>4, <1>6
<1>10. [s \in Stones |-> acc.values[s] + Total(Revalued(dirty, local, acc.local, s))]
         = [s \in Stones |-> Total(Valued(new, s))]
  BY <1>3, <1>6, <1>8
<1> QED
  BY <1>5, <1>7, <1>8, <1>9, <1>10 DEF acc, from, to, delta

-----------------------------------------------------------------------------
(* A board whose sidecars are exact. *)
Kept(p, n, k, f, t, e) ==
  [position |-> p, depth |-> n, key |-> k, frontier |-> f, patterns |-> t, evaluator |-> e]
BoardAt(p, n) == Kept(p, n, KeyOf(p), FrontierOf(p), PatternsOf(p), AccumulatorsOf(p, PatternsOf(p)))

(* The fields of a board. *)
LEMMA KeptIs ==
  ASSUME NEW p, NEW n, NEW k, NEW f, NEW t, NEW e
  PROVE  /\ Kept(p, n, k, f, t, e).position = p /\ Kept(p, n, k, f, t, e).depth = n
         /\ Kept(p, n, k, f, t, e).key = k /\ Kept(p, n, k, f, t, e).frontier = f
         /\ Kept(p, n, k, f, t, e).patterns = t /\ Kept(p, n, k, f, t, e).evaluator = e
  BY DEF Kept

(* A move on a board, field by field. *)
LEMMA MadeFields ==
  ASSUME NEW p, NEW n, NEW k, NEW f, NEW t, NEW e, NEW at, NEW u, u = PatternsMake(t, at, p.side)
  PROVE  MadeOn(Kept(p, n, k, f, t, e), at)
           = Kept(MakeMove(p, at), n, ToggleMove(k, at, p.side), FrontierMake(f, at), u,
                  Apply(e, Delta(t, u, at), at, Nothing, p.side))
<1> DEFINE b == Kept(p, n, k, f, t, e)
           p2 == MakeMove(p, at)  k2 == ToggleMove(k, at, p.side)  f2 == FrontierMake(f, at)
           e2 == Apply(e, Delta(t, u, at), at, Nothing, p.side)
<1>1. b.position = p /\ b.key = k /\ b.frontier = f /\ b.patterns = t /\ b.evaluator = e
  BY KeptIs
<1> HIDE DEF b
<1>2. MadeOn(b, at) = [b EXCEPT !.position = p2, !.frontier = f2, !.patterns = u, !.key = k2, !.evaluator = e2]
  <2>1. MadeOn(b, at)
          = [b EXCEPT !.position = MakeMove(b.position, at), !.frontier = FrontierMake(b.frontier, at),
                      !.patterns = PatternsMake(b.patterns, at, b.position.side),
                      !.key = ToggleMove(b.key, at, b.position.side),
                      !.evaluator = Apply(b.evaluator,
                         Delta(b.patterns, PatternsMake(b.patterns, at, b.position.side), at),
                         at, Nothing, b.position.side)]
    BY Zenon DEF MadeOn
  <2> QED
    BY <1>1, <2>1
<1> HIDE DEF p2, k2, f2, e2
<1>3. [b EXCEPT !.position = p2, !.frontier = f2, !.patterns = u, !.key = k2, !.evaluator = e2]
        = [[[[[b EXCEPT !.position = p2] EXCEPT !.frontier = f2] EXCEPT !.patterns = u] EXCEPT !.key = k2]
             EXCEPT !.evaluator = e2]
  OBVIOUS
<1>4. [b EXCEPT !.position = p2] = Kept(p2, n, k, f, t, e)
  BY DEF b, Kept
<1>5. [Kept(p2, n, k, f, t, e) EXCEPT !.frontier = f2] = Kept(p2, n, k, f2, t, e)
  BY DEF Kept
<1>6. [Kept(p2, n, k, f2, t, e) EXCEPT !.patterns = u] = Kept(p2, n, k, f2, u, e)
  BY DEF Kept
<1>7. [Kept(p2, n, k, f2, u, e) EXCEPT !.key = k2] = Kept(p2, n, k2, f2, u, e)
  BY DEF Kept
<1>8. [Kept(p2, n, k2, f2, u, e) EXCEPT !.evaluator = e2] = Kept(p2, n, k2, f2, u, e2)
  BY DEF Kept
<1>9. MadeOn(b, at) = Kept(p2, n, k2, f2, u, e2)
  <2>1. [[b EXCEPT !.position = p2] EXCEPT !.frontier = f2] = Kept(p2, n, k, f2, t, e)
    BY <1>4, <1>5
  <2>2. [[[b EXCEPT !.position = p2] EXCEPT !.frontier = f2] EXCEPT !.patterns = u] = Kept(p2, n, k, f2, u, e)
    BY <1>6, <2>1
  <2>3. [[[[b EXCEPT !.position = p2] EXCEPT !.frontier = f2] EXCEPT !.patterns = u] EXCEPT !.key = k2]
          = Kept(p2, n, k2, f2, u, e)
    BY <1>7, <2>2
  <2> QED
    BY <1>2, <1>3, <1>8, <2>3
<1> QED
  BY <1>9, Zenon DEF b, p2, k2, f2, e2

(* A move taken back, field by field. *)
LEMMA UnmadeFields ==
  ASSUME NEW p, NEW n, NEW k, NEW f, NEW t, NEW e, NEW token
  PROVE  UnmadeOn(Kept(p, n, k, f, t, e), token)
           = Kept(UnmakeMove(p, token.position), n, ToggleMove(k, token.at, token.position.stone),
                  FrontierUnmake(f, token.at), PatternsUnmake(t, token.at),
                  Apply(e, Reversed(token.delta), token.at, token.position.stone, Nothing))
<1> DEFINE b == Kept(p, n, k, f, t, e)
           p2 == UnmakeMove(p, token.position)  k2 == ToggleMove(k, token.at, token.position.stone)
           f2 == FrontierUnmake(f, token.at)  u == PatternsUnmake(t, token.at)
           e2 == Apply(e, Reversed(token.delta), token.at, token.position.stone, Nothing)
<1>1. b.position = p /\ b.key = k /\ b.frontier = f /\ b.patterns = t /\ b.evaluator = e
  BY KeptIs
<1> HIDE DEF b
<1>2. UnmadeOn(b, token)
        = [b EXCEPT !.evaluator = e2, !.patterns = u, !.position = p2, !.frontier = f2, !.key = k2]
  <2>1. UnmadeOn(b, token)
          = [b EXCEPT !.evaluator = Apply(b.evaluator, Reversed(token.delta), token.at,
                                          token.position.stone, Nothing),
                      !.patterns = PatternsUnmake(b.patterns, token.at),
                      !.position = UnmakeMove(b.position, token.position),
                      !.frontier = FrontierUnmake(b.frontier, token.at),
                      !.key = ToggleMove(b.key, token.at, token.position.stone)]
    BY Zenon DEF UnmadeOn
  <2> QED
    BY <1>1, <2>1
<1> HIDE DEF p2, k2, f2, e2, u
<1>3. [b EXCEPT !.evaluator = e2, !.patterns = u, !.position = p2, !.frontier = f2, !.key = k2]
        = [[[[[b EXCEPT !.evaluator = e2] EXCEPT !.patterns = u] EXCEPT !.position = p2] EXCEPT !.frontier = f2]
             EXCEPT !.key = k2]
  OBVIOUS
<1>4. [b EXCEPT !.evaluator = e2] = Kept(p, n, k, f, t, e2)
  BY DEF b, Kept
<1>5. [Kept(p, n, k, f, t, e2) EXCEPT !.patterns = u] = Kept(p, n, k, f, u, e2)
  BY DEF Kept
<1>6. [Kept(p, n, k, f, u, e2) EXCEPT !.position = p2] = Kept(p2, n, k, f, u, e2)
  BY DEF Kept
<1>7. [Kept(p2, n, k, f, u, e2) EXCEPT !.frontier = f2] = Kept(p2, n, k, f2, u, e2)
  BY DEF Kept
<1>8. [Kept(p2, n, k, f2, u, e2) EXCEPT !.key = k2] = Kept(p2, n, k2, f2, u, e2)
  BY DEF Kept
<1>9. UnmadeOn(b, token) = Kept(p2, n, k2, f2, u, e2)
  BY <1>2, <1>3, <1>4, <1>5, <1>6, <1>7, <1>8
<1> QED
  BY <1>9, Zenon DEF b, p2, k2, f2, e2, u

(* A delta reversed is the delta of the move taken back. *)
LEMMA ReversedIs ==
  ASSUME NEW t, NEW u, NEW at
  PROVE  Reversed(Delta(t, u, at)) = Delta(u, t, at)
<1> DEFINE D(z) == [center |-> z[1], old |-> t.lines[z[1]][z[2]], new |-> u.lines[z[1]][z[2]]]
           E(z) == [center |-> z[1], old |-> u.lines[z[1]][z[2]], new |-> t.lines[z[1]][z[2]]]
           R(x) == [center |-> x.center, old |-> x.new, new |-> x.old]
           I == Influences(at)
<1>1. Delta(t, u, at) = {D(z) : z \in I} /\ Delta(u, t, at) = {E(z) : z \in I}
      /\ Reversed(Delta(t, u, at)) = {R(x) : x \in Delta(t, u, at)}
  BY DEF Delta, Reversed
<1>2. \A z \in I : R(D(z)) = E(z)
  OBVIOUS
<1> HIDE DEF D, E, R
<1>3. {R(x) : x \in {D(z) : z \in I}} = {E(z) : z \in I}
  BY <1>2
<1> QED
  BY <1>1, <1>3

(* The windows of a position are those of its scan. *)
LEMMA PatternsKeyed ==
  ASSUME NEW p \in Positions
  PROVE  PatternsOf(p).lines = LinesOf(p) /\ PatternsOf(p).lines \in Keyed
<1>1. PatternsOf(p).lines = LinesOf(p)
  <2> DEFINE o == Occupied(p)  L == LinesOf(p)  K == Cells \ o  P == AllClasses(L)  C == AllCodes(L)
  <2>1. PatternsOf(p) = Tables(o, L, C, ShownOf(K, P), CountsOf(K, P), BitsOf(K, P))
    BY PatternsAre DEF Scan, Filed
  <2> HIDE DEF o, K, P, C
  <2> QED
    BY <2>1, TablesAre
<1> QED
  BY <1>1, LinesKeyed

(* Positions that differ in one cell have windows that differ there alone. *)
LEMMA LinesDifferAt ==
  ASSUME NEW p \in Positions, NEW q \in Positions, NEW at \in Cells,
         \A c \in Cells : c # at => q.cells[c] = p.cells[c]
  PROVE  LinesDiffer(LinesOf(p), LinesOf(q), at)
<1> SUFFICES ASSUME NEW c \in Cells, NEW d \in Directions, LinesOf(p)[c][d] # LinesOf(q)[c][d]
             PROVE  \E i \in Offsets : <<c, d, i>> \in Influences(at)
  BY DEF LinesDiffer
<1>1. LineKey(p, c, d) # LineKey(q, c, d)
  BY DEF LinesOf
<1>2. PICK i \in Offsets : LineCells[c][d][i] # Nothing
                           /\ p.cells[LineCells[c][d][i]] # q.cells[LineCells[c][d][i]]
  BY <1>1 DEF LineKey
<1>3. LineCells[c][d][i] \in Cells
  BY <1>2, GeometryAssumption
<1>4. LineCells[c][d][i] = at
  BY <1>2, <1>3
<1> QED
  BY <1>4 DEF Influences

(* A move on an exact board is the exact board of the next position, and   *)
(* its token takes it back.                                                *)
LEMMA MadeIs ==
  ASSUME IntegerWeights, NEW p, WellFormed(p), NEW at \in Cells, Legal(p, at), NEW q, q = MakeMove(p, at),
         NEW n
  PROVE  /\ MadeOn(BoardAt(p, n), at) = BoardAt(q, n)
         /\ TakenBack(BoardAt(q, n), TokenOf(BoardAt(p, n), at)) = BoardAt(p, n)
         /\ InOrder(BoardAt(q, n), TokenOf(BoardAt(p, n), at))
<1> DEFINE t == PatternsOf(p)  u == PatternsOf(q)  d == Delta(t, u, at)
           k == KeyOf(p)  j == KeyOf(q)  f == FrontierOf(p)  g == FrontierOf(q)
           e == AccumulatorsOf(p, t)  r == AccumulatorsOf(q, u)
           token == TokenOf(BoardAt(p, n), at)
<1>1. /\ WellFormed(q) /\ at \notin Occupied(p) /\ Occupied(q) = Occupied(p) \cup {at}
      /\ p.cells[at] = Nothing /\ q.cells[at] = p.side /\ p.side \in Stones
      /\ \A c \in Cells : c # at => q.cells[c] = p.cells[c]
      /\ q.side = Opponent(p.side) /\ q.last = at
      /\ UnmakeMove(q, Token(p, at)) = p
  BY MoveIs
<1>2. p \in Positions /\ q \in Positions
  BY <1>1 DEF WellFormed
<1>3. PatternsMake(t, at, p.side) = u /\ PatternsUnmake(u, at) = t
  BY PatternsMove
<1>4. ToggleMove(k, at, p.side) = j /\ ToggleMove(j, at, p.side) = k
  BY KeyMoves
<1>5. FrontierMake(f, at) = g /\ FrontierUnmake(g, at) = f
  <2> DEFINE S == Occupied(q)
  <2>1. S \in SUBSET Cells /\ at \in S /\ S \ {at} = Occupied(p)
    BY <1>1 DEF Occupied
  <2>2. f = FrontierAt(S \ {at}) /\ g = FrontierAt(S)
    BY <2>1, FrontierIs
  <2> HIDE DEF S, f, g
  <2>3. FrontierMake(FrontierAt(S \ {at}), at) = FrontierAt(S)
    BY <2>1, FrontierMakeIs
  <2>4. FrontierUnmake(FrontierAt(S), at) = FrontierAt(S \ {at})
    BY <2>1, FrontierUnmakeIs
  <2> QED
    BY <2>2, <2>3, <2>4
<1>6. /\ t.lines \in Keyed /\ u.lines \in Keyed
      /\ LinesDiffer(t.lines, u.lines, at) /\ LinesDiffer(u.lines, t.lines, at)
  <2>1. \A c \in Cells : c # at => p.cells[c] = q.cells[c]
    BY <1>1
  <2>2. LinesDiffer(LinesOf(p), LinesOf(q), at) /\ LinesDiffer(LinesOf(q), LinesOf(p), at)
    BY <1>1, <1>2, <2>1, LinesDifferAt
  <2>3. t.lines = LinesOf(p) /\ u.lines = LinesOf(q)
    BY <1>2, PatternsKeyed
  <2>4. t.lines \in Keyed /\ u.lines \in Keyed
    BY <1>2, PatternsKeyed
  <2> QED
    BY <2>2, <2>3, <2>4
<1> HIDE DEF t, u
<1>7. Apply(e, d, at, Nothing, p.side) = r
  <2>0. IntegerWeights /\ at \in Cells /\ \A c \in Cells : c # at => q.cells[c] = p.cells[c]
    BY <1>1
  <2>1. Apply(e, Delta(t, u, at), at, p.cells[at], q.cells[at]) = r
    BY ONLY <1>6, <2>0, ApplyIs
  <2> QED
    BY <1>1, <2>1
<1>8. Apply(r, Reversed(d), at, p.side, Nothing) = e
  <2>1. IntegerWeights /\ at \in Cells /\ \A c \in Cells : c # at => p.cells[c] = q.cells[c]
    BY <1>1
  <2>2. Apply(r, Delta(u, t, at), at, q.cells[at], p.cells[at]) = e
    BY ONLY <1>6, <2>1, ApplyIs
  <2> QED
    BY <1>1, <2>2, ReversedIs
<1>9. BoardAt(p, n) = Kept(p, n, k, f, t, e) /\ BoardAt(q, n) = Kept(q, n, j, g, u, r)
  BY DEF BoardAt, t, u
<1> HIDE DEF k, j, f, g, e, r, d
<1>10. MadeOn(BoardAt(p, n), at) = BoardAt(q, n)
  <2>1. MadeOn(Kept(p, n, k, f, t, e), at)
          = Kept(MakeMove(p, at), n, ToggleMove(k, at, p.side), FrontierMake(f, at), u,
                 Apply(e, Delta(t, u, at), at, Nothing, p.side))
    BY <1>3, MadeFields
  <2> QED
    BY <1>3, <1>4, <1>5, <1>7, <1>9, <2>1 DEF d
<1>11. token = [kind |-> "move", at |-> at, position |-> Token(p, at), delta |-> d]
  <2>1. BoardAt(p, n).position = p /\ BoardAt(p, n).patterns = t
    BY <1>9, KeptIs
  <2> QED
    BY <1>3, <2>1 DEF TokenOf, d
<1>12. /\ token.kind = "move" /\ token.at = at /\ token.position = Token(p, at) /\ token.delta = d
       /\ Token(p, at).stone = p.side
  BY <1>11 DEF Token
<1> HIDE DEF token
<1>13. TakenBack(BoardAt(q, n), token) = BoardAt(p, n)
  <2>1. TakenBack(BoardAt(q, n), token) = UnmadeOn(Kept(q, n, j, g, u, r), token)
    BY <1>9, <1>12 DEF TakenBack
  <2>2. UnmadeOn(Kept(q, n, j, g, u, r), token)
          = Kept(UnmakeMove(q, token.position), n, ToggleMove(j, token.at, token.position.stone),
                 FrontierUnmake(g, token.at), PatternsUnmake(u, token.at),
                 Apply(r, Reversed(token.delta), token.at, token.position.stone, Nothing))
    BY UnmadeFields
  <2> QED
    BY <1>1, <1>3, <1>4, <1>5, <1>8, <1>9, <1>12, <2>1, <2>2
<1>14. InOrder(BoardAt(q, n), token)
  <2>1. BoardAt(q, n).position = q
    BY <1>9, KeptIs
  <2> QED
    BY <1>1, <1>12, <2>1 DEF InOrder
<1> QED
  BY <1>10, <1>13, <1>14 DEF token

-----------------------------------------------------------------------------
(* An analysis turn. *)
Turned(p) == [p EXCEPT !.side = Opponent(@)]

(* A turn changes the side alone, and twice is not at all. *)
LEMMA TurnedIs ==
  ASSUME NEW p, WellFormed(p)
  PROVE  /\ WellFormed(Turned(p)) /\ Turned(Turned(p)) = p
         /\ Turned(p).side = Opponent(p.side) /\ Opponent(Opponent(p.side)) = p.side
         /\ Turned(p).cells = p.cells /\ Turned(p).count = p.count
         /\ Turned(p).last = p.last /\ Turned(p).winner = p.winner
         /\ [Turned(p) EXCEPT !.side = p.side] = p
<1> DEFINE q == Turned(p)
<1>1. /\ p = [cells |-> p.cells, side |-> p.side, count |-> p.count, last |-> p.last, winner |-> p.winner]
      /\ p.cells \in [Cells -> Stones \cup {Nothing}] /\ p.side \in Stones /\ p.count \in Nat
      /\ p.last \in Cells \cup {Nothing} /\ p.winner \in Stones \cup {Nothing}
      /\ p.count = Cardinality(Occupied(p))
  BY DEF WellFormed, Positions
<1>2. Opponent(p.side) \in Stones /\ Opponent(Opponent(p.side)) = p.side
  BY <1>1, SidesToggle
<1>3. q = [cells |-> p.cells, side |-> Opponent(p.side), count |-> p.count, last |-> p.last, winner |-> p.winner]
  BY <1>1 DEF Turned
<1> HIDE DEF q
<1>4. q \in Positions
  BY <1>1, <1>2, <1>3 DEF Positions
<1>5. q.cells = p.cells /\ q.count = p.count /\ q.side = Opponent(p.side) /\ q.last = p.last /\ q.winner = p.winner
  BY <1>3
<1>6. [q EXCEPT !.side = p.side] = p
  BY <1>1, <1>3
<1>7. Turned(q) = p
  <2>1. Turned(q) = [q EXCEPT !.side = Opponent(q.side)]
    BY DEF Turned
  <2> QED
    BY <1>2, <1>5, <1>6, <2>1
<1>8. WellFormed(q)
  BY <1>1, <1>4, <1>5 DEF WellFormed, Occupied
<1> QED
  BY <1>2, <1>5, <1>6, <1>7, <1>8 DEF q

(* Only the key knows who is to move. *)
LEMMA SameCells ==
  ASSUME NEW p, NEW q, q.cells = p.cells
  PROVE  /\ FrontierOf(q) = FrontierOf(p) /\ PatternsOf(q) = PatternsOf(p)
         /\ \A t : AccumulatorsOf(q, t) = AccumulatorsOf(p, t)
<1>1. Occupied(q) = Occupied(p) /\ LinesOf(q) = LinesOf(p)
  BY DEF Occupied, LinesOf, LineKey
<1>2. \A t, s, c : LocalOf(q, t, s, c) = LocalOf(p, t, s, c)
  BY DEF LocalOf
<1>3. ASSUME NEW t PROVE Locals(q, t) = Locals(p, t)
  BY <1>2 DEF Locals
<1>4. ASSUME NEW t PROVE AccumulatorsOf(q, t) = AccumulatorsOf(p, t)
  <2>1. \A x : AccumulatorsOf(x, t)
               = [local |-> Locals(x, t), linear |-> [s \in Stones |-> Total(Weighed(t.lines, s))],
                  values |-> [s \in Stones |-> Total(Valued(Locals(x, t), s))]]
    BY Zenon DEF AccumulatorsOf, Locals, Weighed, Valued
  <2> QED
    BY <1>3, <2>1
<1> QED
  BY <1>1, <1>4, FrontierIs, PatternsAre

(* A turn on an exact board is exact, and its token takes it back. *)
LEMMA PassedIs ==
  ASSUME NEW p, WellFormed(p), NEW n \in Nat, NEW q, q = Turned(p), CanPass(BoardAt(p, n))
  PROVE  /\ PassedOn(BoardAt(p, n)) = BoardAt(q, n + 1)
         /\ TakenBack(BoardAt(q, n + 1), TurnOf(BoardAt(p, n))) = BoardAt(p, n)
         /\ InOrder(BoardAt(q, n + 1), TurnOf(BoardAt(p, n)))
<1> DEFINE k == KeyOf(p)  j == KeyOf(q)  f == FrontierOf(p)  t == PatternsOf(p)  e == AccumulatorsOf(p, t)
           b == BoardAt(p, n)  a == BoardAt(q, n + 1)  turn == TurnOf(b)
<1>1. /\ WellFormed(q) /\ q.side = Opponent(p.side) /\ Opponent(Opponent(p.side)) = p.side
      /\ q.cells = p.cells /\ q.count = p.count /\ q.last = p.last /\ q.winner = p.winner
      /\ [q EXCEPT !.side = p.side] = p /\ q = [p EXCEPT !.side = Opponent(p.side)]
  BY TurnedIs DEF Turned
<1>2. ToggleAnalysisTurn(k) = j /\ ToggleAnalysisTurn(j) = k
  BY KeyPasses DEF Turned
<1>3. b = Kept(p, n, k, f, t, e) /\ a = Kept(q, n + 1, j, f, t, e)
  <2>1. FrontierOf(q) = f /\ PatternsOf(q) = t /\ AccumulatorsOf(q, t) = e
    BY <1>1, SameCells
  <2> QED
    BY <2>1 DEF BoardAt
<1> HIDE DEF k, j, f, t, e, b, a
<1>4. /\ b.position = p /\ b.depth = n /\ b.key = k
      /\ a.position = q /\ a.depth = n + 1 /\ a.key = j
  BY <1>3, KeptIs
<1>5. PassedOn(b) = a
  <2>1. PassedOn(b)
          = [[[b EXCEPT !.depth = b.depth + 1] EXCEPT !.position = [b.position EXCEPT !.side = Opponent(b.position.side)]]
                EXCEPT !.key = ToggleAnalysisTurn(b.key)]
    BY DEF PassedOn
  <2>2. PassedOn(b) = [[[b EXCEPT !.depth = n + 1] EXCEPT !.position = q] EXCEPT !.key = j]
    BY <1>1, <1>2, <1>4, <2>1
  <2> DEFINE m == n + 1
  <2> HIDE DEF m
  <2>3. [b EXCEPT !.depth = m] = Kept(p, m, k, f, t, e)
    BY <1>3 DEF Kept
  <2>4. [Kept(p, m, k, f, t, e) EXCEPT !.position = q] = Kept(q, m, k, f, t, e)
    BY DEF Kept
  <2>5. [Kept(q, m, k, f, t, e) EXCEPT !.key = j] = Kept(q, m, j, f, t, e)
    BY DEF Kept
  <2> QED
    BY <1>3, <2>2, <2>3, <2>4, <2>5 DEF m
<1>6. turn = [kind |-> "turn", side |-> p.side, count |-> p.count, last |-> p.last, depth |-> n]
  BY <1>4 DEF TurnOf
<1>7. turn.kind = "turn" /\ turn.side = p.side /\ turn.count = p.count /\ turn.last = p.last /\ turn.depth = n
  BY <1>6
<1> HIDE DEF turn
<1>8. TakenBack(a, turn) = b
  <2>1. TakenBack(a, turn)
          = [[[a EXCEPT !.depth = turn.depth] EXCEPT !.position = [a.position EXCEPT !.side = turn.side]]
                EXCEPT !.key = ToggleAnalysisTurn(a.key)]
    BY <1>7 DEF TakenBack, ResumedOn
  <2>2. TakenBack(a, turn) = [[[a EXCEPT !.depth = n] EXCEPT !.position = p] EXCEPT !.key = k]
    BY <1>1, <1>2, <1>4, <1>7, <2>1
  <2>3. [a EXCEPT !.depth = n] = Kept(q, n, j, f, t, e)
    BY <1>3 DEF Kept
  <2>4. [Kept(q, n, j, f, t, e) EXCEPT !.position = p] = Kept(p, n, j, f, t, e)
    BY DEF Kept
  <2>5. [Kept(p, n, j, f, t, e) EXCEPT !.key = k] = Kept(p, n, k, f, t, e)
    BY DEF Kept
  <2> QED
    BY <1>3, <2>2, <2>3, <2>4, <2>5
<1>9. InOrder(a, turn)
  <2>1. p.winner = Nothing
    BY <1>4 DEF CanPass, b
  <2> QED
    BY <1>1, <1>4, <1>7, <2>1 DEF InOrder
<1> QED
  BY <1>5, <1>8, <1>9 DEF a, b, turn

-----------------------------------------------------------------------------
(* What an exact board says. *)

(* A cell is a winning move exactly if one of its lines is. *)
LEMMA WinningProfile ==
  ASSUME NEW f, IsFiniteSet(DOMAIN f)
  PROVE  ProfileOf(f) = WinningMove <=> \E d \in DOMAIN f : f[d] = 5
<1> DEFINE n(code) == Cardinality({d \in DOMAIN f : f[d] = code})
<1>1. ProfileOf(f) = CASE n(5) > 0 -> WinningMove
        [] n(5) = 0 /\ n(4) > 0 -> OpenFour
        [] n(5) + n(4) = 0 /\ n(3) >= 2 -> DoubleFour
        [] n(5) + n(4) = 0 /\ n(3) = 1 -> IF n(2) > 0 THEN FourThree ELSE Four
        [] n(5) + n(4) + n(3) = 0 /\ n(2) > 0 -> IF n(2) >= 2 THEN DoubleThree ELSE OpenThree
        [] OTHER -> IF n(1) > 0 THEN Three ELSE Quiet
  BY DEF ProfileOf
<1> DEFINE S == {d \in DOMAIN f : f[d] = 5}
<1>2. IsFiniteSet(S) /\ n(5) = Cardinality(S)
  BY FS_Subset
<1> HIDE DEF S
<1>3. n(5) \in Nat /\ (n(5) = 0 <=> S = {})
  BY <1>2, FS_CardinalityType, FS_EmptySet
<1>4. \A code : n(code) \in Nat
  <2> SUFFICES ASSUME NEW code PROVE n(code) \in Nat
    OBVIOUS
  <2>1. IsFiniteSet({d \in DOMAIN f : f[d] = code})
    BY FS_Subset
  <2> QED
    BY <2>1, FS_CardinalityType
<1> HIDE DEF n
<1>5. CASE n(5) > 0
  <2>1. /\ n(5) \in Nat /\ n(4) \in Nat /\ n(3) \in Nat
        /\ ~(n(5) = 0) /\ ~(n(5) + n(4) = 0) /\ ~(n(5) + n(4) + n(3) = 0)
    BY <1>4, <1>5
  <2>2. ProfileOf(f) = WinningMove
    BY <1>1, <1>5, <2>1
  <2>3. S # {}
    BY <1>3, <1>5
  <2> QED
    BY <2>2, <2>3 DEF S
<1>6. CASE ~(n(5) > 0)
  <2>1. ProfileOf(f) # WinningMove
    BY <1>1, <1>6 DEF Quiet, Three, OpenThree, DoubleThree, Four, FourThree, DoubleFour,
                      OpenFour, WinningMove
  <2>2. S = {}
    BY <1>3, <1>6
  <2> QED
    BY <2>1, <2>2 DEF S
<1> QED
  BY <1>5, <1>6

(* A line is classified as five exactly if a row goes through its centre. *)
LEMMA FiveIs ==
  ASSUME NEW key, NEW s
  PROVE  Classify(key, s) = 5 <=> RowThroughCenter(Placed(key, s), s)
<1> DEFINE cells == Placed(key, s)  wins == Cardinality(Continuations(cells, s))
           a == Followed(cells, s, 2) # {}  b == Followed(cells, s, 1) # {}
           r == RowThroughCenter(cells, s)
<1>1. Classify(key, s) = IF r THEN 5 ELSE IF wins >= 2 THEN 4 ELSE IF wins = 1 THEN 3
                         ELSE IF a THEN 2 ELSE IF b THEN 1 ELSE 0
  BY DEF Classify
<1> HIDE DEF r, a, b, wins
<1>2. Classify(key, s) = 5 <=> r
  BY <1>1
<1> QED
  BY <1>2 DEF r

(* The rows of the windows of an empty cell are the lines through it. *)
Held(p, c, s, d, start) ==
  \A i \in start..(start + WinLength - 1) : Placed(LineKey(p, c, d), s)[i] = s
AllTaken(row, cells, s) == row \subseteq Cells /\ \A x \in row : cells[x] = s

(* A row of a window is a row of cells of the board. *)
LEMMA RowIs ==
  ASSUME NEW p \in Positions, NEW c \in Cells, NEW s \in Stones, NEW d \in Directions,
         NEW start \in (1 - WinLength)..0, NEW cells, cells = [p.cells EXCEPT ![c] = s]
  PROVE  Held(p, c, s, d, start) <=> AllTaken(RowFrom(c, d, start), cells, s)
<1> DEFINE at(i) == IF i = 0 THEN c ELSE LineCells[c][d][i]
           I == start..(start + WinLength - 1)
<1>1. \A i \in I : i \in Window /\ (i # 0 => i \in Offsets)
  BY WinLengthAssumption DEF Window, Offsets
<1>2. cells[c] = s /\ \A x \in Cells : x # c => cells[x] = p.cells[x]
  BY DEF Positions
<1>3. s # "Wall" /\ s # "None" /\ s # Nothing
  BY DEF Stones
<1>4. ASSUME NEW i \in I
      PROVE  Placed(LineKey(p, c, d), s)[i] = s <=> at(i) \in Cells /\ cells[at(i)] = s
  <2>1. CASE i = 0
    BY <1>1, <1>2, <2>1 DEF Placed
  <2>2. CASE i # 0
    <3> DEFINE x == LineCells[c][d][i]
    <3>1. i \in Offsets /\ i \in Window
      BY <1>1, <2>2
    <3>2. x \in Cells \cup {Nothing} /\ x # c
      BY <3>1, GeometryAssumption, WindowsAssumption
    <3>3. Placed(LineKey(p, c, d), s)[i] = IF x = Nothing THEN "Wall" ELSE CodeOf(p.cells[x])
      BY <2>2, <3>1 DEF Placed, LineKey
    <3>4. at(i) = x
      BY <2>2
    <3> HIDE DEF x, at
    <3>5. CASE x = Nothing
      BY <1>3, <3>3, <3>4, <3>5
    <3>6. CASE x # Nothing
      <4>1. x \in Cells /\ cells[x] = p.cells[x]
        BY <1>2, <3>2, <3>6
      <4>2. CodeOf(p.cells[x]) = s <=> p.cells[x] = s
        BY <1>3 DEF CodeOf
      <4> QED
        BY <3>3, <3>4, <3>6, <4>1, <4>2
    <3> QED
      BY <3>5, <3>6
  <2> QED
    BY <2>1, <2>2
<1>5. RowFrom(c, d, start) = {at(i) : i \in I}
  BY DEF RowFrom
<1> HIDE DEF at, I
<1>6. (\A i \in I : Placed(LineKey(p, c, d), s)[i] = s)
        <=> RowFrom(c, d, start) \subseteq Cells /\ \A x \in RowFrom(c, d, start) : cells[x] = s
  BY <1>4, <1>5
<1> QED
  BY <1>6 DEF I, Held, AllTaken

(* The table files a cell as winning exactly if a stone there makes five. *)
LEMMA WinsHere ==
  ASSUME NEW p \in Positions, NEW c \in Cells, NEW s \in Stones
  PROVE  AllClasses(LinesOf(p))[c][s] = WinningMove <=> HasFiveFrom([p.cells EXCEPT ![c] = s], c, s)
<1> DEFINE cells == [p.cells EXCEPT ![c] = s]
           codes == AllCodes(LinesOf(p))[c]
           f == [d \in Directions |-> codes[d][s]]
           Row(d, start) == Held(p, c, s, d, start)
           Full(row) == AllTaken(row, cells, s)
<1>1. AllClasses(LinesOf(p))[c][s] = ProfileOf(f)
  BY DEF AllClasses, ProfilesOf
<1>2. \A d \in Directions : f[d] = Classify(LineKey(p, c, d), s)
  BY DEF AllCodes, LinesOf, CodesOf
<1>3. ProfileOf(f) = WinningMove <=> \E d \in Directions : f[d] = 5
  <2>1. DOMAIN f = Directions /\ IsFiniteSet(Directions)
    BY OffsetsFinite
  <2> HIDE DEF f
  <2> QED
    BY <2>1, WinningProfile
<1>4. \A d \in Directions : f[d] = 5 <=> \E start \in (1 - WinLength)..0 : Row(d, start)
  BY <1>2, FiveIs DEF RowThroughCenter, Held
<1>5. \A d \in Directions, start \in (1 - WinLength)..0 : Row(d, start) <=> Full(RowFrom(c, d, start))
  <2> SUFFICES ASSUME NEW d \in Directions, NEW start \in (1 - WinLength)..0
               PROVE  Row(d, start) <=> Full(RowFrom(c, d, start))
    OBVIOUS
  <2>1. cells = [p.cells EXCEPT ![c] = s]
    OBVIOUS
  <2> HIDE DEF cells
  <2> QED
    BY <2>1, RowIs
<1>6. {line \in Lines : c \in line}
         = {row \in {RowFrom(c, d, start) : d \in Directions, start \in (1 - WinLength)..0} :
              row \subseteq Cells}
  BY WindowsAssumption
<1>7. HasFiveFrom(cells, c, s) <=> \E line \in {line \in Lines : c \in line} : Full(line)
  BY BoardAssumption DEF HasFiveFrom, AllTaken
<1>8. (\E line \in {line \in Lines : c \in line} : Full(line))
        <=> \E d \in Directions, start \in (1 - WinLength)..0 : Full(RowFrom(c, d, start))
  BY <1>6 DEF AllTaken
<1> HIDE DEF f, cells, Full, Row
<1> QED
  BY <1>1, <1>3, <1>4, <1>5, <1>7, <1>8 DEF cells

(* An exact board says of its position what a scan of it would. *)
LEMMA MatchesAt ==
  ASSUME NEW p, WellFormed(p), NEW n, board = BoardAt(p, n)
  PROVE  SidecarsMatch
<1>1. /\ board.position = p /\ board.key = KeyOf(p) /\ board.frontier = FrontierOf(p)
      /\ board.patterns = PatternsOf(p) /\ board.evaluator = AccumulatorsOf(p, PatternsOf(p))
  BY KeptIs DEF BoardAt
<1>2. p \in Positions /\ p.count = Cardinality(Occupied(p))
  BY DEF WellFormed
<1>3. ASSUME CanPass(board), p.count > 0 PROVE Candidates(board) = NearAStone(p)
  <2>1. Occupied(p) # {}
    <3>1. IsFiniteSet({}) /\ Cardinality({}) = 0
      BY FS_EmptySet
    <3>2. ASSUME Occupied(p) = {} PROVE FALSE
      <4>1. p.count = 0
        BY <1>2, <3>1, <3>2
      <4> QED
        BY <1>3, <4>1
    <3> QED
      BY <3>2
  <2>2. /\ board.frontier.occupied = Occupied(p)
        /\ board.frontier.frontier = (UNION {Near[d] : d \in Occupied(p)})
    BY <1>1, FrontierIs DEF FrontierAt
  <2>3. Candidates(board) = (UNION {Near[d] : d \in Occupied(p)}) \ Occupied(p)
    BY <1>3, <2>1, <2>2 DEF Candidates
  <2>4. \A d \in Cells : Near[d] \subseteq Cells
    BY NearAssumption
  <2> QED
    BY <2>3, <2>4 DEF NearAStone, Occupied
<1>4. ASSUME NEW s \in Stones PROVE board.patterns.bits[s][WinningMove] = WinsAt(p, s)
  <2> DEFINE o == Occupied(p)  L == LinesOf(p)  K == Cells \ o  P == AllClasses(L)  C == AllCodes(L)
  <2>1. PatternsOf(p) = Tables(o, L, C, ShownOf(K, P), CountsOf(K, P), BitsOf(K, P))
    BY PatternsAre DEF Scan, Filed
  <2>2. \A c \in Cells : P[c][s] = WinningMove <=> HasFiveFrom([p.cells EXCEPT ![c] = s], c, s)
    BY <1>2, WinsHere
  <2>3. K = {c \in Cells : p.cells[c] = Nothing}
    BY DEF Occupied
  <2> HIDE DEF o, L, K, P, C
  <2>4. PatternsOf(p).bits = BitsOf(K, P)
    BY <2>1, TablesAre
  <2>5. WinningMove \in Profiles
    BY DEF WinningMove, Profiles
  <2>6. BitsOf(K, P)[s][WinningMove] = {c \in K : P[c][s] = WinningMove}
    BY <2>5 DEF BitsOf, FiledAs
  <2>7. {c \in K : P[c][s] = WinningMove} = WinsAt(p, s)
    BY <2>2, <2>3 DEF WinsAt
  <2> QED
    BY <1>1, <2>4, <2>6, <2>7
<1> QED
  BY <1>1, <1>3, <1>4 DEF SidecarsMatch

-----------------------------------------------------------------------------
(* The position of a game on a line. *)
LEMMA LineFormed ==
  ASSUME NEW l, IsLine(l), NEW n \in 0..Len(l)
  PROVE  WellFormed(GameAt(l, n).position)
<1> DEFINE p == PositionAt(l, n)  S == Occupied(p)  f == [i \in 1..n |-> l[i]]
<1>1. l \in Seq(Cells) /\ Len(l) \in Nat /\ n \in Nat /\ \A i, j \in 1..Len(l) : l[i] = l[j] => i = j
  BY LineFits DEF IsLine
<1>2. p \in Positions /\ p.count = n /\ p.cells = CellsAt(l, n)
  BY PositionIn DEF PositionAt
<1>3. /\ \A i \in 1..n : l[i] \in Cells /\ CellsAt(l, n)[l[i]] = Stone(i)
      /\ \A c \in Cells : CellsAt(l, n)[c] # Nothing => \E i \in 1..n : l[i] = c
  BY <1>1, CellFacts
<1>4. \A i \in 1..n : Stone(i) # Nothing
  BY DEF Stone, Stones
<1>5. f \in [1..n -> S] /\ \A c \in S : \E i \in 1..n : f[i] = c
  <2>1. \A i \in 1..n : l[i] \in S
    BY <1>2, <1>3, <1>4 DEF Occupied
  <2>2. \A c \in S : \E i \in 1..n : l[i] = c
    BY <1>2, <1>3 DEF Occupied
  <2> HIDE DEF S
  <2> QED
    BY <2>1, <2>2
<1>6. \A i, j \in 1..n : f[i] = f[j] => i = j
  BY <1>1
<1> HIDE DEF f, S, p
<1>7. f \in Surjection(1..n, S) /\ f \in Injection(1..n, S)
  BY <1>5, <1>6 DEF Surjection, Injection, IsInjective
<1>8. Cardinality(1..n) = n /\ IsFiniteSet(1..n)
  BY <1>1, FS_Interval
<1>9. Cardinality(S) = n
  BY <1>7, <1>8, FS_Surjection
<1> QED
  BY <1>2, <1>9 DEF WellFormed, GameAt, p, S

-----------------------------------------------------------------------------
(* The boards of a search back to the one it began with: each is exact and *)
(* is what its token takes the next one back to.                           *)
Exact(b) == \E p, n : WellFormed(p) /\ n \in Nat /\ b = BoardAt(p, n)

Leads(before, after, token) == TakenBack(after, token) = before /\ InOrder(after, token)

OnTrail(trail, root, b, us) ==
  /\ \E S : us \in Seq(S)
  /\ trail[0] = root /\ trail[Len(us)] = b
  /\ \A k \in 0..Len(us) : Exact(trail[k])
  /\ \A k \in 1..Len(us) : Leads(trail[k - 1], trail[k], us[k])

Trailed == \E trail : OnTrail(trail, BoardOf(game.position), board, undos)

SearchInv == GameInv /\ (~Idle => Trailed)

(* A new board is exact and has no turns. *)
LEMMA BoardOfIs == ASSUME NEW p PROVE BoardOf(p) = BoardAt(p, 0)
  BY DEF BoardOf, BoardAt, Kept

(* A search begins with a trail of one board. *)
LEMMA StartTrail ==
  ASSUME GameInv, Start(game.position), game' = game
  PROVE  Trailed'
<1>1. PICK l : \E n \in 0..Len(l) : IsLine(l) /\ game = GameAt(l, n)
  BY DEF GameInv
<1>2. PICK n \in 0..Len(l) : IsLine(l) /\ game = GameAt(l, n)
  BY <1>1
<1>3. WellFormed(game.position)
  BY <1>2, LineFormed
<1> DEFINE root == BoardOf(game.position)  trail == [k \in {0} |-> root]
<1>4. Exact(root)
  BY <1>3, BoardOfIs DEF Exact
<1>5. undos' = <<>> /\ board' = root /\ BoardOf(game'.position) = root
  BY DEF Start
<1> HIDE DEF root
<1>6. Len(undos') = 0 /\ undos' \in Seq({})
  BY <1>5
<1>7. trail[0] = root
  OBVIOUS
<1> HIDE DEF trail
<1>8. OnTrail(trail, BoardOf(game'.position), board', undos')
  BY <1>4, <1>5, <1>6, <1>7 DEF OnTrail
<1> QED
  BY <1>8 DEF Trailed

(* A move or a turn is one more board of the trail. *)
LEMMA GoOn ==
  ASSUME Trailed, NEW token, undos' = Append(undos, token), game' = game,
         Exact(board'), Leads(board, board', token)
  PROVE  Trailed'
<1> DEFINE root == BoardOf(game.position)  n == Len(undos)
<1>1. PICK t : OnTrail(t, root, board, undos)
  BY DEF Trailed
<1>2. PICK S : undos \in Seq(S)
  BY <1>1 DEF OnTrail
<1> DEFINE R == S \cup {token}  trail == [k \in 0..(n + 1) |-> IF k = n + 1 THEN board' ELSE t[k]]
<1>3. n \in Nat /\ undos \in Seq(R) /\ token \in R
  <2>1. n \in Nat /\ undos \in [1..n -> S]
    BY <1>2, LenProperties
  <2>2. undos \in [1..n -> R]
    BY <2>1
  <2> HIDE DEF R
  <2>3. undos \in Seq(R)
    BY <2>1, <2>2, SeqDef
  <2> QED
    BY <2>1, <2>3 DEF R
<1>4. /\ undos' \in Seq(R) /\ Len(undos') = n + 1 /\ undos'[n + 1] = token
      /\ \A k \in 1..n : undos'[k] = undos[k]
  BY <1>3, AppendProperties
<1>5. t[0] = root /\ t[n] = board /\ (\A k \in 0..n : Exact(t[k]))
      /\ (\A k \in 1..n : Leads(t[k - 1], t[k], undos[k]))
  BY <1>1 DEF OnTrail
<1>6. trail[n + 1] = board' /\ \A k \in 0..n : trail[k] = t[k]
  BY <1>3
<1> HIDE DEF trail, R, n, root
<1>7. trail[0] = root /\ trail[Len(undos')] = board'
  BY <1>3, <1>4, <1>5, <1>6
<1>8. ASSUME NEW k \in 0..Len(undos') PROVE Exact(trail[k])
  <2>1. k \in 0..n \/ k = n + 1
    BY <1>3, <1>4
  <2> QED
    BY <1>5, <1>6, <2>1
<1>9. ASSUME NEW k \in 1..Len(undos') PROVE Leads(trail[k - 1], trail[k], undos'[k])
  <2>1. CASE k \in 1..n
    <3>1. k - 1 \in 0..n /\ k \in 0..n
      BY <1>3, <2>1
    <3> QED
      BY <1>4, <1>5, <1>6, <2>1, <3>1
  <2>2. CASE k = n + 1
    <3>1. k - 1 = n /\ n \in 0..n
      BY <1>3, <2>2
    <3> QED
      BY <1>4, <1>5, <1>6, <2>2, <3>1
  <2> QED
    BY <1>3, <1>4, <2>1, <2>2
<1>10. BoardOf(game'.position) = root
  BY DEF root
<1>11. OnTrail(trail, BoardOf(game'.position), board', undos')
  BY <1>4, <1>7, <1>8, <1>9, <1>10 DEF OnTrail
<1> QED
  BY <1>11 DEF Trailed

(* Taking back is one board less. *)
LEMMA GoBack ==
  ASSUME Trailed, TakeBack, game' = game
  PROVE  Trailed'
<1> DEFINE root == BoardOf(game.position)  n == Len(undos)
<1>1. PICK t : OnTrail(t, root, board, undos)
  BY DEF Trailed
<1>2. PICK S : undos \in Seq(S)
  BY <1>1 DEF OnTrail
<1>3. n \in Nat /\ n # 0 /\ undos \in [1..n -> S]
  BY <1>2, LenProperties, EmptySeq DEF TakeBack
<1>4. /\ undos' \in Seq(S) /\ Len(undos') = n - 1
      /\ \A k \in 1..(n - 1) : undos'[k] = undos[k]
  <2>1. undos' = SubSeq(undos, 1, n - 1)
    BY DEF TakeBack, Popped
  <2>2. \A i \in 1..(n - 1) : undos[i] \in S
    BY <1>3
  <2> QED
    BY <1>2, <1>3, <2>1, <2>2, SubSeqProperties
<1>5. t[0] = root /\ t[n] = board /\ (\A k \in 0..n : Exact(t[k]))
      /\ (\A k \in 1..n : Leads(t[k - 1], t[k], undos[k]))
  BY <1>1 DEF OnTrail
<1>6. board' = TakenBack(board, undos[n])
  BY DEF TakeBack, Top
<1> HIDE DEF n, root
<1>7. board' = t[n - 1]
  <2>1. n \in 1..n
    BY <1>3
  <2> QED
    BY <1>5, <1>6, <2>1 DEF Leads
<1>8. BoardOf(game'.position) = root
  BY DEF root
<1>9. OnTrail(t, BoardOf(game'.position), board', undos')
  <2>1. \A k \in 0..(n - 1) : Exact(t[k])
    BY <1>3, <1>5
  <2>2. \A k \in 1..(n - 1) : Leads(t[k - 1], t[k], undos'[k])
    <3>1. \A k \in 1..(n - 1) : k \in 1..n
      BY <1>3
    <3> QED
      BY <1>4, <1>5, <3>1
  <2> QED
    BY <1>4, <1>5, <1>7, <1>8, <2>1, <2>2 DEF OnTrail
<1> QED
  BY <1>9 DEF Trailed

(* Every step of a search leaves it on a trail. *)
LEMMA WalkTrail ==
  ASSUME IntegerWeights, Trailed, Walk
  PROVE  Trailed'
<1>1. PICK t : OnTrail(t, BoardOf(game.position), board, undos)
  BY DEF Trailed
<1>2. Exact(board)
  <2>1. PICK S : undos \in Seq(S)
    BY <1>1 DEF OnTrail
  <2>2. Len(undos) \in 0..Len(undos)
    BY <2>1, LenProperties
  <2> QED
    BY <1>1, <2>2 DEF OnTrail
<1>3. PICK p, n : WellFormed(p) /\ n \in Nat /\ board = BoardAt(p, n)
  BY <1>2 DEF Exact
<1>4. board.position = p
  BY <1>3, KeptIs DEF BoardAt
<1>5. game' = game
  BY DEF Walk
<1>6. ASSUME NEW at \in Cells, Make(at) PROVE Trailed'
  <2> DEFINE q == MakeMove(p, at)  token == TokenOf(board, at)
  <2>1. Legal(p, at) /\ board' = MadeOn(board, at) /\ undos' = Append(undos, token)
    BY <1>4, <1>6 DEF Make
  <2>2. WellFormed(q)
    BY <1>3, <2>1, MoveIs
  <2>3. /\ board' = BoardAt(q, n)
        /\ TakenBack(board', token) = board /\ InOrder(board', token)
    BY <1>3, <2>1, MadeIs
  <2>4. Exact(board') /\ Leads(board, board', token)
    BY <1>3, <2>2, <2>3 DEF Exact, Leads
  <2> HIDE DEF token
  <2> QED
    BY <1>5, <2>1, <2>4, GoOn
<1>7. ASSUME Pass PROVE Trailed'
  <2> DEFINE q == Turned(p)  token == TurnOf(board)
  <2>1. CanPass(board) /\ board' = PassedOn(board) /\ undos' = Append(undos, token)
    BY <1>7 DEF Pass
  <2>2. WellFormed(q)
    BY <1>3, TurnedIs
  <2>3. /\ board' = BoardAt(q, n + 1)
        /\ TakenBack(board', token) = board /\ InOrder(board', token)
    BY <1>3, <2>1, PassedIs
  <2>4. Exact(board') /\ Leads(board, board', token)
    <3>1. n + 1 \in Nat
      BY <1>3
    <3> QED
      BY <2>2, <2>3, <3>1 DEF Exact, Leads
  <2> HIDE DEF token
  <2> QED
    BY <1>5, <2>1, <2>4, GoOn
<1>8. ASSUME TakeBack PROVE Trailed'
  BY <1>5, <1>8, GoBack
<1> QED
  BY <1>6, <1>7, <1>8 DEF Walk

(* Every step preserves the invariant. *)
LEMMA SearchStep ==
  ASSUME IntegerWeights, SearchInv, [SearchNext]_<<game, board, undos>>
  PROVE  SearchInv'
<1>1. [Next]_game
  BY DEF SearchNext, Search, Walk, Return
<1>2. GameInv'
  BY <1>1, NextGameInv DEF SearchInv
<1>3. CASE UNCHANGED <<game, board, undos>>
  <2>1. SearchInv => SearchInv'
    BY <1>3 DEF SearchInv, GameInv, Idle, Trailed, OnTrail
  <2> QED
    BY <2>1
<1>4. CASE Idle /\ Next /\ UNCHANGED <<board, undos>>
  BY <1>2, <1>4 DEF SearchInv, Idle
<1>5. CASE Search
  BY <1>2, <1>5, StartTrail DEF SearchInv, Search
<1>6. CASE Walk
  BY <1>2, <1>6, WalkTrail DEF SearchInv, Walk
<1>7. CASE Return
  BY <1>2, <1>7 DEF SearchInv, Return, Idle
<1> QED
  BY <1>3, <1>4, <1>5, <1>6, <1>7 DEF SearchNext

(* The invariant holds at first. *)
LEMMA SearchBegins == SearchInit => SearchInv
  BY InitGameInv DEF SearchInit, SearchInv, Idle

(* The search leaves the game alone: it is the game of the application. *)
THEOREM SearchesPlayTheGame == SearchSpec => Spec
<1>1. SearchInit => Init
  BY DEF SearchInit
<1>2. [SearchNext]_<<game, board, undos>> => [Next]_game
  BY DEF SearchNext, Search, Walk, Return
<1> QED
  BY <1>1, <1>2, PTL DEF SearchSpec, Spec

(* Whatever is played, passed and taken back, the sidecars of every board  *)
(* the search stands on are those a scan of that board would compute: the  *)
(* key, the frontier, the tables of the patterns, every evaluator's sums,  *)
(* the candidates and the winning moves.                                   *)
THEOREM SidecarsExact ==
  ASSUME IntegerWeights PROVE SearchSpec => []SidecarsStayExact
<1>1. SearchInit => SearchInv
  BY SearchBegins
<1>2. SearchInv /\ [SearchNext]_<<game, board, undos>> => SearchInv'
  BY SearchStep
<1>3. SearchInv => SidecarsStayExact
  <2> SUFFICES ASSUME SearchInv, ~Idle PROVE SidecarsMatch
    BY DEF SidecarsStayExact
  <2>1. PICK t : OnTrail(t, BoardOf(game.position), board, undos)
    BY DEF SearchInv, Trailed
  <2>2. PICK S : undos \in Seq(S)
    BY <2>1 DEF OnTrail
  <2>3. Len(undos) \in 0..Len(undos)
    BY <2>2, LenProperties
  <2>4. Exact(board)
    BY <2>1, <2>3 DEF OnTrail
  <2> QED
    BY <2>4, MatchesAt DEF Exact
<1> QED
  BY <1>1, <1>2, <1>3, PTL DEF SearchSpec

(* Unwinding follows the trail. *)
LEMMA UnwindsAlong ==
  ASSUME NEW trail, NEW root, OnTrail(trail, root, board, undos)
  PROVE  UnwindsTo(root)
<1> DEFINE n == Len(undos)
           H(f) == [k \in 0..n |-> IF k = n THEN board ELSE TakenBack(f[k + 1], undos[k + 1])]
           u == CHOOSE f : f = H(f)
           t == [k \in 0..n |-> trail[k]]
<1>1. PICK S : undos \in Seq(S)
  BY DEF OnTrail
<1>2. n \in Nat /\ DOMAIN undos = 1..n
  BY <1>1, LenProperties
<1>3. /\ trail[0] = root /\ trail[n] = board
      /\ \A k \in 1..n : TakenBack(trail[k], undos[k]) = trail[k - 1] /\ InOrder(trail[k], undos[k])
  BY DEF OnTrail, Leads
<1> HIDE DEF n
<1>4. t = H(t)
  <2>1. ASSUME NEW k \in 0..n
        PROVE  trail[k] = IF k = n THEN board ELSE TakenBack(t[k + 1], undos[k + 1])
    <3>1. CASE k = n
      BY <1>3, <3>1
    <3>2. CASE k # n
      <4>1. k + 1 \in 1..n /\ k + 1 \in 0..n /\ (k + 1) - 1 = k
        BY <1>2, <3>2
      <4>2. t[k + 1] = trail[k + 1]
        BY <4>1
      <4>3. TakenBack(trail[k + 1], undos[k + 1]) = trail[k]
        BY <1>3, <4>1
      <4> QED
        BY <3>2, <4>2, <4>3
    <3> QED
      BY <3>1, <3>2
  <2> QED
    BY <2>1
<1>5. u = H(u)
  <2> HIDE DEF H, t
  <2> QED
    BY <1>4, Zenon
<1> HIDE DEF u
<1>6. \A k \in 0..n : u[k] = IF k = n THEN board ELSE TakenBack(u[k + 1], undos[k + 1])
  BY <1>5
<1> HIDE DEF H
<1>7. \A k \in 0..n : u[k] = trail[k]
  <2> DEFINE T == {m \in Nat : m \in 0..n /\ u[n - m] # trail[n - m]}
  <2>1. ASSUME T # {} PROVE FALSE
    <3>1. PICK m \in T : \A i \in T : m <= i
      <4>1. T \in SUBSET Nat
        OBVIOUS
      <4> HIDE DEF T
      <4> QED
        BY <2>1, <4>1, LeastNatural
    <3>2. m \in Nat /\ m \in 0..n /\ u[n - m] # trail[n - m]
      OBVIOUS
    <3>3. m # 0
      <4>1. n \in 0..n /\ n - 0 = n
        BY <1>2
      <4> QED
        BY <1>3, <1>6, <3>2, <4>1
    <3>4. m - 1 \in Nat /\ m - 1 \in 0..n /\ ~(m <= m - 1)
      BY <1>2, <3>2, <3>3
    <3>5. u[n - (m - 1)] = trail[n - (m - 1)]
      BY <3>1, <3>4
    <3> DEFINE k == n - m
    <3>6. k \in 0..n /\ k # n /\ n - (m - 1) = k + 1 /\ k + 1 \in 1..n /\ (k + 1) - 1 = k
      BY <1>2, <3>2, <3>3
    <3> HIDE DEF k, T
    <3>7. u[k] = TakenBack(u[k + 1], undos[k + 1])
      BY <1>6, <3>6
    <3>8. TakenBack(trail[k + 1], undos[k + 1]) = trail[k]
      BY <1>3, <3>6
    <3> QED
      BY <3>2, <3>5, <3>6, <3>7, <3>8 DEF k
  <2>2. ASSUME NEW k \in 0..n PROVE u[k] = trail[k]
    <3>1. n - k \in Nat /\ n - k \in 0..n /\ n - (n - k) = k
      BY <1>2
    <3>2. n - k \notin T
      BY <2>1
    <3> QED
      BY <3>1, <3>2
  <2> QED
    BY <2>2
<1>8. u[0] = root
  BY <1>2, <1>3, <1>7
<1>9. \A k \in DOMAIN undos : InOrder(u[k], undos[k])
  BY <1>2, <1>3, <1>7
<1>10. UnwindsTo(root) <=> u[0] = root /\ \A k \in DOMAIN undos : InOrder(u[k], undos[k])
  BY DEF UnwindsTo, u, H, n
<1> QED
  BY <1>8, <1>9, <1>10

(* Taking back all that was made and passed, in any mix, is the board the  *)
(* search began with, and no token is taken back out of order.             *)
THEOREM SearchRestores ==
  ASSUME IntegerWeights PROVE SearchSpec => []SearchUnwinds
<1>1. SearchInit => SearchInv
  BY SearchBegins
<1>2. SearchInv /\ [SearchNext]_<<game, board, undos>> => SearchInv'
  BY SearchStep
<1>3. SearchInv => SearchUnwinds
  BY UnwindsAlong DEF SearchInv, Trailed, SearchUnwinds
<1> QED
  BY <1>1, <1>2, <1>3, PTL DEF SearchSpec
=============================================================================
