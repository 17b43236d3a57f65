------------------------------ MODULE Timeline ------------------------------
(***************************************************************************)
(* What a Game promises its applications: one line of play and a cursor on *)
(* it.  Undo and redo only move the cursor; a new move cuts the line at    *)
(* the cursor; a record starts another line.  The board and the result     *)
(* shown depend on the moves before the cursor and on nothing else; the    *)
(* result is the one a scan of every line of the board finds.              *)
(***************************************************************************)
EXTENDS Naturals, Sequences, SequencesExt

CONSTANTS Cells, Lines, Nothing

VARIABLES
  line,      \* the moves played, the undone ones included
  cursor,    \* how many of them are on the board
  board,     \* the stone of every cell
  result     \* "Ongoing", "Draw" or the winner

vars == <<line, cursor, board, result>>

(* Black plays the odd moves, White the even ones. *)
Owned(moves, stone) == {moves[i] : i \in {j \in DOMAIN moves : (j % 2 = 1) = (stone = "Black")}}

Board(moves) ==
  [c \in Cells |-> IF c \in Owned(moves, "Black") THEN "Black"
                   ELSE IF c \in Owned(moves, "White") THEN "White" ELSE Nothing]

Wins(moves, stone) == \E row \in Lines : row \subseteq Owned(moves, stone)

Result(moves) ==
  IF Wins(moves, "Black") THEN "Black" ELSE IF Wins(moves, "White") THEN "White"
  ELSE IF ToSet(moves) = Cells THEN "Draw" ELSE "Ongoing"

(* No cell is taken twice and nothing is played after the end. *)
Lawful(moves) ==
  /\ IsInjective(moves)
  /\ \A k \in 0..(Len(moves) - 1) : Result(SubSeq(moves, 1, k)) = "Ongoing"

Show(moves, n) ==
  /\ line' = moves
  /\ cursor' = n
  /\ board' = Board(SubSeq(moves, 1, n))
  /\ result' = Result(SubSeq(moves, 1, n))

Init == line = <<>> /\ cursor = 0 /\ board = Board(<<>>) /\ result = "Ongoing"

Play(at) ==
  /\ board[at] = Nothing /\ result = "Ongoing"
  /\ Show(Append(SubSeq(line, 1, cursor), at), cursor + 1)

Seek(n) == Show(line, n)

Start == line' \in Seq(Cells) /\ Lawful(line') /\ Show(line', Len(line'))

Next ==
  \/ \E at \in Cells : Play(at)
  \/ \E n \in 0..Len(line) : Seek(n)
  \/ Start

Spec == Init /\ [][Next]_vars
=============================================================================
