------------------------------- MODULE Gomoku -------------------------------
(***************************************************************************)
(* Position and Game of rustmoku-core as values: a position with its       *)
(* incremental facts (side to move, move count, last move, winner), the    *)
(* undo token of one move, and a game that keeps the moves played and the  *)
(* moves undone.  The geometry of the board is a parameter: a winning line *)
(* is a set of cells, and five or more in a row through a cell is a line   *)
(* through it whose cells all hold the stone.                              *)
(***************************************************************************)
EXTENDS Naturals, Sequences, FiniteSets

CONSTANTS
  Cells,     \* the locations of the board, CELL_COUNT of them
  Lines,     \* the sets of five adjacent cells of a row, column or diagonal
  Nothing    \* Option::None of cells, winners and last moves

ASSUME BoardAssumption ==
  /\ IsFiniteSet(Cells) /\ Cells # {}
  /\ \A line \in Lines : line \subseteq Cells /\ line # {}

Stones == {"Black", "White"}
Opponent(stone) == IF stone = "Black" THEN "White" ELSE "Black"

ASSUME NothingAssumption == Nothing \notin Cells /\ Nothing \notin Stones

-----------------------------------------------------------------------------
Positions ==
  [cells : [Cells -> Stones \cup {Nothing}], side : Stones, count : Nat,
   last : Cells \cup {Nothing}, winner : Stones \cup {Nothing}]

EmptyPosition ==
  [cells |-> [c \in Cells |-> Nothing], side |-> "Black", count |-> 0,
   last |-> Nothing, winner |-> Nothing]

IsFull(p) == p.count = Cardinality(Cells)

(* The guard of make_move; is_legal says the same. *)
Legal(p, at) == p.winner = Nothing /\ ~IsFull(p) /\ p.cells[at] = Nothing

(* Only the lines through the last move are looked at. *)
HasFiveFrom(cells, at, stone) ==
  \E line \in Lines : at \in line /\ \A c \in line : cells[c] = stone

MakeMove(p, at) ==
  LET stone == p.side
      cells == [p.cells EXCEPT ![at] = stone]
  IN [cells |-> cells, side |-> Opponent(stone), count |-> p.count + 1, last |-> at,
      winner |-> IF HasFiveFrom(cells, at, stone) THEN stone ELSE Nothing]

(* The MoveUndo token make_move returns. *)
Token(p, at) ==
  [played |-> at, stone |-> p.side, last |-> p.last, winner |-> p.winner]

UnmakeMove(p, token) ==
  [cells |-> [p.cells EXCEPT ![token.played] = Nothing], side |-> token.stone,
   count |-> p.count - 1, last |-> token.last, winner |-> token.winner]

-----------------------------------------------------------------------------
NewGame ==
  [position |-> EmptyPosition, status |-> "Ongoing", history |-> <<>>, future |-> <<>>]

(* Mutant: the winner of the position before the move decides. *)
StatusOfStalePosition(before, after) ==
  IF before.winner = before.side THEN before.side
  ELSE IF IsFull(after) THEN "Draw" ELSE "Ongoing"

(* The status after a move: Won by the stone that moved, Draw or Ongoing. *)
StatusAfter(before, after) ==
  IF after.winner = before.side THEN before.side
  ELSE IF IsFull(after) THEN "Draw" ELSE "Ongoing"

Playable(g, at) == g.status = "Ongoing" /\ Legal(g.position, at)

(* play_move_internal of a playable move; future is what remains to redo. *)
Played(g, at, future) ==
  LET after == MakeMove(g.position, at)
  IN [position |-> after, status |-> StatusAfter(g.position, after), future |-> future,
      history |-> Append(g.history, [at |-> at, undo |-> Token(g.position, at)])]

(* Mutant: playing a new move leaves the moves undone before it to redo. *)
PlayMoveKeepsFuture(g, at) == Played(g, at, g.future)

PlayMove(g, at) == Played(g, at, <<>>)

Top(s) == s[Len(s)]
Popped(s) == SubSeq(s, 1, Len(s) - 1)

Undo(g) ==
  LET played == Top(g.history)
  IN [position |-> UnmakeMove(g.position, played.undo), status |-> "Ongoing",
      history |-> Popped(g.history), future |-> Append(g.future, played.at)]

CanRedo(g) == g.future # <<>>

Redo(g) == Played(g, Top(g.future), Popped(g.future))

(* undo_plies and redo_plies: as many single steps as there are, at most n. *)
UndoPlies(g, n) ==
  LET undone[k \in 0..Len(g.history)] == IF k = 0 THEN g ELSE Undo(undone[k - 1])
  IN undone[IF n < Len(g.history) THEN n ELSE Len(g.history)]

RedoPlies(g, n) ==
  LET redone[k \in 0..Len(g.future)] == IF k = 0 THEN g ELSE Redo(redone[k - 1])
  IN redone[IF n < Len(g.future) THEN n ELSE Len(g.future)]

(* Game::history(): the moves alone. *)
Moves(g) == [i \in DOMAIN g.history |-> g.history[i].at]

(* from_record and Opening::game replay their moves from the empty board; *)
(* the first move the rules refuse makes them an error instead of a game.  *)
Replays(moves) ==
  LET game[k \in 0..Len(moves)] ==
        IF k = 0 THEN NewGame ELSE PlayMove(game[k - 1], moves[k])
  IN game

Replay(moves) == Replays(moves)[Len(moves)]
IsRecord(moves) == \A k \in DOMAIN moves : Playable(Replays(moves)[k - 1], moves[k])
=============================================================================
