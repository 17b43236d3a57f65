---------------------------- MODULE GameTimeline ----------------------------
(***************************************************************************)
(* The Game of rustmoku-core under every sequence of its operations: moves *)
(* played, undone and redone one at a time or several at once, and records *)
(* imported in its place.                                                  *)
(***************************************************************************)
EXTENDS Gomoku, SequencesExt

CONSTANT Records     \* the move lists an application may try to import
ASSUME RecordsAssumption == Records \subseteq Seq(Cells)

VARIABLE game

Init == game = NewGame

PlayNew(at) == Playable(game, at) /\ game' = PlayMove(game, at)

(* undo() and undo_plies(): nothing on an empty game. *)
UndoSome(n) == n \in 1..Len(game.history) /\ game' = UndoPlies(game, n)

(* redo() and redo_plies() trust the future: a move that is not playable   *)
(* would be the panic of its expect(), which RedoStaysLegal excludes.      *)
RedoSome(n) == n \in 1..Len(game.future) /\ game' = RedoPlies(game, n)

(* from_record builds a fresh game; an illegal record changes nothing. *)
Import(moves) == IsRecord(moves) /\ game' = Replay(moves)

Next ==
  \/ \E at \in Cells : PlayNew(at)
  \/ \E n \in 1..Cardinality(Cells) : UndoSome(n) \/ RedoSome(n)
  \/ \E moves \in Records : Import(moves)

Spec == Init /\ [][Next]_game

-----------------------------------------------------------------------------
(* Redo never hits its expect(): every move that was undone can be played  *)
(* again, in order, each on the position the one before it leaves          *)
(* ("private redo timeline must remain legally replayable").               *)
RedoStaysLegal ==
  \A k \in 1..Len(game.future) :
    Playable(RedoPlies(game, k - 1), game.future[Len(game.future) - k + 1])

(* A game is a cursor on one line of play; its board and result are those  *)
(* of a scan of the whole board, although make_move only looks around the  *)
(* last move and the status is cached through undo and redo.               *)
Abstract == INSTANCE Timeline WITH
  line <- Moves(game) \o Reverse(game.future), cursor <- Len(game.history),
  board <- game.position.cells, result <- game.status

ImplementsTimeline == Abstract!Spec
=============================================================================
