-------------------------------- MODULE Duel --------------------------------
(***************************************************************************)
(* What the native application promises its user: the AI answers only on   *)
(* its turn, with a move found for the very position on the board under    *)
(* the settings in force; whatever else is shown of a search is about such *)
(* a position too; nothing but the user changes the game otherwise.        *)
(***************************************************************************)
EXTENDS Gomoku

CONSTANT Settings

VARIABLES
  game,      \* the game on the board
  human,     \* the stone of the user
  settings,  \* the engine settings in force
  shown      \* the search result on display: what it is about, or Nothing

vars == <<game, human, settings, shown>>

AiTurn == game.status = "Ongoing" /\ game.position.side # human

About == [position |-> game.position, settings |-> settings]

Init ==
  /\ game = NewGame /\ human = "Black" /\ settings \in Settings /\ shown = Nothing

(* The old result may stay on display, if no new search begins. *)
HumanPlays(at) ==
  /\ game.position.side = human /\ Playable(game, at)
  /\ game' = PlayMove(game, at)
  /\ shown' \in {shown, Nothing}
  /\ UNCHANGED <<human, settings>>

Think ==
  /\ AiTurn
  /\ shown' = About
  /\ UNCHANGED <<game, human, settings>>

Reply(at) ==
  /\ AiTurn /\ Playable(game, at)
  /\ game' = PlayMove(game, at)
  /\ shown' = About
  /\ UNCHANGED <<human, settings>>

(* Undo or redo along the line of play; another game, another colour. *)
Navigate ==
  /\ \/ \E n \in 1..Len(game.history) : game' = UndoPlies(game, n)
     \/ \E n \in 1..Len(game.future) : game' = RedoPlies(game, n)
  /\ shown' = Nothing
  /\ UNCHANGED <<human, settings>>

Restart ==
  /\ human' \in Stones
  /\ IsRecord(Moves(game')) /\ game' = Replay(Moves(game'))
  /\ shown' = Nothing
  /\ UNCHANGED settings

Configure ==
  /\ settings' \in Settings
  /\ shown' = Nothing
  /\ UNCHANGED <<game, human>>

Next ==
  \/ \E at \in Cells : HumanPlays(at) \/ Reply(at)
  \/ Think \/ Navigate \/ Restart \/ Configure

Spec == Init /\ [][Next]_vars
=============================================================================
