--------------------------- MODULE OfflineOutcomes ---------------------------
(***************************************************************************)
(* What the offline solver claims, against the game itself: who forces a   *)
(* win is worked out for every board and either side to move, from the     *)
(* full boards down to the empty one, by the rules alone.                  *)
(***************************************************************************)
EXTENDS OfflineSolver

(* The boards with n empty cells, with either side to move. *)
Free(cells) == {c \in Cells : cells[c] = Nothing}
Turns(n) ==
  {x \in [cells : [Cells -> Stones \cup {Nothing}], side : Stones] : Cardinality(Free(x.cells)) = n}

FiveOn(cells, stone) == \E line \in Lines : \A c \in line : cells[c] = stone
After(x, c) == [cells |-> [x.cells EXCEPT ![c] = x.side], side |-> Opponent(x.side)]

(* A stone wins with five, with one move of its own or after every reply.  *)
WinsFrom(won, stone, x) ==
  \/ FiveOn(x.cells, stone)
  \/ /\ Free(x.cells) # {} /\ ~FiveOn(x.cells, Opponent(stone))
     /\ IF x.side = stone THEN \E c \in Free(x.cells) : After(x, c) \in won
        ELSE \A c \in Free(x.cells) : After(x, c) \in won

ForcedWins ==
  [stone \in Stones |->
     LET won[n \in 0..Cardinality(Cells)] ==
           LET fuller == IF n = 0 THEN {} ELSE won[n - 1]
           IN fuller \cup {x \in Turns(n) : WinsFrom(fuller, stone, x)}
     IN won[Cardinality(Cells)]]

(* No limit, omitted move, reused result or resumed tree ever makes the    *)
(* solver call a position won or refuted that is not: a decided node has   *)
(* the outcome that the rules and all legal replies give its position.     *)
OutcomesAreTrue ==
  \A k \in DOMAIN nodes :
    LET n == nodes[k]
    IN n.outcome # "Unknown" =>
         (n.outcome = "ProvenWin")
           = ([cells |-> n.position.cells, side |-> n.position.side] \in ForcedWins[attacker])
=============================================================================
