-------------------------- MODULE CanonicalPosition --------------------------
(***************************************************************************)
(* CanonicalPosition of rustmoku-core, and the facts about five stones in  *)
(* a row that every proof search asks first: what a position looks like up *)
(* to the symmetries of the board, and who wins it at once.                *)
(***************************************************************************)
EXTENDS Gomoku, SequencesExt, FiniteSetsExt

CONSTANTS
  Symmetries,       \* the permutations of the cells that map the board to itself
  Tactic(_, _),     \* the winning moves a VCF or VCT attempt may find for an attacker
  TacticPlies       \* the length of the line such an attempt proves

ASSUME SymmetryAssumption ==   \* a group of permutations that map lines to lines
  Cells \subseteq Nat /\ Symmetries # {} /\ \A g \in Symmetries :
    /\ g \in [Cells -> Cells]
    /\ \E h \in Symmetries : \A c \in Cells : h[g[c]] = c
    /\ \A h \in Symmetries : [c \in Cells |-> h[g[c]]] \in Symmetries
    /\ \A line \in Lines : {g[c] : c \in line} \in Lines

(* One fixed member of the images of a position under the symmetries. *)
Image(p, g) == [c \in Cells |-> p.cells[g[c]]]
Canonical(p) == CHOOSE cells \in {Image(p, g) : g \in Symmetries} : TRUE

(* The key of a position, for one attacker: its canonical cells and side. *)
Key(p) == [cells |-> Canonical(p), side |-> p.side]

(* move_to_canonical and move_to_original of a position. *)
ToCanonical(p) ==
  LET canonical == Canonical(p)
  IN CHOOSE g \in Symmetries : Image(p, g) = canonical
FromCanonical(p, at) == ToCanonical(p)[at]

(* Mutant: the move is stored as it was played. *)
MoveAsPlayed(p, at) == at

CanonicalMove(p, at) ==
  LET original == ToCanonical(p)
  IN CHOOSE c \in Cells : original[c] = at

(* The cells of a set in the order of their indices. *)
InOrder(cells) ==
  [i \in 1..Cardinality(cells) |->
     CHOOSE c \in cells : Cardinality({d \in cells : d < c}) = i - 1]

-----------------------------------------------------------------------------
Empties(p) == {c \in Cells : Legal(p, c)}
Wins(p, stone) == {c \in Empties(p) : HasFiveFrom([p.cells EXCEPT ![c] = stone], c, stone)}

(* What the attacker has of a position that this stone wins. *)
OutcomeFor(attacker, stone) == IF stone = attacker THEN "ProvenWin" ELSE "Refuted"

TerminalFor(attacker, p) ==
  IF p.winner # Nothing THEN OutcomeFor(attacker, p.winner)
  ELSE IF IsFull(p) THEN "Refuted" ELSE "Unknown"

(* immediate_exact_outcome: a five now, or two fives of the opponent next. *)
ImmediateFor(attacker, p) ==
  IF Wins(p, p.side) # {} THEN OutcomeFor(attacker, p.side)
  ELSE IF Cardinality(Wins(p, Opponent(p.side))) > 1 THEN OutcomeFor(attacker, Opponent(p.side))
  ELSE "Unknown"

(* verify_immediate: the plies until the attacker has five, if that is to  *)
(* be seen without a search.                                               *)
VerifyImmediate(attacker, p) ==
  IF p.winner = attacker THEN 0
  ELSE IF p.winner # Nothing \/ IsFull(p) THEN Nothing
  ELSE IF p.side = attacker THEN IF Wins(p, attacker) # {} THEN 1 ELSE Nothing
  ELSE IF Wins(p, p.side) = {} /\ Cardinality(Wins(p, attacker)) > 1 THEN 2
  ELSE Nothing

(* tactical_attempt: always with a fresh solver, whose first move is the   *)
(* same whenever it is asked about this board; a limit or a cancellation   *)
(* that ends it makes it prove nothing, which its callers decide.          *)
TacticalAttempt(attacker, p) ==
  IF Tactic(p, attacker) = {} THEN Nothing ELSE Min(Tactic(p, attacker))
=============================================================================
