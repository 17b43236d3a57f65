----------------------------- MODULE LinePattern -----------------------------
(***************************************************************************)
(* The line patterns of the engine: what a move at the centre of a window  *)
(* of one line makes there (line_classifier.rs), the structural class of a *)
(* move from its windows in all directions (pattern.rs), and the windows   *)
(* of a position (line_geometry.rs).  WinLength stones in a row win; the   *)
(* window reaches WinLength - 1 cells each way.                            *)
(***************************************************************************)
EXTENDS Gomoku, Integers, FiniteSetsExt

CONSTANTS
  WinLength,
  LineCells   \* LINE_CELLS: of each cell, in each direction, the window

ASSUME WinLengthAssumption == WinLength \in Nat \ {0, 1}

Window == (1 - WinLength)..(WinLength - 1)
Offsets == Window \ {0}

(* A line key gives each cell of a window but the centre one of these.     *)
Codes == {"None", "Black", "White", "Wall"}

RowThroughCenter(cells, stone) ==
  \E start \in (1 - WinLength)..0 : \A i \in start..(start + WinLength - 1) : cells[i] = stone

Empty(cells) == {i \in Window : cells[i] = "None"}
With(cells, i, stone) == [cells EXCEPT ![i] = stone]

(* winning_continuations: what makes a five through the centre.            *)
Continuations(cells, stone) ==
  {i \in Empty(cells) : RowThroughCenter(With(cells, i, stone), stone)}

Placed(key, stone) == [i \in Window |-> IF i = 0 THEN stone ELSE key[i]]

(* Cells after which the line has at least this many continuations.        *)
Followed(cells, stone, wins) ==
  {i \in Empty(cells) : Cardinality(Continuations(With(cells, i, stone), stone)) >= wins}

(* classify: 5 Five, 4 OpenFour, 3 Four, 2 OpenThree, 1 Three, 0 Quiet.    *)
Classify(key, stone) ==
  LET cells == Placed(key, stone)
      wins == Cardinality(Continuations(cells, stone))
  IN IF RowThroughCenter(cells, stone) THEN 5
     ELSE IF wins >= 2 THEN 4
     ELSE IF wins = 1 THEN 3
     ELSE IF Followed(cells, stone, 2) # {} THEN 2
     ELSE IF Followed(cells, stone, 1) # {} THEN 1
     ELSE 0

(* Witness cells: the rows through the centre that the stones make.        *)
Support(cells, stone) ==
  UNION {start..(start + WinLength - 1) : start \in
           {s \in (1 - WinLength)..0 : \A i \in s..(s + WinLength - 1) : cells[i] = stone}}

(* tactical_metadata: how a move of a class goes on, and the cells it      *)
(* depends on; at a cost where they are still empty.                       *)
NextOf(cells, stone, class) ==
  CASE class \in {3, 4} -> Continuations(cells, stone)
    [] class = 2 -> Followed(cells, stone, 2)
    [] OTHER -> {}

DependenciesOf(cells, stone, class) ==
  LET Wins(c) == UNION {Support(With(c, i, stone), stone) : i \in Continuations(c, stone)}
      first == IF class = 2 THEN {With(cells, i, stone) : i \in NextOf(cells, stone, 2)} ELSE {cells}
  IN (IF class = 5 THEN Support(cells, stone)
      ELSE IF class < 2 THEN {} ELSE UNION {Wins(c) : c \in first}) \ {0}

MetadataOf(cells, stone, class) ==
  LET dependencies == DependenciesOf(cells, stone, class)
  IN [class |-> class, continuations |-> NextOf(cells, stone, class),
      dependencies |-> dependencies, costs |-> dependencies \cap Empty(cells)]

-----------------------------------------------------------------------------
(* ThreatProfile, in its order. *)
Profiles == 0..8
Quiet == 0
Three == 1
OpenThree == 2
DoubleThree == 3
Four == 4
FourThree == 5
DoubleFour == 6
OpenFour == 7
WinningMove == 8

(* profile_table: the class of a move from the codes of its directions.    *)
ProfileOf(codes) ==
  LET Count(code) == Cardinality({d \in DOMAIN codes : codes[d] = code})
  IN CASE Count(5) > 0 -> WinningMove
       [] Count(5) = 0 /\ Count(4) > 0 -> OpenFour
       [] Count(5) + Count(4) = 0 /\ Count(3) >= 2 -> DoubleFour
       [] Count(5) + Count(4) = 0 /\ Count(3) = 1 ->
            IF Count(2) > 0 THEN FourThree ELSE Four
       [] Count(5) + Count(4) + Count(3) = 0 /\ Count(2) > 0 ->
            IF Count(2) >= 2 THEN DoubleThree ELSE OpenThree
       [] OTHER -> IF Count(1) > 0 THEN Three ELSE Quiet

-----------------------------------------------------------------------------
(* The windows of a position, and what the tables say of them. *)
Directions == UNION {DOMAIN LineCells[c] : c \in Cells}

ASSUME GeometryAssumption ==
  /\ IsFiniteSet(Directions)
  /\ LineCells \in [Cells -> [Directions -> [Offsets -> Cells \cup {Nothing}]]]
  \* a cell lies on one line through another at most
  /\ \A c, at \in Cells :
       Cardinality({x \in Directions \X Offsets : LineCells[c][x[1]][x[2]] = at}) <= 1

CodeOf(stone) == IF stone = Nothing THEN "None" ELSE stone
LineKey(p, c, d) ==
  [i \in Offsets |-> IF LineCells[c][d][i] = Nothing THEN "Wall"
                     ELSE CodeOf(p.cells[LineCells[c][d][i]])]
CodesOf(key) == [s \in Stones |-> Classify(key, s)]

(* directions[at].profiles() *)
ProfilesOf(codes) == [s \in Stones |-> ProfileOf([d \in Directions |-> codes[d][s]])]
=============================================================================
