-------------------------------- MODULE Board --------------------------------
(* A small square board, three in a row winning: its cells by number, its  *)
(* lines, the eight symmetries of the square and a centre-first order; a   *)
(* tactic for it, and the game itself as a reference.                      *)
EXTENDS CanonicalPosition

CONSTANT Size

SquareCells == 1..(Size * Size)
At(row, column) == (row - 1) * Size + column

SquareLines ==
  LET Line(r, c, dr, dc) == {At(r + i * dr, c + i * dc) : i \in 0..2}
  IN {Line(r, c, 0, 1) : r \in 1..Size, c \in 1..(Size - 2)}
     \cup {Line(r, c, 1, 0) : r \in 1..(Size - 2), c \in 1..Size}
     \cup {Line(r, c, 1, 1) : r \in 1..(Size - 2), c \in 1..(Size - 2)}
     \cup {{At(r, c + 2), At(r + 1, c + 1), At(r + 2, c)} : r \in 1..(Size - 2), c \in 1..(Size - 2)}

Row(c) == ((c - 1) \div Size) + 1
Column(c) == ((c - 1) % Size) + 1

D4 ==
  LET Turned == [c \in SquareCells |-> At(Column(c), Size + 1 - Row(c))]
      Mirrored == [c \in SquareCells |-> At(Row(c), Size + 1 - Column(c))]
      After(g, h) == [c \in SquareCells |-> g[h[c]]]
      Half == After(Turned, Turned)
      turns == {After(Half, Half), Turned, Half, After(Half, Turned)}
  IN turns \cup {After(g, Mirrored) : g \in turns}

Apart(m, n) == IF m < n THEN n - m ELSE m - n
FromCenter(c) == Apart(Row(c), Size \div 2 + 1) + Apart(Column(c), Size \div 2 + 1)

CenterFirst ==
  SortSeq([i \in SquareCells |-> i],
          LAMBDA c, d : FromCenter(c) < FromCenter(d) \/ (FromCenter(c) = FromCenter(d) /\ c < d))

(* The values of the configurations: TLC keeps the value of a definition,  *)
(* but evaluates what a configuration substitutes at every use.            *)
BoardCells == SquareCells
BoardLines == SquareLines
BoardSymmetries == D4
BoardOrder == CenterFirst

-----------------------------------------------------------------------------
(* The moves that make two threes at once while the opponent threatens none. *)
Forks(p, stone) ==
  IF p.side # stone \/ Wins(p, Opponent(stone)) # {} THEN {}
  ELSE {c \in Empties(p) : Cardinality(Wins(MakeMove(p, c), stone)) > 1}

(* The positions of a set and all that can be played from them.            *)
RECURSIVE PlayedFrom(_)
PlayedFrom(positions) ==
  LET next == UNION {{MakeMove(p, c) : c \in Empties(p)} : p \in positions}
  IN IF next = {} THEN positions ELSE positions \cup PlayedFrom(next)

(* A stone forces a win, by the rules and over all legal replies.           *)
RECURSIVE Forces(_, _)
Forces(p, stone) ==
  IF p.winner # Nothing \/ IsFull(p) THEN p.winner = stone
  ELSE IF p.side = stone THEN \E c \in Empties(p) : Forces(MakeMove(p, c), stone)
  ELSE \A c \in Empties(p) : Forces(MakeMove(p, c), stone)
=============================================================================
