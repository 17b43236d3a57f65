--------------------------- MODULE MCGameTimeline ---------------------------
(* A game on a cross of five cells, three in a row winning, and the boards *)
(* of searches that are asked about its positions.                         *)
EXTENDS BoardState

CONSTANTS a, b, c, d, e

(* Two lines that cross in the centre:  a c e  across,  b c d  down.       *)
Cross == {{a, c, e}, {b, c, d}}
Across == <<a, c, e>>
Down == <<b, c, d>>

OnLine(line, at, i) ==
  LET k == CHOOSE k \in 1..3 : line[k] = at
  IN IF at \in {line[1], line[2], line[3]} /\ k + i \in 1..3 THEN line[k + i] ELSE Nothing

CrossWindows ==
  [at \in Cells |-> [l \in {"across", "down"} |->
     [i \in Offsets |-> OnLine(IF l = "across" THEN Across ELSE Down, at, i)]]]

(* A cell is near itself and the centre. *)
CrossNear == [at \in Cells |-> IF at = c THEN Cells ELSE {at, c}]

WeightOf(key) ==
  LET Digit(i) == CASE key[i] = "None" -> 0 [] key[i] = "Black" -> 1 [] key[i] = "White" -> 3 [] OTHER -> 0
  IN (Digit(-2) + 4 * Digit(-1) + 16 * Digit(1) + 64 * Digit(2)) % 37
OwnerWeight(owner) == CASE owner = "None" -> 2 [] owner = "Own" -> 5 [] owner = "Other" -> 11
Clamped(n) == IF n > 40 THEN 40 ELSE n

(* The empty board, a running game, a won one, a repeated move, a move after *)
(* the win.                                                                *)
SomeRecords == {<<>>, <<c, b>>, <<a, d, c, b, e>>, <<c, c>>, <<a, d, c, b, e>> \o <<d>>}

(* Searches are asked about these games, with nothing undone. *)
SearchedGames == {<<moves, <<>>>> : moves \in SomeRecords \cup {<<c>>, <<a, c>>, <<b, c, d>>}}
=============================================================================
