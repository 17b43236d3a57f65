------------------------------ MODULE BoardState ------------------------------
(***************************************************************************)
(* The board of a search (board_state.rs, search_state.rs): a position and *)
(* what is kept beside it move by move, so that no node scans the board:   *)
(* the key (zobrist.rs), the frontier of candidate moves                   *)
(* (candidate_frontier.rs), the line patterns (pattern_state.rs) and the   *)
(* accumulators of the evaluators (learned.rs, nonlinear.rs).  A move is   *)
(* taken back with the token it returned, in the reverse order; an         *)
(* analysis turn passes without a stone and is taken back alike.           *)
(***************************************************************************)
EXTENDS LinePattern, GameTimeline

CONSTANTS
  Center,          \* Move::CENTER
  Near,            \* RADIUS2_MASKS: the cells around a cell, itself included
  Weight(_),       \* value_table and embeddings: of a line key, own stones Black
  CenterWeight(_), \* of a cell: empty, own, or the opponent's
  Activate(_),     \* what a cell adds to a nonlinear value
  Asked,           \* bound: the games searched, as moves played and moves to redo
  MaxWalk          \* bound: the moves and turns of a search to take back

ASSUME NearAssumption == Center \in Cells /\ Near \in [Cells -> SUBSET Cells]
ASSUME BoundAssumption == MaxWalk \in Nat

(* The cells a row through a cell takes, from one of its offsets on. *)
RowFrom(c, d, start) ==
  {IF i = 0 THEN c ELSE LineCells[c][d][i] : i \in start..(start + WinLength - 1)}

(* LINE_CELLS follows the lines: the winning lines through a cell are the  *)
(* rows of its windows that do not leave the board.                        *)
ASSUME WindowsAssumption ==
  \A c \in Cells :
    /\ \A d \in Directions, i \in Offsets : LineCells[c][d][i] # c
    /\ {line \in Lines : c \in line}
         = {row \in {RowFrom(c, d, start) : d \in Directions, start \in (1 - WinLength)..0} :
              row \subseteq Cells}

-----------------------------------------------------------------------------
(* PositionKey: the exclusive or of independent random words.              *)
Xor(a, b) == (a \ b) \cup (b \ a)
PieceKey(stone, at) == {<<stone, at>>}
SideKey(stone) == {<<stone, Nothing>>}

(* Mutant: the sides are not toggled. *)
ToggleStoneOnly(key, at, stone) == Xor(key, PieceKey(stone, at))

ToggleAnalysisTurn(key) == Xor(key, SideKey("Black") \cup SideKey("White"))
ToggleMove(key, at, stone) == Xor(ToggleAnalysisTurn(key), PieceKey(stone, at))

KeyOf(p) == SideKey(p.side) \cup {<<p.cells[c], c>> : c \in {d \in Cells : p.cells[d] # Nothing}}

-----------------------------------------------------------------------------
(* CandidateFrontier. *)
FrontierMake(f, at) ==
  [occupied |-> f.occupied \cup {at},
   frontier |-> f.frontier \cup Near[at],
   counts |-> [c \in Cells |-> IF c \in Near[at] THEN f.counts[c] + 1 ELSE f.counts[c]]]

(* Mutant: the neighbours of a stone leave the frontier with it. *)
FrontierDrop(f, at) ==
  [occupied |-> f.occupied \ {at},
   frontier |-> f.frontier \ Near[at],
   counts |-> [c \in Cells |-> IF c \in Near[at] THEN f.counts[c] - 1 ELSE f.counts[c]]]

FrontierUnmake(f, at) ==
  [occupied |-> f.occupied \ {at},
   frontier |-> f.frontier \ {c \in Near[at] : f.counts[c] = 1},
   counts |-> [c \in Cells |-> IF c \in Near[at] THEN f.counts[c] - 1 ELSE f.counts[c]]]

(* One stone after the other, in no order that matters. *)
FrontierOf(p) ==
  FoldSet(LAMBDA c, f : FrontierMake(f, c),
          [occupied |-> {}, frontier |-> {}, counts |-> [c \in Cells |-> 0]],
          {c \in Cells : p.cells[c] # Nothing})

-----------------------------------------------------------------------------
(* PatternState: the key and the codes of every window, and the class of   *)
(* each empty cell for both stones, counted and indexed.                   *)
AllQuiet == [s \in Stones |-> Quiet]

Counted(n, classes) == [s \in Stones |-> [n[s] EXCEPT ![classes[s]] = @ + 1]]
Uncounted(n, classes) == [s \in Stones |-> [n[s] EXCEPT ![classes[s]] = @ - 1]]
Listed(bits, classes, c) == [s \in Stones |-> [bits[s] EXCEPT ![classes[s]] = @ \cup {c}]]
Unlisted(bits, classes, c) == [s \in Stones |-> [bits[s] EXCEPT ![classes[s]] = @ \ {c}]]

RemoveProfile(t, c) ==
  [t EXCEPT !.counts = Uncounted(t.counts, t.profiles[c]),
            !.bits = Unlisted(t.bits, t.profiles[c], c)]

AddProfile(t, c, profiles) ==
  [t EXCEPT !.counts = Counted(t.counts, profiles), !.bits = Listed(t.bits, profiles, c),
            !.profiles[c] = profiles]

RefreshProfile(t, c) == AddProfile(t, c, ProfilesOf(t.codes[c]))

PatternsOf(p) ==
  LET occupied == {c \in Cells : p.cells[c] # Nothing}
      lines == [c \in Cells |-> [d \in Directions |-> LineKey(p, c, d)]]
      unclassified ==
        [occupied |-> occupied, lines |-> lines,
         codes |-> [c \in Cells |-> [d \in Directions |-> CodesOf(lines[c][d])]],
         profiles |-> [c \in Cells |-> AllQuiet],
         counts |-> [s \in Stones |-> [x \in Profiles |-> 0]],
         bits |-> [s \in Stones |-> [x \in Profiles |-> {}]]]
  IN FoldSet(LAMBDA c, t : RefreshProfile(t, c), unclassified, Cells \ occupied)

(* LINE_INFLUENCES: the windows a cell is in, by centre, direction, offset. *)
Influences(at) ==
  {x \in Cells \X Directions \X Offsets : LineCells[x[1]][x[2]][x[3]] = at}

(* One window of update_lines: a class changes where its codes do.         *)
UpdateLine(t, influence, code) ==
  LET at == influence[1] direction == influence[2]
      key == [t.lines[at][direction] EXCEPT ![influence[3]] = code]
      updated == [t EXCEPT !.lines[at][direction] = key, !.codes[at][direction] = CodesOf(key)]
      profiles == ProfilesOf(updated.codes[at])
  IN IF updated.codes[at][direction] = t.codes[at][direction] \/ at \in t.occupied \/ profiles = t.profiles[at]
     THEN updated
     ELSE AddProfile(RemoveProfile(updated, at), at, profiles)

UpdateLines(t, at, code) ==
  FoldSet(LAMBDA influence, u : UpdateLine(u, influence, code), t, Influences(at))

PatternsMake(t, at, stone) ==
  LET taken == [RemoveProfile(t, at) EXCEPT !.profiles[at] = AllQuiet, !.occupied = @ \cup {at}]
  IN UpdateLines(taken, at, stone)

(* Mutant: the class a cell had when it was taken is the one it gets back. *)
PatternsUnmakeStale(t, at) ==
  LET u == UpdateLines(t, at, "None")
  IN AddProfile([u EXCEPT !.occupied = @ \ {at}], at, u.profiles[at])

PatternsUnmake(t, at) ==
  RefreshProfile([UpdateLines(t, at, "None") EXCEPT !.occupied = @ \ {at}], at)

(* PatternDelta: each window of the move, before and after. *)
Delta(before, after, at) ==
  {[center |-> x[1], old |-> before.lines[x[1]][x[2]], new |-> after.lines[x[1]][x[2]]] :
     x \in Influences(at)}

-----------------------------------------------------------------------------
(* The evaluators see a key with the stones of their side as Black.        *)
Relative(key, side) ==
  [i \in Offsets |-> IF key[i] \in Stones /\ side = "White" THEN Opponent(key[i]) ELSE key[i]]

(* The weight of a cell by who holds it, for a side. *)
OwnerOf(cell, side) == IF cell = Nothing THEN "None" ELSE IF cell = side THEN "Own" ELSE "Other"

Total(f) == FoldFunction(+, 0, f)

LocalOf(p, t, side, c) ==
  CenterWeight(OwnerOf(p.cells[c], side))
    + Total([d \in Directions |-> Weight(Relative(t.lines[c][d], side))])

(* initialize *)
AccumulatorsOf(p, t) ==
  LET local == [s \in Stones |-> [c \in Cells |-> LocalOf(p, t, s, c)]]
  IN [local |-> local,
      linear |-> [s \in Stones |-> Total([x \in Cells \X Directions |->
                                           Weight(Relative(t.lines[x[1]][x[2]], s))])],
      values |-> [s \in Stones |-> Total([c \in Cells |-> Activate(local[s][c])])]]

(* apply of one move forwards, or backwards with the delta reversed.       *)
Apply(acc, delta, at, from, to) ==
  LET dirty == {at} \cup {x.center : x \in delta}
      Change(x, s) == Weight(Relative(x.new, s)) - Weight(Relative(x.old, s))
      local == [s \in Stones |-> [c \in Cells |->
                  acc.local[s][c]
                    + (IF c = at THEN CenterWeight(OwnerOf(to, s)) - CenterWeight(OwnerOf(from, s)) ELSE 0)
                    + Total([x \in {y \in delta : y.center = c} |-> Change(x, s)])]]
  IN [local |-> local,
      linear |-> [s \in Stones |-> acc.linear[s] + Total([x \in delta |-> Change(x, s)])],
      values |-> [s \in Stones |-> acc.values[s]
                    + Total([c \in dirty |-> Activate(local[s][c]) - Activate(acc.local[s][c])])]]

Reversed(delta) == {[center |-> x.center, old |-> x.new, new |-> x.old] : x \in delta}

-----------------------------------------------------------------------------
VARIABLES
  board,    \* SearchState: the position and everything kept beside it
  undos     \* the tokens of the moves and turns to take back, the last at the end

(* A working copy of a position, with nothing to analyse yet. *)
BoardOf(p) ==
  [position |-> p, depth |-> 0, key |-> KeyOf(p), frontier |-> FrontierOf(p),
   patterns |-> PatternsOf(p), evaluator |-> AccumulatorsOf(p, PatternsOf(p))]

MadeOn(b, at) ==
  LET stone == b.position.side
      patterns == PatternsMake(b.patterns, at, stone)
      delta == Delta(b.patterns, patterns, at)
  IN [b EXCEPT !.position = MakeMove(@, at), !.frontier = FrontierMake(@, at),
               !.patterns = patterns, !.key = ToggleMove(@, at, stone),
               !.evaluator = Apply(@, delta, at, Nothing, stone)]

TokenOf(b, at) ==
  [kind |-> "move", at |-> at, position |-> Token(b.position, at),
   delta |-> Delta(b.patterns, PatternsMake(b.patterns, at, b.position.side), at)]

UnmadeOn(b, token) ==
  LET stone == token.position.stone
  IN [b EXCEPT !.evaluator = Apply(@, Reversed(token.delta), token.at, stone, Nothing),
               !.patterns = PatternsUnmake(@, token.at),
               !.position = UnmakeMove(@, token.position),
               !.frontier = FrontierUnmake(@, token.at),
               !.key = ToggleMove(@, token.at, stone)]

(* begin_analysis_turn, refused after the end of the game. *)
CanPass(b) == b.position.winner = Nothing /\ ~IsFull(b.position)

PassedOn(b) ==
  [b EXCEPT !.depth = @ + 1, !.position.side = Opponent(@), !.key = ToggleAnalysisTurn(@)]

TurnOf(b) ==
  [kind |-> "turn", side |-> b.position.side, count |-> b.position.count,
   last |-> b.position.last, depth |-> b.depth]

(* Mutant: the key keeps the side that passed. *)
ResumedWithKeyOfPass(b, turn) == [b EXCEPT !.depth = turn.depth, !.position.side = turn.side]

ResumedOn(b, turn) ==
  [b EXCEPT !.depth = turn.depth, !.position.side = turn.side, !.key = ToggleAnalysisTurn(@)]

(* The assertions of end_analysis_opponent_turn and unmake_move. *)
InOrder(b, undo) ==
  IF undo.kind = "turn"
  THEN /\ b.position.count = undo.count /\ b.position.last = undo.last
       /\ b.position.side = Opponent(undo.side) /\ b.position.winner = Nothing
       /\ b.depth = undo.depth + 1
  ELSE /\ b.position.last = undo.at /\ b.position.cells[undo.at] = undo.position.stone
       /\ b.position.side = Opponent(undo.position.stone)

TakenBack(b, undo) == IF undo.kind = "turn" THEN ResumedOn(b, undo) ELSE UnmadeOn(b, undo)

-----------------------------------------------------------------------------
Start(p) == board' = BoardOf(p) /\ undos' = <<>>

(* An illegal move is an error that changes nothing. *)
Make(at) ==
  /\ Legal(board.position, at)
  /\ board' = MadeOn(board, at) /\ undos' = Append(undos, TokenOf(board, at))

Pass == CanPass(board) /\ board' = PassedOn(board) /\ undos' = Append(undos, TurnOf(board))

TakeBack ==
  /\ undos # <<>>
  /\ board' = TakenBack(board, Top(undos)) /\ undos' = Popped(undos)

-----------------------------------------------------------------------------
(* candidates() *)
Candidates(b) ==
  IF ~CanPass(b) THEN {}
  ELSE IF b.frontier.occupied = {} THEN {Center} ELSE b.frontier.frontier \ b.frontier.occupied

MovesAtLeast(b, stone, profile) ==
  UNION {b.patterns.bits[stone][x] : x \in profile..WinningMove}

(* What a scan of the whole position would find. *)
NearAStone(p) == {c \in Cells : p.cells[c] = Nothing /\ \E s \in Cells : p.cells[s] # Nothing /\ c \in Near[s]}

WinsAt(p, stone) ==
  {c \in Cells : p.cells[c] = Nothing /\ HasFiveFrom([p.cells EXCEPT ![c] = stone], c, stone)}

(* A search works on a copy of the position it is asked about, and no game *)
(* is played on meanwhile.                                                 *)
Idle == board = Nothing

Search ==
  /\ Idle /\ <<Moves(game), game.future>> \in Asked
  /\ Start(game.position) /\ UNCHANGED game

Walk ==
  /\ ~Idle
  /\ \/ Len(undos) < MaxWalk /\ ((\E at \in Cells : Make(at)) \/ Pass)
     \/ TakeBack
  /\ UNCHANGED game

Return == ~Idle /\ undos = <<>> /\ board' = Nothing /\ UNCHANGED <<game, undos>>

SearchInit == Init /\ board = Nothing /\ undos = <<>>
SearchNext == (Idle /\ Next /\ UNCHANGED <<board, undos>>) \/ Search \/ Walk \/ Return
SearchSpec == SearchInit /\ [][SearchNext]_<<game, board, undos>>

(* What a scan of the whole board would compute for the position. *)
SidecarsMatch ==
  LET p == board.position
  IN /\ board.key = KeyOf(p)
     /\ board.frontier = FrontierOf(p)
     /\ board.patterns = PatternsOf(p)
     /\ board.evaluator = AccumulatorsOf(p, board.patterns)
     /\ CanPass(board) /\ p.count > 0 => Candidates(board) = NearAStone(p)
     /\ \A s \in Stones : board.patterns.bits[s][WinningMove] = WinsAt(p, s)

UnwindsTo(root) ==
  LET unwound[k \in 0..Len(undos)] ==
        IF k = Len(undos) THEN board ELSE TakenBack(unwound[k + 1], undos[k + 1])
  IN unwound[0] = root /\ \A k \in DOMAIN undos : InOrder(unwound[k], undos[k])

(* Whatever was played, passed and taken back: everything kept beside the  *)
(* position is what a scan of the whole board would compute for it.        *)
SidecarsStayExact == ~Idle => SidecarsMatch

(* Taking back everything restores the board the search began with, and no *)
(* assertion of the tokens fails on the way, with turns among the moves.   *)
SearchUnwinds == ~Idle => UnwindsTo(BoardOf(game.position))
=============================================================================
