------------------------------ MODULE RootSearch ------------------------------
(***************************************************************************)
(* What a public search does before and beside alpha-beta (search.rs,      *)
(* search_with_budget): exact facts of the root, a move to fall back on,   *)
(* the books, the proof searches, each behind a poll of the one budget;    *)
(* and, while the ordinary search goes on, the proofs of interior nodes    *)
(* that only order moves (interior_proof.rs).                              *)
(***************************************************************************)
EXTENDS ThreatProof, OpeningDatabase

CONSTANTS
  Requests,      \* what may be asked: position, limits and configuration
  Book,          \* the proof book: of canonical keys, the move and plies of an attacker's entry
  Center, Near,  \* Move::CENTER, and the cells near a cell
  Slots,         \* the slots of `seen`
  SlotOf(_)      \* the slot of a key

VARIABLES
  request,       \* the search under way
  stage,         \* how far it is
  opening,       \* the opening database attached and its policy, Nothing if none
  budget,        \* nodes the search may still admit, and whether it was stopped
  result,        \* the result it would return now
  proof,         \* the answer of the last proof search at the root
  interior,      \* InteriorProof: work left to either solver, and `seen`
  hint           \* the answer of the last interior proof, and where

vars == <<request, stage, opening, budget, result, proof, interior, hint>>

After(p, moves) ==
  LET reached[k \in 0..Len(moves)] == IF k = 0 THEN p ELSE MakeMove(reached[k - 1], moves[k])
  IN BoardOf(reached[Len(moves)])

Root == After(EmptyPosition, request.record)
Side == Root.position.side

-----------------------------------------------------------------------------
(* The result, its score given as the plies to the end of a forced game.   *)
Result(origin, line, wins, plies) ==
  [origin |-> origin, at |-> IF line = <<>> THEN Nothing ELSE Head(line), line |-> line,
   wins |-> wins, plies |-> plies]
Static(origin, at) == Result(origin, IF at = Nothing THEN <<>> ELSE <<at>>, Nothing, 0)

(* candidate_bits: the empty cells near a stone, or the centre. *)
Candidates(b) ==
  LET stones == Cells \ b.empty
  IN IF stones = {} THEN {Center} ELSE {c \in b.empty : \E s \in stones : c \in Near[s]}

(* The policy of the evaluator, if any, chooses among the best class.      *)
Fallbacks(b) ==
  LET moves == Candidates(b)
  IN {c \in moves : \A d \in moves : Resistance(b, d) <= Resistance(b, c)}

(* A known fact is counted, if a node is left for it. *)
Charge == [budget EXCEPT !.left = IF @ = 0 \/ budget.stopped THEN @ ELSE @ - 1,
                         !.stopped = @ \/ budget.left = 0]

Returns(r) == result' = r /\ stage' = "done"

Unused == [remaining |-> 0, vctRemaining |-> 0, seen |-> [s \in Slots |-> Nothing]]

Init ==
  /\ request \in Requests /\ stage = "begin" /\ opening = Nothing
  /\ budget = [left |-> request.nodes, stopped |-> FALSE]
  /\ result = Static("None", Nothing) /\ proof = Nothing
  /\ interior = Unused /\ hint = Nothing

(* Terminal positions, immediate wins and losses, and forced blocks.       *)
BeginFact ==
  LET b == Root
      p == b.position
      tactic == ImmediateTactic(b)
  IN /\ stage = "begin"
     /\ \/ /\ p.winner # Nothing \/ IsFull(p)
           /\ Returns(Result("Terminal", <<>>, p.winner, 0))
        \/ /\ p.winner = Nothing /\ ~IsFull(p) /\ request.depth # 0
           /\ \/ /\ tactic.kind = "Win"
                 /\ Returns(Result("Immediate", <<tactic.at>>, p.side, 1))
              \/ /\ tactic.kind = "Loss"
                 /\ Returns(Result("Immediate", <<tactic.at, tactic.reply>>, Opponent(p.side), 2))
              \/ tactic.kind = "ForcedBlock" /\ Returns(Static("ForcedBlock", tactic.at))
     /\ budget' = Charge
     /\ UNCHANGED <<opening, request, proof, interior, hint>>

(* Depth zero is a quiescence search, which needs no move. *)
BeginSearch ==
  LET b == Root
      p == b.position
  IN /\ stage = "begin" /\ p.winner = Nothing /\ ~IsFull(p)
     /\ \/ request.depth = 0 /\ result' = Static("Analysis", Nothing)
        \/ /\ request.depth # 0 /\ ImmediateTactic(b).kind = "None"
           /\ \E at \in Fallbacks(b) : result' = Static("Fallback", at)
     /\ stage' = IF budget.stopped \/ request.depth = 0 THEN "done" ELSE "books"
     /\ UNCHANGED <<opening, request, budget, proof, interior, hint>>

(* Both books are asked for the canonical position, and their move is      *)
(* taken back to the board as it lies.                                     *)

(* VerifiedProofBook::query, of the entries that have a move. *)
BookHit(p) ==
  LET key == Key(p)
      at == FromCanonical(p, Book[key].at)
  IN IF request.book /\ key \in DOMAIN Book /\ Legal(p, at)
     THEN [at |-> at, plies |-> Book[key].plies] ELSE Nothing

(* Mutant: the move is played as the canonical board lies. *)
OpeningHitAsStored(p) ==
  IF opening = Nothing \/ opening.database.identity.model # request.model THEN Nothing
  ELSE LET moves == QueryAsStored(opening.database, p, opening.database.identity)
       IN IF moves = Nothing THEN Nothing ELSE moves[1].at

(* opening_hit: the identity is compared again, the evaluator may be another. *)
OpeningHit(p) ==
  IF opening = Nothing \/ opening.database.identity.model # request.model THEN Nothing
  ELSE LET moves == Query(opening.database, p, opening.database.identity)
       IN IF moves = Nothing THEN Nothing ELSE moves[1].at

QueryBooks ==
  LET p == Root.position
      hit == BookHit(p)
      at == OpeningHit(p)
  IN /\ stage = "books"
     /\ IF hit # Nothing THEN Returns(Result("ProofBook", <<hit.at>>, Side, hit.plies))
        ELSE IF at # Nothing /\ opening.policy = "BookMove" THEN Returns(Static("OpeningBook", at))
        ELSE stage' = "vcf" /\ UNCHANGED result
     /\ UNCHANGED <<opening, request, budget, proof, interior, hint>>

-----------------------------------------------------------------------------
(* A stop refuses the next charge: of the nodes that are left, so many are *)
(* admitted before it arrives.                                             *)
Admitted ==
  IF budget.stopped THEN {0}
  ELSE {n \in request.stops : n < budget.left} \cup {budget.left}

Remaining(s, admitted) ==
  [left |-> budget.left - (admitted - s.outer), stopped |-> budget.stopped]

(* The poll after a proof search discards what it found. *)
Polls(stopped, r) == stopped \/ r.status = "Interrupted"

(* prove_vcf, prove_vct *)
Prove(origin, r, admitted, next) ==
  \E late \in IF request.stops = {} THEN {FALSE} ELSE BOOLEAN :
    LET stopped == Polls(late \/ budget.stopped, r)
    IN /\ proof' = [solver |-> origin, status |-> r.status, plies |-> r.plies, line |-> r.line]
       /\ budget' = [Remaining(r.solver, admitted) EXCEPT !.stopped = stopped]
       /\ IF stopped THEN stage' = "done" /\ UNCHANGED result
          ELSE IF r.status = "ProvenWin" THEN Returns(Result(origin, r.line, Side, r.plies))
          ELSE stage' = next /\ UNCHANGED result

Enabled(limits) == limits.plies # 0 /\ limits.nodes # 0

ProveVcf ==
  /\ stage = "vcf"
  /\ IF Enabled(request.vcf) /\ ForcingMoves(Root, Side) # {}
     THEN \E admitted \in Admitted :
            Prove("Vcf", SolveVcf(Root, Side, request.vcf.plies, Solver(request.vcf.nodes, admitted)),
                  admitted, "vct")
     ELSE stage' = (IF budget.stopped THEN "done" ELSE "vct") /\ UNCHANGED <<budget, result, proof>>
  /\ UNCHANGED <<opening, request, interior, hint>>

(* InteriorProof::new with what follows. *)
Ordinary(next) ==
  interior' = IF next = "ordinary"
              THEN [remaining |-> request.interior.total, vctRemaining |-> request.interiorVct.total,
                    seen |-> [s \in Slots |-> Nothing]]
              ELSE Unused

ProveVct ==
  /\ stage = "vct"
  /\ IF Enabled(request.vct) /\ Attacks(Root, Side) # {}
     THEN \E admitted \in Admitted :
            Prove("Vct", SolveVct(Root, Side, request.vct.plies, Solver(request.vct.nodes, admitted)),
                  admitted, "ordinary")
     ELSE stage' = "ordinary" /\ UNCHANGED <<budget, result, proof>>
  /\ Ordinary(stage')
  /\ UNCHANGED <<opening, request, hint>>

-----------------------------------------------------------------------------
(* probe, at the nodes of the search that are eligible for it: no forced   *)
(* block, an attack.  A position seen already is not tried again.          *)
Visits ==
  {moves \in request.visits :
     LET b == After(Root.position, moves)
     IN ImmediateTactic(b).kind = "None" /\ Attacks(b, b.position.side) # {}}

NoProbe(outer) == NotProven(Solver(0, outer))

(* The remaining work of all probes bounds the work of one. *)
Work(remaining, nodes) == Smaller(remaining, nodes)
Skips(work) == ~Enabled(request.interior) \/ work < request.interior.plies + 2

ProbeInteriorVcf(b, work, outer) ==
  IF Skips(work) THEN NoProbe(outer) ELSE VcfHint(b, request.interior.plies, work, outer)

ProbeInteriorVct(b, work, outer) ==
  IF ~Enabled(request.interiorVct) \/ work = 0 THEN NoProbe(outer)
  ELSE VctHint(b, request.interiorVct.plies, work, outer)

(* What either solver spent is taken from its own work. *)
Probed(moves, key, admitted, vcf, vct) ==
  LET answer == IF vcf.status \in {"ProvenWin", "Interrupted"} THEN vcf ELSE vct
  IN /\ interior' = [remaining |-> interior.remaining - (admitted - vcf.solver.outer),
                     vctRemaining |-> interior.vctRemaining - (vcf.solver.outer - vct.solver.outer),
                     seen |-> [interior.seen EXCEPT ![SlotOf(key)] = key]]
     /\ hint' = [moves |-> moves, status |-> answer.status, plies |-> answer.plies, line |-> answer.line]
     /\ budget' = [Remaining(vct.solver, admitted) EXCEPT !.stopped = @ \/ answer.status = "Interrupted"]
     /\ stage' = IF answer.status = "Interrupted" THEN "done" ELSE stage

ProbeVcfFirst(b, moves, admitted, vcf) ==
  Probed(moves, SolverKey(b), admitted, vcf,
         IF vcf.status \in {"NotProven", "BudgetExceeded"}
         THEN ProbeInteriorVct(b, Work(interior.vctRemaining, request.interiorVct.nodes), vcf.solver.outer)
         ELSE NoProbe(vcf.solver.outer))

Probe ==
  /\ stage = "ordinary"
  /\ \E moves \in Visits, admitted \in Admitted :
       LET b == After(Root.position, moves)
       IN /\ interior.seen[SlotOf(SolverKey(b))] # SolverKey(b)
          /\ ProbeVcfFirst(b, moves, admitted,
               ProbeInteriorVcf(b, Work(interior.remaining, request.interior.nodes), admitted))
  /\ UNCHANGED <<opening, request, result, proof>>

(* The ordinary search, of AlphaBeta, ends. *)
Finish ==
  /\ stage = "ordinary" /\ stage' = "done"
  /\ UNCHANGED <<opening, request, budget, result, proof, interior, hint>>

Stop ==
  /\ request.stops # {} /\ stage \notin {"ordinary", "done"} /\ ~budget.stopped
  /\ budget' = [budget EXCEPT !.stopped = TRUE]
  /\ UNCHANGED <<opening, request, stage, result, proof, interior, hint>>

Next == BeginFact \/ BeginSearch \/ QueryBooks \/ ProveVcf \/ ProveVct \/ Probe \/ Finish \/ Stop
Spec == Init /\ [][Next]_vars

-----------------------------------------------------------------------------
(* What the proof searches are checked against.                            *)

(* The rules alone: wins(p, stone) by looking at the lines, and a game won *)
(* within n plies against every legal reply.                               *)
WinsAt(p, stone) ==
  {c \in Cells : /\ p.cells[c] = Nothing
                 /\ \E line \in Lines : c \in line /\ \A d \in line \ {c} : p.cells[d] = stone}

RECURSIVE ForcedWithin(_, _, _)
ForcedWithin(p, stone, n) ==
  LET wins == WinsAt(p, stone)
      empty == {c \in Cells : p.cells[c] = Nothing}
  IN IF p.winner # Nothing THEN p.winner = stone
     ELSE IF n = 0 \/ IsFull(p) THEN FALSE
     ELSE IF p.side = stone
     THEN wins # {} \/ (n > 2 /\ \E c \in empty : ForcedWithin(MakeMove(p, c), stone, n - 1))
     ELSE /\ n > 1 /\ WinsAt(p, p.side) = {}
          /\ IF n \in {2, 3} THEN Cardinality(wins) > 1
             ELSE \A c \in empty : ForcedWithin(MakeMove(p, c), stone, n - 1)

(* The shortest line, by going through all branches: the first among equal *)
(* attacks, the first among equal longest answers.                         *)
RECURSIVE BestLine(_, _, _, _, _)
BestLine(vct, b, attacker, active, cap) ==
  LET s == Solver(0, 0)
      fact == IF vct THEN Fact(b, attacker, cap, s) ELSE FourFact(b, attacker, cap, s)
      ours == b.position.side = attacker
      moves == IF vct THEN Branches(b, attacker, active)
               ELSE IF ours THEN ForcingMoves(b, attacker) ELSE {ImmediateTactic(b).at}
      lines == {<<c, BestLine(vct, Make(b, c), attacker, IF vct THEN Active(b, attacker, c) ELSE Nothing, cap - 1)>> : c \in moves}
      won == {x \in lines : x[2] # Nothing}
      lengths == {Len(x[2]) : x \in won}
      length == IF ours THEN Min(lengths) ELSE Max(lengths)
      at == Min({x[1] : x \in {y \in won : Len(y[2]) = length}})
  IN IF fact # Nothing THEN IF fact.status = "ProvenWin" THEN fact.line ELSE Nothing
     ELSE IF cap = 0 \/ won = {} \/ (~ours /\ won # lines) THEN Nothing
     ELSE <<at>> \o (CHOOSE x \in won : x[1] = at)[2]

(* A line of legal moves that the stone wins with its last one. *)
WinsGame(p, line, stone) ==
  /\ \A k \in DOMAIN line : Legal(After(p, SubSeq(line, 1, k - 1)).position, line[k])
  /\ After(p, line).position.winner = stone

-----------------------------------------------------------------------------
(* A result or a hint that rests on a fact or a proof is a forced game by  *)
(* the rules, over all legal replies and not just those the proof searches *)
(* answer, and its line is such a game, as long as it says.                *)
ProofsAreForced ==
  /\ result.wins # Nothing =>
       /\ ForcedWithin(IF result.line = <<>> THEN Root.position ELSE MakeMove(Root.position, result.at),
                       result.wins, IF result.line = <<>> THEN 0 ELSE result.plies - 1)
       /\ result.origin \in {"Immediate", "Vcf", "Vct"} =>
            Len(result.line) = result.plies /\ WinsGame(Root.position, result.line, result.wins)
  /\ hint # Nothing => (hint.status = "ProvenWin" =>
       LET p == After(Root.position, hint.moves).position
       IN /\ ForcedWithin(MakeMove(p, Head(hint.line)), p.side, hint.plies - 1)
          /\ Len(hint.line) = hint.plies /\ WinsGame(p, hint.line, p.side))

(* A proof search that ran to its end found the shortest proof there is in *)
(* its vocabulary and the canonical line of it, or there is none: neither  *)
(* its tables and what they lose nor its thresholds change the answer.     *)
AnswersAreTheBest ==
  proof # Nothing =>
    LET vct == proof.solver = "Vct"
        cap == Smaller(IF vct THEN request.vct.plies ELSE request.vcf.plies, Available(Root))
        best == BestLine(vct, Root, Side, Nothing, cap)
    IN /\ proof.status = "NotProven" => best = Nothing
       /\ proof.status = "ProvenWin" => proof.line = best /\ proof.plies = Len(best)

(* A search that ends, however early it was stopped and whatever its books *)
(* say, has a legal move to play; and it is a move that wins if there is   *)
(* one, or else takes a cell by which the opponent would win.              *)
FactsComeFirst ==
  stage = "done" /\ request.depth # 0 /\ result.origin # "Terminal" =>
    LET p == Root.position
        wins == WinsAt(p, p.side)
        threats == WinsAt(p, Opponent(p.side))
    IN /\ Legal(p, result.at)
       /\ wins # {} => result.at \in wins
       /\ wins = {} /\ threats # {} => result.at \in threats
===============================================================================
