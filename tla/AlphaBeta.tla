------------------------------- MODULE AlphaBeta -------------------------------
(***************************************************************************)
(* The alpha-beta search of search.rs and search/: iterations with         *)
(* aspiration windows, principal variation search at the root and below,   *)
(* the selective shortcuts with the directions of a score they leave       *)
(* verified, and the transposition table all workers of a search, and all  *)
(* searches of an engine, share.  A worker's stack of frames is that of    *)
(* the recursion in the code; between two steps of a worker the others go  *)
(* on with the table.  Move ordering is any order the tactical classes and *)
(* the table move allow: what history, killers and the learned policy say  *)
(* is not looked at.                                                       *)
(***************************************************************************)
EXTENDS GameTree

CONSTANTS
  Games,            \* what may be searched: games, each with roots and options
  Helpers,          \* helper workers
  MaxDepth,         \* the largest SearchLimits::max_depth of a game
  Aspiration,       \* the first aspiration delta
  Nothing

Results == [score : Int, lower : BOOLEAN, upper : BOOLEAN]

(* A replaced evaluator changes what positions are worth, not which there are. *)
ASSUME AlphaBetaAssumption ==
  /\ MaxDepth \in Nat /\ Aspiration \in Nat \ {0} /\ Nothing \notin Results
  /\ \A i \in DOMAIN Games :
       /\ IsGame(Games[i]) /\ Games[i].depth \in 0..MaxDepth
       /\ Games[i].other \in DOMAIN Games =>
            DOMAIN Games[Games[i].other].kind = DOMAIN Games[i].kind

Principal == "principal"
Workers == {Principal} \cup Helpers

AllGames == Games
Exactly == [i \in DOMAIN AllGames |->
              Worth(AllGames[i], FALSE, MaxDepth)]
Extended == [i \in DOMAIN AllGames |->
               Worth(AllGames[i], "extensions" \in AllGames[i].shortcuts, MaxDepth)]
Forced == [i \in DOMAIN AllGames |-> ForcedWins(AllGames[i])]

VARIABLES
  game,        \* the index of the game
  search,      \* how many public searches the engine has begun
  team,        \* "idle", "running", or "stopping" once the work is to end
  table,       \* the entry each position has in the transposition table
  worker,      \* what each worker iterates over, and its stack
  completed    \* the result the principal would publish

vars == <<game, search, team, table, worker, completed>>

G == AllGames[game]
Root == G.roots[search]

-----------------------------------------------------------------------------
(* bounds.rs *)

Classify(score, alpha, beta) ==
  IF score <= alpha THEN "Upper" ELSE IF score >= beta THEN "Lower" ELSE "Exact"

Result(score, lower, upper) == [score |-> score, lower |-> lower, upper |-> upper]
Unverified(score) == Result(score, FALSE, FALSE)
Complete(score) == Result(score, TRUE, TRUE)
Verified(score, alpha, beta) ==
  LET bound == Classify(score, alpha, beta)
  IN Result(score, bound # "Upper", bound # "Lower")

Negated(r) == Result(-r.score, r.upper, r.lower)

Supports(f, bound) ==
  /\ bound \in {"Lower", "Exact"} => f.lower
  /\ bound \in {"Upper", "Exact"} => f.upper

(* BoundValidity::include *)
Included(f, r) ==
  [f EXCEPT !.upper = @ /\ r.upper,
            !.lower = CASE r.score > f.best -> r.lower
                        [] r.score = f.best -> @ \/ r.lower
                        [] r.score < f.best -> @]

-----------------------------------------------------------------------------
(* Frames. *)

(* One call of search_root, negamax or the teacher's loop, not yet begun;  *)
(* the teacher's loop keeps the score of every move.                       *)
Frame(kind, n, depth, alpha, beta, ply, used) ==
  [kind |-> kind, node |-> n, depth |-> depth, alpha |-> alpha, beta |-> beta, ply |-> ply,
   used |-> used, qply |-> 0, begun |-> FALSE, alpha0 |-> alpha, left |-> <<>>, tried |-> 0,
   best |-> -Infinity, at |-> 0, exact |-> FALSE, lower |-> FALSE, upper |-> TRUE,
   call |-> "none", child |-> 0, hint |-> 0, reduced |-> FALSE, layer |-> <<>>]

Scout(f) == f.beta = f.alpha + 1

Stack(w) == worker[w].stack
Top(w) == Last(Stack(w))
Returned(w) == worker[w].returned
Replace(w, f) == [worker EXCEPT ![w].stack = Append(Front(@), f), ![w].returned = Nothing]
Push(w, f, callee) ==
  [worker EXCEPT ![w].stack = Append(Append(Front(@), f), callee), ![w].returned = Nothing]
Pop(w, r) == [worker EXCEPT ![w].stack = Front(@), ![w].returned = r]

Fresh(w) == worker[w].phase = "search" /\ Returned(w) = Nothing /\ ~Top(w).begun

-----------------------------------------------------------------------------
(* The transposition table, seen by one search; a probe may also miss.     *)

Empty == [score |-> 0, at |-> 0, depth |-> 0, bound |-> "Empty"]
Seen(n) == IF G.lossy THEN {table[n], Empty} ELSE {table[n]}

(* tt_cutoff_score; competitive_tt takes the entry's depth for the node's. *)
Cuts(entry, depth, alpha, beta, ply) ==
  LET score == ScoreFromTt(entry.score, ply)
  IN /\ entry.bound # "Empty"
     /\ entry.depth = depth \/ (G.competitive /\ entry.depth >= depth)
     /\ entry.bound = "Lower" => score >= beta
     /\ entry.bound = "Upper" => score <= alpha

(* store_tt: what is better for the same position stays. *)
Kept(old, new) ==
  IF \/ new.depth < old.depth
     \/ new.depth = old.depth /\ old.bound = "Exact" /\ new.bound # "Exact"
  THEN old ELSE new

-----------------------------------------------------------------------------
(* Visiting a position: what is known before any move. *)

(* The domains of analysis leave table and shortcuts alone: "score" is     *)
(* analyze_score, the other two compare the moves of the root.             *)
Normal == G.domain = "normal"
Ranks == G.domain \in {"analysis", "teacher"}

Finishes(w, r) ==
  /\ worker' = Pop(w, r)
  /\ UNCHANGED <<game, search, team, table, completed>>

(* qsearch: the threats of one side, and standing pat; no bound is stored. *)
VisitLeaf(w) ==
  LET f == Top(w)
  IN /\ Fresh(w) /\ f.kind = "inner" /\ f.depth = 0
     /\ worker' = Replace(w, [f EXCEPT !.kind = "quiet"])
     /\ UNCHANGED <<game, search, team, table, completed>>

Quiet(w) == Fresh(w) /\ Top(w).kind = "quiet"

QuietFact(w) ==
  LET f == Top(w)
  IN /\ Quiet(w) /\ IsFact(G, f.node)
     /\ Finishes(w, Verified(Fact(G, f.node, f.ply), f.alpha, f.beta))

StandsPat(f) ==
  /\ G.kind[f.node] # "block"
  /\ f.qply >= MaxQsearchPly \/ G.static[f.node] >= f.beta \/ Forcing(G, f.node) = {}

StandPat(w) ==
  LET f == Top(w)
  IN /\ Quiet(w) /\ ~IsFact(G, f.node) /\ StandsPat(f)
     /\ Finishes(w, Verified(G.static[f.node], f.alpha, f.beta))

Inner(w) == Fresh(w) /\ Top(w).kind = "inner" /\ Top(w).depth > 0

VisitFact(w) ==
  LET f == Top(w)
  IN /\ Inner(w) /\ IsFact(G, f.node)
     /\ Finishes(w, Complete(Fact(G, f.node, f.ply)))

(* mate_distance_window *)
Low(f) == Larger(f.alpha, -Mate + f.ply)
High(f) == Smaller(f.beta, Mate - f.ply - 1)
Closed(f) == Low(f) >= f.beta \/ Low(f) >= High(f)

VisitClosed(w) ==
  LET f == Top(w)
      score == IF Low(f) >= f.beta THEN Low(f) ELSE High(f)
  IN /\ Inner(w) /\ ~IsFact(G, f.node) /\ Closed(f)
     /\ Finishes(w, Verified(score, f.alpha, f.beta))

Undecided(w) == Inner(w) /\ ~IsFact(G, Top(w).node) /\ ~Closed(Top(w))

VisitHit(w) ==
  LET f == Top(w)
      entry == table[f.node]
  IN /\ Normal /\ Undecided(w) /\ Cuts(entry, f.depth, Low(f), High(f), f.ply)
     /\ Finishes(w, Verified(ScoreFromTt(entry.score, f.ply), Low(f), High(f)))

(* No forced block, and no candidate that makes an open Three or more for  *)
(* either side (strong_threats).                                           *)
Calm(n) == G.kind[n] # "block" /\ \A m \in 1..G.near[n] : G.tier[n][m] < 2

(* A calm scout node; the shortcuts that trust an evaluation are taken     *)
(* away from mates only.                                                   *)
QuietScout(f) == Normal /\ High(f) = Low(f) + 1 /\ Calm(f.node)
Selective(f) == QuietScout(f) /\ ~IsMate(Low(f)) /\ ~IsMate(High(f))

Missed(w) ==
  LET f == Top(w)
  IN Undecided(w) /\ \E entry \in Seen(f.node) : ~Normal \/ ~Cuts(entry, f.depth, Low(f), High(f), f.ply)

Shortcut(name) == Normal /\ name \in G.shortcuts

(* Reverse futility and razoring, by the evaluation; all margins are taken *)
(* as zero, at which these shortcuts cut the most.                         *)
ReverseFutile(f) ==
  IF Shortcut("reverse futility") /\ f.depth <= 3 /\ G.static[f.node] >= High(f)
  THEN {G.static[f.node]} ELSE {}

Razored(f) == Shortcut("razoring") /\ f.depth <= 2 /\ G.static[f.node] < Low(f)

(* What a search in the analysis domain may find: the value of the depth.  *)
Analysed(f, depth) == Exactly[game][f.node][depth].least

(* null_probe: a pass may hint at a cutoff, a null window search of the    *)
(* real position has to confirm it.                                        *)
Nulled(f, value) ==
  IF Shortcut("null move") /\ f.depth >= 2 /\ G.static[f.node] >= High(f)
  THEN {score \in {High(f), value} : High(f) <= score /\ score <= value /\ ~IsMate(score)} ELSE {}

(* probcut_probe: a shallower exact score predicts, for the statistics it  *)
(* was fitted to, a cutoff.                                                *)
Probed(f) ==
  IF Shortcut("ProbCut") /\ \E depth \in 1..f.depth - 2 : ~IsMate(Analysed(f, depth))
  THEN {High(f)} ELSE {}

(* A score, but no evidence. *)
SelectiveCut(w) ==
  LET f == Top(w)
  IN /\ Missed(w) /\ Selective(f)
     /\ \E score \in ReverseFutile(f) \cup Nulled(f, Analysed(f, f.depth)) \cup Probed(f) :
          Finishes(w, Unverified(score))

-----------------------------------------------------------------------------
(* Trying the moves. *)

(* Every order by the tiers of the moves, the table move before the others *)
(* of its tier.                                                            *)
Orders(n, moves, hint) ==
  LET Class(m) == 2 * G.tier[n][m] + (IF m = hint THEN 1 ELSE 0)
  IN {s \in SetToSeqs(moves) :
        \A i, j \in DOMAIN s : i < j =>
          /\ Class(s[i]) >= Class(s[j])
          /\ G.shuffled \/ Class(s[i]) # Class(s[j]) \/ s[i] < s[j]}

Rotated(s, w) == IF w = Principal \/ s = <<>> THEN s ELSE Append(Tail(s), Head(s))

Begun(f, order) == [f EXCEPT !.begun = TRUE, !.left = order]

(* iid_move: where the table has none, the best move of a search in the    *)
(* analysis domain, less deep, is tried first.                             *)
BestOf(n, depth) ==
  LET Child(m) == FromChild(Exactly[game][G.next[n][m]][depth - 1].least)
  IN {m \in 1..G.near[n] : \A k \in 1..G.near[n] : Child(k) <= Child(m)}

Hints(f, known) ==
  IF Shortcut("iid") /\ known = 0 /\ f.depth >= 2 /\ Calm(f.node)
  THEN UNION {BestOf(f.node, depth) : depth \in 1..f.depth - 1} ELSE {known}

(* Internal iterative reduction, from a configured depth on; also in the   *)
(* scout windows next to a mate.                                           *)
Reductions(f, hint) ==
  IF Shortcut("iir") /\ QuietScout(f) /\ hint = 0 /\ f.depth >= 2 THEN BOOLEAN ELSE {FALSE}

Enters(f, hint, order, iir) ==
  [Begun(f, order) EXCEPT !.alpha = Low(f), !.beta = High(f), !.alpha0 = Low(f), !.hint = hint,
                          !.reduced = iir, !.depth = IF iir THEN @ - 1 ELSE @]

GoesOn(w, f, known) ==
  LET moves == Moves(G, f.node, G.domain = "teacher")
  IN IF moves = {} THEN worker' = Pop(w, Complete(0))
     ELSE \E hint \in Hints(f, known) :
          \E order \in Orders(f.node, moves, hint), iir \in Reductions(f, hint) :
            worker' = Replace(w, Enters(f, hint, order, iir))

VisitMoves(w) ==
  LET f == Top(w)
  IN /\ Undecided(w)
     /\ \E entry \in Seen(f.node) :
          /\ ~Normal \/ ~Cuts(entry, f.depth, Low(f), High(f), f.ply)
          /\ GoesOn(w, f, IF Normal THEN entry.at ELSE 0)
     /\ UNCHANGED <<game, search, team, table, completed>>

(* search_root: no cutoff before the moves; only its candidates may be     *)
(* more than those of the same position below a root.                      *)
VisitRoot(w) ==
  LET f == Top(w)
      moves == Moves(G, f.node, G.adaptive /\ w = Principal)
  IN /\ Fresh(w) /\ f.kind = "root"
     /\ \E entry \in Seen(f.node) : \E order \in Orders(f.node, moves, entry.at) :
          worker' = Replace(w, Begun(f, Rotated(order, w)))
     /\ UNCHANGED <<game, search, team, table, completed>>

(* analyze_root: all legal moves, whatever order they are selected in.     *)
VisitRanked(w) ==
  LET f == Top(w)
  IN /\ Fresh(w) /\ f.kind = "teacher"
     /\ worker' = Replace(w, Begun(f, [m \in Moves(G, f.node, TRUE) |-> m]))
     /\ UNCHANGED <<game, search, team, table, completed>>

(* The next call for a move of a frame. *)
Call(w, f, m, call, depth, alpha, beta, used) ==
  worker' = Push(w, [f EXCEPT !.call = call, !.child = m],
                 Frame("inner", G.next[f.node][m], depth, -beta, -alpha, f.ply + 1, used))

(* A leaf has nothing to try but its forcing moves, or its forced block.   *)
VisitQuiet(w) ==
  LET f == Top(w)
      block == G.kind[f.node] = "block"
      stand == IF block THEN -Infinity ELSE G.static[f.node]
  IN /\ Quiet(w) /\ ~IsFact(G, f.node) /\ ~StandsPat(f)
     /\ \E order \in IF block THEN {<<1>>} ELSE Orders(f.node, Forcing(G, f.node), 0) :
          worker' = Replace(w, [Begun(f, order) EXCEPT !.best = stand, !.alpha = Larger(@, stand)])
     /\ UNCHANGED <<game, search, team, table, completed>>

(* A leaf search at a low position, before its moves; what the table knew  *)
(* of it before stays known.                                               *)
Razor(w) ==
  LET f == Top(w)
  IN /\ Undecided(w) /\ Selective(f) /\ Razored(f)
     /\ \E entry \in Seen(f.node) :
          /\ ~Cuts(entry, f.depth, Low(f), High(f), f.ply)
          /\ worker' = Push(w, [f EXCEPT !.call = "razor", !.hint = entry.at],
                            Frame("quiet", f.node, 0, Low(f), High(f), f.ply, 0))
     /\ UNCHANGED <<game, search, team, table, completed>>

Advances(w) == worker[w].phase = "search" /\ Returned(w) = Nothing /\ Top(w).begun /\ Top(w).left # <<>>

(* Any late quiet move may be in the tail of the policy (PolicyRanks), or  *)
(* past the count of late move pruning; none of them helps a position that *)
(* is evaluated too low.                                                   *)
LowPolicy(f) == Shortcut("policy")
Late(f) == Shortcut("late moves") /\ f.depth <= 3
Futile(f) == Shortcut("futility") /\ f.depth <= 2 /\ G.static[f.node] <= f.alpha
Prunes(f) ==
  /\ Selective(f)
  /\ LowPolicy(f) \/ Late(f) \/ Futile(f)
  /\ Head(f.left) # f.hint /\ G.tier[f.node][Head(f.left)] = 0

(* Mutant: siblings that are not searched leave an upper bound intact. *)
PruneSilently(w) ==
  LET f == Top(w)
  IN /\ Advances(w) /\ f.kind = "inner" /\ f.tried > 0
     /\ Prunes(f)
     /\ worker' = Replace(w, [f EXCEPT !.left = Tail(@), !.tried = @ + 1])
     /\ UNCHANGED <<game, search, team, table, completed>>

(* What is left out may be better than what was searched. *)
Prune(w) ==
  LET f == Top(w)
  IN /\ Advances(w) /\ f.kind = "inner" /\ f.tried > 0
     /\ Prunes(f)
     /\ worker' = Replace(w, [f EXCEPT !.left = Tail(@), !.tried = @ + 1, !.upper = FALSE])
     /\ UNCHANGED <<game, search, team, table, completed>>

(* Late move reductions of a quiet move without a context of its own, by   *)
(* whatever depth, place, history and policy say, down to a leaf.          *)
LmrEligible(f, m) == f.depth >= 2 /\ f.tried > 0 /\ G.tier[f.node][m] = 0
LmrReductions(depth) == 1..depth - 1

ReducedDepths(f, m) ==
  IF /\ Shortcut("reductions") /\ f.kind = "inner" /\ Scout(f) /\ G.kind[f.node] # "block"
     /\ m # f.hint /\ ~IsMate(f.alpha) /\ LmrEligible(f, m)
  THEN {f.depth - 1 - reduction : reduction \in LmrReductions(f.depth)} ELSE {}

(* threat_extension, within the budget of a line. *)
Extension(f, m) ==
  IF Shortcut("extensions") /\ f.kind = "inner" /\ f.used = 0 /\ m \in Forcing(G, f.node) THEN 1 ELSE 0

Try(w) ==
  LET f == Top(w)
      m == Head(f.left)
      g == [f EXCEPT !.left = Tail(@), !.tried = @ + 1]
      extension == Extension(f, m)
      depth == f.depth - 1 + extension
  IN /\ Advances(w) /\ f.kind \in {"root", "inner"}
     /\ \/ /\ f.tried = 0 \/ ~Normal
           /\ Call(w, g, m, "full", depth, f.alpha, f.beta, f.used + extension)
        \/ /\ f.tried > 0 /\ Normal
           /\ Call(w, g, m, "scout", depth, f.alpha, f.alpha + 1, f.used + extension)
        \/ \E reduced \in ReducedDepths(f, m) :
             Call(w, g, m, "reduced", reduced, f.alpha, f.alpha + 1, f.used)
     /\ UNCHANGED <<game, search, team, table, completed>>

TryQuiet(w) ==
  LET f == Top(w)
      m == Head(f.left)
  IN /\ Advances(w) /\ f.kind = "quiet"
     /\ worker' = Push(w, [f EXCEPT !.left = Tail(@), !.tried = @ + 1, !.call = "quiet", !.child = m],
                       [Frame("quiet", G.next[f.node][m], 0, -f.beta, -f.alpha, f.ply + 1, 0)
                          EXCEPT !.qply = Quieter(f.qply)])
     /\ UNCHANGED <<game, search, team, table, completed>>

(* analyze_root compares all moves by searches of their own.               *)
TryRanked(w) ==
  LET f == Top(w)
  IN /\ Advances(w) /\ f.kind = "teacher"
     /\ Call(w, [f EXCEPT !.left = Tail(@), !.tried = @ + 1], Head(f.left), "full", f.depth - 1,
             -Infinity, Infinity, 0)
     /\ UNCHANGED <<game, search, team, table, completed>>

-----------------------------------------------------------------------------
(* Taking the result of a child. *)

Answer(w) == Negated(Returned(w))
Answered(w) == worker[w].phase = "search" /\ Stack(w) # <<>> /\ Returned(w) # Nothing

(* A leaf search that stays low ends the position without evidence. *)
TakeRazored(w) ==
  LET f == Top(w) score == Returned(w).score
  IN /\ Answered(w) /\ f.call = "razor"
     /\ IF score <= Low(f) THEN worker' = Pop(w, Unverified(score)) ELSE GoesOn(w, f, f.hint)
     /\ UNCHANGED <<game, search, team, table, completed>>

TakeQuiet(w) ==
  LET f == Top(w)
      best == Larger(f.best, Answer(w).score)
  IN /\ Answered(w) /\ f.kind = "quiet"
     /\ worker' = Replace(w, [f EXCEPT !.best = best, !.alpha = Larger(@, best),
                                       !.left = IF Larger(f.alpha, best) >= f.beta THEN <<>> ELSE @])
     /\ UNCHANGED <<game, search, team, table, completed>>

Again(w, f, call, alpha, beta) ==
  Call(w, f, f.child, call, f.depth - 1 + Extension(f, f.child), alpha, beta, f.used + Extension(f, f.child))

(* A reduced search that fails low is no evidence. *)
FailLow(w, f, r) ==
  Replace(w, [f EXCEPT !.upper = FALSE, !.lower = IF r.score > f.best THEN FALSE ELSE @,
                       !.best = Larger(@, r.score)])

TakeReduced(w) ==
  LET f == Top(w) r == Answer(w)
  IN /\ Answered(w) /\ f.call = "reduced"
     /\ IF r.score <= f.alpha THEN worker' = FailLow(w, f, r)
        ELSE Again(w, f, "scout", f.alpha, f.alpha + 1)
     /\ UNCHANGED <<game, search, team, table, completed>>

(* An improvement inside the window is searched again in all of it.        *)
Improves(f, r) == f.call = "scout" /\ r.score > f.alpha /\ r.score < f.beta

Research(w) ==
  LET f == Top(w) r == Answer(w)
  IN /\ Answered(w) /\ Improves(f, r)
     /\ Again(w, f, "full", f.alpha, f.beta)
     /\ UNCHANGED <<game, search, team, table, completed>>

(* Root ties: an order of its own for verified mates against us, else the  *)
(* canonical one.                                                          *)
Resists(w, f) == G.resistance /\ w = Principal /\ f.best <= -Threshold /\ f.exact
Preferred(w, f) ==
  \/ f.at = 0
  \/ IF Resists(w, f) THEN G.resist[f.child] > G.resist[f.at] ELSE f.child < f.at

Ties(w, f, r) ==
  /\ f.kind = "root" /\ f.call \in {"scout", "full"}
  /\ r.score = f.best /\ f.best > f.alpha0 /\ f.best < f.beta
  /\ Preferred(w, f)

ResolveTie(w) ==
  LET f == Top(w) r == Answer(w)
  IN /\ Answered(w) /\ ~Improves(f, r) /\ Ties(w, f, r)
     /\ Call(w, f, f.child, "tie", f.depth - 1, -Infinity, Infinity, f.used)
     /\ UNCHANGED <<game, search, team, table, completed>>

(* Mutant: the first of equal moves stays. *)
PrefersFirst(w, f, r) == r.score > f.best

Prefers(w, f, r) ==
  \/ r.score > f.best
  \/ /\ f.kind = "root" /\ r.score = f.best /\ Preferred(w, f)
     /\ Resists(w, f) => r.lower /\ r.upper

Take(w) ==
  LET f == Top(w) r == Answer(w)
      counted == Included(f, r)
      raised == IF ~Prefers(w, f, r) THEN counted
                ELSE [counted EXCEPT !.best = r.score, !.at = f.child,
                        !.exact = r.lower /\ r.upper /\ r.score > f.alpha0 /\ r.score < f.beta]
      narrowed == IF f.kind = "teacher" THEN [raised EXCEPT !.layer = @ @@ (f.child :> r.score)]
                  ELSE [raised EXCEPT !.alpha = Larger(@, r.score)]
  IN /\ Answered(w) /\ f.call \in {"full", "scout", "tie"} /\ ~Improves(f, r) /\ ~Ties(w, f, r)
     /\ worker' = Replace(w, IF f.kind # "teacher" /\ narrowed.alpha >= f.beta
                             THEN [narrowed EXCEPT !.left = <<>>, !.upper = FALSE]
                             ELSE narrowed)
     /\ UNCHANGED <<game, search, team, table, completed>>

-----------------------------------------------------------------------------
(* The end of a position. *)

Bound(f) == Classify(f.best, f.alpha0, f.beta)
Entry(f) == [score |-> ScoreToTt(f.best, f.ply), at |-> f.at, depth |-> f.depth, bound |-> Bound(f)]

Stores(w, f) ==
  Normal /\ Supports(f, Bound(f)) /\ ~(f.kind = "root" /\ G.adaptive /\ w = Principal)

Exhausted(w) == worker[w].phase = "search" /\ Returned(w) = Nothing /\ Top(w).begun /\ Top(w).left = <<>>

FinishQuiet(w) ==
  LET f == Top(w)
  IN /\ Exhausted(w) /\ f.kind = "quiet"
     /\ Finishes(w, Verified(f.best, f.alpha0, f.beta))

Finish(w) ==
  LET f == Top(w)
  IN /\ Exhausted(w) /\ f.kind # "quiet"
     /\ table' = IF Stores(w, f) THEN [table EXCEPT ![f.node] = Kept(@, Entry(f))] ELSE table
     /\ worker' = IF f.kind = "inner"
                  THEN Pop(w, IF f.reduced THEN Unverified(f.best)
                              ELSE Result(f.best, f.lower, f.upper))
                  ELSE [worker EXCEPT ![w].stack = <<>>, ![w].phase = "judge",
                                      ![w].returned = [score |-> f.best, at |-> f.at, layer |-> f.layer,
                                                       lower |-> f.lower, upper |-> f.upper]]
     /\ UNCHANGED <<game, search, team, completed>>

-----------------------------------------------------------------------------
(* Iterations. *)

Window(w, delta) ==
  LET previous == worker[w].previous
  IN <<Larger(previous - delta, -Infinity), Smaller(previous + delta, Infinity)>>

Launch(w, depth, delta) ==
  LET window == IF Normal THEN Window(w, delta) ELSE <<-Infinity, Infinity>>
  IN worker' = [worker EXCEPT ![w] =
       [phase |-> "search", depth |-> depth, previous |-> @.previous, delta |-> delta,
        window |-> window, returned |-> Nothing,
        stack |-> <<Frame(CASE Normal -> "root" [] Ranks -> "teacher" [] OTHER -> "inner", Root, depth,
                          window[1], window[2], 0, 0)>>]]

Idle(w) == [worker EXCEPT ![w].phase = "idle", ![w].stack = <<>>, ![w].returned = Nothing]

(* search_iteration: a full window at depth 1 and after a mate. *)
Iterate(w) ==
  /\ worker[w].phase = "boundary" /\ team = "running" /\ worker[w].depth < G.depth
  /\ Launch(w, IF G.domain = "score" THEN G.depth ELSE worker[w].depth + 1,
            IF worker[w].depth = 0 \/ IsMate(worker[w].previous) THEN 2 * Infinity ELSE Aspiration)
  /\ UNCHANGED <<game, search, team, table, completed>>

Fails(w) ==
  Normal /\ (Returned(w).score <= worker[w].window[1] \/ Returned(w).score >= worker[w].window[2])

(* Mutant: the window stays as narrow as it was. *)
WidenNot(w) ==
  /\ worker[w].phase = "judge" /\ Fails(w)
  /\ Launch(w, worker[w].depth, worker[w].delta)
  /\ UNCHANGED <<game, search, team, table, completed>>

Widen(w) ==
  /\ worker[w].phase = "judge" /\ Fails(w)
  /\ Launch(w, worker[w].depth,
            IF IsMate(Returned(w).score) THEN 2 * Infinity
            ELSE Smaller(2 * worker[w].delta, 2 * Infinity))
  /\ UNCHANGED <<game, search, team, table, completed>>

(* An iteration counts as a whole: the best move and its score, or for an  *)
(* analysis the scores of all moves.                                       *)
Published(r, depth) == [at |-> r.at, score |-> r.score, depth |-> depth, layer |-> r.layer]

(* The poll after an iteration comes before it counts. *)
Accept(w) ==
  /\ worker[w].phase = "judge" /\ ~Fails(w) /\ team = "running"
  /\ completed' = IF w = Principal THEN Published(Returned(w), worker[w].depth) ELSE completed
  /\ worker' = [worker EXCEPT ![w].phase = "boundary", ![w].previous = Returned(w).score,
                              ![w].returned = Nothing]
  /\ UNCHANGED <<game, search, team, table>>

(* analyze_score: the result of the one call, if all of it is evidence.    *)
Scored(w) ==
  /\ worker[w].phase = "search" /\ Stack(w) = <<>> /\ team = "running"
  /\ completed' = IF Returned(w).lower /\ Returned(w).upper
                  THEN [completed EXCEPT !.score = Returned(w).score, !.depth = G.depth]
                  ELSE completed
  /\ worker' = [worker EXCEPT ![w].phase = "boundary", ![w].returned = Nothing]
  /\ UNCHANGED <<game, search, team, table>>

(* A stop ends the loop at a boundary, or unwinds the whole stack. *)
Drop(w) ==
  /\ team = "stopping" /\ worker[w].phase # "idle"
  /\ worker[w].phase \in {"boundary", "judge"} \/ Stack(w) = <<>> \/ Fresh(w)
  /\ worker' = Idle(w)
  /\ UNCHANGED <<game, search, team, table, completed>>

(* The principal has completed all depths: the team is done. *)
Done ==
  /\ worker[Principal].phase = "boundary" /\ worker[Principal].depth = G.depth
  /\ worker' = Idle(Principal) /\ team' = "stopping"
  /\ UNCHANGED <<game, search, table, completed>>

HelperDone(w) ==
  /\ w \in Helpers /\ worker[w].phase = "boundary" /\ worker[w].depth = G.depth
  /\ worker' = Idle(w)
  /\ UNCHANGED <<game, search, team, table, completed>>

(* Cancellation, a deadline or the node limit. *)
Stop ==
  /\ team = "running" /\ G.stoppable
  /\ team' = "stopping"
  /\ UNCHANGED <<game, search, table, worker, completed>>

-----------------------------------------------------------------------------
(* Public searches of one engine. *)

Result0(at, score) == [at |-> at, score |-> score, depth |-> 0, layer |-> <<>>]
Resting == [phase |-> "idle", depth |-> 0, previous |-> 0, delta |-> 0, window |-> <<0, 0>>,
            returned |-> Nothing, stack |-> <<>>]

Init ==
  /\ game \in DOMAIN AllGames
  /\ search = 0 /\ team = "idle"
  /\ table = [n \in DOMAIN G.kind |-> Empty]
  /\ worker = [w \in Workers |-> Resting]
  /\ completed = Result0(0, 0)

(* search_with_budget: facts and a forced block need no search; otherwise  *)
(* there is a move to fall back on before the first iteration ends.        *)
Begin ==
  LET root == G.roots[search + 1]
      facts == Normal /\ (IsFact(G, root) \/ G.kind[root] = "block")
  IN /\ team = "idle" /\ search < Len(G.roots)
     /\ search' = search + 1
     /\ completed' = IF IsFact(G, root) THEN Result0(1, Fact(G, root, 0)) ELSE Result0(1, G.static[root])
     /\ team' = IF facts THEN "idle" ELSE "running"
     /\ worker' = IF facts THEN worker
                  ELSE [w \in Workers |->
                          [Resting EXCEPT !.phase = IF w = Principal \/ G.team THEN "boundary" ELSE "idle",
                                          !.previous = G.static[root]]]
     /\ UNCHANGED <<game, table>>

(* All workers are joined. *)
Join ==
  /\ team = "stopping" /\ \A w \in Workers : worker[w].phase = "idle"
  /\ team' = "idle"
  /\ UNCHANGED <<game, search, table, worker, completed>>

(* reconfigure and resize_transposition_table: another table, and empty. *)
Forgotten == [n \in DOMAIN G.kind |-> Empty]

(* replace_evaluator, reconfigure: what the table holds is forgotten.      *)
ReplaceEvaluator ==
  /\ team = "idle" /\ search \in 1..Len(G.roots) - 1 /\ G.other \in DOMAIN AllGames \ {game}
  /\ game' = G.other
  /\ table' = Forgotten
  /\ UNCHANGED <<search, team, worker, completed>>

Step(w) ==
  \/ VisitLeaf(w) \/ QuietFact(w) \/ StandPat(w) \/ VisitQuiet(w) \/ TryQuiet(w) \/ TakeQuiet(w)
  \/ FinishQuiet(w) \/ Razor(w) \/ TakeRazored(w) \/ VisitFact(w) \/ VisitClosed(w) \/ VisitHit(w)
  \/ SelectiveCut(w) \/ VisitMoves(w) \/ VisitRoot(w) \/ VisitRanked(w)
  \/ Prune(w) \/ Try(w) \/ TryRanked(w) \/ TakeReduced(w) \/ Research(w) \/ ResolveTie(w) \/ Take(w)
  \/ Finish(w) \/ Iterate(w) \/ Widen(w) \/ Accept(w) \/ Scored(w) \/ Drop(w) \/ HelperDone(w)

Next ==
  \/ \E w \in Workers : Step(w)
  \/ Done \/ Stop \/ Begin \/ Join \/ ReplaceEvaluator

(* Every worker is scheduled; an engine is not obliged to search again.    *)
Spec == Init /\ [][Next]_vars /\ WF_vars(Done) /\ WF_vars(Join) /\ \A w \in Workers : WF_vars(Step(w))

-----------------------------------------------------------------------------
(* Whatever the workers interleave, prune, reduce or leave unfinished, an  *)
(* entry of the table is a true bound of its position at its depth, for    *)
(* any later search that finds it.                                         *)
EvidenceIsTrue ==
  ~G.competitive =>
    \A n \in DOMAIN table :
      LET entry == table[n]
          value == Extended[game][n][entry.depth]
      IN /\ entry.bound \in {"Lower", "Exact"} => entry.score <= value.most
         /\ entry.bound \in {"Upper", "Exact"} => entry.score >= value.least

RootMoves == Moves(G, Root, Ranks \/ (Normal /\ G.adaptive))
WorthOf(m, depth) == FromChild(Exactly[game][G.next[Root][m]][depth - 1].least)

(* Without selectivity a completed iteration has the minimax value of the  *)
(* root, and the root move is the canonical one among the best, or the one *)
(* that resists most: a table warm from other searches, helpers, probes    *)
(* for a first move and interruptions change neither.  The scores of an    *)
(* analysis, whenever it is stopped, are those of one depth for all moves. *)
CompletedIsExact ==
  completed.depth > 0 /\ team # "idle" /\ G.shortcuts \subseteq {"iid"} /\ ~G.competitive =>
    LET worth == [m \in RootMoves |-> WorthOf(m, completed.depth)]
        best == {m \in RootMoves : \A k \in RootMoves : worth[k] <= worth[m]}
    IN /\ completed.score = worth[Min(best)]
       /\ completed.at \in best \/ G.domain = "score"
       /\ Ranks => completed.layer = worth
       /\ Normal => \A m \in best :
            IF completed.score <= -Threshold /\ G.resistance
            THEN G.resist[m] <= G.resist[completed.at] ELSE completed.at <= m

(* These leave moves out that nobody has looked at. *)
Blind == {"policy", "late moves", "futility"}

(* A completed mate score is a forced mate, no longer than it says, also   *)
(* when it comes out of reductions, razoring, passes, extensions and       *)
(* scores of other depths, as long as every move of a node is looked at.   *)
MatesAreForced ==
  completed.depth > 0 /\ team # "idle" /\ G.shortcuts \cap Blind = {} =>
    /\ completed.score >= Threshold =>
         \/ G.kind[Root] = "win"
         \/ \E m \in RootMoves : G.next[Root][m] \in Forced[game][Mate - completed.score - 1].loses
    /\ completed.score <= -Threshold =>
         \/ G.kind[Root] = "loss"
         \/ \A m \in RootMoves : G.next[Root][m] \in Forced[game][Mate + completed.score - 1].wins

(* Windows widen, re-searches and ties end: every search returns.          *)
SearchEnds == team # "idle" ~> team = "idle"
===============================================================================
