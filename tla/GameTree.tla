------------------------------- MODULE GameTree -------------------------------
(***************************************************************************)
(* The games the search of AlphaBeta is checked on, and what the search is *)
(* checked against.  A game is a small acyclic graph of positions; what    *)
(* the engine reads from its incremental state is a field of the record:   *)
(*   kind[n]     "open", or the immediate tactic of the side to move:      *)
(*               "win", "loss", "block", and "draw" for a full board       *)
(*   next[n]     the position each move leads to, moves in canonical order *)
(*   near[n]     how many of these moves are candidates                    *)
(*   tier[n]     the tier of each move in tactical_class, 0 for quiet ones *)
(*   free[n]     the number of its empty cells                             *)
(*   static[n]   the evaluation for the side to move                       *)
(* Scores are those of the side to move.                                   *)
(***************************************************************************)
EXTENDS Integers, SequencesExt, TLC

CONSTANTS
  Mate,             \* MATE_SCORE
  Infinity,         \* SEARCH_INFINITY
  CellCount,        \* mates end within that many plies
  MaxQsearchPly     \* MAX_QSEARCH_PLY

ASSUME GameTreeAssumption ==
  /\ {Mate, Infinity, CellCount, MaxQsearchPly} \subseteq Nat
  /\ CellCount < Mate /\ Mate < Infinity

(* Mates for either side are far apart. *)
ASSUME MatesApart == 2 * CellCount < Mate

Threshold == Mate - CellCount
IsMate(score) == score >= Threshold \/ score <= -Threshold

(* Moves that make a Four: the reply is forced, or too late. *)
Forcing(g, n) == {m \in 1..g.near[n] : g.kind[g.next[n][m]] \in {"block", "loss"}}

(* A game as the engine meets it: every move fills a cell, a win needs one *)
(* empty cell and two threats two, an evaluation is no mate, a Four is of  *)
(* a high tier, and a search starts where there is a candidate.            *)
IsGame(g) ==
  /\ g.kind \in [DOMAIN g.kind -> {"open", "win", "loss", "block", "draw"}]
  /\ g.next \in [DOMAIN g.kind -> Seq(DOMAIN g.kind)]
  /\ {g.near, g.free} \subseteq [DOMAIN g.kind -> Nat] /\ g.static \in [DOMAIN g.kind -> Int]
  /\ \A n \in DOMAIN g.kind :
       /\ g.near[n] <= Len(g.next[n]) /\ ~IsMate(g.static[n]) /\ g.free[n] <= CellCount
       /\ \A m \in DOMAIN g.next[n] : g.free[g.next[n][m]] < g.free[n]
       /\ g.tier[n] \in [DOMAIN g.next[n] -> 0..9] /\ \A m \in Forcing(g, n) : g.tier[n][m] >= 5
       /\ g.kind[n] = "loss" => g.free[n] >= 2
       /\ g.kind[n] # "draw" => g.free[n] >= 1
       /\ g.kind[n] = "block" => g.next[n] # <<>>
  /\ g.roots \in Seq(DOMAIN g.kind)
  /\ \A i \in DOMAIN g.roots : g.kind[g.roots[i]] = "open" => g.near[g.roots[i]] >= 1

(* A unique winning point of the opponent has to be occupied. *)
Moves(g, n, wide) ==
  IF g.kind[n] = "block" THEN {1}
  ELSE IF wide THEN DOMAIN g.next[n] ELSE 1..g.near[n]

(* terminal_score and ImmediateTactic::resolve; Open where they say nothing *)
IsFact(g, n) == g.kind[n] \in {"win", "loss", "draw"}
Fact(g, n, ply) ==
  CASE g.kind[n] = "win" -> Mate - ply - 1
    [] g.kind[n] = "loss" -> -Mate + ply + 2
    [] g.kind[n] = "draw" -> 0

(* score_to_tt, score_from_tt: mates are kept relative to the position.    *)
ScoreToTt(score, ply) ==
  IF score >= Threshold THEN score + ply ELSE IF score <= -Threshold THEN score - ply ELSE score

(* Mutant: a mate is as far from the root as it was when it was stored.    *)
ScoreFromTtAsKept(score, ply) == score

ScoreFromTt(score, ply) ==
  IF score >= Threshold THEN score - ply ELSE IF score <= -Threshold THEN score + ply ELSE score

Larger(a, b) == IF a >= b THEN a ELSE b
Smaller(a, b) == IF a <= b THEN a ELSE b

(* qsearch counts its plies up to its cap. *)
Quieter(qply) == Smaller(qply + 1, MaxQsearchPly)

-----------------------------------------------------------------------------
(* The references: no windows, no table, no order.  All scores are those   *)
(* at the position itself, as the table keeps them.  Every move fills a    *)
(* cell, so the values of all positions are settled after as many rounds   *)
(* as there are cells; what they start from does not matter.               *)

FromChild(score) ==
  IF score >= Threshold THEN -(score - 1) ELSE IF score <= -Threshold THEN -(score + 1) ELSE -score

(* What qsearch looks for: the best of standing pat and the forcing moves. *)
QuietRound(g, before) ==
  [n \in DOMAIN g.kind |-> [q \in 0..MaxQsearchPly |->
     IF IsFact(g, n) THEN Fact(g, n, 0)
     ELSE IF g.kind[n] = "block" THEN FromChild(before[g.next[n][1]][Quieter(q)])
     ELSE IF q = MaxQsearchPly THEN g.static[n]
     ELSE Max({g.static[n]} \cup {FromChild(before[g.next[n][m]][q + 1]) : m \in Forcing(g, n)})]]

QuietValues(g) ==
  LET round[k \in 0..CellCount] ==
        QuietRound(g, IF k = 0 THEN [n \in DOMAIN g.kind |-> [q \in 0..MaxQsearchPly |-> 0]]
                      ELSE round[k - 1])
  IN round[CellCount]

(* What a position may be worth at a nominal depth: exactly the minimax    *)
(* value, or, where forcing moves may be extended, anything between the    *)
(* values that favour one side or the other.                               *)
Options(g, before, extended, n, d, m) ==
  {before[g.next[n][m]][d - 1]}
    \cup (IF extended /\ m \in Forcing(g, n) THEN {before[g.next[n][m]][d]} ELSE {})

WorthRound(g, quiet, before, extended, deepest) ==
  [n \in DOMAIN g.kind |-> [d \in 0..deepest |->
     LET moves == Moves(g, n, g.domain = "teacher")
         Least(m) == Min({FromChild(v.most) : v \in Options(g, before, extended, n, d, m)})
         Most(m) == Max({FromChild(v.least) : v \in Options(g, before, extended, n, d, m)})
     IN IF IsFact(g, n) THEN [least |-> Fact(g, n, 0), most |-> Fact(g, n, 0)]
        ELSE IF d = 0 THEN [least |-> quiet[n][0], most |-> quiet[n][0]]
        ELSE IF moves = {} THEN [least |-> 0, most |-> 0]
        ELSE [least |-> Max({Least(m) : m \in moves}), most |-> Max({Most(m) : m \in moves})]]]

Worth(g, extended, deepest) ==
  LET quiet == QuietValues(g)
      round[k \in 0..CellCount] ==
        WorthRound(g, quiet, IF k = 0 THEN [n \in DOMAIN g.kind |-> [d \in 0..deepest |-> [least |-> 0, most |-> 0]]]
                             ELSE round[k - 1], extended, deepest)
  IN round[CellCount]

(* Where the side to move forces a win, or cannot avert one, within k     *)
(* plies.                                                                  *)
Plies(g, k, before) ==
  LET Reach(n) == {g.next[n][m] : m \in Moves(g, n, g.domain = "teacher")}
      Goes(n) == g.kind[n] \in {"open", "block"} /\ Reach(n) # {}
  IN [wins |-> {n \in DOMAIN g.kind :
                  g.kind[n] = "win" \/ (Goes(n) /\ Reach(n) \cap before.loses # {})},
      loses |-> {n \in DOMAIN g.kind :
                   \/ g.kind[n] = "loss" /\ k >= 2
                   \/ Goes(n) /\ Reach(n) \subseteq before.wins}]

ForcedWins(g) ==
  LET level[k \in 0..CellCount] ==
        IF k = 0 THEN [wins |-> {}, loses |-> {}] ELSE Plies(g, k, level[k - 1])
  IN level
===============================================================================
