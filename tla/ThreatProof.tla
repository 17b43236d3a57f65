----------------------------- MODULE ThreatProof -----------------------------
(***************************************************************************)
(* The proof searches of the engine: continuous fours (vcf.rs over the     *)
(* table of proof_table.rs) and threats (vct/dfpn.rs over vct/table.rs,    *)
(* depth-first proof numbers and the reconstruction of a shortest line).   *)
(* A solver is a record that the operators thread through: its table, of   *)
(* the one bucket that the keys of a search fall into, the visits left to  *)
(* it and those the budget of the whole search still admits.  The line of  *)
(* a PvTable row is returned with the proof it belongs to.                 *)
(***************************************************************************)
EXTENDS Threats

CONSTANTS
  Ways,         \* WAYS of a bucket
  MaxNumber     \* INFINITY of proof numbers

ASSUME TableAssumption == Ways \in Nat \ {0} /\ MaxNumber \in Nat \ {0, 1}

SolverKey(b) == <<b.position.cells, b.position.side>>
Ascending(cells) == SelectSeq([i \in 1..Cardinality(Cells) |-> i], LAMBDA c : c \in cells)

(* begin_search: nothing of an earlier generation is left. *)
Solver(left, outer) == [table |-> <<>>, left |-> left, outer |-> outer]

Answer(status, plies, line, s) == [status |-> status, plies |-> plies, line |-> line, solver |-> s]
Proven(plies, line, s) == Answer("ProvenWin", plies, line, s)
NotProven(s) == Answer("NotProven", 0, <<>>, s)
Refused(status, s) == Answer(status, 0, <<>>, s)
Prefixed(at, r) == [r EXCEPT !.plies = @ + 1, !.line = <<at>> \o @]

(* charge: the local limit is looked at first. *)
Refusal(s) == IF s.left = 0 THEN "BudgetExceeded" ELSE IF s.outer = 0 THEN "Interrupted" ELSE ""
Charged(s) == [s EXCEPT !.left = @ - 1, !.outer = @ - 1]

(* The entry of a key, and where a new one goes: the same key, a free      *)
(* slot, or the slot that is worth least.                                  *)
Matching(table, Is(_)) == {i \in DOMAIN table : Is(table[i])}
Put(table, entry, same, Below(_, _)) ==
  IF same # {} THEN [table EXCEPT ![Min(same)] = entry]
  ELSE IF Len(table) < Ways THEN Append(table, entry)
  ELSE LET worst == CHOOSE i \in DOMAIN table :
                      \A j \in DOMAIN table : Below(table[i], table[j]) \/ (~Below(table[j], table[i]) /\ i <= j)
       IN [table EXCEPT ![worst] = entry]

-----------------------------------------------------------------------------
(* VCF: every attack is a four, and a four leaves one block.               *)

(* resolve_fact, Nothing where it says nothing. *)
FourFact(b, attacker, depth, s) ==
  LET p == b.position
      tactic == ImmediateTactic(b)
      won == IF p.side = attacker THEN "Win" ELSE "Loss"
      open == IF p.side = attacker THEN {"None", "ForcedBlock"} ELSE {"ForcedBlock"}
      plies == IF p.side = attacker THEN 1 ELSE 2
      line == IF p.side = attacker THEN <<tactic.at>> ELSE <<tactic.at, tactic.reply>>
  IN IF p.winner # Nothing THEN IF p.winner = attacker THEN Proven(0, <<>>, s) ELSE NotProven(s)
     ELSE IF IsFull(p) THEN NotProven(s)
     ELSE IF tactic.kind \in open THEN Nothing
     ELSE IF tactic.kind = won /\ plies <= depth THEN Proven(plies, line, s)
     ELSE NotProven(s)

ProbeProof(s, b) ==
  LET same == Matching(s.table, LAMBDA e : e.key = SolverKey(b))
  IN IF same = {} THEN Nothing ELSE s.table[Min(same)]

(* What was searched deeper stays. *)
StoreProof(s, b, depth, r) ==
  LET entry == [key |-> SolverKey(b), depth |-> depth, proven |-> r.status = "ProvenWin", plies |-> r.plies,
                at |-> IF r.line = <<>> THEN Nothing ELSE Head(r.line)]
      same == Matching(s.table, LAMBDA e : e.key = SolverKey(b))
  IN IF same # {} /\ s.table[Min(same)].depth > depth THEN s
     ELSE [s EXCEPT !.table = Put(@, entry, same, LAMBDA d, e : d.depth < e.depth)]

(* replay: a cached proof counts once its whole line has been found again; *)
(* its links are charged to the search, not to the solver.  (Within one    *)
(* generation a four that is proven ends the search, so it is not met.)    *)
RECURSIVE ReplayProof(_, _, _, _)

LinkedBy(b, attacker, entry, depth) ==
  /\ entry.proven /\ entry.plies <= depth
  /\ entry.at # Nothing /\ Legal(b.position, entry.at)
  /\ IF b.position.side = attacker THEN entry.at \in ForcingMoves(b, attacker)
     ELSE ImmediateTactic(b) = TacticIs("ForcedBlock", entry.at, Nothing)

Linked(entry, r) ==
  IF r.status = "ProvenWin" /\ r.plies + 1 # entry.plies THEN NotProven(r.solver)
  ELSE IF r.status = "ProvenWin" THEN Prefixed(entry.at, r) ELSE r

ReplayFrom(b, attacker, depth, fact, entry, s) ==
  IF fact # Nothing THEN fact
  ELSE IF depth = 0 \/ entry = Nothing THEN NotProven(s)
  ELSE IF ~LinkedBy(b, attacker, entry, depth) THEN NotProven(s)
  ELSE Linked(entry, ReplayProof(Make(b, entry.at), attacker, depth - 1, s))

ReplayProof(b, attacker, depth, s) ==
  LET t == [s EXCEPT !.outer = @ - 1]
  IN IF s.outer = 0 THEN Refused("Interrupted", s)
     ELSE ReplayFrom(b, attacker, depth, FourFact(b, attacker, depth, t), ProbeProof(t, b), t)

KnownUnproven(entry, depth) == ~entry.proven /\ entry.depth >= depth

(* What the table says, "" where the position has to be searched.          *)
Confirmed(entry, r) ==
  IF r.status = "Interrupted" \/ (r.status = "ProvenWin" /\ r.plies = entry.plies) THEN r
  ELSE Refused("", r.solver)

Known(b, attacker, depth, entry, s) ==
  IF entry = Nothing THEN Refused("", s)
  ELSE IF KnownUnproven(entry, depth) THEN NotProven(s)
  ELSE IF entry.proven /\ entry.plies <= depth
  THEN Confirmed(entry, ReplayProof(b, attacker, depth, s))
  ELSE Refused("", s)

Remembered(b, depth, r) ==
  IF r.status \in {"ProvenWin", "NotProven"}
  THEN [r EXCEPT !.solver = StoreProof(@, b, depth, r)] ELSE r

RECURSIVE Visit(_, _, _, _), TryFours(_, _, _, _, _)

(* continue_at for one move after the other, until one is not unproven.    *)
Tried(b, attacker, moves, depth, r) ==
  CASE r.status = "ProvenWin" -> Prefixed(Head(moves), r)
    [] r.status = "NotProven" -> TryFours(b, attacker, Tail(moves), depth, r.solver)
    [] OTHER -> r

TryFours(b, attacker, moves, depth, s) ==
  IF moves = <<>> THEN NotProven(s)
  ELSE Tried(b, attacker, moves, depth, Visit(Make(b, Head(moves)), attacker, depth - 1, s))

(* The fours of the attacker, or the one block of the defender. *)
FourMoves(b, attacker) ==
  IF b.position.side = attacker THEN Ascending(ForcingMoves(b, attacker))
  ELSE Ascending({c \in {ImmediateTactic(b).at} : ImmediateTactic(b).kind = "ForcedBlock"})

Expand(b, attacker, depth, fact, s) ==
  IF fact # Nothing THEN fact
  ELSE IF depth = 0 THEN NotProven(s)
  ELSE TryFours(b, attacker, FourMoves(b, attacker), depth, s)

Settled(b, attacker, depth, r) ==
  IF r.status # "" THEN r
  ELSE Remembered(b, depth, Expand(b, attacker, depth, FourFact(b, attacker, depth, r.solver), r.solver))

Visit(b, attacker, depth, s) ==
  IF Refusal(s) # "" THEN Refused(Refusal(s), s)
  ELSE Settled(b, attacker, depth, Known(b, attacker, depth, ProbeProof(s, b), Charged(s)))

Available(b) == Cardinality(b.empty)
Smaller(m, n) == IF m < n THEN m ELSE n

(* The depths at which the attacker can have the last move. *)
FirstDepth(b, attacker) ==
  IF b.position.winner # Nothing \/ IsFull(b.position) THEN 0
  ELSE IF b.position.side = attacker THEN 1 ELSE 2

RECURSIVE Deepen(_, _, _, _, _)
Deepen(b, attacker, depth, cap, r) ==
  IF depth > cap \/ r.status # "NotProven" THEN r
  ELSE Deepen(b, attacker, depth + 2, cap, Visit(b, attacker, depth, r.solver))

SolveVcf(b, attacker, maxPlies, s) ==
  Deepen(b, attacker, FirstDepth(b, attacker), Smaller(maxPlies, Available(b)), NotProven(s))

(* A visit costs itself and the links of a replay, depth + 1 at most. *)
HintNodes(depth, work) == work \div (depth + 2)

VcfHint(b, maxPlies, work, outer) ==
  LET depth == Smaller(maxPlies, Available(b))
  IN Visit(b, b.position.side, depth, Solver(HintNodes(depth, work), outer))

-----------------------------------------------------------------------------
(* VCT: attacks may be open threes.  Facts come before the table.          *)

(* fact: Nothing, or whether and how it is won. *)
Fact(b, attacker, depth, s) ==
  LET p == b.position
      tactic == ImmediateTactic(b)
      ours == p.side = attacker
  IN IF p.winner # Nothing THEN IF p.winner = attacker THEN Proven(0, <<>>, s) ELSE NotProven(s)
     ELSE IF IsFull(p) THEN NotProven(s)
     ELSE IF tactic.kind = "Win"
     THEN IF ours /\ depth >= 1 THEN Proven(1, <<tactic.at>>, s) ELSE NotProven(s)
     ELSE IF tactic.kind = "Loss"
     THEN IF ~ours /\ depth >= 2 THEN Proven(2, <<tactic.at, tactic.reply>>, s) ELSE NotProven(s)
     ELSE IF depth < (IF ours THEN 3 ELSE 4) THEN NotProven(s)
     ELSE Nothing

Numbers(proof, disproof) == [proof |-> proof, disproof |-> disproof]
Unknown == Numbers(1, 1)
Win == Numbers(0, MaxNumber)
NoProof == Numbers(MaxNumber, 0)
Solved(n) == n.proof = 0 \/ n.disproof = 0
NumbersOf(fact) == IF fact.status = "ProvenWin" THEN Win ELSE NoProof

(* TacticalKey: the threat to answer is part of it. *)
TacticalKey(b, attacker, active) == <<SolverKey(b), active, attacker, b.position.side # attacker>>

(* Mutant: an entry answers for any depth. *)
AnswersForAnyDepth(entry, depth) == TRUE

AnswersFor(entry, depth) == entry.depth = depth

Same(table, key, depth) == Matching(table, LAMBDA e : e.key = key /\ AnswersFor(e, depth))

ProbeNumbers(s, key, depth) ==
  LET same == Same(s.table, key, depth)
  IN IF same = {} THEN Nothing ELSE s.table[Min(same)]

(* What is solved stays, and so does progress over a fresh inspection.     *)
StoreNumbers(s, key, depth, numbers, at, distance) ==
  LET entry == [key |-> key, depth |-> depth, numbers |-> numbers, at |-> at, distance |-> distance]
      same == Same(s.table, key, depth)
      old == s.table[Min(same)]
      Below(d, e) == \/ ~Solved(d.numbers) /\ Solved(e.numbers)
                     \/ (Solved(d.numbers) <=> Solved(e.numbers)) /\ d.depth < e.depth
      stays == \/ Solved(old.numbers) /\ ~Solved(numbers)
               \/ /\ numbers = Unknown /\ ~Solved(old.numbers)
                  /\ old.numbers # Unknown \/ old.at # Nothing
  IN IF same # {} /\ stays THEN s ELSE [s EXCEPT !.table = Put(@, entry, same, Below)]

Saturated(n) == Smaller(n, MaxNumber)
RECURSIVE SumOf(_, _), LeastOf(_, _)
SumOf(F(_), children) ==
  IF children = <<>> THEN 0 ELSE Saturated(F(Head(children)) + SumOf(F, Tail(children)))
LeastOf(F(_), children) ==
  IF children = <<>> THEN MaxNumber ELSE Smaller(F(Head(children)), LeastOf(F, Tail(children)))
ProofOf(n) == n.proof
DisproofOf(n) == n.disproof

Aggregate(children, isOr) ==
  IF isOr THEN Numbers(LeastOf(ProofOf, children), SumOf(DisproofOf, children))
  ELSE Numbers(SumOf(ProofOf, children), LeastOf(DisproofOf, children))

(* select: the most-proving child and how far it may be searched.          *)
Selected(children, isOr, threshold) ==
  LET Metric(n) == IF isOr THEN n.proof ELSE n.disproof
      Other(n) == IF isOr THEN n.disproof ELSE n.proof
      chosen == Min({i \in DOMAIN children : Metric(children[i]) = LeastOf(Metric, children)})
      siblings == RemoveAt(children, chosen)
      next == Saturated(LeastOf(Metric, siblings) + 1)
      Left(limit) == Max({limit - SumOf(Other, siblings), 1})
  IN [index |-> chosen,
      threshold |-> IF isOr
                    THEN Numbers(Smaller(threshold.proof, next), Left(threshold.disproof))
                    ELSE Numbers(Left(threshold.proof), Smaller(threshold.disproof, next))]

Inspected(numbers, s) == [refused |-> "", numbers |-> numbers, solver |-> s]
NotInspected(refusal, s) == [refused |-> refusal, numbers |-> Unknown, solver |-> s]

InspectedAs(b, fact, entry, s) ==
  IF fact # Nothing THEN Inspected(NumbersOf(fact), s)
  ELSE IF entry = Nothing THEN Inspected(Unknown, s)
  ELSE IF entry.at # Nothing /\ ~Legal(b.position, entry.at) THEN Inspected(Unknown, s)
  ELSE Inspected(entry.numbers, s)

Inspect(b, attacker, active, depth, s) ==
  IF Refusal(s) # "" THEN NotInspected(Refusal(s), s)
  ELSE InspectedAs(b, Fact(b, attacker, depth, s),
                   ProbeNumbers(s, TacticalKey(b, attacker, active), depth), Charged(s))

(* The threat a move makes is what the reply to it has to answer. *)
Active(b, attacker, at) == IF b.position.side = attacker THEN Threat(b, at, attacker) ELSE Nothing

RECURSIVE InspectChildren(_, _, _, _, _)
InspectedChild(seen, one) ==
  [refused |-> one.refused, solver |-> one.solver, children |-> Append(seen.children, one.numbers)]

InspectChildren(b, attacker, moves, depth, seen) ==
  IF moves = <<>> \/ seen.refused # "" THEN seen
  ELSE InspectChildren(b, attacker, Tail(moves), depth,
         InspectedChild(seen, Inspect(Make(b, Head(moves)), attacker, Active(b, attacker, Head(moves)),
                                      depth - 1, seen.solver)))

RECURSIVE Dfpn(_, _, _, _, _, _), MostProving(_, _, _, _, _, _, _, _, _)

Within(value, threshold) ==
  ~Solved(value) /\ value.proof < threshold.proof /\ value.disproof < threshold.disproof

Developed(b, attacker, key, depth, threshold, moves, seen) ==
  IF seen.refused # "" THEN NotInspected(seen.refused, seen.solver)
  ELSE MostProving(b, attacker, key, depth, threshold, moves, seen.children, Nothing, seen.solver)

DfpnFrom(b, attacker, key, depth, threshold, moves, value) ==
  IF value.refused # "" \/ ~Within(value.numbers, threshold) THEN value
  ELSE IF moves = <<>>
  THEN Inspected(NoProof, StoreNumbers(value.solver, key, depth, NoProof, Nothing, Nothing))
  ELSE Developed(b, attacker, key, depth, threshold, moves,
                 InspectChildren(b, attacker, moves, depth,
                                 [refused |-> "", solver |-> value.solver, children |-> <<>>]))

Dfpn(b, attacker, active, depth, threshold, s) ==
  DfpnFrom(b, attacker, TacticalKey(b, attacker, active), depth, threshold,
           Ascending(Branches(b, attacker, active)), Inspect(b, attacker, active, depth, s))

(* The chosen child is searched within its thresholds, then chosen again.  *)
SearchChild(b, attacker, at, depth, threshold, s) ==
  Dfpn(Make(b, at), attacker, Active(b, attacker, at), depth - 1, threshold, s)

ProvedOn(b, attacker, key, depth, threshold, moves, children, index, r) ==
  IF r.refused # "" THEN r
  ELSE MostProving(b, attacker, key, depth, threshold, moves,
                   [children EXCEPT ![index] = r.numbers], moves[index], r.solver)

MostProving(b, attacker, key, depth, threshold, moves, children, best, s) ==
  LET isOr == b.position.side = attacker
      value == Aggregate(children, isOr)
      chosen == Selected(children, isOr, threshold)
  IN IF ~Within(value, threshold)
     THEN Inspected(value, StoreNumbers(s, key, depth, value, best, Nothing))
     ELSE ProvedOn(b, attacker, key, depth, threshold, moves, children, chosen.index,
                   SearchChild(b, attacker, moves[chosen.index], depth, chosen.threshold, s))

-----------------------------------------------------------------------------
(* canonical: the shortest distance, and its line move by move.            *)

RECURSIVE Shortest(_, _, _, _, _, _)
ShortestFrom(b, attacker, active, depth, cap, r) ==
  IF r.refused # "" THEN Refused(r.refused, r.solver)
  ELSE IF r.numbers.proof = 0 THEN Proven(depth, <<>>, r.solver)
  ELSE IF ~Solved(r.numbers) THEN Refused("BudgetExceeded", r.solver)
  ELSE Shortest(b, attacker, active, depth + 2, cap, r.solver)

Shortest(b, attacker, active, depth, cap, s) ==
  IF depth > cap THEN NotProven(s)
  ELSE ShortestFrom(b, attacker, active, depth, cap,
                    Dfpn(b, attacker, active, depth, Numbers(MaxNumber, MaxNumber), s))

RECURSIVE CanonicalLine(_, _, _, _, _), Reconstruct(_, _, _, _, _, _)

(* The first proven attack, or the longest of all the answers. *)
Reconstructed(b, attacker, moves, depth, line, r) ==
  LET at == Head(moves)
      isOr == b.position.side = attacker
  IN CASE r.status = "ProvenWin" /\ isOr -> Prefixed(at, r)
       [] r.status = "ProvenWin" /\ ~isOr ->
            Reconstruct(b, attacker, Tail(moves), depth,
                        IF r.plies + 1 > Len(line) THEN <<at>> \o r.line ELSE line, r.solver)
       [] r.status = "NotProven" /\ isOr ->
            Reconstruct(b, attacker, Tail(moves), depth, line, r.solver)
       [] OTHER -> r

Reconstruct(b, attacker, moves, depth, line, s) ==
  IF moves = <<>> THEN IF line = <<>> THEN NotProven(s) ELSE Proven(Len(line), line, s)
  ELSE Reconstructed(b, attacker, moves, depth, line,
         CanonicalLine(Make(b, Head(moves)), attacker, Active(b, attacker, Head(moves)), depth - 1, s))

Certified(key, cap, r) ==
  IF r.status # "ProvenWin" THEN r
  ELSE [r EXCEPT !.solver = StoreNumbers(@, key, cap, Win, Head(r.line), r.plies)]

Retraced(b, attacker, active, cap, shortest) ==
  IF shortest.status # "ProvenWin" THEN shortest
  ELSE Certified(TacticalKey(b, attacker, active), cap,
         Reconstruct(b, attacker, Ascending(Branches(b, attacker, active)), shortest.plies,
                     <<>>, shortest.solver))

Distance(b, attacker, active, cap, entry, s) ==
  LET known == entry # Nothing /\ (entry # Nothing => entry.distance # Nothing)
  IN IF known THEN Proven(entry.distance, <<>>, s)
     ELSE Shortest(b, attacker, active, FirstDepth(b, attacker), cap, s)

CanonicalFrom(b, attacker, active, cap, fact, s) ==
  IF fact # Nothing THEN fact
  ELSE Retraced(b, attacker, active, cap,
         Distance(b, attacker, active, cap,
                  ProbeNumbers(s, TacticalKey(b, attacker, active), cap), s))

CanonicalLine(b, attacker, active, cap, s) ==
  IF Refusal(s) # "" THEN Refused(Refusal(s), s)
  ELSE CanonicalFrom(b, attacker, active, cap, Fact(b, attacker, cap, Charged(s)), Charged(s))

SolveVct(b, attacker, maxPlies, s) ==
  CanonicalLine(b, attacker, Nothing, Smaller(maxPlies, Available(b)), s)

VctHint(b, maxPlies, work, outer) ==
  SolveVct(b, b.position.side, maxPlies, Solver(work, outer))
==============================================================================
