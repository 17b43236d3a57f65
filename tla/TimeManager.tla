----------------------------- MODULE TimeManager -----------------------------
(***************************************************************************)
(* TimeManager of apps/time_manager.rs: when a search under a clock stops  *)
(* starting iterations.  Times are natural numbers of one unit, divisions  *)
(* round down as those of Duration do.                                     *)
(***************************************************************************)
EXTENDS Naturals, FiniteSetsExt

CONSTANT Stability    \* the stable iterations that shorten a turn: 3, or 4 in the middle game

ASSUME StabilityAssumption == Stability \in Nat /\ Stability > 2

(* ResearchParameters::OFF, the Q8 growth of an iteration's cost. *)
GrowthMin == 64
GrowthMax == 2048
GrowthInitial == 384
GrowthWeight == 3

(* Saturating subtraction, as everywhere with a Duration. *)
Less(a, b) == IF b < a THEN a - b ELSE 0

Ceiling(hard) == hard - hard \div 10

(* new, for a clock with an increment and a limit on the turn. *)
NewManager(remaining, increment, turn) ==
  LET ceiling == Ceiling(Min({remaining, turn}))
  IN [soft |-> Min({remaining \div 20 + (increment \div 4) * 3, ceiling}), ceiling |-> ceiling,
      known |-> FALSE, stable |-> 0, pressure |-> 0, elapsed |-> 0, cost |-> 0,
      growth |-> GrowthInitial, stop |-> FALSE]

Clamped(n) == Max({GrowthMin, Min({GrowthMax, n})})

(* What one more completed iteration says: is it calm (the same move and   *)
(* line as the last one, both mate scores or neither, scores within the    *)
(* threshold), and is it a proof.                                          *)
Infos == [calm : BOOLEAN, proof : BOOLEAN]

(* Counted as far as anything depends on it. *)
Stable(m, info) == IF m.known /\ info.calm THEN Min({m.stable + 1, Stability}) ELSE 0

(* Pressure stays through the next stable iteration and is paid down by    *)
(* consecutive ones; four units are half of the soft budget.               *)
Pressure(m, info) ==
  IF m.known /\ ~info.calm THEN 4
  ELSE IF Stable(m, info) >= 2 THEN Less(m.pressure, 1) ELSE m.pressure

(* Mutant: the pressure may push the budget past the ceiling. *)
BudgetWithoutCeiling(m, stable, pressure) ==
  LET pressed == m.soft + (m.soft \div 8) * pressure
  IN IF stable >= Stability THEN pressed - pressed \div 4 ELSE pressed

Budget(m, stable, pressure) ==
  LET pressed == m.soft + (m.soft \div 8) * pressure
      relaxed == IF stable >= Stability THEN pressed - pressed \div 4 ELSE pressed
  IN Min({relaxed, m.ceiling})

(* The smoothed growth of the cost from one iteration to the next. *)
Growth(m, cost) ==
  IF m.cost = 0 THEN m.growth
  ELSE (GrowthWeight * m.growth + Clamped((cost * 256) \div m.cost)) \div (GrowthWeight + 1)

(* completed_info: stop when the budget is used, or the next iteration is  *)
(* expected to use it.                                                     *)
Completed(m, info, elapsed) ==
  LET cost == elapsed - m.elapsed
      budget == Budget(m, Stable(m, info), Pressure(m, info))
      next == (cost * Growth(m, cost)) \div 256
  IN [m EXCEPT !.known = TRUE, !.stable = Stable(m, info), !.pressure = Pressure(m, info),
               !.elapsed = elapsed, !.cost = cost, !.growth = Growth(m, cost),
               !.stop = info.proof \/ elapsed >= budget \/ elapsed + next >= budget]
=============================================================================
