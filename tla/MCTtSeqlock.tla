----------------------------- MODULE MCTtSeqlock -----------------------------
(* Instances of TtSeqlock for TLC: what the threads store. *)
EXTENDS TtSeqlock

MCEntry(key, depth, bound, generation) ==
  [key |-> key, payload |-> [depth |-> depth, bound |-> bound, generation |-> generation]]

(* An Exact result and a bound for one position, over the entries of two   *)
(* others, one of them of the generation before the counter wrapped.       *)
Contended == {MCEntry(0, 1, "Exact", 0), MCEntry(0, 1, "Lower", 1)}
Rivals == {[s \in Slots |-> IF s = 1 THEN MCEntry(1, 1, "Lower", 2) ELSE MCEntry(2, 2, "Lower", 0)]}
=============================================================================
