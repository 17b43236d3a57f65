---------------------------- MODULE TeamLifecycle ----------------------------
(***************************************************************************)
(* What one public ordinary search promises about its end, independently   *)
(* of the atomics that implement it: a team of workers (the principal and  *)
(* its Lazy-SMP helpers) takes exactly one decision about why the search   *)
(* ended, no worker is interrupted before that decision exists, completion *)
(* can only be decided for a principal that ran to its end, and the answer *)
(* is reported once, after every helper has left, as the decision taken.   *)
(***************************************************************************)
CONSTANTS Principal, Helpers

Workers == {Principal} \cup Helpers

(* SearchTermination, the public reasons of search_control.rs. *)
Interruptions == {"NodeLimit", "TimeLimit", "Cancelled"}
Terminations  == Interruptions \cup {"Completed"}

VARIABLES
  decision,   \* the reason the search ends, "Undecided" until one is taken
  loops,      \* how each worker's iteration loop stands
  reported    \* the termination of the returned result, or "Nothing"

lifecycle == <<decision, loops, reported>>

Init ==
  /\ decision = "Undecided"
  /\ loops = [w \in Workers |-> "running"]
  /\ reported = "Nothing"

(* A worker decides by being the first to stop. *)
Interrupt(w, reason) ==
  /\ decision = "Undecided"
  /\ loops[w] = "running"
  /\ decision' = reason
  /\ loops' = [loops EXCEPT ![w] = "stopped"]
  /\ UNCHANGED reported

Complete ==
  /\ decision = "Undecided"
  /\ loops[Principal] = "completed"
  /\ decision' = "Completed"
  /\ UNCHANGED <<loops, reported>>

Leave(w, how) ==
  /\ loops[w] = "running"
  /\ how = "stopped" => decision # "Undecided"
  /\ loops' = [loops EXCEPT ![w] = how]
  /\ UNCHANGED <<decision, reported>>

Report ==
  /\ reported = "Nothing"
  /\ decision # "Undecided"
  /\ \A w \in Workers : loops[w] # "running"
  /\ reported' = decision
  /\ UNCHANGED <<decision, loops>>

Next ==
  \/ \E w \in Workers, reason \in Interruptions : Interrupt(w, reason)
  \/ Complete
  \/ \E w \in Workers, how \in {"completed", "stopped"} : Leave(w, how)
  \/ Report

Spec == Init /\ [][Next]_lifecycle
=============================================================================
