---------------------------- MODULE SearchControl ----------------------------
(***************************************************************************)
(* The lifecycle of one public search shared by the principal and its      *)
(* Lazy-SMP helpers: SharedSearchControl and SearchBudget of               *)
(* search_control.rs, driven by search_ordinary, run_principal_iterations  *)
(* and run_helper_iterations of search.rs.                                 *)
(*                                                                         *)
(* The three shared words are modelled at the granularity and with the     *)
(* memory orderings of the code:                                           *)
(*   - `state` is its modification order `states`; a load by w returns any *)
(*     element not older than view[w], an RMW extends the last element;    *)
(*   - `admitted_nodes` only grows, so a Relaxed load by w returns any     *)
(*     value between seen[w] and the current one;                          *)
(*   - the cancellation flag is Relaxed: a load may still miss it.         *)
(* The tree searched by an iteration is abstracted to a non-empty sequence *)
(* of charges and inner polls, as long as the schedule likes.              *)
(***************************************************************************)
EXTENDS Integers, Sequences, FiniteSets

CONSTANTS
  Principal, Helpers,   \* the searching threads
  Capped, MaxNodes,     \* limits.max_nodes: present or not, and its value
  HasClock,             \* limits.move_time is present
  MaxDepth,             \* limits.max_depth (0 is answered before the team)
  PollStride            \* SearchBudget::POLL_STRIDE

ASSUME ControlAssumption ==
  /\ Principal \notin Helpers
  /\ IsFiniteSet(Helpers)
  /\ Capped \in BOOLEAN /\ HasClock \in BOOLEAN
  /\ MaxNodes \in Nat
  /\ MaxDepth \in Nat \ {0}
  /\ PollStride \in Nat \ {0}

Workers == {Principal} \cup Helpers

(* SearchTermination; "Completed" is also the code of a state with no stop. *)
Interruptions == {"NodeLimit", "TimeLimit", "Cancelled"}
Terminations  == Interruptions \cup {"Completed"}

(* The atomic state byte: a stop code and the TEAM_DONE bit. *)
StateWord == [stop : Terminations, done : BOOLEAN]
Running   == [stop |-> "Completed", done |-> FALSE]

VARIABLES
  admitted,    \* SharedSearchControl.admitted_nodes
  states,      \* SharedSearchControl.state, its modification order
  cancelled,   \* the CancellationToken's flag
  expired,     \* start.elapsed() >= move_time
  pc, site,    \* control point of each worker, and the caller of its poll
  reason,      \* argument of the note_stop a worker is about to perform
  seen, view,  \* coherence views of admitted_nodes and of state
  work,        \* SearchBudget.work_nodes
  depth,       \* the iteration each worker is in
  outcome,     \* how the worker's iteration loop ended
  completed,   \* depth of the result the principal would return
  reported,    \* termination written into that result, "Nothing" before
  tickets      \* history: which worker won each admission, in order

vars == <<admitted, states, cancelled, expired, pc, site, reason, seen, view,
          work, depth, outcome, completed, reported, tickets>>
request == <<admitted, states, cancelled, expired>>
result  == <<outcome, completed, reported>>

Last(s) == s[Len(s)]

(* Mutant: poll forgets the internal shutdown bit. *)
StoppingIgnoresTeamDone(word) == word.stop # "Completed"

(* What poll treats as a stop: a public reason or the end of the team. *)
Stopping(word) == word.stop # "Completed" \/ word.done

(* The expected value of note_stop's compare_exchange: STOP_COMPLETED. *)
MayStop(word) == word = Running

(* Mutant: TEAM_DONE is stored instead of or-ed into the word. *)
TeamDoneOverwrites(word) == [stop |-> "Completed", done |-> TRUE]

TeamDone(word) == [stop |-> word.stop, done |-> TRUE]

(* try_admit_node: no node is left to admit. *)
Refused(n) == n >= MaxNodes

(* Mutant: charge never polls. *)
NeverPolls(n) == FALSE

(* charge polls before visits 0, POLL_STRIDE, 2 * POLL_STRIDE, ... *)
PollsAt(n) == n % PollStride = 0

(* search_ordinary is entered by the principal, which may have charged work *)
(* in the proof stages before it; no stop has been noted yet.               *)
Init ==
  \E spent \in IF Capped THEN 0..MaxNodes ELSE 0..PollStride - 1 :
    /\ admitted = IF Capped THEN spent ELSE 0
    /\ tickets  = IF Capped THEN [t \in 1..spent |-> Principal] ELSE <<>>
    /\ states = <<Running>>
    /\ cancelled = FALSE
    /\ expired = FALSE
    /\ pc = [w \in Workers |-> IF w = Principal THEN "spawn" ELSE "unborn"]
    /\ site = [w \in Workers |-> "top"]
    /\ reason = [w \in Workers |-> "Completed"]
    /\ seen = [w \in Workers |-> IF w = Principal THEN admitted ELSE 0]
    /\ view = [w \in Workers |-> 1]
    /\ work = [w \in Workers |-> IF w = Principal THEN spent ELSE 0]
    /\ depth = [w \in Workers |-> 1]
    /\ outcome = [w \in Workers |-> "running"]
    /\ completed = 0
    /\ reported = "Nothing"

Goto(w, label) == pc' = [pc EXCEPT ![w] = label]

(* The worker's loop ends; `how` is whether a Stopped unwound it. *)
Leave(w, how) ==
  /\ Goto(w, "left")
  /\ outcome' = [outcome EXCEPT ![w] = how]

(* poll has returned: its caller no longer matters. *)
Forget(w) == site' = [site EXCEPT ![w] = "top"]

-----------------------------------------------------------------------------
(* search_ordinary: the scope spawns every helper, then runs the principal. *)

Spawn(h) ==
  /\ pc[Principal] = "spawn"
  /\ pc[h] = "unborn"
  /\ Goto(h, "poll")
  /\ seen' = [seen EXCEPT ![h] = seen[Principal]]
  /\ view' = [view EXCEPT ![h] = view[Principal]]
  /\ UNCHANGED <<request, result, site, reason, work, depth, tickets>>

BeginPrincipal ==
  /\ pc[Principal] = "spawn"
  /\ \A h \in Helpers : pc[h] # "unborn"
  /\ Goto(Principal, "poll")
  /\ UNCHANGED <<request, result, site, reason, seen, view, work, depth, tickets>>

-----------------------------------------------------------------------------
(* SharedSearchControl::poll, one action per atomic access. *)

PollState(w) ==
  /\ pc[w] = "poll"
  /\ \E i \in view[w]..Len(states) :
       /\ view' = [view EXCEPT ![w] = i]
       /\ IF Stopping(states[i])
          THEN Leave(w, "stopped") /\ Forget(w)
          ELSE Goto(w, "cancellation") /\ UNCHANGED <<outcome, site>>
  /\ UNCHANGED <<request, completed, reported, reason, seen, work, depth, tickets>>

Interrupt(w, why) ==
  /\ Goto(w, "note")
  /\ reason' = [reason EXCEPT ![w] = why]

PollCancelled(w) ==
  /\ pc[w] = "cancellation"
  /\ cancelled
  /\ Interrupt(w, "Cancelled")
  /\ UNCHANGED <<request, result, site, seen, view, work, depth, tickets>>

PollNotCancelled(w) ==
  /\ pc[w] = "cancellation"
  /\ Goto(w, "clock")
  /\ UNCHANGED <<request, result, site, reason, seen, view, work, depth, tickets>>

(* Where an Ok of poll returns to. *)
Resume == [top |-> "charge", charge |-> "admit", inner |-> "polled", bottom |-> "advance"]

PollClock(w) ==
  /\ pc[w] = "clock"
  /\ IF HasClock /\ expired
     THEN Interrupt(w, "TimeLimit") /\ UNCHANGED site
     ELSE Goto(w, Resume[site[w]]) /\ Forget(w) /\ UNCHANGED reason
  /\ UNCHANGED <<request, result, seen, view, work, depth, tickets>>

(* note_stop: a strong compare_exchange from Running, whatever its outcome. *)
NoteStop(w) ==
  /\ pc[w] = "note"
  /\ \/ /\ MayStop(Last(states))
        /\ states' = Append(states, [stop |-> reason[w], done |-> FALSE])
        /\ view' = [view EXCEPT ![w] = Len(states) + 1]
     \/ /\ ~MayStop(Last(states))
        /\ \E i \in view[w]..Len(states) :
             /\ ~MayStop(states[i])
             /\ view' = [view EXCEPT ![w] = i]
        /\ UNCHANGED states
  /\ Leave(w, "stopped")
  /\ Forget(w)
  /\ reason' = [reason EXCEPT ![w] = "Completed"]
  /\ UNCHANGED <<admitted, cancelled, expired, completed, reported, seen, work,
                 depth, tickets>>

-----------------------------------------------------------------------------
(* SearchBudget::charge and try_admit_node. *)

Charge(w) ==
  /\ pc[w] = "charge"
  /\ IF PollsAt(work[w])
     THEN Goto(w, "poll") /\ site' = [site EXCEPT ![w] = "charge"]
     ELSE Goto(w, "admit") /\ UNCHANGED site
  /\ UNCHANGED <<request, result, reason, seen, view, work, depth, tickets>>

(* Uncapped searches keep only the local counter, which nothing but the    *)
(* poll stride reads: it is kept modulo that stride.                       *)
AdmitUncapped(w) ==
  /\ pc[w] = "admit"
  /\ ~Capped
  /\ work' = [work EXCEPT ![w] = (@ + 1) % PollStride]
  /\ Goto(w, "iterate")
  /\ UNCHANGED <<request, result, site, reason, seen, view, depth, tickets>>

AdmitLoad(w) ==
  /\ pc[w] = "admit"
  /\ Capped
  /\ \E n \in seen[w]..admitted : seen' = [seen EXCEPT ![w] = n]
  /\ Goto(w, "admission")
  /\ UNCHANGED <<request, result, site, reason, view, work, depth, tickets>>

AdmitRefused(w) ==
  /\ pc[w] = "admission"
  /\ Refused(seen[w])
  /\ Interrupt(w, "NodeLimit")
  /\ UNCHANGED <<request, result, site, seen, view, work, depth, tickets>>

(* Mutant: the counter is stored, not compared and exchanged. *)
AdmitStored(w) ==
  /\ pc[w] = "admission"
  /\ ~Refused(seen[w])
  /\ admitted' = seen[w] + 1
  /\ seen' = [seen EXCEPT ![w] = @ + 1]
  /\ work' = [work EXCEPT ![w] = @ + 1]
  /\ tickets' = Append(tickets, w)
  /\ Goto(w, "iterate")
  /\ UNCHANGED <<states, cancelled, expired, result, site, reason, view, depth>>

(* The compare_exchange_weak succeeds, and charge counts the visit. *)
AdmitWon(w) ==
  /\ pc[w] = "admission"
  /\ ~Refused(seen[w])
  /\ seen[w] = admitted
  /\ admitted' = seen[w] + 1
  /\ seen' = [seen EXCEPT ![w] = @ + 1]
  /\ work' = [work EXCEPT ![w] = @ + 1]
  /\ tickets' = Append(tickets, w)
  /\ Goto(w, "iterate")
  /\ UNCHANGED <<states, cancelled, expired, result, site, reason, view, depth>>

(* It fails, spuriously or not, and the loop continues from what it saw. *)
AdmitLost(w) ==
  /\ pc[w] = "admission"
  /\ ~Refused(seen[w])
  /\ \E n \in seen[w]..admitted : seen' = [seen EXCEPT ![w] = n]
  /\ UNCHANGED <<request, result, pc, site, reason, view, work, depth, tickets>>

-----------------------------------------------------------------------------
(* One search_iteration, and the depth loop around it. *)

InIteration(w) == pc[w] \in {"iterate", "polled"}

Visit(w) ==
  /\ InIteration(w)
  /\ Goto(w, "charge")
  /\ UNCHANGED <<request, result, site, reason, seen, view, work, depth, tickets>>

(* InteriorProof polls inside an iteration, after the charges of its proof *)
(* attempt; only the principal owns one.                                   *)
InnerPoll(w) ==
  /\ w = Principal
  /\ pc[w] = "iterate"
  /\ Goto(w, "poll")
  /\ site' = [site EXCEPT ![w] = "inner"]
  /\ UNCHANGED <<request, result, reason, seen, view, work, depth, tickets>>

EndIteration(w) ==
  /\ InIteration(w)
  /\ Goto(w, "poll")
  /\ site' = [site EXCEPT ![w] = "bottom"]
  /\ UNCHANGED <<request, result, reason, seen, view, work, depth, tickets>>

NotLastDepth(d) == d < MaxDepth

(* The iteration counts: the principal publishes it, and the loop goes on. *)
Publish(w) ==
  completed' = IF w = Principal THEN depth[w] ELSE completed

NextDepth(w) ==
  /\ pc[w] = "advance"
  /\ NotLastDepth(depth[w])
  /\ Publish(w)
  /\ depth' = [depth EXCEPT ![w] = @ + 1]
  /\ site' = [site EXCEPT ![w] = "top"]
  /\ Goto(w, "poll")
  /\ UNCHANGED <<request, outcome, reported, reason, seen, view, work, tickets>>

(* The last depth, or observer.should_stop() for the principal. *)
EndLoop(w) ==
  /\ pc[w] = "advance"
  /\ ~NotLastDepth(depth[w]) \/ w = Principal
  /\ Publish(w)
  /\ Leave(w, "completed")
  /\ UNCHANGED <<request, reported, site, reason, seen, view, work, depth, tickets>>

-----------------------------------------------------------------------------
(* The principal's teardown: mark_team_done, join, termination. *)

(* threads == 1 returns without a team to end. *)
LeaveAlone ==
  /\ pc[Principal] = "left"
  /\ Helpers = {}
  /\ Goto(Principal, "report")
  /\ UNCHANGED <<request, result, site, reason, seen, view, work, depth, tickets>>

(* A load of mark_team_done, or its failed compare_exchange_weak: the loop *)
(* returns if the word it saw is done, and tries to set the bit otherwise. *)
MarkTeamDoneLoad ==
  /\ \/ pc[Principal] = "left" /\ Helpers # {}
     \/ pc[Principal] = "mark"
  /\ \E i \in view[Principal]..Len(states) :
       /\ view' = [view EXCEPT ![Principal] = i]
       /\ Goto(Principal, IF states[i].done THEN "join" ELSE "mark")
  /\ UNCHANGED <<request, result, site, reason, seen, work, depth, tickets>>

MarkTeamDone ==
  /\ pc[Principal] = "mark"
  /\ states[view[Principal]] = Last(states)
  /\ states' = Append(states, TeamDone(Last(states)))
  /\ view' = [view EXCEPT ![Principal] = Len(states) + 1]
  /\ Goto(Principal, "join")
  /\ UNCHANGED <<admitted, cancelled, expired, result, site, reason, seen, work,
                 depth, tickets>>

(* Mutant: the answer is taken without waiting for the helpers. *)
JoinWithoutWaiting ==
  /\ pc[Principal] = "join"
  /\ Goto(Principal, "report")
  /\ UNCHANGED <<request, result, site, reason, seen, view, work, depth, tickets>>

(* Joining a helper makes everything it saw and did visible. *)
Join ==
  /\ pc[Principal] = "join"
  /\ \A h \in Helpers : pc[h] = "left"
  /\ \E u, v \in Workers :
       /\ \A w \in Workers : view[w] <= view[v] /\ seen[w] <= seen[u]
       /\ view' = [view EXCEPT ![Principal] = view[v]]
       /\ seen' = [seen EXCEPT ![Principal] = seen[u]]
  /\ Goto(Principal, "report")
  /\ UNCHANGED <<request, result, site, reason, work, depth, tickets>>

(* search_controlled: admitted_nodes() for its assertion, termination(). *)
Report ==
  /\ pc[Principal] = "report"
  /\ \E n \in seen[Principal]..admitted : seen' = [seen EXCEPT ![Principal] = n]
  /\ \E i \in view[Principal]..Len(states) :
       /\ view' = [view EXCEPT ![Principal] = i]
       /\ reported' = states[i].stop
  /\ Goto(Principal, "returned")
  /\ UNCHANGED <<request, outcome, completed, site, reason, work, depth, tickets>>

-----------------------------------------------------------------------------
(* The caller cancels its token; the clock passes move_time. *)

Cancel ==
  /\ ~cancelled
  /\ cancelled' = TRUE
  /\ UNCHANGED <<admitted, states, expired, result, pc, site, reason, seen, view,
                 work, depth, tickets>>

Expire ==
  /\ HasClock /\ ~expired
  /\ expired' = TRUE
  /\ UNCHANGED <<admitted, states, cancelled, result, pc, site, reason, seen, view,
                 work, depth, tickets>>

Loop(w) ==
  \/ PollState(w) \/ PollCancelled(w) \/ PollNotCancelled(w) \/ PollClock(w)
  \/ NoteStop(w)
  \/ Charge(w) \/ AdmitUncapped(w) \/ AdmitLoad(w)
  \/ AdmitRefused(w) \/ AdmitWon(w) \/ AdmitLost(w)
  \/ Visit(w) \/ InnerPoll(w) \/ EndIteration(w) \/ NextDepth(w) \/ EndLoop(w)

(* The end of the principal's loop, with and without a team to end. *)
EndTeam == IF Helpers = {} THEN LeaveAlone ELSE MarkTeamDoneLoad

Coordinate ==
  \/ \E h \in Helpers : Spawn(h)
  \/ BeginPrincipal
  \/ EndTeam \/ MarkTeamDone \/ Join \/ Report

Environment == Cancel \/ Expire

(* The public search has returned: nothing is left to run. *)
Returned == pc[Principal] = "returned" /\ UNCHANGED vars

Next == (\E w \in Workers : Loop(w)) \/ Coordinate \/ Environment \/ Returned

Spec == Init /\ [][Next]_vars

(***************************************************************************)
(* Fairness.  The operating system runs every thread (weak fairness of     *)
(* each worker).  An atomic store becomes visible to the other threads in  *)
(* finite time, so a load that is repeated for ever does not miss it for   *)
(* ever, and compare_exchange_weak does not fail spuriously for ever       *)
(* (strong fairness of the corresponding outcomes).  Nothing is assumed of *)
(* the environment, nor that an iteration ever ends by itself.             *)
(***************************************************************************)
SeesStop(w) == PollState(w) /\ outcome'[w] = "stopped"

Fairness ==
  /\ \A w \in Workers : WF_vars(Loop(w)) /\ SF_vars(SeesStop(w))
                        /\ SF_vars(PollCancelled(w)) /\ SF_vars(AdmitWon(w))
  /\ WF_vars(Coordinate) /\ SF_vars(MarkTeamDone)

FairSpec == Spec /\ Fairness

-----------------------------------------------------------------------------
(* Every variable has its type; in particular no worker runs an iteration  *)
(* deeper than limits.max_depth and no cap is overdrawn.                   *)
Labels == {"unborn", "spawn", "poll", "cancellation", "clock", "note", "charge",
           "admit", "admission", "iterate", "polled", "advance", "left", "mark", "join",
           "report", "returned"}

TypeOK ==
  /\ admitted \in Nat
  /\ states \in Seq(StateWord) /\ states # <<>>
  /\ cancelled \in BOOLEAN /\ expired \in BOOLEAN
  /\ pc \in [Workers -> Labels]
  /\ site \in [Workers -> DOMAIN Resume]
  /\ reason \in [Workers -> Terminations]
  /\ seen \in [Workers -> Nat]
  /\ view \in [Workers -> DOMAIN states]
  /\ work \in [Workers -> Nat]
  /\ depth \in [Workers -> 1..MaxDepth]
  /\ outcome \in [Workers -> {"running", "completed", "stopped"}]
  /\ completed \in 0..MaxDepth
  /\ reported \in Terminations \cup {"Nothing"}
  /\ tickets \in Seq(Workers)

(* A capped search admits at most max_nodes visits, and every unit of the  *)
(* shared counter is the work of exactly one worker: no visit is admitted  *)
(* twice or counted by nobody (SharedSearchControl::try_admit_node, "a cap *)
(* of N admits at most N logical visits").                                 *)
TicketsOf(w) == {t \in DOMAIN tickets : tickets[t] = w}

ExactAdmission ==
  Capped => /\ admitted <= MaxNodes
            /\ admitted = Len(tickets)
            /\ \A w \in Workers : work[w] = Cardinality(TicketsOf(w))

(* The assertion at the end of search_controlled: the Relaxed load of the  *)
(* admission counter sees the work of every joined worker.                 *)
AdmittedMatchesWork ==
  Capped /\ pc[Principal] = "returned" => seen[Principal] = Len(tickets)

(* A stop reason is recorded only for its cause: the cap is really used up,*)
(* the token really cancelled, the time really over (note_stop's callers). *)
ReasonIsGenuine ==
  \A i \in DOMAIN states :
    /\ states[i].stop = "NodeLimit" => Capped /\ admitted = MaxNodes
    /\ states[i].stop = "Cancelled" => cancelled
    /\ states[i].stop = "TimeLimit" => HasClock /\ expired

(* A result cut short is never labelled Completed: if a Stopped unwound    *)
(* the principal, the reported termination is an interruption.             *)
InterruptedIsReported ==
  reported # "Nothing" /\ outcome[Principal] = "stopped" => reported \in Interruptions

(* What is reported is the last word on it: no helper still running can    *)
(* record another reason afterwards, and the report is not a stale one.    *)
ReportedIsFinal == reported # "Nothing" => reported = Last(states).stop

(* "Exactly one of stop or team completion wins": the first public reason  *)
(* stays, and none is recorded after TEAM_DONE (search_control.rs:65-67).  *)
FirstDecisionWins ==
  [][LET old == Last(states) new == Last(states)'
     IN /\ old.stop # "Completed" => new.stop = old.stop
        /\ old.done => new = old]_vars

(* The whole protocol implements the lifecycle a caller relies on. *)
Lifecycle == INSTANCE TeamLifecycle WITH
  loops <- outcome,
  decision <- IF Last(states).stop # "Completed" THEN Last(states).stop
              ELSE IF Last(states).done \/ pc[Principal] \in {"report", "returned"}
              THEN "Completed" ELSE "Undecided"

ImplementsLifecycle == Lifecycle!Spec

(* Once the principal's loop has ended the search returns: the helpers,    *)
(* whose iterations may be arbitrarily long, see TEAM_DONE and are joined. *)
TeamReturns == outcome[Principal] # "running" ~> pc[Principal] = "returned"

(* A cancelled search, and one whose time is over, returns. *)
InterruptionEndsSearch ==
  cancelled \/ (HasClock /\ expired) ~> pc[Principal] = "returned"

=============================================================================
