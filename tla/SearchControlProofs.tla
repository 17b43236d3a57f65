------------------------- MODULE SearchControlProofs -------------------------
(***************************************************************************)
(* Proofs about SearchControl for every team, cap, depth and poll stride.  *)
(*                                                                         *)
(* The argument.  The shared word `states` only grows, through two         *)
(* compare-and-exchange steps that read its last element: once a stop is   *)
(* in it every later element carries the same stop (StopStays), and the    *)
(* TEAM_DONE bit is in it only when the principal is past its loop         *)
(* (PhaseInv).  So a worker that unwinds always leaves behind a word that  *)
(* says why, and the principal, which only unwinds before TEAM_DONE, a     *)
(* word with a public reason.  Some worker has always seen the newest word *)
(* and the newest counter (MemoryInv): the join hands both to the          *)
(* principal, after which nobody is left to change them.                   *)
(***************************************************************************)
EXTENDS SearchControl, FiniteSetTheorems, SequenceTheorems, TLAPS

LoopLabels == {"unborn", "spawn", "poll", "cancellation", "clock", "note", "charge",
               "admit", "admission", "iterate", "polled", "advance"}

Ended == {"report", "returned"}

(* Some worker has always seen the newest admission and the newest word;   *)
(* a helper that has not been spawned has seen neither.                    *)
SeenInv ==
  /\ \A w \in Workers : seen[w] <= admitted
  /\ \E w \in Workers : seen[w] = admitted

ViewInv == \E w \in Workers : view[w] = Len(states)

UnbornInv == \A h \in Helpers : pc[h] = "unborn" => seen[h] = 0 /\ view[h] = 1

MemoryInv == SeenInv /\ ViewInv /\ UnbornInv

StopStays ==
  \A i \in DOMAIN states :
    states[i].stop # "Completed" => Last(states).stop = states[i].stop

(* Where each worker can be. *)
OutcomeInv ==
  /\ \A w \in Workers : outcome[w] = "running" <=> pc[w] \in LoopLabels
  /\ \A h \in Helpers : pc[h] \in LoopLabels \cup {"left"}

(* TEAM_DONE is the principal's, past its loop, and set before it joins. *)
DoneInv ==
  /\ \A i \in DOMAIN states : states[i].done => pc[Principal] \in {"join"} \cup Ended
  /\ pc[Principal] = "join" => Last(states).done

(* A worker that was stopped leaves a word that says why; the principal's  *)
(* word has a public reason, because it leaves before TEAM_DONE is set.    *)
CauseInv ==
  /\ \A w \in Workers : outcome[w] = "stopped" => Last(states) # Running
  /\ outcome[Principal] = "stopped" => Last(states).stop # "Completed"

(* After the join the principal is alone and up to date. *)
EndInv ==
  /\ pc[Principal] \in Ended =>
       /\ \A h \in Helpers : pc[h] = "left"
       /\ view[Principal] = Len(states)
       /\ seen[Principal] = admitted
  /\ reported = IF pc[Principal] = "returned" THEN Last(states).stop ELSE "Nothing"

PhaseInv == OutcomeInv /\ DoneInv /\ CauseInv /\ EndInv

(* A worker about to note a stop, or to be refused, has its cause at hand. *)
ReasonInv ==
  /\ \A w \in Workers : pc[w] = "admission" => Capped
  /\ \A w \in Workers : pc[w] = "note" =>
       /\ reason[w] \in Interruptions
       /\ reason[w] = "NodeLimit" => Capped /\ seen[w] >= MaxNodes
       /\ reason[w] = "Cancelled" => cancelled
       /\ reason[w] = "TimeLimit" => HasClock /\ expired

IInv ==
  /\ TypeOK /\ MemoryInv /\ StopStays /\ PhaseInv /\ ReasonInv
  /\ ExactAdmission /\ ReasonIsGenuine

-----------------------------------------------------------------------------
USE ControlAssumption

LEMMA WorkersFacts == Principal \in Workers /\ Helpers \subseteq Workers
  BY DEF Workers

(* A next-state step is one of the actions, or a stuttering step. *)
LEMMA StepCases ==
  ASSUME [Next]_vars
  PROVE  \/ \E w \in Workers : Loop(w)
         \/ \E h \in Helpers : Spawn(h)
         \/ BeginPrincipal
         \/ LeaveAlone
         \/ MarkTeamDoneLoad
         \/ MarkTeamDone
         \/ Join
         \/ Report
         \/ Cancel
         \/ Expire
         \/ UNCHANGED vars
  BY DEF Next, Coordinate, EndTeam, Environment, Returned

(* The modification order of the state word, and what appending does to it. *)
LEMMA StatesFacts ==
  ASSUME TypeOK
  PROVE  /\ Len(states) \in Nat \ {0}
         /\ DOMAIN states = 1..Len(states)
         /\ \A i \in 1..Len(states) : states[i] \in StateWord
         /\ Last(states) \in StateWord
         /\ Last(states) = states[Len(states)]
  BY EmptySeq, LenProperties, ElementOfSeq DEF TypeOK, Last

LEMMA AppendFacts ==
  ASSUME TypeOK, NEW word \in StateWord, states' = Append(states, word)
  PROVE  /\ states' \in Seq(StateWord)
         /\ states' # <<>>
         /\ Len(states') = Len(states) + 1
         /\ DOMAIN states' = 1..Len(states) + 1
         /\ \A i \in 1..Len(states) : states'[i] = states[i]
         /\ states'[Len(states) + 1] = word
         /\ Last(states)' = word
<1>1. states \in Seq(StateWord) /\ Len(states) \in Nat
  BY StatesFacts DEF TypeOK
<1>2. /\ Append(states, word) \in Seq(StateWord)
      /\ Len(Append(states, word)) = Len(states) + 1
      /\ \A i \in 1..Len(states) : Append(states, word)[i] = states[i]
      /\ Append(states, word)[Len(states) + 1] = word
  BY <1>1, AppendProperties
<1>3. DOMAIN states' = 1..Len(states')
  BY <1>2, LenProperties
<1>. QED
  BY <1>1, <1>2, <1>3, EmptySeq DEF Last

LEMMA Words ==
  /\ Running \in StateWord
  /\ \A word \in StateWord : TeamDone(word) \in StateWord
  /\ \A why \in Terminations : [stop |-> why, done |-> FALSE] \in StateWord
  /\ \A word \in StateWord : Stopping(word) <=> word # Running
  BY DEF Running, StateWord, Terminations, Interruptions, TeamDone, Stopping

-----------------------------------------------------------------------------
LEMMA TypeInit == Init => TypeOK
<1> SUFFICES ASSUME Init PROVE TypeOK
  OBVIOUS
<1>1. PICK spent \in Nat : Init!(spent)
  BY DEF Init
<1>2. tickets \in Seq(Workers)
  <2>1. CASE Capped
    BY <1>1, <2>1, IsASeq, WorkersFacts
  <2>2. CASE ~Capped
    BY <1>1, <2>2
  <2>. QED  BY <2>1, <2>2
<1>3. states \in Seq(StateWord) /\ states # <<>> /\ DOMAIN states = {1}
  BY <1>1, Words
<1>4. /\ admitted \in Nat /\ seen \in [Workers -> Nat]
      /\ work \in [Workers -> Nat] /\ view \in [Workers -> DOMAIN states]
  BY <1>1, <1>3
<1>5. /\ pc \in [Workers -> Labels] /\ site \in [Workers -> DOMAIN Resume]
      /\ reason \in [Workers -> Terminations] /\ depth \in [Workers -> 1..MaxDepth]
      /\ outcome \in [Workers -> {"running", "completed", "stopped"}]
  BY <1>1 DEF Labels, Resume, Terminations
<1>6. completed \in 0..MaxDepth /\ reported \in Terminations \cup {"Nothing"}
  BY <1>1
<1>. QED
  BY <1>1, <1>2, <1>3, <1>4, <1>5, <1>6 DEF TypeOK

LEMMA TypeStep ==
  ASSUME TypeOK, [Next]_vars
  PROVE  TypeOK'
<1>1. ASSUME NEW w \in Workers, PollState(w) PROVE TypeOK'
  <2>1. PICK i \in view[w]..Len(states) : view' = [view EXCEPT ![w] = i]
    BY <1>1 DEF PollState
  <2>2. i \in DOMAIN states
    BY <2>1, StatesFacts DEF TypeOK
  <2>3. pc' \in [Workers -> Labels] /\ site' \in [Workers -> DOMAIN Resume]
        /\ outcome' \in [Workers -> {"running", "completed", "stopped"}]
    BY <1>1 DEF PollState, TypeOK, Leave, Forget, Goto, Labels, Resume
  <2>. QED
    BY <1>1, <2>1, <2>2, <2>3 DEF PollState, TypeOK, request
<1>2. ASSUME NEW w \in Workers, PollCancelled(w) PROVE TypeOK'
  BY <1>2, WorkersFacts DEF PollCancelled, TypeOK, request, result, Goto, Leave, Forget, Interrupt, Workers, StateWord, Terminations, Interruptions, Labels, Resume, Running, Last
<1>3. ASSUME NEW w \in Workers, PollNotCancelled(w) PROVE TypeOK'
  BY <1>3, WorkersFacts DEF PollNotCancelled, TypeOK, request, result, Goto, Leave, Forget, Interrupt, Workers, StateWord, Terminations, Interruptions, Labels, Resume, Running, Last
<1>4. ASSUME NEW w \in Workers, PollClock(w) PROVE TypeOK'
  <2>1. Resume[site[w]] \in Labels
    BY DEF TypeOK, Resume, Labels
  <2>2. pc' \in [Workers -> Labels] /\ site' \in [Workers -> DOMAIN Resume]
        /\ reason' \in [Workers -> Terminations]
    <3>1. CASE HasClock /\ expired
      BY <1>4, <3>1 DEF PollClock, TypeOK, Interrupt, Goto, Labels, Terminations, Interruptions
    <3>2. CASE ~(HasClock /\ expired)
      BY <1>4, <2>1, <3>2 DEF PollClock, TypeOK, Goto, Forget, Resume
    <3>. QED  BY <3>1, <3>2
  <2>. QED
    BY <1>4, <2>2 DEF PollClock, TypeOK, request, result
<1>5. ASSUME NEW w \in Workers, NoteStop(w) PROVE TypeOK'
  <2>1. pc' \in [Workers -> Labels] /\ site' \in [Workers -> DOMAIN Resume]
        /\ outcome' \in [Workers -> {"running", "completed", "stopped"}]
        /\ reason' \in [Workers -> Terminations]
    BY <1>5 DEF NoteStop, TypeOK, Leave, Forget, Goto, Labels, Resume, Terminations
  <2>2. /\ states' \in Seq(StateWord) /\ states' # <<>>
        /\ view' \in [Workers -> DOMAIN states']
    <3>1. CASE MayStop(Last(states))
      <4>1. /\ states' = Append(states, [stop |-> reason[w], done |-> FALSE])
            /\ view' = [view EXCEPT ![w] = Len(states) + 1]
        BY <1>5, <3>1 DEF NoteStop
      <4>2. [stop |-> reason[w], done |-> FALSE] \in StateWord
        BY Words DEF TypeOK
      <4>. QED
        BY <4>1, <4>2, AppendFacts, StatesFacts DEF TypeOK
    <3>2. CASE ~MayStop(Last(states))
      BY <1>5, <3>2, StatesFacts DEF NoteStop, TypeOK
    <3>. QED  BY <3>1, <3>2
  <2>. QED
    BY <1>5, <2>1, <2>2 DEF NoteStop, TypeOK
<1>6. ASSUME NEW w \in Workers, Charge(w) PROVE TypeOK'
  BY <1>6, WorkersFacts DEF Charge, TypeOK, request, result, Goto, Leave, Forget, Interrupt, Workers, StateWord, Terminations, Interruptions, Labels, Resume, Running, Last
<1>7. ASSUME NEW w \in Workers, AdmitUncapped(w) PROVE TypeOK'
  <2>1. (work[w] + 1) % PollStride \in Nat
    BY DEF TypeOK
  <2>. QED
    BY <1>7, <2>1 DEF AdmitUncapped, TypeOK, request, result, Goto, Labels
<1>8. ASSUME NEW w \in Workers, AdmitLoad(w) PROVE TypeOK'
  BY <1>8, WorkersFacts DEF AdmitLoad, TypeOK, request, result, Goto, Leave, Forget, Interrupt, Workers, StateWord, Terminations, Interruptions, Labels, Resume, Running, Last
<1>9. ASSUME NEW w \in Workers, AdmitRefused(w) PROVE TypeOK'
  BY <1>9, WorkersFacts DEF AdmitRefused, TypeOK, request, result, Goto, Leave, Forget, Interrupt, Workers, StateWord, Terminations, Interruptions, Labels, Resume, Running, Last
<1>10. ASSUME NEW w \in Workers, AdmitWon(w) PROVE TypeOK'
  BY <1>10, WorkersFacts DEF AdmitWon, TypeOK, request, result, Goto, Leave, Forget, Interrupt, Workers, StateWord, Terminations, Interruptions, Labels, Resume, Running, Last
<1>11. ASSUME NEW w \in Workers, AdmitLost(w) PROVE TypeOK'
  BY <1>11, WorkersFacts DEF AdmitLost, TypeOK, request, result, Goto, Leave, Forget, Interrupt, Workers, StateWord, Terminations, Interruptions, Labels, Resume, Running, Last
<1>12. ASSUME NEW w \in Workers, Visit(w) PROVE TypeOK'
  BY <1>12, WorkersFacts DEF Visit, TypeOK, request, result, Goto, Leave, Forget, Interrupt, Workers, StateWord, Terminations, Interruptions, Labels, Resume, Running, Last
<1>13. ASSUME NEW w \in Workers, InnerPoll(w) PROVE TypeOK'
  BY <1>13, WorkersFacts DEF InnerPoll, TypeOK, request, result, Goto, Leave, Forget, Interrupt, Workers, StateWord, Terminations, Interruptions, Labels, Resume, Running, Last
<1>14. ASSUME NEW w \in Workers, EndIteration(w) PROVE TypeOK'
  BY <1>14, WorkersFacts DEF EndIteration, TypeOK, request, result, Goto, Leave, Forget, Interrupt, Workers, StateWord, Terminations, Interruptions, Labels, Resume, Running, Last
<1>15. ASSUME NEW w \in Workers, NextDepth(w) PROVE TypeOK'
  BY <1>15, WorkersFacts DEF NextDepth, TypeOK, request, result, Goto, Leave, Forget, Interrupt, Workers, StateWord, Terminations, Interruptions, Labels, Resume, Running, Last, Publish, NotLastDepth
<1>16. ASSUME NEW w \in Workers, EndLoop(w) PROVE TypeOK'
  BY <1>16, WorkersFacts DEF EndLoop, TypeOK, request, result, Goto, Leave, Forget, Interrupt, Workers, StateWord, Terminations, Interruptions, Labels, Resume, Running, Last, Publish
<1>17. ASSUME NEW w \in Workers, Loop(w) PROVE TypeOK'
  BY <1>17, <1>1, <1>2, <1>3, <1>4, <1>5, <1>6, <1>7, <1>8, <1>9, <1>10, <1>11, <1>12, <1>13, <1>14, <1>15, <1>16 DEF Loop
<1>18. ASSUME NEW h \in Helpers, Spawn(h) PROVE TypeOK'
  BY <1>18, WorkersFacts DEF Spawn, TypeOK, request, result, Goto, Leave, Forget, Interrupt, Workers, StateWord, Terminations, Interruptions, Labels, Resume, Running, Last
<1>19. CASE BeginPrincipal
  BY <1>19, WorkersFacts DEF BeginPrincipal, TypeOK, request, result, Goto, Leave, Forget, Interrupt, Workers, StateWord, Terminations, Interruptions, Labels, Resume, Running, Last
<1>20. CASE LeaveAlone
  BY <1>20, WorkersFacts DEF LeaveAlone, TypeOK, request, result, Goto, Leave, Forget, Interrupt, Workers, StateWord, Terminations, Interruptions, Labels, Resume, Running, Last
<1>21. CASE MarkTeamDoneLoad
  BY <1>21, WorkersFacts DEF MarkTeamDoneLoad, TypeOK, request, result, Goto, Leave, Forget, Interrupt, Workers, StateWord, Terminations, Interruptions, Labels, Resume, Running, Last
<1>22. CASE MarkTeamDone
  <2>1. /\ states' = Append(states, TeamDone(Last(states)))
        /\ view' = [view EXCEPT ![Principal] = Len(states) + 1]
    BY <1>22 DEF MarkTeamDone
  <2>2. TeamDone(Last(states)) \in StateWord
    BY Words, StatesFacts
  <2>4. /\ states' \in Seq(StateWord) /\ states' # <<>>
        /\ DOMAIN states' = 1..Len(states) + 1
    BY <2>1, <2>2, AppendFacts
  <2>5. view \in [Workers -> 1..Len(states)] /\ Len(states) \in Nat
    BY StatesFacts DEF TypeOK
  <2>3. view' \in [Workers -> DOMAIN states']
    BY <2>1, <2>4, <2>5, WorkersFacts
  <2>. QED
    BY <1>22, <2>3, <2>4, WorkersFacts DEF MarkTeamDone, TypeOK, result, Goto, Labels
<1>23. CASE Join
  BY <1>23, WorkersFacts DEF Join, TypeOK, request, result, Goto, Leave, Forget, Interrupt, Workers, StateWord, Terminations, Interruptions, Labels, Resume, Running, Last
<1>24. CASE Report
  <2>1. PICK i \in view[Principal]..Len(states) :
          /\ view' = [view EXCEPT ![Principal] = i]
          /\ reported' = states[i].stop
    BY <1>24 DEF Report
  <2>2. i \in 1..Len(states)
    BY <2>1, StatesFacts, WorkersFacts DEF TypeOK
  <2>4. i \in DOMAIN states /\ states[i].stop \in Terminations
    BY <2>2, StatesFacts DEF StateWord
  <2>3. seen' \in [Workers -> Nat]
    BY <1>24, WorkersFacts DEF Report, TypeOK
  <2>. QED
    BY <1>24, <2>1, <2>3, <2>4 DEF Report, TypeOK, request, Goto, Labels
<1>25. CASE Cancel
  BY <1>25, WorkersFacts DEF Cancel, TypeOK, request, result, Goto, Leave, Forget, Interrupt, Workers, StateWord, Terminations, Interruptions, Labels, Resume, Running, Last
<1>26. CASE Expire
  BY <1>26, WorkersFacts DEF Expire, TypeOK, request, result, Goto, Leave, Forget, Interrupt, Workers, StateWord, Terminations, Interruptions, Labels, Resume, Running, Last
<1>27. CASE UNCHANGED vars
  BY <1>27, WorkersFacts DEF vars, TypeOK, request, result, Goto, Leave, Forget, Interrupt, Workers, StateWord, Terminations, Interruptions, Labels, Resume, Running, Last
<1>28. QED
  BY StepCases, <1>17, <1>18, <1>19, <1>20, <1>21, <1>22, <1>23, <1>24, <1>25, <1>26, <1>27

THEOREM TypeCorrect == Spec => []TypeOK
<1>1. TypeOK /\ [Next]_vars => TypeOK'
  BY TypeStep
<1>2. QED
  BY TypeInit, <1>1, PTL DEF Spec

-----------------------------------------------------------------------------
(* The views of the workers: a load moves a view forward, never back. *)

LEMMA ViewAdvances ==
  ASSUME TypeOK, ViewInv, NEW w \in Workers, NEW i \in view[w]..Len(states),
         view' = [view EXCEPT ![w] = i], states' = states
  PROVE  ViewInv'
<1>1. PICK v \in Workers : view[v] = Len(states)
  BY DEF ViewInv
<1>2. view[w] \in 1..Len(states) /\ Len(states) \in Nat
  BY StatesFacts DEF TypeOK
<1>3. view'[v] = Len(states')
  BY <1>1, <1>2 DEF TypeOK
<1>. QED
  BY <1>3 DEF ViewInv

LEMMA SeenAdvances ==
  ASSUME TypeOK, SeenInv, NEW w \in Workers, NEW n \in seen[w]..admitted,
         seen' = [seen EXCEPT ![w] = n], admitted' = admitted
  PROVE  SeenInv'
<1>1. PICK v \in Workers : seen[v] = admitted
  BY DEF SeenInv
<1>2. seen'[v] = admitted'
  BY <1>1 DEF TypeOK
<1>3. \A u \in Workers : seen'[u] <= admitted'
  BY DEF TypeOK, SeenInv
<1>. QED
  BY <1>2, <1>3 DEF SeenInv

LEMMA SeenStep ==
  ASSUME TypeOK, SeenInv, UnbornInv, [Next]_vars
  PROVE  SeenInv'
<1>1. ASSUME NEW w \in Workers, PollState(w) PROVE SeenInv'
  BY <1>1 DEF PollState, Stopping, Leave, Goto, Forget, request, SeenInv
<1>2. ASSUME NEW w \in Workers, PollCancelled(w) PROVE SeenInv'
  BY <1>2 DEF PollCancelled, Interrupt, Goto, request, SeenInv
<1>3. ASSUME NEW w \in Workers, PollNotCancelled(w) PROVE SeenInv'
  BY <1>3 DEF PollNotCancelled, Goto, request, SeenInv
<1>4. ASSUME NEW w \in Workers, PollClock(w) PROVE SeenInv'
  BY <1>4 DEF PollClock, Interrupt, Goto, Resume, Forget, request, SeenInv
<1>5. ASSUME NEW w \in Workers, NoteStop(w) PROVE SeenInv'
  BY <1>5 DEF NoteStop, MayStop, Last, Leave, Goto, Forget, SeenInv
<1>6. ASSUME NEW w \in Workers, Charge(w) PROVE SeenInv'
  BY <1>6 DEF Charge, PollsAt, Goto, request, SeenInv
<1>7. ASSUME NEW w \in Workers, AdmitUncapped(w) PROVE SeenInv'
  BY <1>7 DEF AdmitUncapped, Goto, request, SeenInv
<1>8. ASSUME NEW w \in Workers, AdmitLoad(w) PROVE SeenInv'
  <2>1. PICK i \in seen[w]..admitted : seen' = [seen EXCEPT ![w] = i]
    BY <1>8 DEF AdmitLoad
  <2>. QED
    BY <1>8, <2>1, SeenAdvances, WorkersFacts DEF AdmitLoad, request
<1>9. ASSUME NEW w \in Workers, AdmitRefused(w) PROVE SeenInv'
  BY <1>9 DEF AdmitRefused, Refused, Interrupt, Goto, request, SeenInv
<1>10. ASSUME NEW w \in Workers, AdmitWon(w) PROVE SeenInv'
  <2>1. seen'[w] = admitted' /\ \A v \in Workers : seen'[v] <= admitted'
    BY <1>10 DEF AdmitWon, SeenInv, TypeOK
  <2>. QED
    BY <2>1 DEF SeenInv
<1>11. ASSUME NEW w \in Workers, AdmitLost(w) PROVE SeenInv'
  <2>1. PICK i \in seen[w]..admitted : seen' = [seen EXCEPT ![w] = i]
    BY <1>11 DEF AdmitLost
  <2>. QED
    BY <1>11, <2>1, SeenAdvances, WorkersFacts DEF AdmitLost, request
<1>12. ASSUME NEW w \in Workers, Visit(w) PROVE SeenInv'
  BY <1>12 DEF Visit, InIteration, Goto, request, SeenInv
<1>13. ASSUME NEW w \in Workers, InnerPoll(w) PROVE SeenInv'
  BY <1>13 DEF InnerPoll, Goto, request, SeenInv
<1>14. ASSUME NEW w \in Workers, EndIteration(w) PROVE SeenInv'
  BY <1>14 DEF EndIteration, InIteration, Goto, request, SeenInv
<1>15. ASSUME NEW w \in Workers, NextDepth(w) PROVE SeenInv'
  BY <1>15 DEF NextDepth, NotLastDepth, Publish, Goto, request, SeenInv
<1>16. ASSUME NEW w \in Workers, EndLoop(w) PROVE SeenInv'
  BY <1>16 DEF EndLoop, NotLastDepth, Publish, Leave, Goto, request, SeenInv
<1>17. ASSUME NEW w \in Workers, Loop(w) PROVE SeenInv'
  BY <1>17, <1>1, <1>2, <1>3, <1>4, <1>5, <1>6, <1>7, <1>8, <1>9, <1>10,
    <1>11, <1>12, <1>13, <1>14, <1>15, <1>16 DEF Loop
<1>18. ASSUME NEW h \in Helpers, Spawn(h) PROVE SeenInv'
  <2>1. seen' = [seen EXCEPT ![h] = seen[Principal]] /\ admitted' = admitted
    BY <1>18 DEF Spawn, request
  <2>2. seen[h] = 0
    BY <1>18 DEF Spawn, UnbornInv
  <2>3. PICK v \in Workers : seen[v] = admitted
    BY DEF SeenInv
  <2>4. CASE v = h
    BY <2>1, <2>2, <2>3, <2>4, WorkersFacts DEF SeenInv, TypeOK
  <2>5. CASE v # h
    <3>1. seen'[v] = admitted'
      BY <2>1, <2>3, <2>5 DEF TypeOK
    <3>2. \A u \in Workers : seen'[u] <= admitted'
      BY <2>1, WorkersFacts DEF SeenInv, TypeOK
    <3>. QED  BY <3>1, <3>2 DEF SeenInv
  <2>. QED  BY <2>4, <2>5
<1>19. CASE BeginPrincipal
  BY <1>19 DEF BeginPrincipal, Goto, request, SeenInv
<1>20. CASE LeaveAlone
  BY <1>20 DEF LeaveAlone, Goto, request, SeenInv
<1>21. CASE MarkTeamDoneLoad
  BY <1>21 DEF MarkTeamDoneLoad, Goto, request, SeenInv
<1>22. CASE MarkTeamDone
  BY <1>22 DEF MarkTeamDone, Last, TeamDone, Goto, SeenInv
<1>23. CASE Join
  <2>1. PICK u \in Workers : /\ \A w \in Workers : seen[w] <= seen[u]
                             /\ seen' = [seen EXCEPT ![Principal] = seen[u]]
    BY <1>23 DEF Join
  <2>2. seen[u] = admitted
    BY <2>1 DEF SeenInv, TypeOK
  <2>3. seen'[Principal] = admitted /\ \A v \in Workers : seen'[v] <= admitted
    BY <2>1, <2>2, WorkersFacts DEF SeenInv, TypeOK
  <2>. QED
    BY <1>23, <2>3, WorkersFacts DEF Join, request, SeenInv
<1>24. CASE Report
  <2>1. PICK i \in seen[Principal]..admitted : seen' = [seen EXCEPT ![Principal] = i]
    BY <1>24 DEF Report
  <2>. QED
    BY <1>24, <2>1, SeenAdvances, WorkersFacts DEF Report, request
<1>25. CASE Cancel
  BY <1>25 DEF Cancel, SeenInv
<1>26. CASE Expire
  BY <1>26 DEF Expire, SeenInv
<1>27. CASE UNCHANGED vars
  BY <1>27 DEF vars, SeenInv
<1>28. QED
  BY StepCases, <1>17, <1>18, <1>19, <1>20, <1>21, <1>22, <1>23, <1>24,
    <1>25, <1>26, <1>27

LEMMA ViewStep ==
  ASSUME TypeOK, ViewInv, UnbornInv, [Next]_vars
  PROVE  ViewInv'
<1>1. ASSUME NEW w \in Workers, PollState(w) PROVE ViewInv'
  <2>1. PICK i \in view[w]..Len(states) : view' = [view EXCEPT ![w] = i]
    BY <1>1 DEF PollState
  <2>. QED
    BY <1>1, <2>1, ViewAdvances, WorkersFacts DEF PollState, request
<1>2. ASSUME NEW w \in Workers, PollCancelled(w) PROVE ViewInv'
  BY <1>2 DEF PollCancelled, Interrupt, Goto, request, ViewInv
<1>3. ASSUME NEW w \in Workers, PollNotCancelled(w) PROVE ViewInv'
  BY <1>3 DEF PollNotCancelled, Goto, request, ViewInv
<1>4. ASSUME NEW w \in Workers, PollClock(w) PROVE ViewInv'
  BY <1>4 DEF PollClock, Interrupt, Goto, Resume, Forget, request, ViewInv
<1>5. ASSUME NEW w \in Workers, NoteStop(w) PROVE ViewInv'
  <2>1. CASE MayStop(Last(states))
    <3>1. /\ states' = Append(states, [stop |-> reason[w], done |-> FALSE])
          /\ view' = [view EXCEPT ![w] = Len(states) + 1]
      BY <1>5, <2>1 DEF NoteStop
    <3>2. Len(states') = Len(states) + 1
      BY <3>1, Words, AppendFacts DEF TypeOK
    <3>. QED
      BY <3>1, <3>2 DEF ViewInv, TypeOK
  <2>2. CASE ~MayStop(Last(states))
    <3>1. /\ states' = states
          /\ \E i \in view[w]..Len(states) : view' = [view EXCEPT ![w] = i]
      BY <1>5, <2>2 DEF NoteStop
    <3>. QED
      BY <3>1, ViewAdvances
  <2>. QED  BY <2>1, <2>2
<1>6. ASSUME NEW w \in Workers, Charge(w) PROVE ViewInv'
  BY <1>6 DEF Charge, PollsAt, Goto, request, ViewInv
<1>7. ASSUME NEW w \in Workers, AdmitUncapped(w) PROVE ViewInv'
  BY <1>7 DEF AdmitUncapped, Goto, request, ViewInv
<1>8. ASSUME NEW w \in Workers, AdmitLoad(w) PROVE ViewInv'
  BY <1>8 DEF AdmitLoad, Goto, request, ViewInv
<1>9. ASSUME NEW w \in Workers, AdmitRefused(w) PROVE ViewInv'
  BY <1>9 DEF AdmitRefused, Refused, Interrupt, Goto, request, ViewInv
<1>10. ASSUME NEW w \in Workers, AdmitWon(w) PROVE ViewInv'
  BY <1>10 DEF AdmitWon, Refused, Goto, ViewInv
<1>11. ASSUME NEW w \in Workers, AdmitLost(w) PROVE ViewInv'
  BY <1>11 DEF AdmitLost, Refused, request, ViewInv
<1>12. ASSUME NEW w \in Workers, Visit(w) PROVE ViewInv'
  BY <1>12 DEF Visit, InIteration, Goto, request, ViewInv
<1>13. ASSUME NEW w \in Workers, InnerPoll(w) PROVE ViewInv'
  BY <1>13 DEF InnerPoll, Goto, request, ViewInv
<1>14. ASSUME NEW w \in Workers, EndIteration(w) PROVE ViewInv'
  BY <1>14 DEF EndIteration, InIteration, Goto, request, ViewInv
<1>15. ASSUME NEW w \in Workers, NextDepth(w) PROVE ViewInv'
  BY <1>15 DEF NextDepth, NotLastDepth, Publish, Goto, request, ViewInv
<1>16. ASSUME NEW w \in Workers, EndLoop(w) PROVE ViewInv'
  BY <1>16 DEF EndLoop, NotLastDepth, Publish, Leave, Goto, request, ViewInv
<1>17. ASSUME NEW w \in Workers, Loop(w) PROVE ViewInv'
  BY <1>17, <1>1, <1>2, <1>3, <1>4, <1>5, <1>6, <1>7, <1>8, <1>9, <1>10,
    <1>11, <1>12, <1>13, <1>14, <1>15, <1>16 DEF Loop
<1>18. ASSUME NEW h \in Helpers, Spawn(h) PROVE ViewInv'
  <2>1. view' = [view EXCEPT ![h] = view[Principal]] /\ states' = states
    BY <1>18 DEF Spawn, request
  <2>2. view[h] = 1
    BY <1>18 DEF Spawn, UnbornInv
  <2>3. PICK v \in Workers : view[v] = Len(states)
    BY DEF ViewInv
  <2>4. CASE v = h
    <3>1. view[Principal] \in 1..Len(states)
      BY WorkersFacts, StatesFacts DEF TypeOK
    <3>2. view[Principal] = Len(states)
      BY <2>2, <2>3, <2>4, <3>1
    <3>3. view'[Principal] = Len(states')
      BY <2>1, <3>2, WorkersFacts DEF TypeOK
    <3>. QED  BY <3>3, WorkersFacts DEF ViewInv
  <2>5. CASE v # h
    <3>1. view'[v] = Len(states')
      BY <2>1, <2>3, <2>5 DEF TypeOK
    <3>. QED  BY <3>1 DEF ViewInv
  <2>. QED  BY <2>4, <2>5
<1>19. CASE BeginPrincipal
  BY <1>19 DEF BeginPrincipal, Goto, request, ViewInv
<1>20. CASE LeaveAlone
  BY <1>20 DEF LeaveAlone, Goto, request, ViewInv
<1>21. CASE MarkTeamDoneLoad
  <2>1. PICK i \in view[Principal]..Len(states) : view' = [view EXCEPT ![Principal] = i]
    BY <1>21 DEF MarkTeamDoneLoad
  <2>. QED
    BY <1>21, <2>1, ViewAdvances, WorkersFacts DEF MarkTeamDoneLoad, request
<1>22. CASE MarkTeamDone
  <2>1. /\ states' = Append(states, TeamDone(Last(states)))
        /\ view' = [view EXCEPT ![Principal] = Len(states) + 1]
    BY <1>22 DEF MarkTeamDone
  <2>2. Len(states') = Len(states) + 1
    BY <2>1, Words, StatesFacts, AppendFacts
  <2>. QED
    BY <2>1, <2>2, WorkersFacts DEF ViewInv, TypeOK
<1>23. CASE Join
  <2>1. PICK v \in Workers : /\ \A w \in Workers : view[w] <= view[v]
                             /\ view' = [view EXCEPT ![Principal] = view[v]]
    BY <1>23 DEF Join
  <2>2. view[v] = Len(states)
    <3>1. \A w \in Workers : view[w] \in 1..Len(states)
      BY StatesFacts DEF TypeOK
    <3>. QED  BY <2>1, <3>1, StatesFacts DEF ViewInv
  <2>3. view'[Principal] = Len(states)
    BY <2>1, <2>2, WorkersFacts DEF TypeOK
  <2>. QED
    BY <1>23, <2>3, WorkersFacts DEF Join, request, ViewInv
<1>24. CASE Report
  <2>1. PICK i \in view[Principal]..Len(states) : view' = [view EXCEPT ![Principal] = i]
    BY <1>24 DEF Report
  <2>. QED
    BY <1>24, <2>1, ViewAdvances, WorkersFacts DEF Report, request
<1>25. CASE Cancel
  BY <1>25 DEF Cancel, ViewInv
<1>26. CASE Expire
  BY <1>26 DEF Expire, ViewInv
<1>27. CASE UNCHANGED vars
  BY <1>27 DEF vars, ViewInv
<1>28. QED
  BY StepCases, <1>17, <1>18, <1>19, <1>20, <1>21, <1>22, <1>23, <1>24,
    <1>25, <1>26, <1>27

LEMMA UnbornStep ==
  ASSUME TypeOK, UnbornInv, [Next]_vars
  PROVE  UnbornInv'
<1>1. ASSUME NEW w \in Workers, PollState(w) PROVE UnbornInv'
  BY <1>1, WorkersFacts DEF PollState, Stopping, Leave, Goto, Forget,
    request, UnbornInv, TypeOK
<1>2. ASSUME NEW w \in Workers, PollCancelled(w) PROVE UnbornInv'
  BY <1>2, WorkersFacts DEF PollCancelled, Interrupt, Goto, request,
    UnbornInv, TypeOK
<1>3. ASSUME NEW w \in Workers, PollNotCancelled(w) PROVE UnbornInv'
  BY <1>3, WorkersFacts DEF PollNotCancelled, Goto, request, UnbornInv,
    TypeOK
<1>4. ASSUME NEW w \in Workers, PollClock(w) PROVE UnbornInv'
  BY <1>4, WorkersFacts DEF PollClock, Interrupt, Goto, Resume, Forget,
    request, UnbornInv, TypeOK
<1>5. ASSUME NEW w \in Workers, NoteStop(w) PROVE UnbornInv'
  BY <1>5, WorkersFacts DEF NoteStop, MayStop, Last, Leave, Goto, Forget,
    UnbornInv, TypeOK
<1>6. ASSUME NEW w \in Workers, Charge(w) PROVE UnbornInv'
  BY <1>6, WorkersFacts DEF Charge, PollsAt, Goto, request, UnbornInv, TypeOK
<1>7. ASSUME NEW w \in Workers, AdmitUncapped(w) PROVE UnbornInv'
  BY <1>7, WorkersFacts DEF AdmitUncapped, Goto, request, UnbornInv, TypeOK
<1>8. ASSUME NEW w \in Workers, AdmitLoad(w) PROVE UnbornInv'
  BY <1>8, WorkersFacts DEF AdmitLoad, Goto, request, UnbornInv, TypeOK
<1>9. ASSUME NEW w \in Workers, AdmitRefused(w) PROVE UnbornInv'
  BY <1>9, WorkersFacts DEF AdmitRefused, Refused, Interrupt, Goto, request,
    UnbornInv, TypeOK
<1>10. ASSUME NEW w \in Workers, AdmitWon(w) PROVE UnbornInv'
  BY <1>10, WorkersFacts DEF AdmitWon, Refused, Goto, UnbornInv, TypeOK
<1>11. ASSUME NEW w \in Workers, AdmitLost(w) PROVE UnbornInv'
  BY <1>11, WorkersFacts DEF AdmitLost, Refused, request, UnbornInv, TypeOK
<1>12. ASSUME NEW w \in Workers, Visit(w) PROVE UnbornInv'
  BY <1>12, WorkersFacts DEF Visit, InIteration, Goto, request, UnbornInv,
    TypeOK
<1>13. ASSUME NEW w \in Workers, InnerPoll(w) PROVE UnbornInv'
  BY <1>13, WorkersFacts DEF InnerPoll, Goto, request, UnbornInv, TypeOK
<1>14. ASSUME NEW w \in Workers, EndIteration(w) PROVE UnbornInv'
  BY <1>14, WorkersFacts DEF EndIteration, InIteration, Goto, request,
    UnbornInv, TypeOK
<1>15. ASSUME NEW w \in Workers, NextDepth(w) PROVE UnbornInv'
  BY <1>15, WorkersFacts DEF NextDepth, NotLastDepth, Publish, Goto, request,
    UnbornInv, TypeOK
<1>16. ASSUME NEW w \in Workers, EndLoop(w) PROVE UnbornInv'
  BY <1>16, WorkersFacts DEF EndLoop, NotLastDepth, Publish, Leave, Goto,
    request, UnbornInv, TypeOK
<1>17. ASSUME NEW w \in Workers, Loop(w) PROVE UnbornInv'
  BY <1>17, <1>1, <1>2, <1>3, <1>4, <1>5, <1>6, <1>7, <1>8, <1>9, <1>10,
    <1>11, <1>12, <1>13, <1>14, <1>15, <1>16 DEF Loop
<1>18. ASSUME NEW h \in Helpers, Spawn(h) PROVE UnbornInv'
  BY <1>18, WorkersFacts DEF Spawn, Goto, request, UnbornInv, TypeOK
<1>19. CASE BeginPrincipal
  BY <1>19, WorkersFacts DEF BeginPrincipal, Goto, request, UnbornInv, TypeOK
<1>20. CASE LeaveAlone
  BY <1>20, WorkersFacts DEF LeaveAlone, Goto, request, UnbornInv, TypeOK
<1>21. CASE MarkTeamDoneLoad
  BY <1>21, WorkersFacts DEF MarkTeamDoneLoad, Goto, request, UnbornInv,
    TypeOK
<1>22. CASE MarkTeamDone
  BY <1>22, WorkersFacts DEF MarkTeamDone, Last, TeamDone, Goto, UnbornInv,
    TypeOK
<1>23. CASE Join
  BY <1>23, WorkersFacts DEF Join, Goto, request, UnbornInv, TypeOK
<1>24. CASE Report
  BY <1>24, WorkersFacts DEF Report, Goto, request, UnbornInv, TypeOK
<1>25. CASE Cancel
  BY <1>25, WorkersFacts DEF Cancel, UnbornInv, TypeOK
<1>26. CASE Expire
  BY <1>26, WorkersFacts DEF Expire, UnbornInv, TypeOK
<1>27. CASE UNCHANGED vars
  BY <1>27 DEF vars, UnbornInv, TypeOK
<1>28. QED
  BY StepCases, <1>17, <1>18, <1>19, <1>20, <1>21, <1>22, <1>23, <1>24,
    <1>25, <1>26, <1>27

-----------------------------------------------------------------------------
(* The two steps that extend the state word. *)

LEMMA NoteStopEffect ==
  ASSUME TypeOK, NEW w \in Workers, NoteStop(w)
  PROVE  \/ /\ Last(states) # Running
            /\ states' = states
         \/ /\ Last(states) = Running
            /\ Len(states') = Len(states) + 1
            /\ DOMAIN states' = 1..Len(states) + 1
            /\ \A i \in 1..Len(states) : states'[i] = states[i]
            /\ states'[Len(states) + 1] = [stop |-> reason[w], done |-> FALSE]
            /\ Last(states)' = [stop |-> reason[w], done |-> FALSE]
<1>1. CASE MayStop(Last(states))
  <2>1. states' = Append(states, [stop |-> reason[w], done |-> FALSE])
    BY <1>1 DEF NoteStop
  <2>2. [stop |-> reason[w], done |-> FALSE] \in StateWord
    BY Words DEF TypeOK
  <2>. QED
    BY <1>1, <2>1, <2>2, AppendFacts DEF MayStop
<1>2. CASE ~MayStop(Last(states))
  BY <1>2 DEF NoteStop, MayStop
<1>. QED  BY <1>1, <1>2

LEMMA MarkTeamDoneEffect ==
  ASSUME TypeOK, MarkTeamDone
  PROVE  /\ Len(states') = Len(states) + 1
         /\ DOMAIN states' = 1..Len(states) + 1
         /\ \A i \in 1..Len(states) : states'[i] = states[i]
         /\ states'[Len(states) + 1] = TeamDone(Last(states))
         /\ Last(states)' = TeamDone(Last(states))
<1>1. states' = Append(states, TeamDone(Last(states)))
  BY DEF MarkTeamDone
<1>. QED
  BY <1>1, Words, StatesFacts, AppendFacts

-----------------------------------------------------------------------------
(* Frames: which actions change which part of the state. *)

LEMMA StatesFrame ==
  ASSUME [Next]_vars
  PROVE  (\E w \in Workers : NoteStop(w)) \/ MarkTeamDone \/ states' = states
<1>1. ASSUME NEW w \in Workers, Loop(w) PROVE NoteStop(w) \/ states' = states
  BY <1>1 DEF Loop, PollState, PollCancelled, PollNotCancelled, PollClock, Charge,
    AdmitUncapped, AdmitLoad, AdmitRefused, AdmitWon, AdmitLost, Visit, InnerPoll,
    EndIteration, NextDepth, EndLoop, request
<1>2. ASSUME NEW h \in Helpers, Spawn(h) PROVE states' = states
  BY <1>2 DEF Spawn, request
<1>. QED
  BY StepCases, <1>1, <1>2 DEF BeginPrincipal, LeaveAlone, MarkTeamDoneLoad, Join,
    Report, Cancel, Expire, vars, request

LEMMA OutcomeFrame ==
  ASSUME [Next]_vars
  PROVE  (\E w \in Workers : PollState(w) \/ NoteStop(w) \/ EndLoop(w)) \/ outcome' = outcome
<1>1. ASSUME NEW w \in Workers, Loop(w)
      PROVE  PollState(w) \/ NoteStop(w) \/ EndLoop(w) \/ outcome' = outcome
  BY <1>1 DEF Loop, PollCancelled, PollNotCancelled, PollClock, Charge,
    AdmitUncapped, AdmitLoad, AdmitRefused, AdmitWon, AdmitLost, Visit, InnerPoll,
    EndIteration, NextDepth, result
<1>2. ASSUME NEW h \in Helpers, Spawn(h) PROVE outcome' = outcome
  BY <1>2 DEF Spawn, result
<1>. QED
  BY StepCases, <1>1, <1>2 DEF BeginPrincipal, LeaveAlone, MarkTeamDoneLoad,
    MarkTeamDone, Join, Report, Cancel, Expire, vars, result

LEMMA ReportedFrame ==
  ASSUME [Next]_vars
  PROVE  Report \/ reported' = reported
<1>1. ASSUME NEW w \in Workers, Loop(w) PROVE reported' = reported
  BY <1>1 DEF Loop, PollState, PollCancelled, PollNotCancelled, PollClock, NoteStop,
    Charge, AdmitUncapped, AdmitLoad, AdmitRefused, AdmitWon, AdmitLost, Visit,
    InnerPoll, EndIteration, NextDepth, EndLoop, result
<1>2. ASSUME NEW h \in Helpers, Spawn(h) PROVE reported' = reported
  BY <1>2 DEF Spawn, result
<1>. QED
  BY StepCases, <1>1, <1>2 DEF BeginPrincipal, LeaveAlone, MarkTeamDoneLoad,
    MarkTeamDone, Join, Cancel, Expire, vars, result

LEMMA AdmissionFrame ==
  ASSUME [Next]_vars
  PROVE  \/ \E w \in Workers : AdmitWon(w)
         \/ admitted' = admitted /\ tickets' = tickets /\ (Capped => work' = work)
<1>1. ASSUME NEW w \in Workers, Loop(w)
      PROVE  \/ AdmitWon(w)
             \/ admitted' = admitted /\ tickets' = tickets /\ (Capped => work' = work)
  BY <1>1 DEF Loop, PollState, PollCancelled, PollNotCancelled, PollClock, NoteStop,
    Charge, AdmitUncapped, AdmitLoad, AdmitRefused, AdmitLost, Visit,
    InnerPoll, EndIteration, NextDepth, EndLoop, request
<1>2. ASSUME NEW h \in Helpers, Spawn(h)
      PROVE  admitted' = admitted /\ tickets' = tickets /\ work' = work
  BY <1>2 DEF Spawn, request
<1>. QED
  BY StepCases, <1>1, <1>2 DEF BeginPrincipal, LeaveAlone, MarkTeamDoneLoad,
    MarkTeamDone, Join, Report, Cancel, Expire, vars, request

LEMMA RequestsStay ==
  ASSUME [Next]_vars
  PROVE  (cancelled => cancelled') /\ (expired => expired')
<1>1. ASSUME NEW w \in Workers, Loop(w) PROVE cancelled' = cancelled /\ expired' = expired
  BY <1>1 DEF Loop, PollState, PollCancelled, PollNotCancelled, PollClock, NoteStop,
    Charge, AdmitUncapped, AdmitLoad, AdmitRefused, AdmitWon, AdmitLost, Visit,
    InnerPoll, EndIteration, NextDepth, EndLoop, request
<1>2. ASSUME NEW h \in Helpers, Spawn(h) PROVE cancelled' = cancelled /\ expired' = expired
  BY <1>2 DEF Spawn, request
<1>3. CASE BeginPrincipal \/ LeaveAlone \/ MarkTeamDoneLoad \/ MarkTeamDone \/ Join \/ Report
  <2>1. cancelled' = cancelled /\ expired' = expired
    BY <1>3 DEF BeginPrincipal, LeaveAlone, MarkTeamDoneLoad, MarkTeamDone, Join, Report,
      request
  <2>. QED  BY <2>1, Zenon
<1>4. CASE Cancel
  <2>1. cancelled'
    BY <1>4 DEF Cancel
  <2>2. expired' = expired
    BY <1>4 DEF Cancel
  <2>. QED  BY <2>1, <2>2, Zenon
<1>5. CASE Expire
  <2>1. expired'
    BY <1>5 DEF Expire
  <2>2. cancelled' = cancelled
    BY <1>5 DEF Expire
  <2>. QED  BY <2>1, <2>2, Zenon
<1>6. CASE UNCHANGED vars
  <2>1. cancelled' = cancelled /\ expired' = expired
    BY <1>6 DEF vars
  <2>. QED  BY <2>1, Zenon
<1>. QED
  BY StepCases, <1>1, <1>2, <1>3, <1>4, <1>5, <1>6, Zenon

(* The loop of a worker runs only at the loop's labels. *)
LEMMA LoopGuard ==
  ASSUME NEW w \in Workers, Loop(w)
  PROVE  pc[w] \in LoopLabels
  BY DEF Loop, PollState, PollCancelled, PollNotCancelled, PollClock, NoteStop,
    Charge, AdmitUncapped, AdmitLoad, AdmitRefused, AdmitWon, AdmitLost, Visit,
    InnerPoll, InIteration, EndIteration, NextDepth, EndLoop, LoopLabels

(* It moves within the loop, or leaves it; it moves no other worker. *)
LEMMA LoopMoves ==
  ASSUME TypeOK, NEW w \in Workers, Loop(w)
  PROVE  \/ pc' = pc
         \/ \E label \in LoopLabels \cup {"left"} : pc' = [pc EXCEPT ![w] = label]
<1>1. Resume[site[w]] \in LoopLabels
  BY DEF TypeOK, Resume, LoopLabels
<1>2. CASE PollState(w)
  BY <1>2 DEF PollState, Leave, Goto, LoopLabels
<1>3. CASE PollClock(w)
  BY <1>1, <1>3 DEF PollClock, Interrupt, Goto, LoopLabels
<1>4. CASE PollCancelled(w) \/ PollNotCancelled(w) \/ NoteStop(w) \/ Charge(w)
  BY <1>4 DEF PollCancelled, PollNotCancelled, NoteStop, Charge, Interrupt, Leave,
    Goto, LoopLabels
<1>5. CASE AdmitUncapped(w) \/ AdmitLoad(w) \/ AdmitRefused(w) \/ AdmitWon(w) \/ AdmitLost(w)
  BY <1>5 DEF AdmitUncapped, AdmitLoad, AdmitRefused, AdmitWon, AdmitLost, Interrupt,
    Goto, LoopLabels
<1>6. CASE Visit(w) \/ InnerPoll(w) \/ EndIteration(w) \/ NextDepth(w) \/ EndLoop(w)
  BY <1>6 DEF Visit, InnerPoll, EndIteration, NextDepth, EndLoop, Leave, Goto, LoopLabels
<1>. QED
  BY <1>2, <1>3, <1>4, <1>5, <1>6 DEF Loop

LEMMA LoopLocal ==
  ASSUME TypeOK, NEW u \in Workers, Loop(u), NEW w \in Workers, w # u
  PROVE  pc'[w] = pc[w]
<1>1. ASSUME NEW label, pc' = [pc EXCEPT ![u] = label] PROVE pc'[w] = pc[w]
  BY <1>1 DEF TypeOK
<1>. QED  BY <1>1, LoopMoves

(* How the principal moves. *)
LEMMA PrincipalMoves ==
  ASSUME TypeOK, [Next]_vars
  PROVE  \/ pc'[Principal] = pc[Principal]
         \/ /\ pc[Principal] \in LoopLabels
            /\ pc'[Principal] \in LoopLabels \cup {"left"}
         \/ LeaveAlone \/ MarkTeamDoneLoad \/ MarkTeamDone \/ Join \/ Report
<1>1. ASSUME NEW w \in Workers, Loop(w)
      PROVE  \/ pc'[Principal] = pc[Principal]
             \/ /\ pc[Principal] \in LoopLabels
                /\ pc'[Principal] \in LoopLabels \cup {"left"}
  <2>1. CASE pc' = pc
    BY <2>1
  <2>2. ASSUME NEW label \in LoopLabels \cup {"left"}, pc' = [pc EXCEPT ![w] = label]
        PROVE  \/ pc'[Principal] = pc[Principal]
               \/ /\ pc[Principal] \in LoopLabels
                  /\ pc'[Principal] \in LoopLabels \cup {"left"}
    <3>1. pc[w] \in LoopLabels
      BY <1>1, LoopGuard
    <3>2. w = Principal => pc'[Principal] = label
      BY <2>2, WorkersFacts DEF TypeOK
    <3>3. w # Principal => pc'[Principal] = pc[Principal]
      BY <2>2, WorkersFacts DEF TypeOK
    <3>. QED  BY <2>2, <3>1, <3>2, <3>3
  <2>. QED  BY <1>1, <2>1, <2>2, LoopMoves
<1>2. ASSUME NEW h \in Helpers, Spawn(h) PROVE pc'[Principal] = pc[Principal]
  BY <1>2, WorkersFacts DEF Spawn, Goto, TypeOK
<1>3. CASE BeginPrincipal
  BY <1>3, WorkersFacts DEF BeginPrincipal, Goto, TypeOK, LoopLabels
<1>. QED
  BY StepCases, <1>1, <1>2, <1>3 DEF Cancel, Expire, vars

-----------------------------------------------------------------------------
(* Stops stay, and phases follow one another. *)

LEMMA StopStaysStep ==
  ASSUME TypeOK, StopStays, [Next]_vars
  PROVE  StopStays'
<1>1. ASSUME NEW w \in Workers, NoteStop(w) PROVE StopStays'
  <2>1. CASE Last(states) # Running /\ states' = states
    BY <2>1 DEF StopStays, Last
  <2>2. CASE Last(states) = Running
    <3>1. \A i \in 1..Len(states) : states[i].stop = "Completed"
      BY <2>2, StatesFacts DEF StopStays, Running
    <3>2. /\ DOMAIN states' = 1..Len(states) + 1
          /\ \A i \in 1..Len(states) : states'[i] = states[i]
          /\ states'[Len(states) + 1] = Last(states)'
      BY <1>1, <2>2, NoteStopEffect
    <3>3. ASSUME NEW i \in DOMAIN states', states'[i].stop # "Completed"
          PROVE  Last(states)'.stop = states'[i].stop
      BY <3>1, <3>2, <3>3, StatesFacts
    <3>. QED
      BY <3>3 DEF StopStays
  <2>. QED  BY <1>1, <2>1, <2>2, NoteStopEffect
<1>2. CASE MarkTeamDone
  <2>1. TeamDone(Last(states)).stop = Last(states).stop
    BY DEF TeamDone
  <2>. QED
    BY <1>2, <2>1, MarkTeamDoneEffect, StatesFacts DEF StopStays
<1>3. CASE states' = states
  BY <1>3 DEF StopStays, Last
<1>. QED
  BY StatesFrame, <1>1, <1>2, <1>3

LEMMA OutcomeStep ==
  ASSUME TypeOK, OutcomeInv, [Next]_vars
  PROVE  OutcomeInv'
<1>1. ASSUME NEW w \in Workers, PollState(w) PROVE OutcomeInv'
  <2>1. pc[w] = "poll"
    BY <1>1 DEF PollState
  <2>2. \/ pc' = [pc EXCEPT ![w] = "left"] /\ outcome' = [outcome EXCEPT ![w] = "stopped"]
        \/ pc' = [pc EXCEPT ![w] = "cancellation"] /\ outcome' = outcome
    BY <1>1 DEF PollState, Leave, Goto
  <2>3. CASE outcome' = outcome
    BY <2>1, <2>2, <2>3, WorkersFacts DEF OutcomeInv, LoopLabels, TypeOK
  <2>4. CASE outcome' # outcome
    <3>1. pc' = [pc EXCEPT ![w] = "left"] /\ outcome' = [outcome EXCEPT ![w] = "stopped"]
      BY <2>2, <2>4
    <3>. QED
      BY <2>1, <3>1, WorkersFacts DEF OutcomeInv, LoopLabels, TypeOK
  <2>. QED  BY <2>3, <2>4
<1>2. ASSUME NEW w \in Workers, PollCancelled(w) PROVE OutcomeInv'
  BY <1>2, WorkersFacts DEF PollCancelled, Interrupt, Goto, request, result,
    OutcomeInv, LoopLabels, TypeOK
<1>3. ASSUME NEW w \in Workers, PollNotCancelled(w) PROVE OutcomeInv'
  BY <1>3, WorkersFacts DEF PollNotCancelled, Goto, request, result,
    OutcomeInv, LoopLabels, TypeOK
<1>4. ASSUME NEW w \in Workers, PollClock(w) PROVE OutcomeInv'
  <2>1. Resume[site[w]] \in LoopLabels
    BY DEF TypeOK, Resume, LoopLabels
  <2>2. pc[w] = "clock" /\ outcome' = outcome
    BY <1>4 DEF PollClock, result
  <2>3. \E next \in LoopLabels : pc' = [pc EXCEPT ![w] = next]
    BY <1>4, <2>1 DEF PollClock, Interrupt, Goto, LoopLabels
  <2>. QED
    BY <2>2, <2>3 DEF OutcomeInv, LoopLabels, TypeOK
<1>5. ASSUME NEW w \in Workers, NoteStop(w) PROVE OutcomeInv'
  BY <1>5, WorkersFacts DEF NoteStop, MayStop, Running, result, Last, Leave,
    Goto, Forget, OutcomeInv, LoopLabels, TypeOK
<1>6. ASSUME NEW w \in Workers, Charge(w) PROVE OutcomeInv'
  BY <1>6, WorkersFacts DEF Charge, PollsAt, Goto, request, result,
    OutcomeInv, LoopLabels, TypeOK
<1>7. ASSUME NEW w \in Workers, AdmitUncapped(w) PROVE OutcomeInv'
  BY <1>7, WorkersFacts DEF AdmitUncapped, Goto, request, result, OutcomeInv,
    LoopLabels, TypeOK
<1>8. ASSUME NEW w \in Workers, AdmitLoad(w) PROVE OutcomeInv'
  BY <1>8, WorkersFacts DEF AdmitLoad, Goto, request, result, OutcomeInv,
    LoopLabels, TypeOK
<1>9. ASSUME NEW w \in Workers, AdmitRefused(w) PROVE OutcomeInv'
  BY <1>9, WorkersFacts DEF AdmitRefused, Refused, Interrupt, Goto, request,
    result, OutcomeInv, LoopLabels, TypeOK
<1>10. ASSUME NEW w \in Workers, AdmitWon(w) PROVE OutcomeInv'
  BY <1>10, WorkersFacts DEF AdmitWon, Refused, Goto, result, OutcomeInv,
    LoopLabels, TypeOK
<1>11. ASSUME NEW w \in Workers, AdmitLost(w) PROVE OutcomeInv'
  BY <1>11, WorkersFacts DEF AdmitLost, Refused, request, result, OutcomeInv,
    LoopLabels, TypeOK
<1>12. ASSUME NEW w \in Workers, Visit(w) PROVE OutcomeInv'
  BY <1>12, WorkersFacts DEF Visit, InIteration, Goto, request, result,
    OutcomeInv, LoopLabels, TypeOK
<1>13. ASSUME NEW w \in Workers, InnerPoll(w) PROVE OutcomeInv'
  BY <1>13, WorkersFacts DEF InnerPoll, Goto, request, result, OutcomeInv,
    LoopLabels, TypeOK
<1>14. ASSUME NEW w \in Workers, EndIteration(w) PROVE OutcomeInv'
  BY <1>14, WorkersFacts DEF EndIteration, InIteration, Goto, request,
    result, OutcomeInv, LoopLabels, TypeOK
<1>15. ASSUME NEW w \in Workers, NextDepth(w) PROVE OutcomeInv'
  BY <1>15, WorkersFacts DEF NextDepth, NotLastDepth, Publish, Goto, request,
    OutcomeInv, LoopLabels, TypeOK
<1>16. ASSUME NEW w \in Workers, EndLoop(w) PROVE OutcomeInv'
  BY <1>16, WorkersFacts DEF EndLoop, NotLastDepth, Publish, Leave, Goto,
    request, OutcomeInv, LoopLabels, TypeOK
<1>17. ASSUME NEW w \in Workers, Loop(w) PROVE OutcomeInv'
  BY <1>17, <1>1, <1>2, <1>3, <1>4, <1>5, <1>6, <1>7, <1>8, <1>9, <1>10,
    <1>11, <1>12, <1>13, <1>14, <1>15, <1>16 DEF Loop
<1>18. ASSUME NEW h \in Helpers, Spawn(h) PROVE OutcomeInv'
  BY <1>18, WorkersFacts DEF Spawn, Goto, request, result, OutcomeInv,
    LoopLabels, TypeOK
<1>19. CASE BeginPrincipal
  BY <1>19, WorkersFacts DEF BeginPrincipal, Goto, request, result,
    OutcomeInv, LoopLabels, TypeOK
<1>20. CASE LeaveAlone
  BY <1>20, WorkersFacts DEF LeaveAlone, Goto, request, result, OutcomeInv,
    LoopLabels, TypeOK
<1>21. CASE MarkTeamDoneLoad
  BY <1>21, WorkersFacts DEF MarkTeamDoneLoad, Goto, request, result,
    OutcomeInv, LoopLabels, TypeOK
<1>22. CASE MarkTeamDone
  BY <1>22, WorkersFacts DEF MarkTeamDone, Last, TeamDone, Goto, result,
    OutcomeInv, LoopLabels, TypeOK
<1>23. CASE Join
  BY <1>23, WorkersFacts DEF Join, Goto, request, result, OutcomeInv,
    LoopLabels, TypeOK
<1>24. CASE Report
  BY <1>24, WorkersFacts DEF Report, Goto, request, OutcomeInv, LoopLabels,
    TypeOK
<1>25. CASE Cancel
  BY <1>25, WorkersFacts DEF Cancel, result, OutcomeInv, LoopLabels, TypeOK
<1>26. CASE Expire
  BY <1>26, WorkersFacts DEF Expire, result, OutcomeInv, LoopLabels, TypeOK
<1>27. CASE UNCHANGED vars
  BY <1>27 DEF vars, OutcomeInv, LoopLabels, TypeOK
<1>28. QED
  BY StepCases, <1>17, <1>18, <1>19, <1>20, <1>21, <1>22, <1>23, <1>24,
    <1>25, <1>26, <1>27

LEMMA DoneStep ==
  ASSUME TypeOK, DoneInv, [Next]_vars
  PROVE  DoneInv'
<1>1. CASE MarkTeamDone
  <2>1. pc'[Principal] = "join"
    BY <1>1, WorkersFacts DEF MarkTeamDone, Goto, TypeOK
  <2>2. Last(states)'.done
    BY <1>1, MarkTeamDoneEffect DEF TeamDone
  <2>. QED
    BY <2>1, <2>2 DEF DoneInv
<1>2. CASE MarkTeamDoneLoad
  <2>1. \A i \in DOMAIN states : ~states[i].done
    BY <1>2 DEF MarkTeamDoneLoad, DoneInv, Ended
  <2>2. PICK i \in view[Principal]..Len(states) :
          Goto(Principal, IF states[i].done THEN "join" ELSE "mark")
    BY <1>2 DEF MarkTeamDoneLoad
  <2>3. i \in DOMAIN states
    BY <2>2, StatesFacts, WorkersFacts DEF TypeOK
  <2>4. pc'[Principal] = "mark" /\ states' = states
    BY <1>2, <2>1, <2>2, <2>3, WorkersFacts DEF MarkTeamDoneLoad, Goto, request, TypeOK
  <2>. QED
    BY <2>1, <2>4 DEF DoneInv
<1>3. CASE LeaveAlone \/ Join \/ Report
  <2>1. states' = states /\ pc'[Principal] \in Ended
    BY <1>3, WorkersFacts DEF LeaveAlone, Join, Report, Goto, request, TypeOK, Ended
  <2>. QED
    BY <2>1 DEF DoneInv, Ended
<1>4. CASE states' = states /\ pc'[Principal] = pc[Principal]
  BY <1>4 DEF DoneInv, Last
<1>5. CASE states' = states /\ pc[Principal] \in LoopLabels
                            /\ pc'[Principal] \in LoopLabels \cup {"left"}
  BY <1>5 DEF DoneInv, LoopLabels, Ended
<1>6. ASSUME NEW w \in Workers, NoteStop(w), Last(states) = Running PROVE DoneInv'
  <2>1. /\ DOMAIN states' = 1..Len(states) + 1
        /\ \A i \in 1..Len(states) : states'[i] = states[i]
        /\ states'[Len(states) + 1] = [stop |-> reason[w], done |-> FALSE]
    BY <1>6, NoteStopEffect DEF Running
  <2>2. ~states'[Len(states) + 1].done
    BY <2>1
  <2>3. pc[Principal] # "join" /\ pc[w] = "note"
    BY <1>6 DEF DoneInv, Running, NoteStop
  <2>4. pc'[Principal] # "join" /\ (pc[Principal] \in Ended => pc'[Principal] \in Ended)
    BY <1>6, <2>3, WorkersFacts DEF NoteStop, Leave, Goto, TypeOK, Ended
  <2>5. ASSUME NEW i \in DOMAIN states', states'[i].done PROVE pc'[Principal] \in Ended
    <3>1. i \in 1..Len(states) /\ states[i].done
      BY <2>1, <2>2, <2>5, StatesFacts
    <3>2. pc[Principal] \in Ended
      BY <2>3, <3>1, StatesFacts DEF DoneInv
    <3>. QED
      BY <2>4, <3>2
  <2>. QED
    BY <2>4, <2>5 DEF DoneInv
<1>7. ASSUME NEW w \in Workers, NoteStop(w) PROVE Last(states) = Running \/ states' = states
  BY <1>7, NoteStopEffect
<1>. QED
  BY StatesFrame, PrincipalMoves, <1>1, <1>2, <1>3, <1>4, <1>5, <1>6, <1>7

LEMMA CauseStep ==
  ASSUME TypeOK, StopStays, DoneInv, EndInv, ReasonInv, CauseInv, [Next]_vars
  PROVE  CauseInv'
<1>1. ASSUME NEW w \in Workers, PollState(w) PROVE CauseInv'
  <2>1. pc[w] = "poll" /\ states' = states
    BY <1>1 DEF PollState, request
  <2>2. CASE outcome' = outcome
    BY <2>1, <2>2 DEF CauseInv, Last
  <2>3. CASE outcome' # outcome
    <3>1. PICK i \in view[w]..Len(states) : Stopping(states[i])
      BY <1>1, <2>3 DEF PollState
    <3>2. i \in DOMAIN states /\ states[i] \in StateWord
      BY <3>1, StatesFacts DEF TypeOK
    <3>3. outcome' = [outcome EXCEPT ![w] = "stopped"]
      BY <1>1, <2>3 DEF PollState, Leave
    <3>4. states[i].stop # "Completed" => Last(states).stop # "Completed"
      BY <3>2 DEF StopStays
    <3>5. states[i].done => w # Principal /\ Last(states).done
      <4>1. states[i].done => pc[Principal] \in {"join"} \cup Ended
        BY <3>2 DEF DoneInv
      <4>2. pc[Principal] \in Ended => w = Principal
        BY <2>1 DEF EndInv, Workers
      <4>. QED
        BY <2>1, <4>1, <4>2 DEF DoneInv, Ended
    <3>6. Last(states) # Running /\ (w = Principal => Last(states).stop # "Completed")
      BY <3>1, <3>4, <3>5 DEF Stopping, Running
    <3>. QED
      BY <2>1, <3>3, <3>6 DEF CauseInv, Last, TypeOK
  <2>. QED  BY <2>2, <2>3
<1>2. ASSUME NEW w \in Workers, NoteStop(w) PROVE CauseInv'
  <2>1. outcome' = [outcome EXCEPT ![w] = "stopped"] /\ pc[w] = "note"
    BY <1>2 DEF NoteStop, Leave
  <2>2. CASE Last(states) # Running /\ states' = states
    <3>1. w = Principal => ~Last(states).done
      BY <2>1, StatesFacts DEF DoneInv, Ended
    <3>2. Last(states).stop # "Completed" \/ Last(states).done
      BY <2>2, StatesFacts, Words DEF Stopping
    <3>3. Last(states)' = Last(states)
      BY <2>2 DEF Last
    <3>. QED
      BY <2>1, <2>2, <3>1, <3>2, <3>3 DEF CauseInv, TypeOK
  <2>3. CASE Last(states) = Running
    <3>1. reason[w] # "Completed"
      BY <2>1 DEF ReasonInv, Interruptions
    <3>2. Last(states)' = [stop |-> reason[w], done |-> FALSE]
      BY <1>2, <2>3, NoteStopEffect
    <3>3. Last(states)' # Running /\ Last(states)'.stop # "Completed"
      BY <3>1, <3>2 DEF Running
    <3>. QED
      BY <3>3 DEF CauseInv
  <2>. QED  BY <1>2, <2>2, <2>3, NoteStopEffect
<1>3. CASE MarkTeamDone
  <2>1. Last(states)' = TeamDone(Last(states)) /\ outcome' = outcome
    BY <1>3, MarkTeamDoneEffect DEF MarkTeamDone, result
  <2>. QED
    BY <2>1 DEF CauseInv, TeamDone, Running
<1>4. ASSUME NEW w \in Workers, EndLoop(w), states' = states PROVE CauseInv'
  BY <1>4 DEF EndLoop, Leave, CauseInv, Last, TypeOK
<1>5. CASE outcome' = outcome /\ states' = states
  BY <1>5 DEF CauseInv, Last
<1>. QED
  BY StatesFrame, OutcomeFrame, <1>1, <1>2, <1>3, <1>4, <1>5

(* Once the principal is past the join, the report is all that is left. *)
LEMMA EndQuiet ==
  ASSUME EndInv, pc[Principal] \in Ended, [Next]_vars
  PROVE  Report \/ Cancel \/ Expire \/ UNCHANGED vars
<1>1. \A w \in Workers : ~Loop(w)
  BY LoopGuard DEF EndInv, Ended, LoopLabels, Workers
<1>2. \A h \in Helpers : ~Spawn(h)
  BY DEF Spawn, Ended
<1>. QED
  BY StepCases, <1>1, <1>2 DEF BeginPrincipal, LeaveAlone, MarkTeamDoneLoad,
    MarkTeamDone, Join, Ended

LEMMA EndStep ==
  ASSUME TypeOK, SeenInv, ViewInv, OutcomeInv, EndInv, [Next]_vars
  PROVE  EndInv'
<1>1. CASE pc[Principal] \in Ended
  <2>1. CASE Report
    <3>1. view[Principal] = Len(states) /\ seen[Principal] = admitted
      BY <1>1 DEF EndInv
    <3>2. PICK n \in seen[Principal]..admitted : seen' = [seen EXCEPT ![Principal] = n]
      BY <2>1 DEF Report
    <3>3. PICK i \in view[Principal]..Len(states) :
            /\ view' = [view EXCEPT ![Principal] = i]
            /\ reported' = states[i].stop
      BY <2>1 DEF Report
    <3>4. n = admitted /\ i = Len(states)
      BY <3>1, StatesFacts DEF TypeOK
    <3>5. /\ view'[Principal] = Len(states) /\ seen'[Principal] = admitted
          /\ reported' = Last(states).stop
      BY <3>2, <3>3, <3>4, StatesFacts, WorkersFacts DEF TypeOK
    <3>6. /\ states' = states /\ admitted' = admitted
          /\ pc' = [pc EXCEPT ![Principal] = "returned"]
      BY <2>1 DEF Report, request, Goto
    <3>7. Last(states)' = Last(states) /\ pc'[Principal] = "returned"
      BY <3>6, WorkersFacts DEF Last, TypeOK
    <3>8. \A h \in Helpers : pc'[h] = "left"
      BY <1>1, <3>6, WorkersFacts DEF EndInv, TypeOK
    <3>. QED
      BY <3>5, <3>6, <3>7, <3>8 DEF EndInv
  <2>2. CASE Cancel \/ Expire \/ UNCHANGED vars
    BY <1>1, <2>2 DEF Cancel, Expire, vars, EndInv, Last, result
  <2>. QED  BY <1>1, <2>1, <2>2, EndQuiet
<1>2. CASE pc[Principal] \notin Ended
  <2>1. ~Report /\ reported = "Nothing"
    BY <1>2 DEF Report, EndInv, Ended
  <2>2. reported' = "Nothing"
    BY <2>1, ReportedFrame
  <2>3. CASE pc'[Principal] \notin Ended
    BY <2>2, <2>3 DEF EndInv, Ended
  <2>4. CASE LeaveAlone
    <3>1. Helpers = {} /\ pc'[Principal] = "report"
      BY <2>4, WorkersFacts DEF LeaveAlone, Goto, TypeOK
    <3>2. view[Principal] = Len(states) /\ seen[Principal] = admitted
      BY <3>1 DEF ViewInv, SeenInv, Workers
    <3>. QED
      BY <2>2, <2>4, <3>1, <3>2 DEF EndInv, Ended, LeaveAlone, request
  <2>5. CASE Join
    <3>1. PICK u \in Workers, v \in Workers :
            /\ \A w \in Workers : view[w] <= view[v] /\ seen[w] <= seen[u]
            /\ view' = [view EXCEPT ![Principal] = view[v]]
            /\ seen' = [seen EXCEPT ![Principal] = seen[u]]
      BY <2>5 DEF Join
    <3>2. \A w \in Workers : view[w] \in 1..Len(states) /\ seen[w] \in Nat
      BY StatesFacts DEF TypeOK
    <3>3. view[v] = Len(states)
      BY <3>1, <3>2, StatesFacts DEF ViewInv
    <3>4. seen[u] = admitted
      <4>1. PICK x \in Workers : seen[x] = admitted
        BY DEF SeenInv
      <4>2. seen[x] <= seen[u] /\ seen[u] <= admitted
        BY <3>1 DEF SeenInv
      <4>. QED
        BY <3>2, <4>1, <4>2
    <3>5. view'[Principal] = Len(states) /\ seen'[Principal] = admitted
      BY <3>1, <3>3, <3>4, WorkersFacts DEF TypeOK
    <3>6. pc'[Principal] = "report" /\ \A h \in Helpers : pc'[h] = "left"
      BY <2>5, WorkersFacts DEF Join, Goto, TypeOK
    <3>. QED
      BY <2>2, <2>5, <3>5, <3>6 DEF EndInv, Ended, Join, request
  <2>6. CASE MarkTeamDoneLoad \/ MarkTeamDone
    <3>1. pc'[Principal] \in {"join", "mark"}
      BY <2>6, WorkersFacts DEF MarkTeamDoneLoad, MarkTeamDone, Goto, TypeOK
    <3>. QED  BY <2>3, <3>1 DEF Ended
  <2>. QED
    BY <1>2, <2>1, <2>3, <2>4, <2>5, <2>6, PrincipalMoves DEF LoopLabels, Ended
<1>. QED  BY <1>1, <1>2

-----------------------------------------------------------------------------
(* Causes: a worker that is about to note a stop knows why. *)

(* How a worker comes to stand before note_stop, or before a cap's check. *)
LEMMA NoteFrame ==
  ASSUME TypeOK, [Next]_vars, NEW w \in Workers, pc'[w] = "note"
  PROVE  \/ pc[w] = "note" /\ reason'[w] = reason[w] /\ seen'[w] = seen[w]
         \/ PollCancelled(w) \/ PollClock(w) \/ AdmitRefused(w)
<1>1. ASSUME NEW u \in Workers, Loop(u)
      PROVE  \/ pc[w] = "note" /\ reason'[w] = reason[w] /\ seen'[w] = seen[w]
             \/ PollCancelled(w) \/ PollClock(w) \/ AdmitRefused(w)
  <2>1. CASE u = w
    BY <1>1, <2>1 DEF Loop, PollState, PollNotCancelled, NoteStop, Charge,
      AdmitUncapped, AdmitLoad, AdmitWon, AdmitLost, Visit, InnerPoll, EndIteration,
      NextDepth, EndLoop, Leave, Goto, TypeOK
  <2>2. CASE u # w
    <3>1. pc'[w] = pc[w]
      BY <1>1, <2>2, LoopLocal
    <3>2. reason'[w] = reason[w]
      BY <1>1, <2>2 DEF Loop, PollState, PollCancelled, PollNotCancelled, PollClock,
        NoteStop, Charge, AdmitUncapped, AdmitLoad, AdmitRefused, AdmitWon, AdmitLost,
        Visit, InnerPoll, EndIteration, NextDepth, EndLoop, Interrupt, TypeOK
    <3>3. seen'[w] = seen[w]
      BY <1>1, <2>2 DEF Loop, PollState, PollCancelled, PollNotCancelled, PollClock,
        NoteStop, Charge, AdmitUncapped, AdmitLoad, AdmitRefused, AdmitWon, AdmitLost,
        Visit, InnerPoll, EndIteration, NextDepth, EndLoop, TypeOK
    <3>. QED  BY <3>1, <3>2, <3>3
  <2>. QED  BY <2>1, <2>2
<1>2. ASSUME NEW h \in Helpers, Spawn(h)
      PROVE  pc[w] = "note" /\ reason'[w] = reason[w] /\ seen'[w] = seen[w]
  BY <1>2, WorkersFacts DEF Spawn, Goto, TypeOK
<1>3. CASE BeginPrincipal \/ LeaveAlone \/ MarkTeamDoneLoad
  BY <1>3, WorkersFacts DEF BeginPrincipal, LeaveAlone, MarkTeamDoneLoad, Goto, TypeOK
<1>4. CASE MarkTeamDone \/ Join \/ Report
  BY <1>4, WorkersFacts DEF MarkTeamDone, Join, Report, Goto, TypeOK
<1>. QED
  BY StepCases, <1>1, <1>2, <1>3, <1>4 DEF Cancel, Expire, vars

LEMMA AdmissionLabelFrame ==
  ASSUME TypeOK, [Next]_vars, NEW w \in Workers, pc'[w] = "admission"
  PROVE  pc[w] = "admission" \/ AdmitLoad(w)
<1>1. ASSUME NEW u \in Workers, Loop(u) PROVE pc[w] = "admission" \/ AdmitLoad(w)
  <2>1. CASE u = w
    <3>1. Resume[site[w]] # "admission"
      BY DEF TypeOK, Resume
    <3>. QED
      BY <1>1, <2>1, <3>1 DEF Loop, PollState, PollCancelled, PollNotCancelled,
        PollClock, NoteStop, Charge, AdmitUncapped, AdmitRefused, AdmitWon, AdmitLost,
        Visit, InnerPoll, EndIteration, NextDepth, EndLoop, Interrupt, Leave, Goto, TypeOK
  <2>2. CASE u # w
    BY <1>1, <2>2, LoopLocal
  <2>. QED  BY <2>1, <2>2
<1>2. ASSUME NEW h \in Helpers, Spawn(h) PROVE pc[w] = "admission"
  BY <1>2, WorkersFacts DEF Spawn, Goto, TypeOK
<1>3. CASE BeginPrincipal \/ LeaveAlone \/ MarkTeamDoneLoad
  BY <1>3, WorkersFacts DEF BeginPrincipal, LeaveAlone, MarkTeamDoneLoad, Goto, TypeOK
<1>4. CASE MarkTeamDone \/ Join \/ Report
  BY <1>4, WorkersFacts DEF MarkTeamDone, Join, Report, Goto, TypeOK
<1>. QED
  BY StepCases, <1>1, <1>2, <1>3, <1>4 DEF Cancel, Expire, vars

LEMMA ReasonStep ==
  ASSUME TypeOK, ReasonInv, [Next]_vars
  PROVE  ReasonInv'
<1>1. ASSUME NEW w \in Workers, pc'[w] = "admission" PROVE Capped
  BY <1>1, AdmissionLabelFrame DEF ReasonInv, AdmitLoad
<1>2. ASSUME NEW w \in Workers, pc'[w] = "note"
      PROVE  /\ reason'[w] \in Interruptions
             /\ reason'[w] = "NodeLimit" => Capped /\ seen'[w] >= MaxNodes
             /\ reason'[w] = "Cancelled" => cancelled'
             /\ reason'[w] = "TimeLimit" => HasClock /\ expired'
  <2>1. CASE pc[w] = "note" /\ reason'[w] = reason[w] /\ seen'[w] = seen[w]
    <3>1. /\ reason[w] \in Interruptions
          /\ reason[w] = "NodeLimit" => Capped /\ seen[w] >= MaxNodes
          /\ reason[w] = "Cancelled" => cancelled
          /\ reason[w] = "TimeLimit" => HasClock /\ expired
      BY <2>1 DEF ReasonInv
    <3>2. (cancelled => cancelled') /\ (expired => expired')
      BY RequestsStay
    <3>. QED  BY <2>1, <3>1, <3>2
  <2>2. CASE PollCancelled(w)
    <3>1. reason'[w] = "Cancelled" /\ cancelled
      BY <2>2 DEF PollCancelled, Interrupt, TypeOK
    <3>2. cancelled'
      BY <3>1, RequestsStay
    <3>. QED  BY <3>1, <3>2 DEF Interruptions
  <2>3. CASE PollClock(w)
    <3>1. Resume[site[w]] # "note"
      BY DEF TypeOK, Resume
    <3>2. HasClock /\ expired
      BY <1>2, <2>3, <3>1 DEF PollClock, Goto, TypeOK
    <3>3. reason'[w] = "TimeLimit"
      BY <2>3, <3>2 DEF PollClock, Interrupt, TypeOK
    <3>4. expired'
      BY <3>2, RequestsStay
    <3>. QED  BY <3>2, <3>3, <3>4 DEF Interruptions
  <2>4. CASE AdmitRefused(w)
    <3>1. Capped
      BY <2>4 DEF AdmitRefused, ReasonInv
    <3>2. reason'[w] = "NodeLimit" /\ seen'[w] = seen[w] /\ Refused(seen[w])
      BY <2>4 DEF AdmitRefused, Interrupt, TypeOK
    <3>. QED  BY <3>1, <3>2 DEF Refused, Interruptions
  <2>. QED  BY <1>2, <2>1, <2>2, <2>3, <2>4, NoteFrame
<1>. QED  BY <1>1, <1>2 DEF ReasonInv

(* An admission is one ticket more, of the worker that won it. *)
LEMMA AdmissionStep ==
  ASSUME TypeOK, ExactAdmission, [Next]_vars
  PROVE  ExactAdmission'
<1> SUFFICES ASSUME Capped
             PROVE  /\ admitted' <= MaxNodes
                    /\ admitted' = Len(tickets')
                    /\ \A w \in Workers : work'[w] = Cardinality(TicketsOf(w)')
  BY DEF ExactAdmission
<1>1. /\ admitted <= MaxNodes /\ admitted = Len(tickets)
      /\ \A w \in Workers : work[w] = Cardinality(TicketsOf(w))
  BY DEF ExactAdmission
<1>2. CASE admitted' = admitted /\ tickets' = tickets /\ work' = work
  BY <1>1, <1>2 DEF TicketsOf
<1>3. ASSUME NEW w \in Workers, AdmitWon(w)
      PROVE  /\ admitted' <= MaxNodes
             /\ admitted' = Len(tickets')
             /\ \A u \in Workers : work'[u] = Cardinality(TicketsOf(u)')
  <2>1. /\ admitted' = admitted + 1 /\ admitted < MaxNodes
        /\ work' = [work EXCEPT ![w] = @ + 1]
        /\ tickets' = Append(tickets, w)
    BY <1>3 DEF AdmitWon, Refused, TypeOK
  <2>2. tickets \in Seq(Workers) /\ Len(tickets) \in Nat
    BY LenProperties DEF TypeOK
  <2>3. /\ Len(tickets') = Len(tickets) + 1
        /\ DOMAIN tickets = 1..Len(tickets)
        /\ DOMAIN tickets' = 1..Len(tickets) + 1
        /\ \A t \in 1..Len(tickets) : tickets'[t] = tickets[t]
        /\ tickets'[Len(tickets) + 1] = w
    BY <2>1, <2>2, AppendProperties, LenProperties
  <2>4. ASSUME NEW u \in Workers PROVE IsFiniteSet(TicketsOf(u))
    <3>1. TicketsOf(u) \subseteq 1..Len(tickets)
      BY <2>3 DEF TicketsOf
    <3>2. IsFiniteSet(1..Len(tickets))
      BY <2>2, FS_Interval
    <3>. QED  BY <3>1, <3>2, FS_Subset
  <2>5. TicketsOf(w)' = TicketsOf(w) \cup {Len(tickets) + 1}
    BY <2>2, <2>3 DEF TicketsOf
  <2>6. Len(tickets) + 1 \notin TicketsOf(w)
    BY <2>2, <2>3 DEF TicketsOf
  <2>7. Cardinality(TicketsOf(w)') = Cardinality(TicketsOf(w)) + 1
    BY <2>4, <2>5, <2>6, FS_AddElement
  <2>8. ASSUME NEW u \in Workers, u # w PROVE TicketsOf(u)' = TicketsOf(u)
    BY <2>2, <2>3, <2>8 DEF TicketsOf
  <2>9. ASSUME NEW u \in Workers PROVE work'[u] = Cardinality(TicketsOf(u)')
    <3>1. CASE u = w
      BY <1>1, <2>1, <2>7, <3>1 DEF TypeOK
    <3>2. CASE u # w
      BY <1>1, <2>1, <2>8, <3>2 DEF TypeOK
    <3>. QED  BY <3>1, <3>2
  <2>10. admitted' <= MaxNodes /\ admitted' = Len(tickets')
    BY <1>1, <2>1, <2>2, <2>3 DEF TypeOK
  <2>. QED  BY <2>9, <2>10
<1>. QED  BY <1>2, <1>3, AdmissionFrame

LEMMA AdmittedGrows ==
  ASSUME TypeOK, [Next]_vars
  PROVE  admitted <= admitted'
<1>1. ASSUME NEW w \in Workers, AdmitWon(w) PROVE admitted <= admitted'
  BY <1>1 DEF AdmitWon, TypeOK
<1>2. CASE admitted' = admitted
  BY <1>2 DEF TypeOK
<1>. QED  BY <1>1, <1>2, AdmissionFrame

(* The cause of a reason, and that it does not go away. *)
Genuine(why) ==
  /\ why = "NodeLimit" => Capped /\ admitted = MaxNodes
  /\ why = "Cancelled" => cancelled
  /\ why = "TimeLimit" => HasClock /\ expired

LEMMA GenuineStays ==
  ASSUME TypeOK, ExactAdmission, ExactAdmission', [Next]_vars
  PROVE  \A why : Genuine(why) => Genuine(why)'
<1> SUFFICES ASSUME NEW why, Genuine(why) PROVE Genuine(why)'
  OBVIOUS
<1>1. why = "NodeLimit" => Capped /\ admitted' = MaxNodes
  <2>1. admitted <= admitted' /\ admitted \in Nat /\ admitted' \in Nat
    BY AdmittedGrows, TypeStep DEF TypeOK
  <2>2. Capped => admitted' <= MaxNodes
    BY DEF ExactAdmission
  <2>. QED  BY <2>1, <2>2 DEF Genuine
<1>2. why = "Cancelled" => cancelled'
  BY RequestsStay, Zenon DEF Genuine
<1>3. why = "TimeLimit" => HasClock /\ expired'
  BY RequestsStay, Zenon DEF Genuine
<1>. QED  BY <1>1, <1>2, <1>3 DEF Genuine

LEMMA GenuineStep ==
  ASSUME TypeOK, SeenInv, ReasonInv, ExactAdmission, ExactAdmission', ReasonIsGenuine,
         [Next]_vars
  PROVE  ReasonIsGenuine'
<1> SUFFICES ASSUME NEW i \in DOMAIN states', NEW why, why = states'[i].stop
             PROVE  Genuine(why)'
  BY DEF ReasonIsGenuine, Genuine
<1>1. \A j \in DOMAIN states : why = states[j].stop => Genuine(why)'
  <2>1. \A j \in DOMAIN states : why = states[j].stop => Genuine(why)
    BY DEF ReasonIsGenuine, Genuine
  <2>. QED  BY <2>1, GenuineStays
<1>2. CASE states' = states
  BY <1>1, <1>2
<1>3. CASE MarkTeamDone
  <2>1. Last(states).stop = TeamDone(Last(states)).stop
    BY DEF TeamDone
  <2>. QED  BY <1>1, <1>3, <2>1, MarkTeamDoneEffect, StatesFacts
<1>4. ASSUME NEW w \in Workers, NoteStop(w), states' # states PROVE Genuine(why)'
  <2>1. /\ DOMAIN states' = 1..Len(states) + 1
        /\ \A j \in 1..Len(states) : states'[j] = states[j]
        /\ states'[Len(states) + 1] = [stop |-> reason[w], done |-> FALSE]
    BY <1>4, NoteStopEffect
  <2>2. states'[Len(states) + 1].stop = reason[w]
    BY <2>1
  <2>3. Genuine(reason[w])
    <3>1. /\ reason[w] = "NodeLimit" => Capped /\ seen[w] >= MaxNodes
          /\ reason[w] = "Cancelled" => cancelled
          /\ reason[w] = "TimeLimit" => HasClock /\ expired
      BY <1>4 DEF NoteStop, ReasonInv
    <3>2. Capped => admitted <= MaxNodes /\ seen[w] <= admitted
      BY DEF ExactAdmission, SeenInv
    <3>3. Capped /\ seen[w] >= MaxNodes => admitted = MaxNodes
      BY <3>2 DEF TypeOK
    <3>. QED  BY <3>1, <3>3 DEF Genuine
  <2>4. why = reason[w] => Genuine(why)'
    BY <2>3, GenuineStays
  <2>. QED  BY <1>1, <2>1, <2>2, <2>4, StatesFacts
<1>. QED  BY StatesFrame, <1>2, <1>3, <1>4

-----------------------------------------------------------------------------
(* The inductive invariant. *)

LEMMA InvInit == Init => IInv
<1> SUFFICES ASSUME Init PROVE IInv
  OBVIOUS
<1>1. TypeOK
  BY TypeInit
<1>2. PICK spent \in Nat : Init!(spent) /\ (Capped => spent <= MaxNodes)
  BY DEF Init
<1>3. states = <<Running>> /\ Len(states) = 1 /\ DOMAIN states = {1} /\ Last(states) = Running
  BY <1>2 DEF Last
<1>4. MemoryInv
  BY <1>2, <1>3, WorkersFacts DEF MemoryInv, SeenInv, ViewInv, UnbornInv
<1>5. StopStays /\ ReasonIsGenuine
  BY <1>3 DEF StopStays, ReasonIsGenuine, Running
<1>6. PhaseInv
  BY <1>2, <1>3, WorkersFacts DEF PhaseInv, OutcomeInv, DoneInv, CauseInv, EndInv, LoopLabels,
    Ended, Running
<1>7. ReasonInv
  BY <1>2 DEF ReasonInv
<1>8. ExactAdmission
  <2> SUFFICES ASSUME Capped, NEW w \in Workers
               PROVE  admitted <= MaxNodes /\ admitted = Len(tickets)
                      /\ work[w] = Cardinality(TicketsOf(w))
    BY WorkersFacts DEF ExactAdmission
  <2>1. tickets = [t \in 1..spent |-> Principal] /\ admitted = spent
    BY <1>2
  <2>2. Len(tickets) = spent /\ DOMAIN tickets = 1..spent
    BY <2>1, <1>1, LenProperties DEF TypeOK
  <2>3. CASE w = Principal
    <3>1. TicketsOf(w) = 1..spent /\ work[w] = spent
      BY <1>2, <2>1, <2>2, <2>3 DEF TicketsOf
    <3>2. Cardinality(1..spent) = spent
      BY FS_Interval
    <3>. QED  BY <1>2, <2>1, <2>2, <3>1, <3>2
  <2>4. CASE w # Principal
    <3>1. TicketsOf(w) = {} /\ work[w] = 0
      BY <1>2, <2>1, <2>2, <2>4 DEF TicketsOf
    <3>. QED  BY <1>2, <2>1, <2>2, <3>1, FS_EmptySet
  <2>. QED  BY <2>3, <2>4
<1>. QED
  BY <1>1, <1>4, <1>5, <1>6, <1>7, <1>8 DEF IInv

LEMMA InvStep == IInv /\ [Next]_vars => IInv'
<1> SUFFICES ASSUME IInv, [Next]_vars PROVE IInv'
  OBVIOUS
<1>1. TypeOK' /\ StopStays' /\ ReasonInv' /\ ExactAdmission'
  BY TypeStep, StopStaysStep, ReasonStep, AdmissionStep DEF IInv
<1>2. MemoryInv'
  BY SeenStep, ViewStep, UnbornStep DEF IInv, MemoryInv
<1>3. PhaseInv'
  BY OutcomeStep, DoneStep, CauseStep, EndStep DEF IInv, MemoryInv, PhaseInv
<1>4. ReasonIsGenuine'
  BY <1>1, GenuineStep DEF IInv, MemoryInv
<1>. QED
  BY <1>1, <1>2, <1>3, <1>4 DEF IInv

THEOREM Invariant == Spec => []IInv
  BY InvInit, InvStep, PTL DEF Spec

-----------------------------------------------------------------------------
(* What callers rely on. *)

(* A cap of N admits at most N visits, each the work of exactly one worker. *)
THEOREM AdmissionIsExact == Spec => []ExactAdmission
<1>1. IInv => ExactAdmission
  BY DEF IInv
<1>. QED
  BY Invariant, <1>1, PTL

(* search_controlled's assertion never fails, whatever the memory model    *)
(* lets its Relaxed load return.                                           *)
THEOREM WorkIsAccounted == Spec => []AdmittedMatchesWork
<1>1. IInv => AdmittedMatchesWork
  BY DEF IInv, PhaseInv, EndInv, Ended, ExactAdmission, AdmittedMatchesWork
<1>. QED
  BY Invariant, <1>1, PTL

(* No stop is recorded without its cause. *)
THEOREM ReasonsAreGenuine == Spec => []ReasonIsGenuine
<1>1. IInv => ReasonIsGenuine
  BY DEF IInv
<1>. QED
  BY Invariant, <1>1, PTL

(* A search cut short never reports that it completed. *)
THEOREM InterruptionsAreReported == Spec => []InterruptedIsReported
<1>1. IInv => InterruptedIsReported
  <2> SUFFICES ASSUME IInv, reported # "Nothing", outcome[Principal] = "stopped"
               PROVE  reported \in Interruptions
    BY DEF InterruptedIsReported
  <2>1. reported = Last(states).stop
    BY DEF IInv, PhaseInv, EndInv
  <2>2. Last(states).stop # "Completed"
    BY DEF IInv, PhaseInv, CauseInv
  <2>3. Last(states).stop \in Terminations
    BY StatesFacts DEF IInv, StateWord
  <2>. QED  BY <2>1, <2>2, <2>3 DEF Terminations
<1>. QED
  BY Invariant, <1>1, PTL

(* The report is the newest word, and nobody is left to change it. *)
THEOREM ReportsAreFinal == Spec => []ReportedIsFinal
<1>1. IInv => ReportedIsFinal
  BY DEF IInv, PhaseInv, EndInv, ReportedIsFinal
<1>. QED
  BY Invariant, <1>1, PTL

(* Exactly one of a stop and the completion of the team wins. *)
THEOREM FirstDecisionStays == Spec => FirstDecisionWins
<1>1. ASSUME IInv, [Next]_vars
      PROVE  LET old == Last(states) new == Last(states)'
             IN /\ old.stop # "Completed" => new.stop = old.stop
                /\ old.done => new = old
  <2>1. ASSUME NEW w \in Workers, NoteStop(w), Last(states) = Running
        PROVE  Last(states).stop = "Completed" /\ ~Last(states).done
    BY <2>1 DEF Running
  <2>2. ASSUME NEW w \in Workers, NoteStop(w), Last(states) # Running
        PROVE  Last(states)' = Last(states)
    BY <1>1, <2>2, NoteStopEffect DEF IInv, Last
  <2>3. CASE MarkTeamDone
    <3>1. Last(states)'.stop = Last(states).stop
      BY <1>1, <2>3, MarkTeamDoneEffect DEF IInv, TeamDone
    <3>2. ~Last(states).done
      BY <1>1, <2>3, StatesFacts DEF IInv, PhaseInv, DoneInv, MarkTeamDone, Ended
    <3>. QED  BY <3>1, <3>2
  <2>4. CASE states' = states
    BY <2>4 DEF Last
  <2>. QED  BY <1>1, <2>1, <2>2, <2>3, <2>4, StatesFrame
<1>2. IInv /\ [Next]_vars =>
        [LET old == Last(states) new == Last(states)'
         IN /\ old.stop # "Completed" => new.stop = old.stop
            /\ old.done => new = old]_vars
  BY <1>1
<1>. QED
  BY Invariant, <1>2, PTL DEF Spec, FirstDecisionWins

-----------------------------------------------------------------------------
(* The protocol implements TeamLifecycle: every step is one of its actions *)
(* on <<decision, loops, reported>>, or leaves them alone.                 *)

Decision == IF Last(states).stop # "Completed" THEN Last(states).stop
            ELSE IF Last(states).done \/ pc[Principal] \in {"report", "returned"}
            THEN "Completed" ELSE "Undecided"

LEMMA DecisionFacts ==
  ASSUME TypeOK
  PROVE  /\ Decision = "Undecided" <=> /\ Last(states) = Running
                                       /\ pc[Principal] \notin Ended
         /\ Last(states).stop # "Completed" => Decision = Last(states).stop
         /\ pc[Principal] \in Ended => /\ Decision = Last(states).stop
                                       /\ Decision # "Undecided"
<1>1. Last(states) \in StateWord
  BY StatesFacts
<1>2. Last(states) = Running <=> Last(states).stop = "Completed" /\ ~Last(states).done
  BY <1>1 DEF StateWord, Running
<1>3. Last(states).stop # "Undecided"
  BY <1>1 DEF StateWord, Terminations, Interruptions
<1>. QED
  BY <1>2, <1>3 DEF Decision, Ended

(* The principal has completed once it has left with nothing noted. *)
LEMMA LeftUnnoted ==
  ASSUME IInv, pc[Principal] \in {"left", "mark"}, Last(states).stop = "Completed"
  PROVE  outcome[Principal] = "completed"
<1>1. outcome[Principal] # "running"
  BY WorkersFacts DEF IInv, PhaseInv, OutcomeInv, LoopLabels
<1>2. outcome[Principal] # "stopped"
  BY DEF IInv, PhaseInv, CauseInv
<1>3. outcome[Principal] \in {"running", "completed", "stopped"}
  BY WorkersFacts DEF IInv, TypeOK
<1>. QED  BY <1>1, <1>2, <1>3

LEMMA LifecycleInit == IInv /\ Init => Lifecycle!Init
<1> SUFFICES ASSUME IInv, Init PROVE Lifecycle!Init
  OBVIOUS
<1>1. states = <<Running>> /\ pc[Principal] = "spawn" /\ reported = "Nothing"
      /\ outcome = [w \in Workers |-> "running"]
  BY WorkersFacts DEF Init
<1>2. Decision = "Undecided"
  BY <1>1 DEF Decision, Last, Running
<1>. QED
  BY <1>1, <1>2 DEF Lifecycle!Init, Decision, Workers, Lifecycle!Workers

(* The steps of TeamLifecycle, on this module's state. *)
LEMMA LifecycleCases ==
  ASSUME \/ UNCHANGED <<Decision, outcome, reported>>
         \/ \E w \in Workers, why \in Interruptions :
              /\ Decision = "Undecided" /\ outcome[w] = "running"
              /\ Decision' = why /\ outcome' = [outcome EXCEPT ![w] = "stopped"]
              /\ reported' = reported
         \/ /\ Decision = "Undecided" /\ outcome[Principal] = "completed"
            /\ Decision' = "Completed" /\ UNCHANGED <<outcome, reported>>
         \/ \E w \in Workers, how \in {"completed", "stopped"} :
              /\ outcome[w] = "running" /\ (how = "stopped" => Decision # "Undecided")
              /\ outcome' = [outcome EXCEPT ![w] = how] /\ UNCHANGED <<Decision, reported>>
         \/ /\ reported = "Nothing" /\ Decision # "Undecided"
            /\ \A w \in Workers : outcome[w] # "running"
            /\ reported' = Decision /\ UNCHANGED <<Decision, outcome>>
  PROVE  [Lifecycle!Next]_(Lifecycle!lifecycle)
  BY DEF Lifecycle!Next, Lifecycle!Interrupt, Lifecycle!Complete, Lifecycle!Leave,
    Lifecycle!Report, Lifecycle!lifecycle, Decision, Lifecycle!Interruptions, Interruptions,
    Lifecycle!Workers, Workers

LEMMA DecisionFrame ==
  ASSUME TypeOK, TypeOK', [Next]_vars, states' = states,
         pc'[Principal] \in Ended <=> pc[Principal] \in Ended
  PROVE  Decision' = Decision
  BY DEF Decision, Last, Ended

(* The principal enters its last phases by LeaveAlone and Join alone. *)
LEMMA EndedFrame ==
  ASSUME TypeOK, EndInv, [Next]_vars, ~LeaveAlone, ~Join
  PROVE  pc'[Principal] \in Ended <=> pc[Principal] \in Ended
<1>1. CASE pc[Principal] \in Ended
  BY <1>1, EndQuiet, WorkersFacts DEF Report, Goto, Cancel, Expire, vars, Ended, TypeOK
<1>2. CASE pc[Principal] \notin Ended
  <2>1. ~Report
    BY <1>2 DEF Report, Ended
  <2>2. MarkTeamDoneLoad \/ MarkTeamDone => pc'[Principal] \in {"join", "mark"}
    BY WorkersFacts DEF MarkTeamDoneLoad, MarkTeamDone, Goto, TypeOK
  <2>. QED
    BY <1>2, <2>1, <2>2, PrincipalMoves DEF Ended, LoopLabels
<1>. QED  BY <1>1, <1>2

LEMMA LifecycleStep ==
  ASSUME IInv, [Next]_vars
  PROVE  [Lifecycle!Next]_(Lifecycle!lifecycle)
<1> USE DEF IInv
<1>1. TypeOK' /\ CauseInv'
  BY InvStep DEF PhaseInv
<1>2. ASSUME NEW w \in Workers, PollState(w) PROVE [Lifecycle!Next]_(Lifecycle!lifecycle)
  <2>1. states' = states /\ reported' = reported /\ outcome[w] = "running"
    BY <1>2 DEF PollState, request, PhaseInv, OutcomeInv, LoopLabels
  <2>2. ~LeaveAlone /\ ~Join
    <3>1. pc[Principal] = "poll" \/ w # Principal
      BY <1>2 DEF PollState
    <3>2. pc'[w] # pc[w]
      BY <1>2 DEF PollState, Leave, Goto, TypeOK
    <3>. QED
      BY <1>2, <3>1, <3>2 DEF LeaveAlone, Join, Goto, TypeOK
  <2>3. Decision' = Decision
    BY <1>1, <2>1, <2>2, EndedFrame, DecisionFrame DEF PhaseInv
  <2>4. CASE outcome' = outcome
    BY <2>1, <2>3, <2>4, LifecycleCases
  <2>5. CASE outcome' # outcome
    <3>1. outcome' = [outcome EXCEPT ![w] = "stopped"]
      BY <1>2, <2>5 DEF PollState, Leave
    <3>2. Last(states) # Running
      BY <1>1, <2>1, <3>1 DEF CauseInv, TypeOK, Last
    <3>. QED
      BY <2>1, <2>3, <3>1, <3>2, DecisionFacts, LifecycleCases
  <2>. QED  BY <2>4, <2>5
<1>3. ASSUME NEW w \in Workers, NoteStop(w) PROVE [Lifecycle!Next]_(Lifecycle!lifecycle)
  <2>1. /\ pc[w] = "note" /\ outcome[w] = "running" /\ reported' = reported
        /\ outcome' = [outcome EXCEPT ![w] = "stopped"]
    BY <1>3 DEF NoteStop, Leave, PhaseInv, OutcomeInv, LoopLabels
  <2>2. pc[Principal] \notin Ended
    BY <2>1 DEF PhaseInv, EndInv, Ended, Workers
  <2>3. CASE Last(states) # Running /\ states' = states
    <3>1. pc'[Principal] \notin Ended
      BY <1>3, <2>2, WorkersFacts DEF NoteStop, Leave, Goto, TypeOK, Ended
    <3>2. Decision' = Decision /\ Decision # "Undecided"
      BY <1>1, <2>2, <2>3, <3>1, DecisionFacts, DecisionFrame
    <3>. QED
      BY <2>1, <3>2, LifecycleCases
  <2>4. CASE Last(states) = Running
    <3>1. reason[w] \in Interruptions
      BY <2>1 DEF ReasonInv
    <3>2. Last(states)' = [stop |-> reason[w], done |-> FALSE]
      BY <1>3, <2>4, NoteStopEffect
    <3>3. Last(states)'.stop = reason[w]
      BY <3>2
    <3>4. Decision' = reason[w]
      BY <3>1, <3>3 DEF Decision, Interruptions
    <3>5. Decision = "Undecided"
      BY <2>2, <2>4, DecisionFacts
    <3>. QED
      BY <2>1, <3>1, <3>4, <3>5, LifecycleCases
  <2>. QED  BY <1>3, <2>3, <2>4, NoteStopEffect
<1>4. ASSUME NEW w \in Workers, EndLoop(w) PROVE [Lifecycle!Next]_(Lifecycle!lifecycle)
  <2>1. /\ outcome[w] = "running" /\ reported' = reported /\ states' = states
        /\ outcome' = [outcome EXCEPT ![w] = "completed"] /\ pc[w] = "advance"
        /\ pc' = [pc EXCEPT ![w] = "left"]
    BY <1>4 DEF EndLoop, Leave, Goto, PhaseInv, OutcomeInv, LoopLabels, request
  <2>2. pc'[Principal] \in Ended <=> pc[Principal] \in Ended
    BY <2>1, WorkersFacts DEF TypeOK, Ended
  <2>3. Decision' = Decision
    BY <1>1, <2>1, <2>2, DecisionFrame
  <2>. QED
    BY <2>1, <2>3, LifecycleCases
<1>5. CASE Report
  <2>1. /\ outcome' = outcome /\ states' = states /\ pc[Principal] = "report"
        /\ pc'[Principal] = "returned"
    BY <1>5, WorkersFacts DEF Report, request, Goto, TypeOK
  <2>2. Decision' = Decision
    BY <1>1, <2>1, DecisionFrame DEF Ended
  <2>3. reported = "Nothing" /\ reported' = Last(states).stop
    <3>1. EndInv /\ EndInv'
      BY InvStep DEF PhaseInv
    <3>. QED
      BY <2>1, <3>1 DEF EndInv, Last
  <2>4. Decision # "Undecided" /\ Decision = Last(states).stop
    <3>1. pc[Principal] \in Ended
      BY <2>1 DEF Ended
    <3>. QED
      BY <3>1, DecisionFacts
  <2>5. \A w \in Workers : outcome[w] # "running"
    BY <2>1 DEF PhaseInv, EndInv, OutcomeInv, Ended, LoopLabels, Workers
  <2>. QED
    BY <2>1, <2>2, <2>3, <2>4, <2>5, LifecycleCases
<1>6. CASE MarkTeamDone
  <2>1. /\ outcome' = outcome /\ reported' = reported /\ pc[Principal] = "mark"
        /\ Last(states)' = TeamDone(Last(states))
    BY <1>6, MarkTeamDoneEffect DEF MarkTeamDone, result
  <2>2. Last(states)'.stop = Last(states).stop /\ Last(states)'.done
    BY <2>1 DEF TeamDone
  <2>3. CASE Last(states).stop # "Completed"
    BY <2>1, <2>2, <2>3, LifecycleCases DEF Decision
  <2>4. CASE Last(states).stop = "Completed"
    <3>1. ~Last(states).done
      BY <2>1, StatesFacts DEF PhaseInv, DoneInv, Ended
    <3>2. Decision = "Undecided" /\ Decision' = "Completed"
      BY <2>1, <2>2, <2>4, <3>1 DEF Decision
    <3>. QED
      BY <2>1, <2>4, <3>2, LeftUnnoted, LifecycleCases
  <2>. QED  BY <2>3, <2>4
<1>7. CASE LeaveAlone
  <2>1. /\ outcome' = outcome /\ reported' = reported /\ pc[Principal] = "left"
        /\ states' = states /\ pc'[Principal] = "report"
    BY <1>7, WorkersFacts DEF LeaveAlone, result, request, Goto, TypeOK
  <2>2. ~Last(states).done
    BY <2>1, StatesFacts DEF PhaseInv, DoneInv, Ended
  <2>3. CASE Last(states).stop # "Completed"
    BY <2>1, <2>3, LifecycleCases DEF Decision, Last
  <2>4. CASE Last(states).stop = "Completed"
    <3>1. Decision = "Undecided" /\ Decision' = "Completed"
      BY <2>1, <2>2, <2>4 DEF Decision, Last
    <3>. QED
      BY <2>1, <2>4, <3>1, LeftUnnoted, LifecycleCases
  <2>. QED  BY <2>3, <2>4
<1>8. CASE Join
  <2>1. /\ outcome' = outcome /\ reported' = reported /\ pc[Principal] = "join"
        /\ states' = states
    BY <1>8 DEF Join, result, request
  <2>2. Last(states).done
    BY <2>1 DEF PhaseInv, DoneInv
  <2>. QED
    BY <2>1, <2>2, LifecycleCases DEF Decision, Last
<1>9. CASE outcome' = outcome /\ states' = states /\ ~Report /\ ~LeaveAlone /\ ~Join
  <2>1. reported' = reported
    BY <1>9, ReportedFrame
  <2>2. Decision' = Decision
    BY <1>1, <1>9, EndedFrame, DecisionFrame DEF PhaseInv
  <2>. QED
    BY <1>9, <2>1, <2>2, LifecycleCases
<1>. QED
  BY StatesFrame, OutcomeFrame, <1>2, <1>3, <1>4, <1>5, <1>6, <1>7, <1>8, <1>9

(* The atomics, the polls and the join implement the lifecycle a caller   *)
(* relies on: one decision, taken before anybody is interrupted, reported *)
(* once after every helper has left.                                      *)
THEOREM Implementation == Spec => ImplementsLifecycle
<1>1. IInv /\ Init => Lifecycle!Init
  BY LifecycleInit
<1>2. IInv /\ [Next]_vars => [Lifecycle!Next]_(Lifecycle!lifecycle)
  BY LifecycleStep
<1>. QED
  BY Invariant, <1>1, <1>2, PTL DEF Spec, ImplementsLifecycle, Lifecycle!Spec
=============================================================================
