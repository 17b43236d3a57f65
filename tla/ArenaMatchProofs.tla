-------------------------- MODULE ArenaMatchProofs --------------------------
(***************************************************************************)
(* Proofs about a game of the Arena, for every clock, every length of the  *)
(* queues and the pipes, and every number of plies, lines and chats.       *)
(*                                                                         *)
(* The argument.  A request and its answer pass through seven places: the  *)
(* commands still to send, the channel to the writer, the pipe to the      *)
(* program, what the program owes, its pipe back, the reader's hand and    *)
(* the channel of lines.  Requests and answers are Counted, chat and the   *)
(* lines around a request are not.  At most one counted line is anywhere   *)
(* (Total <= 1), it bears the number of the turn (LinesOf), and between    *)
(* two turns there is none (Settled => Total = 0): whatever step moves a   *)
(* line takes it from one place and puts it in the next one (TakeLoad,     *)
(* PutLoad).  So the answer a turn is judged by is its own.  A failure is  *)
(* traced to its cause: a thread only ends, a write only fails and the     *)
(* lines only close once the program is dead (DeathInv, Heard).  The       *)
(* manager is followed by its arithmetic alone (CompletedIs).              *)
(***************************************************************************)
EXTENDS ArenaMatch, TLAPS

(* The places of play_game. *)
Places == {"send", "ack", "reply", "judge", "ready", "turn", "search", "kill", "dropped", "join", "closed"}

(* What a manager of the clock holds. *)
Managers == [soft : Nat, ceiling : Nat, known : BOOLEAN, stable : Nat, pressure : Nat,
             elapsed : Nat, cost : Nat, growth : Nat, stop : BOOLEAN]

(* The type invariant, but for the queues. *)
TypeOK ==
  /\ ply \in Nat /\ clocks \in [Players -> Nat] /\ spent \in Nat
  /\ manager \in Managers /\ depth \in Nat
  /\ asks \in Nat /\ lines \in Nat /\ chat \in Nat
  /\ choice \in [kind : {"none", "own", "move", "error"}, ask : Nat]
  /\ result \in [winner : Players \cup {"nobody", "draw"}, failure : {"none", "startup", "error", "time"}]
  /\ pc \in Places
  /\ writer \in {"recv", "ok", "failed", "exited"} /\ reader \in {"read", "send", "exited"}
  /\ child \in {"alive", "dead"}

(* What play_game says, and what the program says when it is asked. *)
Orders == {"START", "INFO", "BEGIN", "BOARD", "STONE", "DONE", "TURN"}
Answers == {"OK", "ERROR", "move", "illegal"}
Counted == Requests \cup Answers

(* Lines of some kinds in turn n: a counted one bears its number, only the *)
(* startup asks for an OK, only a turn for a move.                         *)
LinesOf(kinds, n) ==
  {line \in [kind : kinds, ask : Nat] :
     /\ line.kind \in Counted => line.ask = n
     /\ line.kind \in {"START", "OK"} => n = 0
     /\ line.kind \in {"BEGIN", "DONE", "TURN", "move", "illegal"} => n > 0}

(* What a dead program adds, and what the reader may hear. *)
Once(state, alive, dying) == IF state = "dead" THEN alive \cup dying ELSE alive
Heard(state) == Once(state, Answers \cup {"chat", "none"}, {"closed"})

(* Every queue holds lines of the turn, each of a kind that comes that     *)
(* way.                                                                    *)
TrafficInv ==
  /\ script \in Seq(LinesOf(Orders, asks))
  /\ commands \in Seq(LinesOf(Orders, asks))
  /\ stdin \in Seq(LinesOf(Orders, asks))
  /\ owed \in Seq(LinesOf(Requests, asks))
  /\ stdout \in Seq(LinesOf(Answers \cup {"chat"}, asks))
  /\ held \in LinesOf(Heard(child), asks)
  /\ output \in Seq(LinesOf(Heard(child), asks))

(* No thread fails or ends before the program is dead. *)
DeathInv ==
  /\ acks \in Seq(Once(child, {"ok"}, {"failed"}))
  /\ writer \in {"failed", "exited"} \/ reader = "exited" \/ pc \in {"dropped", "join", "closed"}
       => child = "dead"

(* How many counted lines there are: a queue is quiet, or holds one. *)
Weight(line) == IF line.kind \in Counted THEN 1 ELSE 0
Quiet(q) == \A i \in DOMAIN q : q[i].kind \notin Counted
Single(q) == \A i, j \in DOMAIN q : q[i].kind \in Counted /\ q[j].kind \in Counted => i = j
Load(q) == IF Quiet(q) THEN 0 ELSE 1

(* The commands still to send; one that is sent waits for its              *)
(* acknowledgement.                                                        *)
Unsent == IF pc = "send" THEN script ELSE IF pc = "ack" THEN Tail(script) ELSE <<>>

Total == Load(Unsent) + Load(commands) + Load(stdin) + Load(owed) + Load(stdout)
           + Weight(held) + Load(output)

(* Nothing is asked: before and after a turn, and for the INFO lines at    *)
(* the start.                                                              *)
Greeting == asks = 0 /\ pc \in {"send", "ack"}
Settled ==
  \/ pc \in {"ready", "turn", "search"}
  \/ pc = "judge" /\ choice.kind \in {"own", "move"}
  \/ Greeting /\ Head(script).kind = "INFO"

(* At most one counted line is on its way, and none between two turns. *)
LoadInv ==
  /\ Single(Unsent) /\ Single(commands) /\ Single(stdin) /\ Single(owed)
  /\ Single(stdout) /\ Single(output)
  /\ Total <= 1
  /\ Settled => Total = 0

(* What a script is for; the turn of the program is its own. *)
ScriptInv ==
  /\ pc \in {"send", "ack"} => script # <<>>
  /\ Greeting => Len(script) = 1 \/ \A i \in DOMAIN script : script[i].kind = "INFO"
  /\ asks > 0 /\ pc \in {"send", "ack", "reply"} => Mover = External
  /\ pc = "judge" => choice.kind # "none"

(* A manager that has not stopped its search has kept the reserve. *)
WatchInv == manager.known => manager.elapsed < manager.ceiling

(* The inductive invariant. *)
IInv ==
  /\ TypeOK /\ TrafficInv /\ DeathInv /\ LoadInv /\ ScriptInv /\ WatchInv
  /\ AnswersTheTurn /\ FailuresAreDeserved

-----------------------------------------------------------------------------

(* A load is zero or one. *)
LEMMA LoadIs ==
  ASSUME NEW q
  PROVE  Load(q) \in {0, 1} /\ Weight(q) \in {0, 1}
BY DEF Load, Weight

(* An empty queue is quiet. *)
LEMMA NothingUnsent == Load(<<>>) = 0 /\ Single(<<>>)
BY DEF Load, Quiet, Single

(* What is left of a sequence of one is nothing. *)
LEMMA TailIs ==
  ASSUME NEW S, NEW q \in Seq(S), q # <<>>, Tail(q) # <<>>
  PROVE  Len(q) # 1
<1>1. Tail(q) \in Seq(S) /\ Len(Tail(q)) = Len(q) - 1
  OBVIOUS
<1>2. Len(Tail(q)) # 0
  BY <1>1
<1> QED
  BY <1>1, <1>2

(* Taking the first line takes its weight off the queue. *)
LEMMA TakeLoad ==
  ASSUME NEW S, NEW q \in Seq(S), q # <<>>, Single(q)
  PROVE  Single(Tail(q)) /\ Load(Tail(q)) + Weight(Head(q)) <= Load(q)
<1>1. /\ DOMAIN q = 1..Len(q) /\ Len(q) \in Nat \ {0} /\ Head(q) = q[1]
      /\ DOMAIN Tail(q) = 1..(Len(q) - 1)
      /\ \A i \in 1..(Len(q) - 1) : Tail(q)[i] = q[i + 1]
  OBVIOUS
<1>2. Single(Tail(q))
  BY <1>1 DEF Single
<1>3. CASE Head(q).kind \in Counted
  <2>1. Quiet(Tail(q))
    BY <1>1, <1>3 DEF Single, Quiet
  <2>2. ~Quiet(q)
    BY <1>1, <1>3 DEF Quiet
  <2> QED
    BY <1>2, <1>3, <2>1, <2>2 DEF Load, Weight
<1>4. CASE Head(q).kind \notin Counted
  <2>1. Quiet(q) => Quiet(Tail(q))
    BY <1>1 DEF Quiet
  <2> QED
    BY <1>2, <1>4, <2>1 DEF Load, Weight
<1> QED
  BY <1>3, <1>4

(* Putting a line adds its weight, where there is room for it. *)
LEMMA PutLoad ==
  ASSUME NEW S, NEW q \in Seq(S), NEW line, Single(q), Load(q) + Weight(line) <= 1
  PROVE  Single(Append(q, line)) /\ Load(Append(q, line)) <= Load(q) + Weight(line)
<1> DEFINE r == Append(q, line)
<1>1. /\ DOMAIN q = 1..Len(q) /\ Len(q) \in Nat /\ DOMAIN r = 1..(Len(q) + 1)
      /\ r[Len(q) + 1] = line /\ \A i \in 1..Len(q) : r[i] = q[i]
  OBVIOUS
<1> HIDE DEF r
<1>2. CASE line.kind \in Counted
  <2>1. Quiet(q)
    BY <1>2 DEF Load, Weight
  <2>2. \A i \in DOMAIN r : r[i].kind \in Counted => i = Len(q) + 1
    BY <1>1, <2>1 DEF Quiet
  <2>3. Single(r)
    BY <2>2 DEF Single
  <2> QED
    BY <1>2, <2>1, <2>3 DEF r, Load, Weight
<1>3. CASE line.kind \notin Counted
  <2>1. Single(r)
    BY <1>1, <1>3 DEF Single
  <2>2. Quiet(q) => Quiet(r)
    BY <1>1, <1>3 DEF Quiet
  <2> QED
    BY <1>3, <2>1, <2>2 DEF r, Load, Weight
<1> QED
  BY <1>2, <1>3

(* More kinds, more lines. *)
LEMMA LinesGrow ==
  ASSUME NEW K, NEW L, K \subseteq L, NEW n
  PROVE  /\ LinesOf(K, n) \subseteq LinesOf(L, n)
         /\ \A q \in Seq(LinesOf(K, n)) : q \in Seq(LinesOf(L, n))
<1>1. LinesOf(K, n) \subseteq LinesOf(L, n)
  BY DEF LinesOf
<1> QED
  BY <1>1

(* What is quiet is nobody's answer. *)
LEMMA LinesStay ==
  ASSUME NEW K, NEW n, NEW m, NEW q \in Seq(LinesOf(K, n)), Load(q) = 0
  PROVE  q \in Seq(LinesOf(K, m))
<1>1. DOMAIN q = 1..Len(q) /\ Len(q) \in Nat /\ \A i \in 1..Len(q) : q[i] \in LinesOf(K, n)
  OBVIOUS
<1>2. \A i \in 1..Len(q) : q[i].kind \notin Counted
  BY <1>1 DEF Load, Quiet
<1>3. \A i \in 1..Len(q) : q[i] \in LinesOf(K, m)
  BY <1>1, <1>2 DEF LinesOf, Counted, Requests, Answers
<1>4. q = [i \in 1..Len(q) |-> q[i]]
  OBVIOUS
<1> QED
  BY <1>1, <1>3, <1>4

(* No queue is touched. *)
LEMMA TrafficStays ==
  ASSUME TrafficInv, UNCHANGED <<script, commands, stdin, owed, stdout, held, output, asks, child>>
  PROVE  TrafficInv'
BY DEF TrafficInv

(* No counted line moves. *)
LEMMA LoadStays ==
  ASSUME LoadInv, UNCHANGED <<commands, stdin, owed, stdout, held, output>>, Unsent' = Unsent,
         Settled' => Settled
  PROVE  LoadInv'
BY DEF LoadInv, Total

(* The less of two numbers. *)
LEMMA LessOfTwo ==
  ASSUME NEW a \in Nat, NEW b \in Nat
  PROVE  /\ Min({a, b}) \in Nat /\ Min({a, b}) <= a /\ Min({a, b}) <= b
<1>1. \E x \in {a, b} : \A y \in {a, b} : x <= y
  OBVIOUS
<1>2. Min({a, b}) \in {a, b} /\ \A y \in {a, b} : Min({a, b}) <= y
  BY <1>1, Zenon DEF Min
<1> QED
  BY <1>2

(* The greater of two numbers. *)
LEMMA MoreOfTwo ==
  ASSUME NEW a \in Nat, NEW b \in Nat
  PROVE  /\ Max({a, b}) \in Nat /\ Max({a, b}) >= a /\ Max({a, b}) >= b
<1>1. \E x \in {a, b} : \A y \in {a, b} : x >= y
  OBVIOUS
<1>2. Max({a, b}) \in {a, b} /\ \A y \in {a, b} : Max({a, b}) >= y
  BY <1>1, Zenon DEF Max
<1> QED
  BY <1>2

(* A saturating subtraction is a number. *)
LEMMA LessIsNatural ==
  ASSUME NEW a \in Nat, NEW b \in Nat
  PROVE  Less(a, b) \in Nat
BY DEF Less

(* A quotient is a number. *)
LEMMA Quotient ==
  ASSUME NEW a \in Nat, NEW b \in Nat \ {0}
  PROVE  a \div b \in Nat
OBVIOUS

(* A product is a number. *)
LEMMA Product ==
  ASSUME NEW a \in Nat, NEW b \in Nat
  PROVE  a * b \in Nat
OBVIOUS

(* The reserve leaves something. *)
LEMMA CeilingIs ==
  ASSUME NEW hard \in Nat
  PROVE  Ceiling(hard) \in Nat
BY DEF Ceiling

(* TimeManager::new: a manager that knows of no iteration. *)
LEMMA NewManagerIs ==
  ASSUME NEW remaining \in Nat, NEW increment \in Nat, NEW turn \in Nat
  PROVE  NewManager(remaining, increment, turn) \in Managers
         /\ ~NewManager(remaining, increment, turn).known
<1> DEFINE ceiling == Ceiling(Min({remaining, turn}))
           wish == remaining \div 20 + (increment \div 4) * 3
           soft == Min({wish, ceiling})
<1>1. ceiling \in Nat
  BY LessOfTwo, CeilingIs
<1>2. wish \in Nat
  OBVIOUS
<1>3. soft \in Nat
  <2> HIDE DEF ceiling, wish
  <2> QED
    BY <1>1, <1>2, LessOfTwo
<1>4. NewManager(remaining, increment, turn) =
        [soft |-> soft, ceiling |-> ceiling, known |-> FALSE, stable |-> 0, pressure |-> 0,
         elapsed |-> 0, cost |-> 0, growth |-> GrowthInitial, stop |-> FALSE]
  BY DEF NewManager
<1> HIDE DEF soft, ceiling
<1> QED
  BY <1>1, <1>3, <1>4 DEF Managers, GrowthInitial

(* However much pressure there is, the budget is within the ceiling. *)
LEMMA BudgetIs ==
  ASSUME NEW m \in Managers, NEW stable \in Nat, NEW pressure \in Nat
  PROVE  Budget(m, stable, pressure) \in Nat /\ Budget(m, stable, pressure) <= m.ceiling
<1> DEFINE pressed == m.soft + (m.soft \div 8) * pressure
           relaxed == IF stable >= Stability THEN pressed - pressed \div 4 ELSE pressed
<1>1. m.soft \in Nat /\ m.ceiling \in Nat
  BY DEF Managers
<1>2. pressed \in Nat
  <2>1. m.soft \div 8 \in Nat
    BY <1>1
  <2>2. (m.soft \div 8) * pressure \in Nat
    BY <2>1, Product
  <2> QED
    BY <1>1, <2>2
<1> HIDE DEF pressed
<1>3. relaxed \in Nat
  BY <1>2, StabilityAssumption
<1>4. Budget(m, stable, pressure) = Min({relaxed, m.ceiling})
  BY DEF Budget, pressed
<1> HIDE DEF relaxed
<1> QED
  BY <1>1, <1>3, <1>4, LessOfTwo

(* The smoothed growth is a number; the cost it divides by is not zero. *)
LEMMA GrowthIs ==
  ASSUME NEW m \in Managers, NEW cost \in Nat
  PROVE  Growth(m, cost) \in Nat
<1>1. m.cost \in Nat /\ m.growth \in Nat
  BY DEF Managers
<1>2. CASE m.cost = 0
  BY <1>1, <1>2 DEF Growth
<1>3. CASE m.cost # 0
  <2> DEFINE fresh == (cost * 256) \div m.cost
  <2>1. fresh \in Nat
    <3>1. cost * 256 \in Nat
      OBVIOUS
    <3> QED
      BY <1>1, <1>3, <3>1, Quotient
  <2> HIDE DEF fresh
  <2>2. Min({GrowthMax, fresh}) \in Nat
    BY <2>1, LessOfTwo DEF GrowthMax
  <2>3. Clamped(fresh) \in Nat
    BY <2>2, MoreOfTwo DEF Clamped, GrowthMin
  <2>4. Growth(m, cost) = (GrowthWeight * m.growth + Clamped(fresh)) \div (GrowthWeight + 1)
    BY <1>3 DEF Growth, fresh
  <2> QED
    BY <1>1, <2>3, <2>4 DEF GrowthWeight
<1> QED
  BY <1>2, <1>3

(* completed_info: a search that goes on has not touched the ceiling. *)
LEMMA CompletedIs ==
  ASSUME NEW m \in Managers, NEW info \in Infos, NEW elapsed \in Nat, elapsed >= m.elapsed
  PROVE  /\ Completed(m, info, elapsed) \in Managers
         /\ ~Completed(m, info, elapsed).stop =>
              Completed(m, info, elapsed).elapsed < Completed(m, info, elapsed).ceiling
<1> DEFINE cost == elapsed - m.elapsed
           stable == Stable(m, info)
           pressure == Pressure(m, info)
           budget == Budget(m, stable, pressure)
           growth == Growth(m, cost)
           next == (cost * growth) \div 256
           stop == info.proof \/ elapsed >= budget \/ elapsed + next >= budget
           after == Completed(m, info, elapsed)
<1>1. m.elapsed \in Nat /\ m.stable \in Nat /\ m.pressure \in Nat /\ m.ceiling \in Nat
  BY DEF Managers
<1>2. cost \in Nat
  BY <1>1
<1>3. stable \in Nat
  <2>1. m.stable + 1 \in Nat /\ Stability \in Nat
    BY <1>1, StabilityAssumption
  <2>2. Min({m.stable + 1, Stability}) \in Nat
    BY <2>1, LessOfTwo
  <2> QED
    BY <2>2 DEF Stable
<1>4. pressure \in Nat
  <2>1. Less(m.pressure, 1) \in Nat
    BY <1>1 DEF Less
  <2> QED
    BY <1>1, <2>1 DEF Pressure
<1>5. after = [m EXCEPT !.known = TRUE, !.stable = stable, !.pressure = pressure,
                        !.elapsed = elapsed, !.cost = cost, !.growth = growth, !.stop = stop]
  BY DEF Completed
<1> HIDE DEF stable, pressure
<1>6. budget \in Nat /\ budget <= m.ceiling
  BY <1>3, <1>4, BudgetIs
<1> HIDE DEF cost
<1>7. growth \in Nat
  BY <1>2, GrowthIs
<1> HIDE DEF budget, growth
<1>8. stop \in BOOLEAN
  BY DEF Infos
<1>9. ~stop => elapsed < budget
  BY <1>6
<1> HIDE DEF stop, after
<1>10. /\ after \in Managers /\ after.elapsed = elapsed /\ after.ceiling = m.ceiling
       /\ after.stop = stop
  BY <1>2, <1>3, <1>4, <1>5, <1>7, <1>8 DEF Managers
<1>11. ~after.stop => after.elapsed < after.ceiling
  BY <1>1, <1>6, <1>9, <1>10
<1> QED
  BY <1>10, <1>11 DEF after

-----------------------------------------------------------------------------

(* Each player has an opponent. *)
LEMMA PlayersAre ==
  /\ Internal \in Players /\ External \in Players
  /\ \A p \in Players : Opponent(p) \in Players
<1>1. ASSUME NEW p \in Players PROVE \E q \in Players : q # p
  BY ArenaAssumption DEF Players
<1> QED
  BY <1>1, Zenon DEF Players, Opponent

(* Somebody is on the move. *)
LEMMA MoverIs ==
  Mover \in Players
BY PlayersAre, ArenaAssumption DEF Mover, Players

(* Deadlines and what is left of a clock are numbers. *)
LEMMA LimitsAre ==
  ASSUME TypeOK
  PROVE  Limit \in Nat /\ \A p \in Players : Hard(p) \in Nat /\ Paid(p) \in Nat
<1>1. TurnLimit \in Nat /\ StartLimit \in Nat
  BY ArenaAssumption
<1>2. ASSUME NEW p \in Players PROVE Hard(p) \in Nat /\ Paid(p) \in Nat
  <2>1. clocks[p] \in Nat /\ spent \in Nat
    BY DEF TypeOK
  <2>2. Hard(p) \in Nat
    BY <1>1, <2>1, LessOfTwo DEF Hard
  <2>3. Paid(p) \in Nat
    BY <2>1, LessIsNatural DEF Paid
  <2> QED
    BY <2>2, <2>3
<1> QED
  BY <1>1, <1>2, PlayersAre DEF Limit

(* The types at the start. *)
LEMMA InitTypes == Init => TypeOK
<1> SUFFICES ASSUME Init PROVE TypeOK
  OBVIOUS
<1>1. OpeningPlies \in Nat /\ Clock \in Nat
  BY ArenaAssumption
<1>2. manager \in Managers
  BY NewManagerIs DEF Init, NoManager
<1> QED
  BY <1>1, <1>2 DEF Init, TypeOK, NoChoice, NoResult, Places

(* Every step keeps the types. *)
LEMMA TypeKept ==
  ASSUME TypeOK, TrafficInv, [Next]_vars
  PROVE  TypeOK'
<1> USE DEF Places
<1>1. CASE Send
  BY <1>1 DEF TypeOK, Send, game, search, talk, threads, program
<1>2. CASE Acknowledged
  BY <1>2 DEF TypeOK, Acknowledged, Fails, AfterScript, game, search, threads, program
<1>3. CASE SendFails
  BY <1>3 DEF TypeOK, SendFails, Fails, game, search, threads, program
<1>4. CASE ReadChat
  BY <1>4 DEF TypeOK, ReadChat, game, search, threads, program
<1>5. CASE ReplyFails
  BY <1>5 DEF TypeOK, ReplyFails, Fails, game, search, threads, program
<1>6. CASE Answer
  <2>1. output # <<>> /\ output \in Seq(LinesOf(Heard(child), asks))
    BY <1>6 DEF Answer, TrafficInv
  <2>2. Head(output) \in LinesOf(Heard(child), asks)
    BY <2>1
  <2>3. Head(output).kind = "move" => Head(output) \in [kind : {"move"}, ask : Nat]
    BY <2>2 DEF LinesOf
  <2>4. choice' \in [kind : {"none", "own", "move", "error"}, ask : Nat] /\ pc' \in Places
    <3>1. \/ choice' = choice \/ choice' = [kind |-> "error", ask |-> asks]
          \/ choice' = Head(output) /\ Head(output).kind = "move"
      <4>1. CASE Head(output).kind = "OK" /\ asks = 0
        BY <1>6, <4>1 DEF Answer
      <4>2. CASE ~(Head(output).kind = "OK" /\ asks = 0)
        BY <1>6, <4>2, Zenon DEF Answer
      <4> QED
        BY <4>1, <4>2
    <3>2. pc' \in Places
      BY <1>6 DEF Answer
    <3> QED
      BY <2>3, <3>1, <3>2 DEF TypeOK
  <2> HIDE DEF Places
  <2> QED
    BY <1>6, <2>4 DEF TypeOK, Answer, game, search, threads, program
<1>7. CASE Ready
  <2>1. Paid(External) \in Nat
    BY LimitsAre, PlayersAre
  <2> QED
    <3>1. clocks' \in [Players -> Nat]
      BY <1>7, <2>1 DEF TypeOK, Ready
    <3> QED
      BY <1>7, <3>1 DEF TypeOK, Ready, search, talk, threads, program
<1>8. CASE StartFails
  BY <1>8, PlayersAre DEF TypeOK, StartFails, search, talk, threads, program
<1>9. CASE AskExternal
  BY <1>9 DEF TypeOK, AskExternal, search, threads, program
<1>10. CASE SearchInternal
  <2>1. /\ Scale * clocks[Internal] \in Nat /\ Scale * Increment \in Nat
        /\ Scale * TurnLimit \in Nat
    <3>1. clocks[Internal] \in Nat
      BY PlayersAre DEF TypeOK
    <3> QED
      BY <3>1, ArenaAssumption, Product
  <2>2. manager' \in Managers
    BY <1>10, <2>1, NewManagerIs DEF SearchInternal
  <2> QED
    BY <1>10, <2>2 DEF TypeOK, SearchInternal, game, talk, threads, program
<1>11. CASE IterationEnds
  <2>1. manager' \in Managers /\ depth' \in Nat
        /\ pc' \in {pc, "judge"} /\ choice' \in {choice, [kind |-> "own", ask |-> asks]}
        /\ UNCHANGED <<game, spent, script, lines, threads, program>>
    <3>1. PICK info \in Infos : \E elapsed \in {t \in Watch : t >= manager.elapsed} :
            LET after == Completed(manager, info, elapsed)
            IN IF after.stop THEN Own /\ EndSearch
               ELSE manager' = after /\ depth' = depth + 1 /\ UNCHANGED <<pc, choice>>
      BY <1>11 DEF IterationEnds
    <3>2. PICK elapsed \in {t \in Watch : t >= manager.elapsed} :
            IF Completed(manager, info, elapsed).stop THEN Own /\ EndSearch
            ELSE manager' = Completed(manager, info, elapsed) /\ depth' = depth + 1 /\ UNCHANGED <<pc, choice>>
      BY <3>1
    <3>3. elapsed \in Nat
      <4>1. PICK f \in Fractions : elapsed = Scale * spent + f
        BY DEF Watch
      <4>2. f \in Nat /\ Scale \in Nat /\ spent \in Nat
        BY ArenaAssumption DEF TypeOK
      <4> QED
        BY <4>1, <4>2, Product
    <3>4. Completed(manager, info, elapsed) \in Managers
      BY <3>3, CompletedIs DEF TypeOK
    <3>5. CASE Completed(manager, info, elapsed).stop
      BY <1>11, <3>2, <3>5, NewManagerIs DEF Own, EndSearch, IterationEnds, NoManager, TypeOK
    <3>6. CASE ~Completed(manager, info, elapsed).stop
      BY <1>11, <3>2, <3>4, <3>6 DEF IterationEnds, TypeOK
    <3> QED
      BY <3>5, <3>6
  <2> QED
    BY <2>1 DEF TypeOK, game, threads, program
<1>12. CASE SearchEnds
  <2>1. manager' \in Managers
    BY <1>12, NewManagerIs DEF SearchEnds, EndSearch, NoManager
  <2> QED
    BY <1>12, <2>1 DEF TypeOK, SearchEnds, Own, EndSearch, game, threads, program
<1>13. CASE Play
  <2>1. Paid(Mover) + Increment \in Nat
    BY LimitsAre, MoverIs, ArenaAssumption
  <2>2. clocks' \in [Players -> Nat] /\ ply' \in Nat /\ choice' = NoChoice
        /\ UNCHANGED <<asks, spent, search, lines, threads, program>>
    <3>1. clocks' = [clocks EXCEPT ![Mover] = Paid(Mover) + Increment] /\ ply' = ply + 1
          /\ choice' = NoChoice
      BY <1>13 DEF Play
    <3>2. clocks' \in [Players -> Nat]
      BY <2>1, <3>1 DEF TypeOK
    <3>3. UNCHANGED <<asks, spent, search, lines, threads, program>>
      BY <1>13 DEF Play
    <3>4. ply' \in Nat
      BY <3>1 DEF TypeOK
    <3> QED
      BY <3>1, <3>2, <3>3, <3>4
  <2>3. /\ pc' \in {"turn", "kill"}
        /\ result' = result \/ result' \in {[winner |-> w, failure |-> "none"] : w \in {Mover, "draw"}}
    BY <1>13 DEF Play
  <2>4. result' \in [winner : Players \cup {"nobody", "draw"}, failure : {"none", "startup", "error", "time"}]
    BY <2>3, MoverIs DEF TypeOK
  <2> HIDE <1>13
  <2> QED
    BY <2>2, <2>3, <2>4 DEF TypeOK, search, threads, program, NoChoice
<1>14. CASE Forfeit
  <2>1. Paid(Mover) \in Nat
    BY LimitsAre, MoverIs
  <2>2. clocks' \in [Players -> Nat]
    BY <1>14, <2>1 DEF Forfeit, TypeOK
  <2>3. result' \in [winner : Players \cup {"nobody", "draw"}, failure : {"none", "startup", "error", "time"}]
    <3>1. Opponent(Mover) \in Players
      BY MoverIs, PlayersAre
    <3> QED
      BY <1>14, <3>1 DEF Forfeit
  <2> QED
    BY <1>14, <2>2, <2>3 DEF TypeOK, Forfeit, search, talk, threads, program
<1>15. CASE Kill
  BY <1>15 DEF TypeOK, Kill, game, search, talk, threads
<1>16. CASE JoinWriter
  BY <1>16 DEF TypeOK, JoinWriter, game, search, talk, threads, program
<1>17. CASE JoinReader
  BY <1>17 DEF TypeOK, JoinReader, game, search, talk, threads, program
<1>18. CASE Writer
  <2>1. UNCHANGED <<game, spent, search, pc, talk, reader, program>>
    BY <1>18 DEF Writer, WriterWrites, WriterAcknowledges, WriterEnds
  <2>2. writer' \in {"recv", "ok", "failed", "exited"}
    BY <1>18 DEF Writer, WriterWrites, WriterAcknowledges, WriterEnds
  <2> QED
    BY <2>1, <2>2 DEF TypeOK, game, search, talk, program
<1>19. CASE Reader
  <2>1. UNCHANGED <<game, spent, search, pc, talk, writer, program>>
    BY <1>19 DEF Reader, ReaderReads, ReaderSends, ReaderEnds
  <2>2. reader' \in {"read", "send", "exited"}
    BY <1>19 DEF Reader, ReaderReads, ReaderSends, ReaderEnds
  <2> QED
    BY <2>1, <2>2 DEF TypeOK, game, search, talk, program
<1>20. CASE Program
  <2>1. UNCHANGED <<game, spent, search, pc, talk, threads>>
    BY <1>20 DEF Program, ProgramReads, ProgramAnswers, ProgramChats, ProgramExits
  <2>2. child' \in {"alive", "dead"} /\ chat' \in Nat
    BY <1>20 DEF Program, ProgramReads, ProgramAnswers, ProgramChats, ProgramExits, TypeOK
  <2> QED
    BY <2>1, <2>2 DEF TypeOK, game, search, talk, threads
<1>21. CASE Tick
  BY <1>21 DEF TypeOK, Tick, game, search, talk, threads, program
<1>22. CASE UNCHANGED vars
  BY <1>22 DEF TypeOK, vars, game, search, talk, threads, program
<1> QED
  BY <1>1, <1>2, <1>3, <1>4, <1>5, <1>6, <1>7, <1>8, <1>9, <1>10, <1>11, <1>12, <1>13, <1>14,
     <1>15, <1>16, <1>17, <1>18, <1>19, <1>20, <1>21, <1>22 DEF Next, Main

-----------------------------------------------------------------------------

(* A quiet sequence before one that is counted. *)
LEMMA JoinLoad ==
  ASSUME NEW S, NEW q \in Seq(S), NEW r \in Seq(S), Quiet(q), Single(r)
  PROVE  /\ q \o r \in Seq(S) /\ Single(q \o r)
         /\ Quiet(r) => Quiet(q \o r)
<1> DEFINE s == q \o r
<1>1. /\ s \in Seq(S) /\ DOMAIN s = 1..(Len(q) + Len(r)) /\ Len(q) \in Nat /\ Len(r) \in Nat
      /\ DOMAIN q = 1..Len(q) /\ DOMAIN r = 1..Len(r)
      /\ \A i \in 1..(Len(q) + Len(r)) : s[i] = IF i <= Len(q) THEN q[i] ELSE r[i - Len(q)]
  OBVIOUS
<1> HIDE DEF s
<1>2. \A i \in DOMAIN s : s[i].kind \in Counted => i - Len(q) \in DOMAIN r /\ r[i - Len(q)] = s[i]
  BY <1>1 DEF Quiet
<1>3. Single(s)
  <2> SUFFICES ASSUME NEW i \in DOMAIN s, NEW j \in DOMAIN s,
                      s[i].kind \in Counted, s[j].kind \in Counted
               PROVE  i = j
    BY DEF Single
  <2>1. i - Len(q) = j - Len(q)
    BY <1>2 DEF Single
  <2> QED
    BY <1>1, <2>1
<1>4. Quiet(r) => Quiet(s)
  BY <1>2 DEF Quiet
<1> QED
  BY <1>1, <1>3, <1>4 DEF s

(* choose: the commands of a turn hold one request, behind lines that ask  *)
(* nothing.                                                                *)
LEMMA AskingIs ==
  ASSUME NEW n \in Nat \ {0}, ply \in Nat
  PROVE  Asking(n) \in Seq(LinesOf(Orders, n)) /\ Asking(n) # <<>> /\ Single(Asking(n))
<1> DEFINE Line(kind) == [kind |-> kind, ask |-> n]
           S == LinesOf(Orders, n)
           stones == [i \in 1..ply |-> Line("STONE")]
           board == <<Line("BOARD")>> \o stones
           whole == board \o <<Line("DONE")>>
           request == IF n > 1 THEN <<Line("TURN")>>
                      ELSE IF ply = 0 THEN <<Line("BEGIN")>>
                      ELSE whole
           infos == <<Line("INFO"), Line("INFO")>>
<1> USE DEF Counted, Requests, Answers
<1>1. {Line("INFO"), Line("BOARD"), Line("STONE"), Line("DONE"), Line("TURN"), Line("BEGIN")} \subseteq S
  BY DEF LinesOf, Orders
<1>2. stones \in Seq(S) /\ Quiet(stones)
  BY <1>1 DEF Quiet
<1>3. <<Line("BOARD")>> \in Seq(S) /\ Quiet(<<Line("BOARD")>>)
  BY <1>1 DEF Quiet
<1>4. infos \in Seq(S) /\ Quiet(infos) /\ Len(infos) = 2
  BY <1>1 DEF Quiet
<1>5. \A line \in S : <<line>> \in Seq(S) /\ Single(<<line>>)
  BY DEF Single
<1>6. Asking(n) = infos \o request
  BY DEF Asking
<1> HIDE DEF S, stones, infos, Line
<1>7. Single(stones)
  BY <1>2 DEF Quiet, Single
<1>8. board \in Seq(S) /\ Quiet(board)
  BY <1>2, <1>3, <1>7, JoinLoad
<1> HIDE DEF board
<1>9. whole \in Seq(S) /\ Single(whole)
  BY <1>1, <1>5, <1>8, JoinLoad
<1> HIDE DEF whole
<1>10. request \in Seq(S) /\ Single(request)
  BY <1>1, <1>5, <1>9
<1> HIDE DEF request
<1>11. infos \o request \in Seq(S) /\ Single(infos \o request)
  BY <1>4, <1>10, JoinLoad
<1>12. infos \o request # <<>>
  BY <1>4, <1>10
<1> QED
  BY <1>6, <1>11, <1>12 DEF S

(* Between two turns nothing is on its way anywhere. *)
LEMMA NothingOnItsWay ==
  ASSUME TrafficInv, LoadInv, Settled
  PROVE  /\ Load(Unsent) = 0 /\ Load(commands) = 0 /\ Load(stdin) = 0 /\ Load(owed) = 0
         /\ Load(stdout) = 0 /\ Weight(held) = 0 /\ Load(output) = 0
BY LoadIs DEF LoadInv, Total

(* The queues at the start. *)
LEMMA InitTraffic == Init => TrafficInv /\ DeathInv
<1> SUFFICES ASSUME Init PROVE TrafficInv /\ DeathInv
  OBVIOUS
<1>1. asks = 0 /\ held = NoChoice /\ script = <<[kind |-> "START", ask |-> 0]>> /\ child = "alive"
  BY DEF Init
<1>2. script \in Seq(LinesOf(Orders, asks))
  <2>1. [kind |-> "START", ask |-> 0] \in LinesOf(Orders, 0)
    BY DEF LinesOf, Orders
  <2> QED
    BY <1>1, <2>1
<1>3. held \in LinesOf(Heard(child), asks)
  BY <1>1 DEF LinesOf, Heard, Once, NoChoice, Counted, Requests, Answers
<1> QED
  BY <1>2, <1>3 DEF Init, TrafficInv, DeathInv

(* The program dies, by itself or by play_game. *)
LEMMA Dying ==
  ASSUME TrafficInv, DeathInv, child' = "dead",
         UNCHANGED <<script, commands, stdin, owed, stdout, held, output, asks, acks>>
  PROVE  TrafficInv' /\ DeathInv'
<1>1. Heard(child) \subseteq Heard("dead")
  BY DEF Heard, Once
<1>2. held \in LinesOf(Heard("dead"), asks) /\ output \in Seq(LinesOf(Heard("dead"), asks))
  BY <1>1, LinesGrow DEF TrafficInv
<1>3. acks \in Seq(Once("dead", {"ok"}, {"failed"}))
  <2>1. Once(child, {"ok"}, {"failed"}) \subseteq Once("dead", {"ok"}, {"failed"})
    BY DEF Once
  <2> QED
    BY <2>1 DEF DeathInv
<1> QED
  BY <1>2, <1>3 DEF TrafficInv, DeathInv

(* Every step keeps the queues to their lines. *)
LEMMA TrafficKept ==
  ASSUME IInv, [Next]_vars
  PROVE  TrafficInv'
<1>0. TrafficInv /\ TypeOK /\ DeathInv
  BY DEF IInv
<1>1. CASE Send
  <2>1. script # <<>>
    BY <1>1 DEF Send, IInv, ScriptInv
  <2>2. Head(script) \in LinesOf(Orders, asks)
    BY <1>0, <2>1 DEF TrafficInv
  <2> QED
    BY <1>0, <1>1, <2>2 DEF Send, TrafficInv, game, talk, threads, program
<1>2. CASE Acknowledged
  <2>1. script # <<>>
    BY <1>2 DEF Acknowledged, IInv, ScriptInv
  <2>2. Tail(script) \in Seq(LinesOf(Orders, asks))
    BY <1>0, <2>1 DEF TrafficInv
  <2> QED
    BY <1>0, <1>2, <2>2 DEF Acknowledged, TrafficInv, game, threads, program
<1>3. CASE ReadChat
  BY <1>0, <1>3 DEF ReadChat, TrafficInv, game, threads, program
<1>4. CASE Answer
  <2>1. output' \in Seq(LinesOf(Heard(child), asks))
    BY <1>0, <1>4 DEF Answer, TrafficInv
  <2>2. script' \in Seq(LinesOf(Orders, asks))
    <3>1. Command("INFO") \in LinesOf(Orders, asks)
      BY <1>0 DEF Command, LinesOf, Orders, Counted, Requests, Answers, TypeOK
    <3>2. <<Command("INFO"), Command("INFO")>> \in Seq(LinesOf(Orders, asks))
      BY <3>1
    <3> QED
      BY <1>0, <1>4, <3>2 DEF Answer, TrafficInv
  <2> QED
    BY <1>0, <1>4, <2>1, <2>2 DEF Answer, TrafficInv, game, threads, program
<1>5. CASE AskExternal
  <2>1. Settled
    BY <1>5 DEF AskExternal, Settled
  <2>2. /\ Load(commands) = 0 /\ Load(stdin) = 0 /\ Load(owed) = 0
        /\ Load(stdout) = 0 /\ Weight(held) = 0 /\ Load(output) = 0
    BY <2>1, NothingOnItsWay DEF IInv
  <2>3. asks + 1 \in Nat \ {0} /\ ply \in Nat
    BY <1>0 DEF TypeOK
  <2>4. Asking(asks + 1) \in Seq(LinesOf(Orders, asks + 1))
    BY <2>3, AskingIs
  <2>5. /\ commands \in Seq(LinesOf(Orders, asks + 1))
        /\ stdin \in Seq(LinesOf(Orders, asks + 1))
        /\ owed \in Seq(LinesOf(Requests, asks + 1))
        /\ stdout \in Seq(LinesOf(Answers \cup {"chat"}, asks + 1))
        /\ output \in Seq(LinesOf(Heard(child), asks + 1))
    BY <1>0, <2>2, LinesStay DEF TrafficInv
  <2>6. held \in LinesOf(Heard(child), asks + 1)
    BY <1>0, <2>2 DEF TrafficInv, LinesOf, Weight, Counted, Requests, Answers
  <2> QED
    BY <1>5, <2>4, <2>5, <2>6 DEF AskExternal, TrafficInv, threads, program, queues
<1>6. CASE Kill
  <2>1. child' = "dead" /\ UNCHANGED <<script, commands, stdin, owed, stdout, held, output, asks, acks>>
    BY <1>6 DEF Kill, game, talk, threads, queues
  <2> QED
    BY <1>0, <2>1, Dying
<1>7. CASE ProgramExits
  <2>1. child' = "dead" /\ UNCHANGED <<script, commands, stdin, owed, stdout, held, output, asks, acks>>
    BY <1>7 DEF ProgramExits, game, talk, threads, queues
  <2> QED
    BY <1>0, <2>1, Dying
<1>8. CASE WriterWrites
  <2>1. Head(commands) \in LinesOf(Orders, asks) /\ Tail(commands) \in Seq(LinesOf(Orders, asks))
    BY <1>0, <1>8 DEF WriterWrites, TrafficInv
  <2>2. stdin' = Append(stdin, Head(commands)) \/ stdin' = stdin
    BY <1>8 DEF WriterWrites
  <2>3. commands' = Tail(commands)
    BY <1>8 DEF WriterWrites
  <2>4. stdin' \in Seq(LinesOf(Orders, asks))
    <3>1. stdin \in Seq(LinesOf(Orders, asks))
      BY <1>0 DEF TrafficInv
    <3>2. Append(stdin, Head(commands)) \in Seq(LinesOf(Orders, asks))
      BY <2>1, <3>1
    <3> QED
      BY <2>2, <3>1, <3>2
  <2> QED
    BY <1>0, <1>8, <2>1, <2>3, <2>4 DEF WriterWrites, TrafficInv, game, talk, program
<1>9. CASE ReaderReads
  <2>1. CASE stdout # <<>> /\ held' = Head(stdout) /\ stdout' = Tail(stdout)
    <3>1. /\ Head(stdout) \in LinesOf(Answers \cup {"chat"}, asks)
          /\ Tail(stdout) \in Seq(LinesOf(Answers \cup {"chat"}, asks))
      BY <1>0, <2>1 DEF TrafficInv
    <3>2. Answers \cup {"chat"} \subseteq Heard(child)
      BY DEF Heard, Once
    <3>3. Head(stdout) \in LinesOf(Heard(child), asks)
      BY <3>1, <3>2, LinesGrow
    <3> QED
      BY <1>0, <1>9, <2>1, <3>1, <3>3 DEF ReaderReads, TrafficInv, game, talk, program
  <2>2. CASE child = "dead" /\ held' = [kind |-> "closed", ask |-> asks] /\ UNCHANGED stdout
    <3>1. [kind |-> "closed", ask |-> asks] \in LinesOf(Heard(child), asks)
      BY <1>0, <2>2 DEF LinesOf, Heard, Once, Counted, Requests, Answers, TypeOK
    <3> QED
      BY <1>0, <1>9, <2>2, <3>1 DEF ReaderReads, TrafficInv, game, talk, program
  <2> QED
    BY <1>9, <2>1, <2>2 DEF ReaderReads
<1>10. CASE ReaderSends
  <2>1. NoChoice \in LinesOf(Heard(child), asks)
    BY DEF LinesOf, Heard, Once, NoChoice, Counted, Requests, Answers
  <2> QED
    BY <1>0, <1>10, <2>1 DEF ReaderSends, TrafficInv, game, talk, program
<1>11. CASE ProgramReads
  <2>1. Head(stdin) \in LinesOf(Orders, asks) /\ Tail(stdin) \in Seq(LinesOf(Orders, asks))
    BY <1>0, <1>11 DEF ProgramReads, TrafficInv
  <2>2. Head(stdin).kind \in Requests => Head(stdin) \in LinesOf(Requests, asks)
    BY <2>1 DEF LinesOf
  <2>3. owed' \in Seq(LinesOf(Requests, asks))
    BY <1>0, <1>11, <2>2 DEF ProgramReads, TrafficInv
  <2> QED
    BY <1>0, <1>11, <2>1, <2>3 DEF ProgramReads, TrafficInv, game, talk, threads
<1>12. CASE ProgramAnswers
  <2>1. Head(owed) \in LinesOf(Requests, asks) /\ Tail(owed) \in Seq(LinesOf(Requests, asks))
    BY <1>0, <1>12 DEF ProgramAnswers, TrafficInv
  <2>2. PICK kind \in IF Head(owed).kind = "START" THEN {"OK", "ERROR"} ELSE {"move", "illegal", "ERROR"} :
          Says(kind, Head(owed).ask)
    BY <1>12 DEF ProgramAnswers
  <2>3. [kind |-> kind, ask |-> Head(owed).ask] \in LinesOf(Answers \cup {"chat"}, asks)
    BY <2>1, <2>2 DEF LinesOf, Counted, Requests, Answers
  <2>4. stdout' \in Seq(LinesOf(Answers \cup {"chat"}, asks))
    BY <1>0, <2>2, <2>3 DEF Says, TrafficInv
  <2> QED
    BY <1>0, <1>12, <2>1, <2>4 DEF ProgramAnswers, TrafficInv, game, talk, threads
<1>13. CASE ProgramChats
  <2>1. [kind |-> "chat", ask |-> asks] \in LinesOf(Answers \cup {"chat"}, asks)
    BY <1>0 DEF LinesOf, Counted, Requests, Answers, TypeOK
  <2>2. stdout' \in Seq(LinesOf(Answers \cup {"chat"}, asks))
    BY <1>0, <1>13, <2>1 DEF ProgramChats, Says, TrafficInv
  <2> QED
    BY <1>0, <1>13, <2>2 DEF ProgramChats, TrafficInv, game, talk, threads
<1>14. CASE \/ SendFails \/ ReplyFails \/ Ready \/ StartFails \/ SearchInternal \/ IterationEnds \/ SearchEnds
            \/ Play \/ Forfeit \/ JoinWriter \/ JoinReader \/ WriterAcknowledges \/ WriterEnds
            \/ ReaderEnds \/ Tick \/ UNCHANGED vars
  <2>1. UNCHANGED <<script, commands, stdin, owed, stdout, held, output, asks, child>>
    BY <1>14 DEF SendFails, ReplyFails, Ready, StartFails, SearchInternal, IterationEnds, SearchEnds,
       Play, Forfeit, JoinWriter, JoinReader, WriterAcknowledges, WriterEnds, ReaderEnds, Tick,
       vars, game, talk, threads, program, queues
  <2> QED
    BY <1>0, <2>1, TrafficStays
<1> QED
  BY <1>1, <1>2, <1>3, <1>4, <1>5, <1>6, <1>7, <1>8, <1>9, <1>10, <1>11, <1>12, <1>13, <1>14
  DEF Next, Main, Writer, Reader, Program

(* Every step keeps a failure to its cause. *)
LEMMA DeathKept ==
  ASSUME TrafficInv, TypeOK, DeathInv, [Next]_vars
  PROVE  DeathInv'
<1> USE DEF DeathInv, game, search, talk, threads, program, queues
<1>1. CASE Acknowledged
  <2>1. acks' \in Seq(Once(child, {"ok"}, {"failed"}))
    BY <1>1 DEF Acknowledged
  <2> QED
    BY <1>1, <2>1 DEF Acknowledged, Fails, AfterScript
<1>2. CASE Kill \/ ProgramExits
  <2>1. child' = "dead" /\ UNCHANGED acks
    BY <1>2 DEF Kill, ProgramExits
  <2>2. Once(child, {"ok"}, {"failed"}) \subseteq Once("dead", {"ok"}, {"failed"})
    BY DEF Once
  <2>3. acks \in Seq(Once("dead", {"ok"}, {"failed"}))
    BY <2>2
  <2> QED
    BY <2>1, <2>3
<1>3. CASE WriterWrites
  BY <1>3 DEF WriterWrites
<1>4. CASE WriterAcknowledges
  <2>1. writer \in Once(child, {"ok"}, {"failed"})
    BY <1>4 DEF WriterAcknowledges, Once
  <2>2. acks' \in Seq(Once(child, {"ok"}, {"failed"}))
    BY <1>4, <2>1 DEF WriterAcknowledges
  <2> QED
    BY <1>4, <2>2 DEF WriterAcknowledges
<1>5. CASE WriterEnds
  BY <1>5 DEF WriterEnds, InputDropped
<1>6. CASE ReaderReads
  BY <1>6 DEF ReaderReads
<1>7. CASE ReaderSends
  <2>1. held.kind = "closed" => child = "dead"
    BY DEF TrafficInv, LinesOf, Heard, Once, Answers
  <2> QED
    BY <1>7, <2>1 DEF ReaderSends
<1>8. CASE ReaderEnds
  BY <1>8 DEF ReaderEnds, OutputDropped
<1>9. CASE JoinWriter \/ JoinReader
  BY <1>9 DEF JoinWriter, JoinReader
<1>10. CASE Send \/ SendFails \/ ReadChat \/ ReplyFails \/ Answer \/ Ready \/ StartFails \/ AskExternal
            \/ SearchInternal \/ IterationEnds \/ SearchEnds \/ Play \/ Forfeit
  <2>1. UNCHANGED <<acks, writer, reader, child>> /\ pc' \in {"send", "ack", "reply", "judge", "ready", "turn", "search", "kill", pc}
    BY <1>10 DEF Send, SendFails, ReadChat, ReplyFails, Answer, Ready, StartFails, AskExternal,
       SearchInternal, IterationEnds, SearchEnds, Play, Forfeit, Fails, Own
  <2> QED
    BY <2>1
<1>11. CASE ProgramReads \/ ProgramAnswers \/ ProgramChats \/ Tick \/ UNCHANGED vars
  <2>1. UNCHANGED <<acks, writer, reader, child, pc>>
    BY <1>11 DEF ProgramReads, ProgramAnswers, ProgramChats, Tick, vars
  <2> QED
    BY <2>1
<1> QED
  BY <1>1, <1>2, <1>3, <1>4, <1>5, <1>6, <1>7, <1>8, <1>9, <1>10, <1>11
  DEF Next, Main, Writer, Reader, Program

-----------------------------------------------------------------------------

(* play_game turns away from the commands it had to send. *)
LEMMA LoadDrops ==
  ASSUME LoadInv, UNCHANGED <<commands, stdin, owed, stdout, held, output>>,
         pc' \notin {"send", "ack"}, Settled' => Settled
  PROVE  LoadInv'
<1>1. Unsent' = <<>>
  BY DEF Unsent
<1>2. Total' <= Total
  BY <1>1, LoadIs, NothingUnsent DEF Total
<1>3. Total' \in Nat
  BY LoadIs DEF Total
<1>4. Total \in Nat
  BY LoadIs DEF Total
<1>5. Total' <= 1 /\ (Settled' => Total' = 0)
  BY <1>2, <1>3, <1>4 DEF LoadInv
<1> QED
  BY <1>1, <1>5, NothingUnsent DEF LoadInv

(* A line moves from one place to the next one. *)
LEMMA LoadMoves ==
  ASSUME LoadInv, Total' <= Total, Settled' => Settled,
         Single(Unsent'), Single(commands'), Single(stdin'), Single(owed'), Single(stdout'), Single(output')
  PROVE  LoadInv'
<1>1. Total' \in Nat
  BY LoadIs DEF Total
<1>2. Total \in Nat
  BY LoadIs DEF Total
<1>3. Total' <= 1 /\ (Settled' => Total' = 0)
  BY <1>1, <1>2 DEF LoadInv
<1> QED
  BY <1>3 DEF LoadInv

(* The other threads settle nothing. *)
LEMMA SettledStays ==
  ASSUME UNCHANGED <<pc, choice, asks, script>>
  PROVE  Settled' = Settled /\ Unsent' = Unsent
BY DEF Settled, Greeting, Unsent

(* A command is handed to the writer. *)
LEMMA SendLoad ==
  ASSUME IInv, Send
  PROVE  LoadInv'
<1>1. /\ pc = "send" /\ pc' = "ack" /\ script' = script /\ commands' = Append(commands, Head(script))
      /\ UNCHANGED <<stdin, owed, stdout, held, output, asks, choice>>
  BY DEF Send, talk, threads, program, game
<1>2. Unsent = script /\ Unsent' = Tail(script)
  BY <1>1 DEF Unsent
<1>3. /\ script \in Seq(LinesOf(Orders, asks)) /\ commands \in Seq(LinesOf(Orders, asks))
      /\ script # <<>>
  BY <1>1 DEF IInv, TrafficInv, ScriptInv
<1>4. Head(script) \in LinesOf(Orders, asks)
  BY <1>3
<1>5. Single(script) /\ Single(commands)
  BY <1>2 DEF IInv, LoadInv
<1>6. Single(Tail(script)) /\ Load(Tail(script)) + Weight(Head(script)) <= Load(script)
  BY <1>3, <1>5, TakeLoad
<1>7. Load(script) + Load(commands) <= 1
  BY <1>2, LoadIs DEF IInv, LoadInv, Total
<1>8. Load(Append(commands, Head(script))) <= Load(commands) + Weight(Head(script))
      /\ Single(Append(commands, Head(script)))
  <2>1. Load(commands) + Weight(Head(script)) <= 1
    BY <1>6, <1>7, LoadIs
  <2> QED
    BY <1>3, <1>4, <1>5, <2>1, PutLoad
<1>9. Total' <= Total
  BY <1>1, <1>2, <1>6, <1>8, LoadIs DEF Total
<1>10. Settled' => Settled
  BY <1>1 DEF Settled, Greeting
<1> QED
  BY <1>1, <1>2, <1>6, <1>8, <1>9, <1>10, LoadMoves DEF IInv, LoadInv

(* A command is acknowledged, and the next one is up. *)
LEMMA AcknowledgedLoad ==
  ASSUME IInv, Acknowledged
  PROVE  LoadInv'
<1>1. /\ pc = "ack" /\ UNCHANGED <<commands, stdin, owed, stdout, held, output, asks>>
      /\ script # <<>> /\ LoadInv
  BY DEF Acknowledged, threads, program, game, IInv, ScriptInv
<1>2. CASE Head(acks) = "failed"
  <2>1. pc' = "judge" /\ choice'.kind = "error"
    BY <1>2 DEF Acknowledged, Fails
  <2> QED
    BY <1>1, <2>1, LoadDrops DEF Settled, Greeting
<1>3. CASE Head(acks) # "failed" /\ Tail(script) = <<>>
  <2>1. pc' = AfterScript /\ UNCHANGED choice
    BY <1>3 DEF Acknowledged
  <2>2. Settled' => Settled
    BY <1>1, <2>1 DEF Settled, Greeting, AfterScript
  <2> QED
    BY <1>1, <2>1, <2>2, LoadDrops DEF AfterScript
<1>4. CASE Head(acks) # "failed" /\ Tail(script) # <<>>
  <2>1. pc' = "send" /\ script' = Tail(script) /\ UNCHANGED choice
    BY <1>4 DEF Acknowledged
  <2>2. Unsent' = Unsent
    BY <1>1, <2>1 DEF Unsent
  <2>3. script \in Seq(LinesOf(Orders, asks))
    BY DEF IInv, TrafficInv
  <2>4. Settled' => Settled
    <3>1. ASSUME asks = 0 PROVE Head(script).kind = "INFO"
      <4>1. Len(script) = 1 \/ \A i \in DOMAIN script : script[i].kind = "INFO"
        BY <1>1, <3>1 DEF IInv, ScriptInv, Greeting
      <4>2. Len(script) # 1
        BY <1>1, <1>4, <2>3, TailIs
      <4> QED
        BY <1>1, <2>3, <4>1, <4>2
    <3> QED
      BY <1>1, <2>1, <3>1 DEF Settled, Greeting
  <2> QED
    BY <1>1, <2>2, <2>4, LoadStays
<1> QED
  BY <1>2, <1>3, <1>4

(* An answer that is read was the only thing on its way. *)
LEMMA AnswerLoad ==
  ASSUME IInv, Answer
  PROVE  LoadInv'
<1>1. /\ pc = "reply" /\ output # <<>> /\ Head(output).kind \in {"OK", "move"} /\ output' = Tail(output)
      /\ UNCHANGED <<commands, stdin, owed, stdout, held, asks>>
  BY DEF Answer, threads, program, game
<1>2. LoadInv /\ output \in Seq(LinesOf(Heard(child), asks))
  BY DEF IInv, TrafficInv
<1>3. Single(Tail(output)) /\ Load(Tail(output)) + Weight(Head(output)) <= Load(output)
  BY <1>1, <1>2, TakeLoad DEF LoadInv
<1>4. Weight(Head(output)) = 1
  BY <1>1 DEF Weight, Counted, Answers
<1>5. /\ Load(commands) = 0 /\ Load(stdin) = 0 /\ Load(owed) = 0 /\ Load(stdout) = 0
      /\ Weight(held) = 0 /\ Load(Tail(output)) = 0
  BY <1>2, <1>3, <1>4, LoadIs DEF LoadInv, Total
<1>6. Load(Unsent') = 0 /\ Single(Unsent')
  <2>1. CASE Head(output).kind = "OK" /\ asks = 0
    <3> DEFINE infos == <<Command("INFO"), Command("INFO")>>
    <3>1. pc' = "send" /\ script' = infos
      BY <2>1 DEF Answer
    <3>2. Unsent' = infos
      BY <3>1 DEF Unsent
    <3>3. Quiet(infos) /\ Single(infos)
      BY DEF Quiet, Single, Command, Counted, Requests, Answers
    <3> HIDE DEF infos
    <3> QED
      BY <3>2, <3>3 DEF Load
  <2>2. CASE ~(Head(output).kind = "OK" /\ asks = 0)
    <3>1. pc' = "judge"
      BY <2>2 DEF Answer
    <3>2. Unsent' = <<>>
      BY <3>1 DEF Unsent
    <3> QED
      BY <3>2, NothingUnsent
  <2> QED
    BY <2>1, <2>2
<1>7. Total' = 0
  BY <1>1, <1>5, <1>6 DEF Total
<1> QED
  BY <1>1, <1>2, <1>3, <1>6, <1>7 DEF LoadInv

(* A turn puts its one request on its way. *)
LEMMA AskLoad ==
  ASSUME IInv, AskExternal
  PROVE  LoadInv'
<1>1. /\ pc' = "send" /\ script' = Asking(asks + 1) /\ asks' = asks + 1
      /\ UNCHANGED <<commands, stdin, owed, stdout, held, output>>
  BY DEF AskExternal, threads, program, queues
<1>2. Settled /\ LoadInv /\ TrafficInv
  BY DEF AskExternal, Settled, IInv
<1>3. /\ Load(commands) = 0 /\ Load(stdin) = 0 /\ Load(owed) = 0 /\ Load(stdout) = 0
      /\ Weight(held) = 0 /\ Load(output) = 0
  BY <1>2, NothingOnItsWay
<1>4. asks + 1 \in Nat \ {0} /\ ply \in Nat
  BY DEF IInv, TypeOK
<1>5. Unsent' = Asking(asks + 1)
  BY <1>1 DEF Unsent
<1>6. Single(Unsent')
  BY <1>4, <1>5, AskingIs
<1>7. Total' <= 1
  BY <1>1, <1>3, LoadIs DEF Total
<1>8. ~Settled'
  BY <1>1, <1>4 DEF Settled, Greeting
<1> QED
  BY <1>1, <1>2, <1>6, <1>7, <1>8 DEF LoadInv

(* The writer passes a command on, or drops it. *)
LEMMA WriterLoad ==
  ASSUME IInv, WriterWrites
  PROVE  LoadInv'
<1>1. /\ commands # <<>> /\ commands' = Tail(commands)
      /\ stdin' = stdin \/ stdin' = Append(stdin, Head(commands))
      /\ UNCHANGED <<pc, choice, asks, script, owed, stdout, held, output>>
  BY DEF WriterWrites, talk, program, game
<1>2. /\ commands \in Seq(LinesOf(Orders, asks)) /\ stdin \in Seq(LinesOf(Orders, asks))
      /\ LoadInv
  BY DEF IInv, TrafficInv
<1>3. Head(commands) \in LinesOf(Orders, asks)
  BY <1>1, <1>2
<1>4. Single(commands) /\ Single(stdin) /\ Load(commands) + Load(stdin) <= 1
  BY <1>2, LoadIs DEF LoadInv, Total
<1>5. Single(Tail(commands)) /\ Load(Tail(commands)) + Weight(Head(commands)) <= Load(commands)
  BY <1>1, <1>2, <1>4, TakeLoad
<1>6. Single(stdin') /\ Load(stdin') <= Load(stdin) + Weight(Head(commands))
  <2>1. CASE stdin' = stdin
    BY <1>4, <2>1, LoadIs
  <2>2. CASE stdin' = Append(stdin, Head(commands))
    <3>1. Load(stdin) + Weight(Head(commands)) <= 1
      BY <1>4, <1>5, LoadIs
    <3> QED
      BY <1>2, <1>3, <1>4, <2>2, <3>1, PutLoad
  <2> QED
    BY <1>1, <2>1, <2>2
<1>7. Settled' = Settled /\ Unsent' = Unsent
  BY <1>1, SettledStays
<1>8. Total' <= Total
  BY <1>1, <1>5, <1>6, <1>7, LoadIs DEF Total
<1> QED
  BY <1>1, <1>2, <1>5, <1>6, <1>7, <1>8, LoadMoves DEF LoadInv

(* A line of chat is dropped. *)
LEMMA ReadChatLoad ==
  ASSUME IInv, ReadChat
  PROVE  LoadInv'
<1>1. /\ output # <<>> /\ output' = Tail(output)
      /\ UNCHANGED <<pc, choice, asks, script, commands, stdin, owed, stdout, held>>
  BY DEF ReadChat, threads, program, game
<1>2. output \in Seq(LinesOf(Heard(child), asks)) /\ LoadInv
  BY DEF IInv, TrafficInv
<1>3. Single(Tail(output)) /\ Load(Tail(output)) <= Load(output)
  <2>1. Single(output)
    BY <1>2 DEF LoadInv
  <2> QED
    BY <1>1, <1>2, <2>1, TakeLoad, LoadIs
<1>4. Settled' = Settled /\ Unsent' = Unsent
  BY <1>1, SettledStays
<1>5. Total' <= Total
  BY <1>1, <1>3, <1>4, LoadIs DEF Total
<1> QED
  BY <1>1, <1>2, <1>3, <1>4, <1>5, LoadMoves DEF LoadInv

(* The reader takes a line of the program. *)
LEMMA ReaderReadsLoad ==
  ASSUME IInv, ReaderReads
  PROVE  LoadInv'
<1>1. /\ \/ stdout # <<>> /\ held' = Head(stdout) /\ stdout' = Tail(stdout)
         \/ held'.kind = "closed" /\ UNCHANGED stdout
      /\ UNCHANGED <<pc, choice, asks, script, commands, stdin, owed, output>>
  BY DEF ReaderReads, talk, program, game
<1>2. stdout \in Seq(LinesOf(Answers \cup {"chat"}, asks)) /\ LoadInv /\ Single(stdout)
  BY DEF IInv, TrafficInv, LoadInv
<1>3. Single(stdout') /\ Load(stdout') + Weight(held') <= Load(stdout)
  <2>1. CASE stdout # <<>> /\ held' = Head(stdout) /\ stdout' = Tail(stdout)
    BY <1>2, <2>1, TakeLoad
  <2>2. CASE held'.kind = "closed" /\ UNCHANGED stdout
    <3>1. Weight(held') = 0
      BY <2>2 DEF Weight, Counted, Requests, Answers
    <3> QED
      BY <1>2, <2>2, <3>1, LoadIs
  <2> QED
    BY <1>1, <2>1, <2>2
<1>4. Settled' = Settled /\ Unsent' = Unsent
  BY <1>1, SettledStays
<1>5. Total' <= Total
  BY <1>1, <1>3, <1>4, LoadIs DEF Total
<1> QED
  BY <1>1, <1>2, <1>3, <1>4, <1>5, LoadMoves DEF LoadInv

(* The reader passes a line on. *)
LEMMA ReaderSendsLoad ==
  ASSUME IInv, ReaderSends
  PROVE  LoadInv'
<1>1. /\ output' = Append(output, held) /\ held' = NoChoice
      /\ UNCHANGED <<pc, choice, asks, script, commands, stdin, owed, stdout>>
  BY DEF ReaderSends, talk, program, game
<1>2. /\ output \in Seq(LinesOf(Heard(child), asks)) /\ held \in LinesOf(Heard(child), asks)
      /\ LoadInv
  BY DEF IInv, TrafficInv
<1>3. Single(output) /\ Load(output) + Weight(held) <= 1
  BY <1>2, LoadIs DEF LoadInv, Total
<1>4. Single(output') /\ Load(output') <= Load(output) + Weight(held)
  BY <1>1, <1>2, <1>3, PutLoad
<1>5. Weight(held') = 0
  BY <1>1 DEF Weight, NoChoice, Counted, Requests, Answers
<1>6. Settled' = Settled /\ Unsent' = Unsent
  BY <1>1, SettledStays
<1>7. Total' <= Total
  BY <1>1, <1>4, <1>5, <1>6, LoadIs DEF Total
<1> QED
  BY <1>1, <1>2, <1>4, <1>6, <1>7, LoadMoves DEF LoadInv

(* The program reads a line, which may be a request. *)
LEMMA ProgramReadsLoad ==
  ASSUME IInv, ProgramReads
  PROVE  LoadInv'
<1>1. /\ stdin # <<>> /\ stdin' = Tail(stdin)
      /\ owed' = IF Head(stdin).kind \in Requests THEN Append(owed, Head(stdin)) ELSE owed
      /\ UNCHANGED <<pc, choice, asks, script, commands, stdout, held, output>>
  BY DEF ProgramReads, talk, threads, game
<1>2. /\ stdin \in Seq(LinesOf(Orders, asks)) /\ owed \in Seq(LinesOf(Requests, asks))
      /\ LoadInv
  BY DEF IInv, TrafficInv
<1>3. Single(stdin) /\ Single(owed) /\ Load(stdin) + Load(owed) <= 1
  BY <1>2, LoadIs DEF LoadInv, Total
<1>4. Single(Tail(stdin)) /\ Load(Tail(stdin)) + Weight(Head(stdin)) <= Load(stdin)
  BY <1>1, <1>2, <1>3, TakeLoad
<1>5. Single(owed') /\ Load(owed') <= Load(owed) + Weight(Head(stdin))
  <2>1. CASE Head(stdin).kind \in Requests
    <3>1. Head(stdin) \in LinesOf(Requests, asks)
      <4>1. Head(stdin) \in LinesOf(Orders, asks)
        BY <1>1, <1>2
      <4> QED
        BY <2>1, <4>1 DEF LinesOf
    <3>2. Load(owed) + Weight(Head(stdin)) <= 1
      BY <1>3, <1>4, LoadIs
    <3> QED
      BY <1>1, <1>2, <1>3, <2>1, <3>1, <3>2, PutLoad
  <2>2. CASE Head(stdin).kind \notin Requests
    BY <1>1, <1>3, <2>2, LoadIs
  <2> QED
    BY <2>1, <2>2
<1>6. Settled' = Settled /\ Unsent' = Unsent
  BY <1>1, SettledStays
<1>7. Total' <= Total
  BY <1>1, <1>4, <1>5, <1>6, LoadIs DEF Total
<1> QED
  BY <1>1, <1>2, <1>4, <1>5, <1>6, <1>7, LoadMoves DEF LoadInv

(* The program answers a request: one line for another. *)
LEMMA ProgramAnswersLoad ==
  ASSUME IInv, ProgramAnswers
  PROVE  LoadInv'
<1>1. PICK kind \in {"OK", "ERROR", "move", "illegal"} : Says(kind, Head(owed).ask)
  BY DEF ProgramAnswers
<1> DEFINE line == [kind |-> kind, ask |-> Head(owed).ask]
<1>2. /\ owed # <<>> /\ owed' = Tail(owed) /\ stdout' = Append(stdout, line)
      /\ UNCHANGED <<pc, choice, asks, script, commands, stdin, held, output>>
  BY <1>1 DEF ProgramAnswers, Says, talk, threads, game
<1>3. /\ owed \in Seq(LinesOf(Requests, asks)) /\ stdout \in Seq(LinesOf(Answers \cup {"chat"}, asks))
      /\ LoadInv
  BY DEF IInv, TrafficInv
<1>4. Head(owed) \in LinesOf(Requests, asks)
  BY <1>2, <1>3
<1>5. Weight(Head(owed)) = 1 /\ Weight(line) = 1
  BY <1>4 DEF Weight, Counted, Answers, LinesOf
<1>6. Single(owed) /\ Single(stdout) /\ Load(owed) + Load(stdout) <= 1
  BY <1>3, LoadIs DEF LoadInv, Total
<1>7. Single(Tail(owed)) /\ Load(Tail(owed)) + 1 <= Load(owed)
  BY <1>2, <1>3, <1>5, <1>6, TakeLoad
<1> HIDE DEF line
<1>8. Single(stdout') /\ Load(stdout') <= Load(stdout) + 1
  <2>1. Load(stdout) + Weight(line) <= 1
    BY <1>5, <1>6, <1>7, LoadIs
  <2> QED
    BY <1>2, <1>3, <1>5, <1>6, <2>1, PutLoad
<1>9. Settled' = Settled /\ Unsent' = Unsent
  BY <1>2, SettledStays
<1>10. Total' <= Total
  BY <1>2, <1>7, <1>8, <1>9, LoadIs DEF Total
<1> QED
  BY <1>2, <1>3, <1>7, <1>8, <1>9, <1>10, LoadMoves DEF LoadInv

(* The program chats. *)
LEMMA ProgramChatsLoad ==
  ASSUME IInv, ProgramChats
  PROVE  LoadInv'
<1> DEFINE line == [kind |-> "chat", ask |-> asks]
<1>1. /\ stdout' = Append(stdout, line)
      /\ UNCHANGED <<pc, choice, asks, script, commands, stdin, owed, held, output>>
  BY DEF ProgramChats, Says, talk, threads, game
<1>2. stdout \in Seq(LinesOf(Answers \cup {"chat"}, asks)) /\ LoadInv
  BY DEF IInv, TrafficInv
<1>3. Weight(line) = 0
  BY DEF Weight, Counted, Requests, Answers
<1> HIDE DEF line
<1>4. Single(stdout') /\ Load(stdout') <= Load(stdout)
  <2>1. Single(stdout) /\ Load(stdout) + Weight(line) <= 1
    BY <1>2, <1>3, LoadIs DEF LoadInv
  <2> QED
    BY <1>1, <1>2, <1>3, <2>1, PutLoad, LoadIs
<1>5. Settled' = Settled /\ Unsent' = Unsent
  BY <1>1, SettledStays
<1>6. Total' <= Total
  BY <1>1, <1>4, <1>5, LoadIs DEF Total
<1> QED
  BY <1>1, <1>2, <1>4, <1>5, <1>6, LoadMoves DEF LoadInv

(* Every step keeps at most one counted line on its way. *)
LEMMA LoadKept ==
  ASSUME IInv, [Next]_vars
  PROVE  LoadInv'
<1>0. LoadInv
  BY DEF IInv
<1>1. CASE \/ Send \/ Acknowledged \/ Answer \/ AskExternal \/ WriterWrites \/ ReadChat
           \/ ReaderReads \/ ReaderSends \/ ProgramReads \/ ProgramAnswers \/ ProgramChats
  BY <1>1, SendLoad, AcknowledgedLoad, AnswerLoad, AskLoad, WriterLoad, ReadChatLoad,
     ReaderReadsLoad, ReaderSendsLoad, ProgramReadsLoad, ProgramAnswersLoad, ProgramChatsLoad
<1>2. CASE SendFails \/ ReplyFails
  <2>1. /\ pc' = "judge" /\ choice'.kind = "error"
        /\ UNCHANGED <<commands, stdin, owed, stdout, held, output>>
    BY <1>2 DEF SendFails, ReplyFails, Fails, threads, program, queues
  <2> QED
    BY <1>0, <2>1, LoadDrops DEF Settled, Greeting
<1>3. CASE StartFails \/ Forfeit \/ Kill \/ JoinWriter \/ JoinReader
  <2>1. /\ pc' \in {"kill", "dropped", "join", "closed"}
        /\ UNCHANGED <<commands, stdin, owed, stdout, held, output>>
    BY <1>3 DEF StartFails, Forfeit, Kill, JoinWriter, JoinReader, threads, program, queues
  <2> QED
    BY <1>0, <2>1, LoadDrops DEF Settled, Greeting
<1>4. CASE Ready \/ SearchInternal \/ SearchEnds \/ IterationEnds \/ Play
  <2>1. UNCHANGED <<commands, stdin, owed, stdout, held, output>>
    BY <1>4 DEF Ready, SearchInternal, SearchEnds, IterationEnds, Play, threads, program, queues
  <2>2. pc' \in {"turn", "search", "judge", "kill"}
    BY <1>4 DEF Ready, SearchInternal, SearchEnds, IterationEnds, Play, Own
  <2>3. Settled
    <3>1. \/ pc \in {"ready", "turn", "search"}
          \/ pc = "judge" /\ choice.kind \in {"own", "move"}
      BY <1>4 DEF Ready, SearchInternal, SearchEnds, IterationEnds, Play
    <3> QED
      BY <3>1 DEF Settled
  <2> QED
    BY <1>0, <2>1, <2>2, <2>3, LoadDrops
<1>5. CASE \/ WriterAcknowledges \/ WriterEnds \/ ReaderEnds \/ ProgramExits \/ Tick
           \/ UNCHANGED vars
  <2>1. UNCHANGED <<pc, choice, asks, script, commands, stdin, owed, stdout, held, output>>
    BY <1>5 DEF WriterAcknowledges, WriterEnds, ReaderEnds, ProgramExits, Tick, vars, game,
       talk, threads, program, queues
  <2> QED
    BY <1>0, <2>1, LoadStays, SettledStays
<1> QED
  BY <1>1, <1>2, <1>3, <1>4, <1>5 DEF Next, Main, Writer, Reader, Program

(* At the start the startup is asked for, and nothing else. *)
LEMMA InitLoad == Init => LoadInv
<1> SUFFICES ASSUME Init PROVE LoadInv
  OBVIOUS
<1>1. /\ Unsent = <<[kind |-> "START", ask |-> 0]>> /\ commands = <<>> /\ stdin = <<>> /\ owed = <<>>
      /\ stdout = <<>> /\ output = <<>> /\ held = NoChoice
  BY DEF Init, Unsent
<1>2. Weight(held) = 0
  BY <1>1 DEF Weight, NoChoice, Counted, Requests, Answers
<1>3. Single(Unsent)
  BY <1>1 DEF Single
<1>4. Total <= 1
  BY <1>1, <1>2, NothingUnsent, LoadIs DEF Total
<1>5. ~Settled
  BY DEF Init, Settled, Greeting
<1> QED
  BY <1>1, <1>3, <1>4, <1>5, NothingUnsent DEF LoadInv

-----------------------------------------------------------------------------

(* Every step keeps the scripts to their turns. *)
LEMMA ScriptKept ==
  ASSUME IInv, [Next]_vars
  PROVE  ScriptInv'
<1>0. ScriptInv /\ TypeOK /\ script \in Seq(LinesOf(Orders, asks))
  BY DEF IInv, TrafficInv
<1> USE DEF ScriptInv, Greeting
<1>1. CASE Send
  BY <1>0, <1>1 DEF Send, Mover, game, talk
<1>2. CASE Acknowledged
  <2>1. pc = "ack" /\ script # <<>> /\ UNCHANGED <<asks, ply>>
    BY <1>0, <1>2 DEF Acknowledged, game
  <2>2. CASE Head(acks) = "failed"
    BY <1>0, <1>2, <2>1, <2>2 DEF Acknowledged, Fails, Mover
  <2>3. CASE Head(acks) # "failed" /\ Tail(script) = <<>>
    BY <1>0, <1>2, <2>1, <2>3 DEF Acknowledged, AfterScript, Mover
  <2>4. CASE Head(acks) # "failed" /\ Tail(script) # <<>>
    <3>1. pc' = "send" /\ script' = Tail(script)
      BY <1>2, <2>4 DEF Acknowledged
    <3>2. /\ Len(Tail(script)) = Len(script) - 1 /\ DOMAIN script = 1..Len(script)
          /\ DOMAIN Tail(script) = 1..(Len(script) - 1) /\ Len(script) \in Nat
          /\ \A i \in 1..(Len(script) - 1) : Tail(script)[i] = script[i + 1]
      BY <1>0, <2>1
    <3>3. Len(script) # 1
      BY <1>0, <2>1, <2>4, TailIs
    <3>4. asks = 0 => \A i \in DOMAIN Tail(script) : Tail(script)[i].kind = "INFO"
      BY <1>0, <2>1, <3>2, <3>3
    <3> QED
      BY <1>0, <2>1, <2>4, <3>1, <3>4 DEF Mover
  <2> QED
    BY <2>2, <2>3, <2>4
<1>3. CASE SendFails \/ ReplyFails
  BY <1>0, <1>3 DEF SendFails, ReplyFails, Fails
<1>4. CASE ReadChat
  BY <1>0, <1>4 DEF ReadChat, Mover, game
<1>5. CASE Answer
  <2>1. CASE Head(output).kind = "OK" /\ asks = 0
    <3>1. script' = <<Command("INFO"), Command("INFO")>> /\ pc' = "send" /\ asks' = asks
      BY <1>5, <2>1 DEF Answer, game
    <3>2. script' # <<>> /\ \A i \in DOMAIN script' : script'[i].kind = "INFO"
      BY <3>1 DEF Command
    <3> QED
      BY <2>1, <3>1, <3>2
  <2>2. CASE ~(Head(output).kind = "OK" /\ asks = 0)
    <3>1. pc' = "judge" /\ choice'.kind # "none"
      BY <1>5, <2>2 DEF Answer
    <3> QED
      BY <3>1
  <2> QED
    BY <2>1, <2>2
<1>6. CASE AskExternal
  <2>1. /\ pc' = "send" /\ script' = Asking(asks + 1) /\ asks' = asks + 1 /\ ply' = ply
        /\ Mover = External
    BY <1>6 DEF AskExternal
  <2>2. Asking(asks + 1) # <<>> /\ asks + 1 # 0
    <3>1. asks + 1 \in Nat \ {0} /\ ply \in Nat
      BY <1>0 DEF TypeOK
    <3> QED
      BY <3>1, AskingIs
  <2> QED
    BY <2>1, <2>2 DEF Mover
<1>7. CASE SearchEnds \/ IterationEnds
  <2>1. pc' = "judge" => choice'.kind # "none"
    BY <1>7 DEF SearchEnds, IterationEnds, Own
  <2>2. pc' \in {"judge", "search"}
    BY <1>7 DEF SearchEnds, IterationEnds, Own
  <2> QED
    BY <2>1, <2>2
<1>8. CASE Ready \/ StartFails \/ SearchInternal \/ Play \/ Forfeit \/ Kill \/ JoinWriter \/ JoinReader
  <2>1. pc' \in {"turn", "search", "kill", "dropped", "join", "closed"}
    BY <1>8 DEF Ready, StartFails, SearchInternal, Play, Forfeit, Kill, JoinWriter, JoinReader
  <2> QED
    BY <2>1
<1>9. CASE Writer \/ Reader \/ Program \/ Tick \/ UNCHANGED vars
  <2>1. UNCHANGED <<pc, choice, asks, script, ply>>
    BY <1>9 DEF Writer, Reader, Program, Tick, vars, game, talk, WriterWrites, WriterAcknowledges,
       WriterEnds, ReaderReads, ReaderSends, ReaderEnds, ProgramReads, ProgramAnswers, ProgramChats,
       ProgramExits
  <2> QED
    BY <1>0, <2>1 DEF Mover
<1> QED
  BY <1>1, <1>2, <1>3, <1>4, <1>5, <1>6, <1>7, <1>8, <1>9 DEF Next, Main

(* Every step keeps the reserve. *)
LEMMA WatchKept ==
  ASSUME IInv, [Next]_vars
  PROVE  WatchInv'
<1>0. WatchInv /\ manager \in Managers /\ spent \in Nat
  BY DEF IInv, TypeOK
<1>1. CASE SearchInternal
  <2>1. /\ Scale * clocks[Internal] \in Nat /\ Scale * Increment \in Nat
        /\ Scale * TurnLimit \in Nat
    <3>1. clocks[Internal] \in Nat
      BY PlayersAre DEF IInv, TypeOK
    <3> QED
      BY <3>1, ArenaAssumption, Product
  <2>2. ~manager'.known
    BY <1>1, <2>1, NewManagerIs DEF SearchInternal
  <2> QED
    BY <2>2 DEF WatchInv
<1>2. CASE IterationEnds
  <2>1. PICK info \in Infos, elapsed \in {t \in Watch : t >= manager.elapsed} :
          IF Completed(manager, info, elapsed).stop THEN Own /\ EndSearch
          ELSE manager' = Completed(manager, info, elapsed) /\ depth' = depth + 1 /\ UNCHANGED <<pc, choice>>
    BY <1>2 DEF IterationEnds
  <2>2. elapsed \in Nat
    <3>1. PICK f \in Fractions : elapsed = Scale * spent + f
      BY DEF Watch
    <3>2. f \in Nat /\ Scale \in Nat
      BY ArenaAssumption
    <3> QED
      BY <1>0, <3>1, <3>2, Product
  <2>3. CASE Completed(manager, info, elapsed).stop
    BY <2>1, <2>3, NewManagerIs DEF EndSearch, NoManager, WatchInv
  <2>4. CASE ~Completed(manager, info, elapsed).stop
    BY <1>0, <2>1, <2>2, <2>4, CompletedIs DEF WatchInv
  <2> QED
    BY <2>3, <2>4
<1>3. CASE SearchEnds
  BY <1>3, NewManagerIs DEF SearchEnds, EndSearch, NoManager, WatchInv
<1>4. CASE \/ Send \/ Acknowledged \/ SendFails \/ ReadChat \/ ReplyFails \/ Answer \/ Ready
           \/ StartFails \/ AskExternal \/ Play \/ Forfeit \/ Kill \/ JoinWriter \/ JoinReader
           \/ Writer \/ Reader \/ Program \/ Tick \/ UNCHANGED vars
  <2>1. UNCHANGED manager
    BY <1>4 DEF Send, Acknowledged, SendFails, ReadChat, ReplyFails, Answer, Ready, StartFails,
       AskExternal, Play, Forfeit, Kill, JoinWriter, JoinReader, Writer, Reader, Program, Tick,
       vars, search, WriterWrites, WriterAcknowledges, WriterEnds, ReaderReads, ReaderSends,
       ReaderEnds, ProgramReads, ProgramAnswers, ProgramChats, ProgramExits
  <2> QED
    BY <1>0, <2>1 DEF WatchInv
<1> QED
  BY <1>1, <1>2, <1>3, <1>4 DEF Next, Main

(* Every step keeps answers to their turns. *)
LEMMA AnswersKept ==
  ASSUME IInv, [Next]_vars
  PROVE  AnswersTheTurn'
<1>0. AnswersTheTurn /\ ScriptInv
  BY DEF IInv
<1>1. CASE Answer
  <2>1. output # <<>> /\ output \in Seq(LinesOf(Heard(child), asks)) /\ pc = "reply"
    BY <1>1 DEF Answer, IInv, TrafficInv
  <2>2. Head(output) \in LinesOf(Heard(child), asks)
    BY <2>1
  <2>3. Head(output).kind = "move" => Head(output).ask = asks
    BY <2>2 DEF LinesOf, Counted, Answers
  <2>4. choice'.kind = "move" /\ pc' = "judge" => choice' = Head(output) /\ asks > 0
    BY <1>1 DEF Answer
  <2> QED
    BY <1>0, <1>1, <2>1, <2>3, <2>4 DEF AnswersTheTurn, ScriptInv, Answer, Mover, game
<1>2. CASE Acknowledged \/ SendFails \/ ReplyFails \/ IterationEnds \/ SearchEnds
  <2>1. pc' = "judge" => choice'.kind # "move"
    BY <1>2 DEF Acknowledged, SendFails, ReplyFails, IterationEnds, SearchEnds, Fails, Own, AfterScript
  <2> QED
    BY <2>1 DEF AnswersTheTurn
<1>3. CASE \/ Send \/ ReadChat \/ Ready \/ StartFails \/ AskExternal \/ SearchInternal \/ Play
           \/ Forfeit \/ Kill \/ JoinWriter \/ JoinReader
  <2>1. pc' # "judge"
    BY <1>3 DEF Send, ReadChat, Ready, StartFails, AskExternal, SearchInternal, Play, Forfeit,
       Kill, JoinWriter, JoinReader
  <2> QED
    BY <2>1 DEF AnswersTheTurn
<1>4. CASE Writer \/ Reader \/ Program \/ Tick \/ UNCHANGED vars
  <2>1. UNCHANGED <<pc, choice, asks, ply>>
    BY <1>4 DEF Writer, Reader, Program, Tick, vars, game, talk, WriterWrites, WriterAcknowledges,
       WriterEnds, ReaderReads, ReaderSends, ReaderEnds, ProgramReads, ProgramAnswers, ProgramChats,
       ProgramExits
  <2> QED
    BY <1>0, <2>1 DEF AnswersTheTurn, Mover
<1> QED
  BY <1>1, <1>2, <1>3, <1>4 DEF Next, Main

(* Every step keeps the cause of a failure. *)
LEMMA FailuresKept ==
  ASSUME IInv, [Next]_vars
  PROVE  FailuresAreDeserved'
<1>0. FailuresAreDeserved /\ DeathInv /\ TypeOK /\ TrafficInv
  BY DEF IInv
<1>1. CASE Acknowledged
  <2>1. CASE Head(acks) = "failed"
    <3>1. child = "dead"
      <4>1. Head(acks) \in Once(child, {"ok"}, {"failed"})
        BY <1>0, <1>1 DEF Acknowledged, DeathInv
      <4> QED
        BY <2>1, <4>1 DEF Once
    <3> QED
      BY <1>1, <3>1 DEF Acknowledged, FailuresAreDeserved, program
  <2>2. CASE Head(acks) # "failed"
    <3>1. pc' # "judge"
      BY <1>1, <2>2 DEF Acknowledged, AfterScript
    <3> QED
      BY <3>1 DEF FailuresAreDeserved
  <2> QED
    BY <2>1, <2>2
<1>2. CASE SendFails
  <2>1. spent >= Limit \/ child = "dead"
    BY <1>0, <1>2 DEF SendFails, DeathInv
  <2>2. Limit' = Limit /\ UNCHANGED <<spent, child>>
    BY <1>2 DEF SendFails, Limit, Hard, program, game
  <2> QED
    BY <2>1, <2>2 DEF FailuresAreDeserved
<1>3. CASE ReplyFails
  <2>1. UNCHANGED <<spent, child, lines, output>> /\ Limit' = Limit
    BY <1>3 DEF ReplyFails, Limit, Hard, program, queues, game
  <2>2. \/ spent >= Limit \/ lines = MaxLines \/ child = "dead"
        \/ output # <<>> /\ Head(output).kind \in {"ERROR", "illegal"}
    <3>1. ASSUME output # <<>>, Head(output).kind = "closed" PROVE child = "dead"
      <4>1. Head(output) \in LinesOf(Heard(child), asks)
        BY <1>0, <3>1 DEF TrafficInv
      <4> QED
        BY <3>1, <4>1 DEF LinesOf, Heard, Once, Answers
    <3>2. spent > Limit => spent >= Limit
      BY <1>0, LimitsAre DEF TypeOK
    <3> QED
      BY <1>0, <1>3, <3>1, <3>2 DEF ReplyFails, ReplyEnds, DeathInv
  <2> QED
    BY <2>1, <2>2 DEF FailuresAreDeserved
<1>4. CASE Answer
  <2>1. output # <<>> /\ output \in Seq(LinesOf(Heard(child), asks)) /\ Head(output).kind \in {"OK", "move"}
    BY <1>4 DEF Answer, IInv, TrafficInv
  <2>2. Head(output) \in LinesOf(Heard(child), asks)
    BY <2>1
  <2>3. (Head(output).kind = "OK" => asks = 0) /\ (Head(output).kind = "move" => asks > 0)
    BY <2>2 DEF LinesOf
  <2>4. pc' = "judge" => choice'.kind # "error"
    BY <1>4, <2>1, <2>3 DEF Answer
  <2> QED
    BY <2>4 DEF FailuresAreDeserved
<1>5. CASE \/ Send \/ ReadChat \/ Ready \/ StartFails \/ AskExternal \/ SearchInternal \/ Play
           \/ Forfeit \/ Kill \/ JoinWriter \/ JoinReader \/ IterationEnds \/ SearchEnds
  <2>1. pc' = "judge" => choice'.kind # "error"
    BY <1>5 DEF Send, ReadChat, Ready, StartFails, AskExternal, SearchInternal, Play, Forfeit,
       Kill, JoinWriter, JoinReader, IterationEnds, SearchEnds, Own
  <2> QED
    BY <2>1 DEF FailuresAreDeserved
<1>6. CASE Writer \/ Reader \/ Program \/ UNCHANGED vars
  <2>1. UNCHANGED <<pc, choice, asks, spent, lines>> /\ Limit' = Limit
    BY <1>6 DEF Writer, Reader, Program, vars, game, talk, WriterWrites, WriterAcknowledges,
       WriterEnds, ReaderReads, ReaderSends, ReaderEnds, ProgramReads, ProgramAnswers, ProgramChats,
       ProgramExits, Limit, Hard
  <2>2. child = "dead" => child' = "dead"
    BY <1>6 DEF Writer, Reader, Program, vars, program, WriterWrites, WriterAcknowledges,
       WriterEnds, ReaderReads, ReaderSends, ReaderEnds, ProgramReads, ProgramAnswers, ProgramChats,
       ProgramExits
  <2>3. output' = output \/ output' = Append(output, held)
    BY <1>6 DEF Writer, Reader, Program, vars, queues, WriterWrites, WriterAcknowledges,
       WriterEnds, ReaderReads, ReaderSends, ReaderEnds, ProgramReads, ProgramAnswers, ProgramChats,
       ProgramExits
  <2>4. output # <<>> => output' # <<>> /\ Head(output') = Head(output)
    <3>1. output \in Seq(LinesOf(Heard(child), asks)) /\ held \in LinesOf(Heard(child), asks)
      BY <1>0 DEF TrafficInv
    <3>2. CASE output' = Append(output, held)
      BY <3>1, <3>2
    <3> QED
      BY <2>3, <3>2
  <2> QED
    BY <1>0, <2>1, <2>2, <2>4 DEF FailuresAreDeserved
<1>7. CASE Tick
  <2>1. UNCHANGED <<pc, choice, asks, lines, child, output>> /\ Limit' = Limit /\ spent' = spent + 1
    BY <1>7 DEF Tick, game, talk, program, queues, Limit, Hard
  <2>2. spent >= Limit => spent' >= Limit
    BY <1>0, <2>1, LimitsAre DEF TypeOK
  <2> QED
    BY <1>0, <2>1, <2>2 DEF FailuresAreDeserved
<1> QED
  BY <1>1, <1>2, <1>3, <1>4, <1>5, <1>6, <1>7 DEF Next, Main

-----------------------------------------------------------------------------

(* The initial state is one of them. *)
LEMMA InitInv == Init => IInv
<1> SUFFICES ASSUME Init PROVE IInv
  OBVIOUS
<1>1. ScriptInv /\ AnswersTheTurn /\ FailuresAreDeserved
  BY DEF Init, ScriptInv, Greeting, AnswersTheTurn, FailuresAreDeserved
<1>2. WatchInv
  BY NewManagerIs DEF Init, NoManager, WatchInv
<1> QED
  BY <1>1, <1>2, InitTypes, InitTraffic, InitLoad DEF IInv

(* IInv is inductive: in every reachable state at most one request or      *)
(* answer                                                                  *)
(* is between play_game and the program, and none between two turns.       *)
THEOREM MatchInvariance == Spec => []IInv
<1>1. Init => IInv
  BY InitInv
<1>2. IInv /\ [Next]_vars => IInv'
  <2> SUFFICES ASSUME IInv, [Next]_vars PROVE IInv'
    OBVIOUS
  <2>1. TypeOK' /\ TrafficInv' /\ DeathInv'
    BY TypeKept, TrafficKept, DeathKept DEF IInv
  <2> QED
    BY <2>1, LoadKept, ScriptKept, WatchKept, AnswersKept, FailuresKept DEF IInv
<1> QED
  BY <1>1, <1>2, PTL DEF Spec

(* AnswersTheTurn holds for every program and every interleaving of the    *)
(* threads:                                                                *)
(* a move that play_game takes answers the turn it is judged for.          *)
THEOREM AnswersMatch == Spec => []AnswersTheTurn
<1>1. IInv => AnswersTheTurn
  BY DEF IInv
<1> QED
  BY <1>1, MatchInvariance, PTL

(* FailuresAreDeserved holds for every program: a turn is lost for its     *)
(* deadline, a flood of lines, a bad answer or the end of the program.     *)
THEOREM FailuresDeserved == Spec => []FailuresAreDeserved
<1>1. IInv => FailuresAreDeserved
  BY DEF IInv
<1> QED
  BY <1>1, MatchInvariance, PTL

(* ReserveIsKept holds for every clock and every sequence of iterations:   *)
(* TimeManager begins none once the reserve of the hard limit is touched.  *)
THEOREM ReserveKept == Spec => []ReserveIsKept
<1>1. IInv => ReserveIsKept
  BY DEF IInv, WatchInv, ReserveIsKept
<1> QED
  BY <1>1, MatchInvariance, PTL

=============================================================================
