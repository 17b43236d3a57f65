------------------------------ MODULE ArenaMatch ------------------------------
(***************************************************************************)
(* One game of the Arena between its own engine and an external program:   *)
(* play_game of main.rs with the two clocks, ExternalPlayer of external.rs *)
(* with its writer and reader threads, and the teardown of the program.    *)
(*                                                                         *)
(* Rust's channels and the pipes of the operating system are bounded FIFO  *)
(* queues; the far end of a channel that was dropped is an error to the    *)
(* near end.  The game is a number of plies that may end after any of      *)
(* them; the external program answers each request at most once, when and  *)
(* if it likes, chats, and may exit at any time.                           *)
(***************************************************************************)
EXTENDS TimeManager, Sequences

CONSTANTS
  Internal, External,    \* the two players
  First,                 \* the one with the Black stones
  Clock, Increment,      \* --clock-ms and --increment-ms
  TurnLimit,             \* --move-ms
  StartLimit,            \* the five seconds of ExternalPlayer::start
  Scale, Fractions,      \* the units of the manager's watch in a tick of the clocks,
                         \* and the ones after a tick that it may show
  OpeningPlies,          \* the plies of the opening
  MaxDepth,              \* --depth
  MaxPlies,              \* bound: the game is over after so many plies
  MaxLines,              \* the 128 lines reply() reads for one answer
  OutputSlots,           \* the 16 slots of the channel of lines
  PipeSlots,             \* bound: the lines a pipe of the system holds
  MaxChat                \* bound: the lines the program says without being asked

ASSUME ArenaAssumption ==
  /\ Internal # External /\ First \in {Internal, External}
  /\ {Clock, TurnLimit, StartLimit, Scale, MaxDepth, MaxLines,
      OutputSlots, PipeSlots} \subseteq Nat \ {0}
  /\ Fractions \subseteq 0..Scale - 1
  /\ {Increment, OpeningPlies, MaxPlies, MaxChat} \subseteq Nat /\ OpeningPlies < MaxPlies

Players == {Internal, External}
Opponent(p) == CHOOSE q \in Players : q # p

VARIABLES
  ply, clocks,  \* the game and its clocks
  spent,        \* start.elapsed() of the turn, or of the startup
  manager, depth,   \* the TimeManager of the internal search, its completed depth
  asks,         \* how many turns the program was asked for
  choice,       \* the answer the turn is judged by, or NoChoice
  result,       \* [winner, failure] of the game, or NoResult
  pc, script,   \* play_game, and the commands it still has to send
  lines,        \* what reply() has read
  commands, acks, output,       \* the three channels
  writer, reader, held,         \* the two threads, and the line the reader holds
  child, stdin, stdout, owed, chat   \* the program and its pipes

game    == <<ply, clocks, asks, result>>
search  == <<manager, depth>>
talk    == <<script, lines, choice>>
threads == <<writer, reader, held>>
program == <<child, owed, chat>>
queues  == <<commands, acks, output, stdin, stdout>>
vars == <<game, spent, search, pc, talk, threads, program, queues>>

NoChoice == [kind |-> "none", ask |-> 0]
NoManager == NewManager(0, 0, 0)
NoResult == [winner |-> "nobody", failure |-> "none"]

Mover == IF ply % 2 = 0 THEN First ELSE Opponent(First)
Hard(p) == Min({TurnLimit, clocks[p]})
(* The deadline of what the program is asked for now. *)
Limit == IF asks = 0 THEN StartLimit ELSE Hard(External)

Command(kind) == [kind |-> kind, ask |-> asks]

-----------------------------------------------------------------------------
Init ==
  /\ ply = OpeningPlies /\ clocks = [p \in Players |-> Clock]
  /\ spent = 0
  /\ manager = NoManager /\ depth = 0
  /\ asks = 0 /\ choice = NoChoice /\ result = NoResult
  /\ pc = "send" /\ script = <<[kind |-> "START", ask |-> 0]>> /\ lines = 0
  /\ commands = <<>> /\ acks = <<>> /\ output = <<>>
  /\ writer = "recv" /\ reader = "read"
  /\ held = NoChoice
  /\ child = "alive" /\ stdin = <<>> /\ stdout = <<>> /\ owed = <<>> /\ chat = 0

(* Time goes by while a player is on the move, until both limits are over. *)
Tick ==
  /\ pc \in {"send", "ack", "reply", "search", "judge"}
  /\ spent <= Max({TurnLimit, StartLimit})
  /\ spent' = spent + 1
  /\ UNCHANGED <<game, search, pc, talk, threads, program, queues>>

-----------------------------------------------------------------------------
(* send: hand a command to the writer and wait for its acknowledgement.    *)

Fails == choice' = [kind |-> "error", ask |-> asks] /\ pc' = "judge"

Send ==
  /\ pc = "send" /\ Len(commands) < 1 /\ writer # "exited"
  /\ commands' = Append(commands, Head(script)) /\ pc' = "ack"
  /\ UNCHANGED <<game, spent, search, talk, threads, program, acks, output, stdin, stdout>>

(* What follows the last command of a script. *)
AfterScript == IF asks = 0 /\ Head(script).kind = "INFO" THEN "ready" ELSE "reply"

Acknowledged ==
  /\ pc = "ack" /\ acks # <<>> /\ acks' = Tail(acks)
  /\ IF Head(acks) = "failed" THEN Fails /\ UNCHANGED <<script, lines>>
     ELSE /\ script' = Tail(script) /\ lines' = 0
          /\ pc' = IF Tail(script) = <<>> THEN AfterScript ELSE "send"
          /\ UNCHANGED choice
  /\ UNCHANGED <<game, spent, search, threads, program, commands, output, stdin, stdout>>

(* The deadline is over, or the thread at the other end is gone. *)
SendFails ==
  /\ \/ pc = "send" /\ writer = "exited"
     \/ pc = "ack" /\ acks = <<>> /\ (spent >= Limit \/ writer = "exited")
  /\ Fails
  /\ UNCHANGED <<game, spent, search, script, lines, threads, program, queues>>

-----------------------------------------------------------------------------
(* reply: lines up to the first one that is not chat.                      *)

ReadChat ==
  /\ pc = "reply" /\ lines < MaxLines /\ spent <= Limit
  /\ output # <<>> /\ Head(output).kind = "chat"
  /\ output' = Tail(output) /\ lines' = lines + 1
  /\ UNCHANGED <<game, spent, search, pc, script, choice, threads, program, commands, acks, stdin, stdout>>

(* Mutant: any line that is no answer is a failure. *)
ReplyEndsByChat ==
  \/ lines = MaxLines
  \/ output # <<>> /\ Head(output).kind \notin {"OK", "move"}
  \/ output = <<>> /\ (reader = "exited" \/ spent >= Limit)
  \/ spent > Limit

(* A flood, an error or nonsense, the end of the program, or the deadline. *)
ReplyEnds ==
  \/ lines = MaxLines
  \/ output # <<>> /\ Head(output).kind \in {"closed", "ERROR", "illegal"}
  \/ output = <<>> /\ (reader = "exited" \/ spent >= Limit)
  \/ spent > Limit

ReplyFails ==
  /\ pc = "reply" /\ ReplyEnds
  /\ Fails
  /\ UNCHANGED <<game, spent, search, script, lines, threads, program, queues>>

(* The answer to START is followed by the INFO lines of the game, the      *)
(* answer to a turn is judged.                                             *)
Answer ==
  /\ pc = "reply" /\ lines < MaxLines /\ spent <= Limit
  /\ output # <<>> /\ Head(output).kind \in {"OK", "move"}
  /\ output' = Tail(output)
  /\ IF Head(output).kind = "OK" /\ asks = 0
     THEN /\ script' = <<Command("INFO"), Command("INFO")>> /\ pc' = "send" /\ UNCHANGED choice
     ELSE /\ choice' = IF Head(output).kind = "move" /\ asks > 0 THEN Head(output)
                       ELSE [kind |-> "error", ask |-> asks]
          /\ pc' = "judge" /\ UNCHANGED script
  /\ UNCHANGED <<game, spent, search, lines, threads, program, commands, acks, stdin, stdout>>

-----------------------------------------------------------------------------
(* play_game. *)

(* What was spent is taken off a clock. *)
Paid(p) == Less(clocks[p], spent)

(* The startup of the program counts against its clock. *)
Ready ==
  /\ pc = "ready" /\ pc' = "turn"
  /\ clocks' = [clocks EXCEPT ![External] = Paid(External)]
  /\ UNCHANGED <<ply, asks, result, spent, search, talk, threads, program, queues>>

StartFails ==
  /\ pc = "judge" /\ choice = [kind |-> "error", ask |-> 0]
  /\ result' = [winner |-> Internal, failure |-> "startup"] /\ pc' = "kill"
  /\ UNCHANGED <<ply, clocks, asks, spent, search, talk, threads, program, queues>>

(* choose sends the whole board the first time, the last move afterwards.  *)
Asking(ask) ==
  LET Line(kind) == [kind |-> kind, ask |-> ask]
      request == IF ask > 1 THEN <<Line("TURN")>>
                 ELSE IF ply = 0 THEN <<Line("BEGIN")>>
                 ELSE <<Line("BOARD")>> \o [i \in 1..ply |-> Line("STONE")] \o <<Line("DONE")>>
  IN <<Line("INFO"), Line("INFO")>> \o request

AskExternal ==
  /\ pc = "turn" /\ Mover = External
  /\ spent' = 0 /\ asks' = asks + 1 /\ script' = Asking(asks + 1) /\ pc' = "send"
  /\ UNCHANGED <<ply, clocks, result, search, lines, choice, threads, program, queues>>

SearchInternal ==
  /\ pc = "turn" /\ Mover = Internal
  /\ spent' = 0 /\ pc' = "search"
  /\ manager' = NewManager(Scale * clocks[Internal], Scale * Increment, Scale * TurnLimit)
  /\ depth' = 0
  /\ UNCHANGED <<game, talk, threads, program, queues>>

Own == choice' = [kind |-> "own", ask |-> asks] /\ pc' = "judge"
EndSearch == manager' = NoManager /\ depth' = 0

Watch == {Scale * spent + f : f \in Fractions}

(* An iteration is completed; the observer, which has a watch of its own,  *)
(* may say that it was the last.                                           *)
IterationEnds ==
  /\ pc = "search" /\ depth < MaxDepth
  /\ \E info \in Infos : \E elapsed \in {t \in Watch : t >= manager.elapsed} :
       LET after == Completed(manager, info, elapsed)
       IN IF after.stop THEN Own /\ EndSearch
          ELSE manager' = after /\ depth' = depth + 1 /\ UNCHANGED <<pc, choice>>
  /\ UNCHANGED <<game, spent, script, lines, threads, program, queues>>

(* The search ends at its last depth, or for the engine's own limits.      *)
SearchEnds ==
  /\ pc = "search" /\ Own /\ EndSearch
  /\ UNCHANGED <<game, spent, script, lines, threads, program, queues>>

Late == spent > Hard(Mover)

(* The move is played; the game goes on, or is won or drawn by it.         *)
Play ==
  /\ pc = "judge" /\ choice.kind \in {"own", "move"} /\ ~Late
  /\ ply' = ply + 1
  /\ clocks' = [clocks EXCEPT ![Mover] = Paid(Mover) + Increment]
  /\ choice' = NoChoice
  /\ \/ ply' < MaxPlies /\ pc' = "turn" /\ UNCHANGED result
     \/ /\ result' \in {[winner |-> w, failure |-> "none"] : w \in {Mover, "draw"}}
        /\ pc' = "kill"
  /\ UNCHANGED <<asks, spent, search, script, lines, threads, program, queues>>

(* Mutant: a failed turn is asked again. *)
AskAgain ==
  /\ pc = "judge" /\ choice # [kind |-> "error", ask |-> 0]
  /\ choice.kind = "error" \/ Late
  /\ pc' = "turn" /\ choice' = NoChoice /\ asks < MaxPlies
  /\ UNCHANGED <<game, spent, search, script, lines, threads, program, queues>>

(* A late move or none at all loses the game. *)
Forfeit ==
  /\ pc = "judge" /\ choice # [kind |-> "error", ask |-> 0]
  /\ choice.kind = "error" \/ Late
  /\ result' = [winner |-> Opponent(Mover), failure |-> IF Late THEN "time" ELSE "error"]
  /\ clocks' = [clocks EXCEPT ![Mover] = Paid(Mover)]
  /\ pc' = "kill"
  /\ UNCHANGED <<ply, asks, spent, search, talk, threads, program, queues>>

-----------------------------------------------------------------------------
(* Drop: kill and reap the program, drop both channels, join both threads. *)

(* Mutant: the channel of lines is only dropped with the player. *)
OutputStaysOpen == FALSE

OutputDropped == pc \in {"dropped", "join", "closed"}
InputDropped == pc \in {"dropped", "join", "closed"}

Kill ==
  /\ pc = "kill" /\ pc' = "dropped" /\ child' = "dead"
  /\ UNCHANGED <<game, spent, search, talk, threads, owed, chat, queues>>

JoinWriter ==
  /\ pc = "dropped" /\ writer = "exited" /\ pc' = "join"
  /\ UNCHANGED <<game, spent, search, talk, threads, program, queues>>

JoinReader ==
  /\ pc = "join" /\ reader = "exited" /\ pc' = "closed"
  /\ UNCHANGED <<game, spent, search, talk, threads, program, queues>>

-----------------------------------------------------------------------------
(* The writer: a command is taken, written, flushed and acknowledged; its  *)
(* place in the channel is not needed before that.                         *)

WriterWrites ==
  /\ writer = "recv" /\ commands # <<>>
  /\ \/ /\ child = "alive" /\ Len(stdin) < PipeSlots
        /\ stdin' = Append(stdin, Head(commands)) /\ writer' = "ok"
     \/ child = "dead" /\ writer' = "failed" /\ UNCHANGED stdin
  /\ commands' = Tail(commands)
  /\ UNCHANGED <<game, spent, search, pc, talk, reader, held, program, acks, output, stdout>>

WriterAcknowledges ==
  /\ writer \in {"ok", "failed"} /\ Len(acks) < 1
  /\ acks' = Append(acks, writer)
  /\ writer' = IF writer = "ok" THEN "recv" ELSE "exited"
  /\ UNCHANGED <<game, spent, search, pc, talk, reader, held, program, commands, output, stdin, stdout>>

WriterEnds ==
  /\ writer = "recv" /\ commands = <<>> /\ InputDropped
  /\ writer' = "exited"
  /\ UNCHANGED <<game, spent, search, pc, talk, reader, held, program, queues>>

Writer == WriterWrites \/ WriterAcknowledges \/ WriterEnds

(* The reader: lines of the program, then its end.                         *)

ReaderReads ==
  /\ reader = "read"
  /\ \/ stdout # <<>> /\ held' = Head(stdout) /\ stdout' = Tail(stdout)
     \/ /\ stdout = <<>> /\ child = "dead"
        /\ held' = [kind |-> "closed", ask |-> asks] /\ UNCHANGED stdout
  /\ reader' = "send"
  /\ UNCHANGED <<game, spent, search, pc, talk, writer, program, commands, acks, output, stdin>>

ReaderSends ==
  /\ reader = "send" /\ ~OutputDropped /\ Len(output) < OutputSlots
  /\ output' = Append(output, held)
  /\ reader' = IF held.kind = "closed" THEN "exited" ELSE "read"
  /\ held' = NoChoice
  /\ UNCHANGED <<game, spent, search, pc, talk, writer, program, commands, acks, stdin, stdout>>

ReaderEnds ==
  /\ reader = "send" /\ OutputDropped
  /\ reader' = "exited"
  /\ UNCHANGED <<game, spent, search, pc, talk, writer, held, program, queues>>

Reader == ReaderReads \/ ReaderSends \/ ReaderEnds

-----------------------------------------------------------------------------
(* The program answers what it was asked, once, in order; or it does not.  *)

Requests == {"START", "BEGIN", "DONE", "TURN"}

ProgramReads ==
  /\ child = "alive" /\ stdin # <<>>
  /\ stdin' = Tail(stdin)
  /\ owed' = IF Head(stdin).kind \in Requests THEN Append(owed, Head(stdin)) ELSE owed
  /\ UNCHANGED <<game, spent, search, pc, talk, threads, child, chat, commands, acks, output, stdout>>

Says(kind, ask) == stdout' = Append(stdout, [kind |-> kind, ask |-> ask])

ProgramAnswers ==
  /\ child = "alive" /\ owed # <<>> /\ Len(stdout) < PipeSlots
  /\ \E kind \in IF Head(owed).kind = "START" THEN {"OK", "ERROR"} ELSE {"move", "illegal", "ERROR"} :
       Says(kind, Head(owed).ask)
  /\ owed' = Tail(owed)
  /\ UNCHANGED <<game, spent, search, pc, talk, threads, child, chat, commands, acks, output, stdin>>

ProgramChats ==
  /\ child = "alive" /\ chat < MaxChat /\ Len(stdout) < PipeSlots
  /\ Says("chat", asks) /\ chat' = chat + 1
  /\ UNCHANGED <<game, spent, search, pc, talk, threads, child, owed, commands, acks, output, stdin>>

ProgramExits ==
  /\ child = "alive" /\ child' = "dead"
  /\ UNCHANGED <<game, spent, search, pc, talk, threads, owed, chat, queues>>

Program == ProgramReads \/ ProgramAnswers \/ ProgramChats \/ ProgramExits

-----------------------------------------------------------------------------
Main ==
  \/ Send \/ Acknowledged \/ SendFails \/ ReadChat \/ ReplyFails \/ Answer
  \/ Ready \/ StartFails \/ AskExternal \/ SearchInternal \/ IterationEnds \/ SearchEnds
  \/ Play \/ Forfeit \/ Kill \/ JoinWriter \/ JoinReader

Next == Main \/ Writer \/ Reader \/ Program \/ Tick

(* The three threads run and time goes by; the program owes nothing.       *)
Spec == Init /\ [][Next]_vars
FairSpec == Spec /\ WF_vars(Main) /\ WF_vars(Writer) /\ WF_vars(Reader) /\ WF_vars(Tick)

-----------------------------------------------------------------------------
(* Whatever the program does or leaves undone, the game gets a result and  *)
(* the player is torn down: no thread waits for a pipe or a channel for    *)
(* ever, full, empty or closed.                                            *)
MatchReturns == <>(pc = "closed")

(* A move is taken only as the answer to the turn it is judged for: none   *)
(* that came too late for its own turn is taken for another one.           *)
AnswersTheTurn ==
  pc = "judge" /\ choice.kind = "move" => choice.ask = asks /\ Mover = External

(* The program loses a turn only for its deadline, a flood of lines, a bad *)
(* answer or its own end, not for chatting or for how its answers and the  *)
(* threads interleave.                                                     *)
FailuresAreDeserved ==
  pc = "judge" /\ choice.kind = "error" =>
    \/ spent >= Limit \/ lines = MaxLines \/ child = "dead"
    \/ output # <<>> /\ Head(output).kind \in {"ERROR", "illegal"}

(* However unstable the search, no iteration is begun once the reserve of  *)
(* a tenth of the hard limit is touched.                                   *)
ReserveIsKept == pc = "search" /\ manager.known => manager.elapsed < manager.ceiling
===============================================================================
