----------------------------- MODULE NativeApp -----------------------------
(***************************************************************************)
(* The native application (main.rs) over its search worker.  The user      *)
(* interface runs one handler at a time on its own thread; each handler is *)
(* one action here, with everything it calls.  Between two of them the     *)
(* worker's thread moves on, and an event may be waiting in its channel    *)
(* that was sent before the user changed the game.                         *)
(*                                                                         *)
(* A time in the history is modelled by the move it was measured for, or   *)
(* Nothing when it is unknown.                                             *)
(***************************************************************************)
EXTENDS SearchWorker

CONSTANTS
  Openings,      \* the move lists of the built-in openings, <<>> for none
  Records,       \* the move lists the user may import
  MaxRequestId   \* bound: ids the user's actions may use up

ASSUME InputsAssumption ==
  /\ Openings \subseteq Seq(Cells) /\ Records \subseteq Seq(Cells)
  /\ \A moves \in Openings : IsRecord(moves)

VARIABLES
  app,       \* RustMokuApp
  window     \* "open", "closing" while the worker is joined, "closed"

vars == <<app, window, link, thread, engine, running, events, reports>>

Init ==
  /\ WorkerInit
  /\ window = "open"
  /\ app = [game |-> NewGame, human |-> "Black", floor |-> 0,
            times |-> <<>>, undone |-> <<>>,  \* MoveTimings: history and future
            timed |-> TRUE,                   \* turn_started is set
            shown |-> Nothing,                \* last_search
            config |-> FirstConfig, evaluator |-> Pattern,
            book |-> Nothing]                 \* book_status

-----------------------------------------------------------------------------
(* What a handler does, as values: s has the application and the handle. *)
Now == [app |-> app, link |-> link]
Do(s) == app' = s.app /\ link' = s.link

HumanTurn(a) == a.game.status = "Ongoing" /\ a.game.position.side = a.human
AiTurn(a) == a.game.status = "Ongoing" /\ a.game.position.side # a.human

GiveUp(s) == [s EXCEPT !.link = Invalidated(@)]
Order(s, command) == [s EXCEPT !.link = Ordered(@, command)]

(* Mutant: the turn of the AI is not timed, so nothing asks for a repaint. *)
PlayAiUntimed(s) ==
  IF Searching(s.link) \/ ~AiTurn(s.app) THEN s
  ELSE [app |-> [s.app EXCEPT !.shown = Nothing],
        link |-> Started(s.link, s.app.game.position)]

PlayAiIfNeeded(s) ==
  IF Searching(s.link) \/ ~AiTurn(s.app) THEN s
  ELSE [app |-> [s.app EXCEPT !.shown = Nothing, !.timed = Connected],
        link |-> Started(s.link, s.app.game.position)]

StartHumanTimer(s) ==
  [s EXCEPT !.app.timed = @ \/ HumanTurn(s.app)]

(* The end of every handler that changes the game or the evaluator. *)
Resume(s) ==
  StartHumanTimer(PlayAiIfNeeded([s EXCEPT !.app.shown = Nothing, !.app.timed = FALSE]))

ReplaceGame(s, moves, floor) ==
  Resume([GiveUp(s) EXCEPT !.app.game = Replay(moves), !.app.floor = floor,
                           !.app.times = [i \in DOMAIN moves |-> Nothing],
                           !.app.undone = <<>>])

-----------------------------------------------------------------------------
(* The user's handlers. *)

Acts == /\ window = "open" /\ link.id + 2 <= MaxRequestId
        /\ UNCHANGED <<window, thread, engine, running, events, reports>>

(* The buttons and choices that call new_game: the user may have changed   *)
(* the colour or the opening, or neither.                                  *)
NewGameChosen ==
  /\ Acts
  /\ \E stone \in Stones, opening \in Openings :
       Do(ReplaceGame([Now EXCEPT !.app.human = stone], opening, Len(opening)))

ImportRecord ==
  /\ Acts
  /\ \E moves \in Records : IsRecord(moves) /\ Do(ReplaceGame(Now, moves, 0))

(* How many plies lie above the last decision of the user that is not part *)
(* of the opening.                                                         *)
HumanUndoPlies(a) ==
  LET own == {i \in DOMAIN a.game.history :
                i > a.floor /\ a.game.position.cells[a.game.history[i].at] = a.human}
  IN IF own = {} THEN 0 ELSE Len(a.game.history) - Max(own) + 1

UndoneTimes(a, plies) ==
  [times |-> SubSeq(a.times, 1, Len(a.times) - plies),
   undone |-> a.undone \o Reverse(SubSeq(a.times, Len(a.times) - plies + 1, Len(a.times)))]

UndoToHuman ==
  LET plies == HumanUndoPlies(app)
      clocks == UndoneTimes(app, plies)
  IN /\ Acts
     /\ plies > 0
     /\ Do(Resume([GiveUp(Now) EXCEPT !.app.game = UndoPlies(@, plies),
                                      !.app.times = clocks.times,
                                      !.app.undone = clocks.undone]))

(* The redo loop stops at the end of the game or of the line, and on the   *)
(* user's turn.                                                            *)
StopsRedo(g, human) == g.status # "Ongoing" \/ g.position.side = human \/ ~CanRedo(g)

(* Mutant: one ply is redone whoever is to move then. *)
RedoOnePly(a) == 1

RedoLength(a) ==
  Min({n \in DOMAIN a.game.future : StopsRedo(RedoPlies(a.game, n), a.human)})

RedoneTimes(a, plies) ==
  [times |-> a.times \o Reverse(SubSeq(a.undone, Len(a.undone) - plies + 1, Len(a.undone))),
   undone |-> SubSeq(a.undone, 1, Len(a.undone) - plies)]

RedoToHuman ==
  /\ Acts
  /\ CanRedo(app.game)
  /\ LET plies == RedoLength(app)
         clocks == RedoneTimes(app, plies)
     IN Do(Resume([GiveUp(Now) EXCEPT !.app.game = RedoPlies(@, plies),
                                      !.app.times = clocks.times,
                                      !.app.undone = clocks.undone]))

(* record_new after play_move *)
PlayTimed(a, at, time) ==
  [a EXCEPT !.game = PlayMove(@, at), !.times = Append(@, time), !.undone = <<>>]

(* An occupied cell only changes the message. *)
PlayHumanMove ==
  /\ Acts
  /\ HumanTurn(app)
  /\ \E at \in Cells :
       /\ Playable(app.game, at)
       /\ LET moved == PlayTimed(app, at, IF app.timed THEN at ELSE Nothing)
          IN Do(PlayAiIfNeeded(GiveUp([Now EXCEPT !.app = [moved EXCEPT !.timed = FALSE]])))

-----------------------------------------------------------------------------
(* The engine's settings.  A file that cannot be read, and a profile for   *)
(* another evaluator, only change the message.                             *)

(* load_search_profile: the configuration changes once the command is sent.*)
LoadSearchProfile ==
  /\ Acts
  /\ \E config \in Configs :
       LET sent == Order(Now, [kind |-> "Reconfigure", config |-> config])
       IN Do(IF Connected
             THEN PlayAiIfNeeded([sent EXCEPT !.app.config = config, !.app.shown = Nothing])
             ELSE sent)

(* The threads and the memory: the configuration changes in any case. *)
ChangeThreads ==
  /\ Acts
  /\ \E config \in Configs \ {app.config} :
       LET sent == Order([Now EXCEPT !.app.config = config, !.app.shown = Nothing],
                         [kind |-> "Reconfigure", config |-> config])
       IN Do(IF Connected THEN PlayAiIfNeeded(sent) ELSE sent)

UsePattern ==
  /\ Acts
  /\ LET sent == Order(Now, [kind |-> "ReplaceEvaluator", evaluator |-> Pattern])
     IN Do(IF Connected THEN Resume([sent EXCEPT !.app.evaluator = Pattern]) ELSE sent)

LoadLearnedModel ==
  /\ Acts
  /\ \E evaluator \in Evaluators \ {Pattern} :
       LET sent == Order([Now EXCEPT !.app.shown = Nothing],
                         [kind |-> "ReplaceEvaluator", evaluator |-> evaluator])
       IN Do(IF Connected THEN Resume([sent EXCEPT !.app.evaluator = evaluator]) ELSE sent)

(* Load Book and Clear Book. *)
ChooseBook ==
  /\ Acts
  /\ \E book \in Books \cup {Nothing} :
       Do(PlayAiIfNeeded(
            [Order(Now, [kind |-> "OpeningBook", book |-> book])
              EXCEPT !.app.book = Nothing, !.app.shown = Nothing]))

-----------------------------------------------------------------------------
(* What a frame polls. *)

Polls == window = "open" /\ UNCHANGED <<window, thread, engine, running>>

(* handle_event of an accepted event.  A Finished that is not Cancelled    *)
(* plays its move if it is still the AI's turn and the move is legal.      *)
Handled(s, event) ==
  LET seen == [app |-> [s.app EXCEPT !.shown = event.about],
               link |-> Accepted(s.link, event)]
  IN IF /\ event.kind = "Finished" /\ event.termination # "Cancelled"
        /\ AiTurn(s.app) /\ Playable(s.app.game, event.best)
     THEN StartHumanTimer(
            [seen EXCEPT !.app = [PlayTimed(@, event.best, event.best) EXCEPT !.timed = FALSE]])
     ELSE seen

PollSearch ==
  /\ Polls
  /\ events # <<>>
  /\ Do(IF Accepts(link, Head(events)) THEN Handled(Now, Head(events)) ELSE Now)
  /\ events' = Tail(events)
  /\ UNCHANGED reports

(* try_recv fails once the channel is empty and the thread is gone. *)
PollDisconnected ==
  /\ Polls
  /\ events = <<>> /\ ~Connected /\ Searching(link)
  /\ Do(GiveUp(Now))
  /\ UNCHANGED <<events, reports>>

(* The last report of several is shown. *)
PollBookStatus ==
  /\ Polls
  /\ reports # <<>>
  /\ Do([Now EXCEPT !.app.book = Last(reports).book])
  /\ reports' = <<>>
  /\ UNCHANGED events

(* Mutant: the worker is joined while its channel is still open. *)
CloseWithoutShutdown ==
  /\ window = "open" /\ window' = "closing"
  /\ Do(GiveUp(Now))
  /\ UNCHANGED <<thread, engine, running, events, reports>>

(* The window closes: Drop invalidates, sends Shutdown and joins. *)
Close ==
  /\ window = "open" /\ window' = "closing"
  /\ Do(Order(Now, [kind |-> "Shutdown"]))
  /\ UNCHANGED <<thread, engine, running, events, reports>>

Join ==
  /\ window = "closing" /\ ~Connected
  /\ window' = "closed"
  /\ UNCHANGED <<app, link, thread, engine, running, events, reports>>

User ==
  \/ NewGameChosen \/ ImportRecord \/ UndoToHuman \/ RedoToHuman \/ PlayHumanMove
  \/ LoadSearchProfile \/ ChangeThreads \/ UsePattern \/ LoadLearnedModel \/ ChooseBook
  \/ Close

Frame == PollSearch \/ PollDisconnected \/ PollBookStatus

Thread == (Work \/ Panic) /\ UNCHANGED <<app, window>>

Next == User \/ Frame \/ Join \/ Thread

Spec == Init /\ [][Next]_vars

(***************************************************************************)
(* Fairness: the worker's thread runs, and a search ends: by its limits,   *)
(* or, with neither a move time nor a reachable depth, by its token.  The  *)
(* interface polls while it repaints, and it asks for a repaint while a    *)
(* turn is timed.  Nothing is assumed of the user.                         *)
(***************************************************************************)
Fairness ==
  /\ WF_vars(Work /\ UNCHANGED <<app, window>>)
  /\ WF_vars(app.timed /\ (PollSearch \/ PollDisconnected))
  /\ WF_vars(Join)

FairSpec == Spec /\ Fairness

-----------------------------------------------------------------------------
(* The AI answers only on its turn, for the position on the board and with *)
(* the settings in force, whatever was queued, running or already answered *)
(* when the user changed any of them (accept, "central admission gate for  *)
(* every event").                                                          *)
Promise == INSTANCE Duel WITH
  Settings <- [config : Configs, evaluator : Evaluators],
  game <- app.game, human <- app.human,
  settings <- [config |-> app.config, evaluator |-> app.evaluator],
  shown <- IF app.shown = Nothing THEN Nothing
           ELSE [position |-> app.shown.position,
                 settings |-> [config |-> app.shown.config,
                               evaluator |-> app.shown.evaluator]]

ImplementsDuel == Promise!Spec

(* A reply the line of play already holds is not searched for again: redo  *)
(* goes on to it ("historical AI reply must not be searched again").       *)
ReplyIsNotSearchedAgain == AiTurn(app) => ~CanRedo(app.game)

(* Once the thread has caught up, the book shown is the one the engine     *)
(* uses, and it was made for the settings in force.                        *)
ShownBookIsUsed ==
  Connected /\ link.requests = <<>> /\ reports = <<>> =>
    /\ app.book = engine.book
    /\ engine.book # Nothing =>
         engine.book = [config |-> app.config, evaluator |-> app.evaluator]

(* A turn of the AI ends: it moves, unless its thread dies. *)
AiReplies ==
  window = "open" /\ Connected /\ AiTurn(app)
    ~> ~AiTurn(app) \/ ~Connected \/ window # "open"

(* Closing the window joins the worker, even in the middle of a search. *)
CloseEnds == window = "closing" ~> window = "closed"
=============================================================================
