---------------------------- MODULE SearchWorker ----------------------------
(***************************************************************************)
(* The search worker of the native application (worker.rs): a thread that  *)
(* owns the engine and takes commands from a FIFO channel, the channels    *)
(* its events and opening-book reports come back on, and the handle the    *)
(* user interface keeps, with the id of the latest request and the token   *)
(* of the search it still expects an answer from.                          *)
(*                                                                         *)
(* A cancellation token is the id of its request; a search is what it was  *)
(* asked about (the position cloned at the click) and the settings the     *)
(* engine had when it began.  What a search computes is left open: any     *)
(* legal move, after any number of snapshots up to MaxInfos.               *)
(***************************************************************************)
EXTENDS Gomoku, SequencesExt

CONSTANTS
  Configs,      \* engine configurations, as far as a book or a result tells
  Evaluators,   \* evaluators an engine may be given
  Books,        \* opening database files: [config, evaluator] they are for
  FirstConfig,
  Pattern,      \* the evaluator every worker starts with
  MaxInfos      \* bound: snapshots one search reports

(* What a search is about. *)
Subjects == [position : Positions, config : Configs, evaluator : Evaluators]

ASSUME SettingsAssumption ==
  /\ FirstConfig \in Configs /\ Pattern \in Evaluators /\ MaxInfos \in Nat
  /\ Books \subseteq [config : Configs, evaluator : Evaluators]
  /\ Nothing \notin Subjects

VARIABLES
  link,      \* the handle: id, current token, cancelled tokens, requests sent
  thread,    \* "alive", "ended" by Shutdown, or "panicked"
  engine,    \* the engine the thread owns: config, evaluator, book
  running,   \* the search in progress
  events,    \* the channel of Info and Finished
  reports    \* the channel of the book status

threadVars == <<thread, engine, running, events, reports>>

WorkerInit ==
  /\ link = [id |-> 0, current |-> Nothing, cancelled |-> {}, requests |-> <<>>]
  /\ thread = "alive"
  /\ engine = [config |-> FirstConfig, evaluator |-> Pattern, book |-> Nothing]
  /\ running = Nothing
  /\ events = <<>> /\ reports = <<>>

-----------------------------------------------------------------------------
(* The handle, as values: what a call of the user interface makes of it. *)

Searching(l) == l.current # Nothing

Invalidated(l) ==
  [l EXCEPT !.cancelled = @ \cup ({l.current} \ {Nothing}), !.current = Nothing,
            !.id = @ + 1]

(* A send fails once the thread, and with it the receiver, is gone. *)
Connected == thread = "alive"

Sent(l, command) == IF Connected THEN [l EXCEPT !.requests = Append(@, command)] ELSE l

(* reconfigure, replace_evaluator, opening_book: invalidate, then send. *)
Ordered(l, command) == Sent(Invalidated(l), command)

(* start: the search expected from now on, unless it could not be sent. *)
Started(l, position) ==
  LET fresh == Invalidated(l)
      asked == Sent(fresh, [kind |-> "Search", id |-> fresh.id, position |-> position])
  IN IF Connected THEN [asked EXCEPT !.current = fresh.id] ELSE asked

(* Mutant: only the search in progress is checked, not which one answers. *)
AcceptsAnyId(l, event) == Searching(l)

Accepts(l, event) == event.id = l.id /\ Searching(l)

(* What accept leaves: a final event ends the expectation. *)
Accepted(l, event) == IF event.kind = "Finished" THEN [l EXCEPT !.current = Nothing] ELSE l

-----------------------------------------------------------------------------
(* The thread. *)

(* The next command, while no search is in progress. *)
Receives(kind) ==
  /\ thread = "alive" /\ running = Nothing
  /\ link.requests # <<>> /\ Head(link.requests).kind = kind
  /\ link' = [link EXCEPT !.requests = Tail(@)]

Received == Head(link.requests)

(* A request cancelled while it was queued is skipped without any event. *)
SkipSearch ==
  /\ Receives("Search")
  /\ Received.id \in link.cancelled
  /\ UNCHANGED threadVars

BeginSearch ==
  /\ Receives("Search")
  /\ Received.id \notin link.cancelled
  /\ running' = [id |-> Received.id, infos |-> 0,
                 about |-> [position |-> Received.position, config |-> engine.config,
                            evaluator |-> engine.evaluator]]
  /\ UNCHANGED <<thread, engine, events, reports>>

Inform ==
  /\ thread = "alive" /\ running # Nothing /\ running.infos < MaxInfos
  /\ events' = Append(events, [kind |-> "Info", id |-> running.id, about |-> running.about])
  /\ running' = [running EXCEPT !.infos = @ + 1]
  /\ UNCHANGED <<link, thread, engine, reports>>

(* search_controlled returns: a cancelled search may have completed just   *)
(* before it noticed, and even a cancelled one has a legal move to offer.  *)
FinishSearch ==
  /\ thread = "alive" /\ running # Nothing
  /\ \E at \in Cells, termination \in {"Completed", "Cancelled"} :
       /\ Legal(running.about.position, at)
       /\ termination = "Cancelled" => running.id \in link.cancelled
       /\ events' = Append(events, [kind |-> "Finished", id |-> running.id,
                                    about |-> running.about, best |-> at,
                                    termination |-> termination])
  /\ running' = Nothing
  /\ UNCHANGED <<link, thread, engine, reports>>

(* Mutant: the opening book survives a change of configuration. *)
ReconfigureKeepsBook ==
  /\ Receives("Reconfigure")
  /\ engine' = [engine EXCEPT !.config = Received.config]
  /\ reports' = Append(reports, [book |-> Nothing])
  /\ UNCHANGED <<thread, running, events>>

Reconfigure ==
  /\ Receives("Reconfigure")
  /\ engine' = [engine EXCEPT !.config = Received.config, !.book = Nothing]
  /\ reports' = Append(reports, [book |-> Nothing])
  /\ UNCHANGED <<thread, running, events>>

ReplaceEvaluator ==
  /\ Receives("ReplaceEvaluator")
  /\ engine' = [engine EXCEPT !.evaluator = Received.evaluator, !.book = Nothing]
  /\ reports' = Append(reports, [book |-> Nothing])
  /\ UNCHANGED <<thread, running, events>>

(* A file that cannot be read, or set_opening_database refuses as made for *)
(* another configuration or model, leaves the engine without any book.  An *)
(* error and the absence of a book are shown alike.                        *)
Fits(book) == book.config = engine.config /\ book.evaluator = engine.evaluator

Loadable(book) == {Nothing} \cup (IF book # Nothing /\ Fits(book) THEN {book} ELSE {})

(* Mutant: a failed replacement keeps the book that was loaded. *)
OpenBookKeepsOld ==
  /\ Receives("OpeningBook")
  /\ \E loaded \in Loadable(Received.book) :
       /\ engine' = [engine EXCEPT !.book = IF loaded = Nothing THEN @ ELSE loaded]
       /\ reports' = Append(reports, [book |-> loaded])
  /\ UNCHANGED <<thread, running, events>>

OpenBook ==
  /\ Receives("OpeningBook")
  /\ \E loaded \in Loadable(Received.book) :
       /\ engine' = [engine EXCEPT !.book = loaded]
       /\ reports' = Append(reports, [book |-> loaded])
  /\ UNCHANGED <<thread, running, events>>

(* The thread leaves its loop and drops its ends of the channels. *)
Stops(how) ==
  /\ thread' = how
  /\ running' = Nothing
  /\ UNCHANGED <<engine, events, reports>>

Shutdown == Receives("Shutdown") /\ Stops("ended")

(* A panic of the engine unwinds the thread; what was queued is lost. *)
Panic ==
  /\ thread = "alive" /\ running # Nothing
  /\ link' = [link EXCEPT !.requests = <<>>]
  /\ Stops("panicked")

Work ==
  \/ SkipSearch \/ BeginSearch \/ Inform \/ FinishSearch
  \/ Reconfigure \/ ReplaceEvaluator \/ OpenBook \/ Shutdown
=============================================================================
