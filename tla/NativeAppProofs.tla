-------------------------- MODULE NativeAppProofs --------------------------
(***************************************************************************)
(* Proofs about the native application and its search worker, for every    *)
(* board, every set of settings, books, openings and records, and every    *)
(* number of requests.                                                     *)
(*                                                                         *)
(* The argument.  The invariant relates the application to everything that *)
(* is on its way between the two threads:                                  *)
(*   - no id on its way is later than the handle's (TrafficInv), so what   *)
(*     was asked before the last change of the id never answers for it;    *)
(*   - while an answer is expected, whatever has the expected id, in the   *)
(*     queue, running or answered, is about the game on the board and the  *)
(*     settings in force, and no command follows its request (ExpectInv);  *)
(*   - the engine has the settings of the application once the pending     *)
(*     commands are taken (SettingsInv), a book fits the settings it was   *)
(*     loaded under (EngineInv), and the last report tells of the book in  *)
(*     use (EngineInv, ShownInv);                                          *)
(*   - the game is a cursor on a line of play, and what it can redo next   *)
(*     is a move of the user (OnLine).                                     *)
(* A handler is followed as a value, the session it leaves: each call it   *)
(* makes keeps the invariant of the session (Good), and the step takes it  *)
(* over (DoneKeeps).  StepIs sums the steps up; the promise follows it.    *)
(***************************************************************************)
EXTENDS NativeApp, GomokuProofs

USE BoardAssumption, NothingAssumption, SettingsAssumption, InputsAssumption

IsApp(a) == a = [game |-> a.game, human |-> a.human, floor |-> a.floor, times |-> a.times,
                 undone |-> a.undone, timed |-> a.timed, shown |-> a.shown,
                 config |-> a.config, evaluator |-> a.evaluator, book |-> a.book]

IsLink(l) == l = [id |-> l.id, current |-> l.current, cancelled |-> l.cancelled,
                  requests |-> l.requests]

IsSession(s) == {"app", "link"} \subseteq DOMAIN s /\ IsApp(s.app) /\ IsLink(s.link)

(* Two applications that differ in nothing the invariant is about. *)
Alike(a, b) ==
  /\ IsApp(b) /\ b.game = a.game /\ b.human = a.human /\ b.config = a.config
  /\ b.evaluator = a.evaluator /\ b.book = a.book

-----------------------------------------------------------------------------
(* The inductive invariant, of the application, the handle, the thread, its *)
(* engine, its search and the two channels.                                *)

(* A game on a line of play; what it can redo next is a move of the user. *)
OnLine(g, human) ==
  \E line : \E n \in 0..Len(line) :
    /\ IsLine(line) /\ g = GameAt(line, n)
    /\ n < Len(line) => Stone(n + 1) = human

AppInv(a) ==
  /\ IsApp(a) /\ a.human \in Stones /\ a.config \in Configs /\ a.evaluator \in Evaluators
  /\ OnLine(a.game, a.human)

Commands ==
  [kind : {"Search"}, id : Nat, position : Positions]
    \cup [kind : {"Reconfigure"}, config : Configs]
    \cup [kind : {"ReplaceEvaluator"}, evaluator : Evaluators]
    \cup [kind : {"OpeningBook"}, book : Books \cup {Nothing}]
    \cup [kind : {"Shutdown"}]

EventTypes ==
  [kind : {"Info"}, id : Nat, about : Subjects]
    \cup [kind : {"Finished"}, id : Nat, about : Subjects, best : Cells,
          termination : {"Completed", "Cancelled"}]

Searches == [id : Nat, infos : Nat, about : Subjects]
MaybeBooks == Books \cup {Nothing}
Reports == [book : MaybeBooks]

(* What is sent and answered, and no id is later than the handle's. *)
TrafficInv(l, ru, ev) ==
  /\ IsLink(l) /\ l.id \in Nat /\ l.requests \in Seq(Commands)
  /\ \A i \in DOMAIN l.requests : l.requests[i].kind = "Search" => l.requests[i].id <= l.id
  /\ ru # Nothing => ru \in Searches /\ ru.id <= l.id
  /\ ev \in Seq(EventTypes)
  /\ \A i \in DOMAIN ev : ev[i].id <= l.id

EngineInv(en, re) ==
  /\ en \in [config : Configs, evaluator : Evaluators, book : MaybeBooks]
  /\ en.book # Nothing => en.book = [config |-> en.config, evaluator |-> en.evaluator]
  /\ re \in Seq(Reports)
  /\ re # <<>> => re[Len(re)].book = en.book

About(a) == [position |-> a.game.position, config |-> a.config, evaluator |-> a.evaluator]

(* While an answer is expected, it is the turn of the AI, and whatever has *)
(* the expected id, on its way, running or answered, is about this turn.   *)
ExpectInv(a, l, ru, ev) ==
  Searching(l) =>
    /\ AiTurn(a)
    /\ \A i \in DOMAIN l.requests :
         l.requests[i].kind = "Search" /\ l.requests[i].id = l.id =>
           i = Len(l.requests) /\ l.requests[i].position = a.game.position
    /\ ru # Nothing /\ ru.id = l.id => ru.about = About(a)
    /\ \A i \in DOMAIN ev : ev[i].id = l.id => ev[i].about = About(a)

(* The last of the pending commands of a kind. *)
IsLast(requests, kind, i) ==
  requests[i].kind = kind /\ \A j \in DOMAIN requests : j > i => requests[j].kind # kind

None(requests, kind) == \A i \in DOMAIN requests : requests[i].kind # kind

(* Once a living thread has taken the pending commands, its engine has the *)
(* settings of the application, and what it reports of its book is shown.  *)
SettingsInv(a, requests, en) ==
  /\ \A i \in DOMAIN requests :
       /\ IsLast(requests, "Reconfigure", i) => requests[i].config = a.config
       /\ IsLast(requests, "ReplaceEvaluator", i) => requests[i].evaluator = a.evaluator
  /\ None(requests, "Reconfigure") => en.config = a.config
  /\ None(requests, "ReplaceEvaluator") => en.evaluator = a.evaluator

ShownInv(a, requests, en, re) ==
  None(requests, "OpeningBook") /\ re = <<>> => a.book = en.book

Inv(a, l, th, en, ru, ev, re) ==
  /\ AppInv(a) /\ TrafficInv(l, ru, ev) /\ EngineInv(en, re) /\ ExpectInv(a, l, ru, ev)
  /\ th = "alive" => SettingsInv(a, l.requests, en) /\ ShownInv(a, l.requests, en, re)

IInv == Inv(app, link, thread, engine, running, events, reports)

Good(s) ==
  {"app", "link"} \subseteq DOMAIN s
  /\ Inv(s.app, s.link, thread, engine, running, events, reports)

-----------------------------------------------------------------------------
(* The records. *)
LEMMA NowIs ==
  ASSUME IsApp(app), IsLink(link)
  PROVE  IsSession(Now) /\ Now.app = app /\ Now.link = link
  BY DEF Now, IsSession

(* What invalidating leaves of the handle. *)
LEMMA InvalidatedIs ==
  ASSUME NEW l, IsLink(l)
  PROVE  /\ IsLink(Invalidated(l)) /\ Invalidated(l).id = l.id + 1
         /\ Invalidated(l).current = Nothing /\ Invalidated(l).requests = l.requests
<1> DEFINE gone == l.cancelled \cup ({l.current} \ {Nothing})
           i == [id |-> l.id + 1, current |-> Nothing, cancelled |-> gone,
                 requests |-> l.requests]
<1>1. Invalidated(l) = [l EXCEPT !.cancelled = gone, !.current = Nothing, !.id = l.id + 1]
  BY Zenon DEF Invalidated
<1> HIDE DEF gone
<1>2. Invalidated(l) = i
  BY <1>1 DEF IsLink
<1> QED
  BY <1>2 DEF IsLink

(* What an order leaves of the handle. *)
LEMMA OrderedIs ==
  ASSUME NEW l, IsLink(l), NEW command
  PROVE  /\ IsLink(Ordered(l, command)) /\ Ordered(l, command).id = l.id + 1
         /\ Ordered(l, command).current = Nothing
         /\ Ordered(l, command).requests
              = IF Connected THEN Append(l.requests, command) ELSE l.requests
  BY DEF IsLink, Invalidated, Ordered, Sent

(* What starting a search leaves of the handle. *)
LEMMA StartedIs ==
  ASSUME NEW l, IsLink(l), NEW position
  PROVE  /\ IsLink(Started(l, position)) /\ Started(l, position).id = l.id + 1
         /\ Started(l, position).current = IF Connected THEN l.id + 1 ELSE Nothing
         /\ Started(l, position).requests
              = IF Connected
                THEN Append(l.requests, [kind |-> "Search", id |-> l.id + 1,
                position |-> position])
                ELSE l.requests
  BY DEF IsLink, Invalidated, Started, Sent

(* Giving a search up. *)
LEMMA GiveUpIs ==
  ASSUME NEW s, IsSession(s)
  PROVE  IsSession(GiveUp(s)) /\ GiveUp(s).app = s.app /\ GiveUp(s).link = Invalidated(s.link)
  BY InvalidatedIs DEF IsSession, GiveUp

(* Sending a command. *)
LEMMA OrderIs ==
  ASSUME NEW s, IsSession(s), NEW command
  PROVE  IsSession(Order(s, command)) /\ Order(s, command).app = s.app
         /\ Order(s, command).link = Ordered(s.link, command)
  BY OrderedIs DEF IsSession, Order

(* play_ai_if_needed starts a search, or does nothing. *)
LEMMA PlayAiIs ==
  ASSUME NEW s, IsSession(s)
  PROVE  LET r == PlayAiIfNeeded(s) IN
         /\ IsSession(r) /\ Alike(s.app, r.app)
         /\ \/ r.link = s.link /\ r.app.shown = s.app.shown
            \/ /\ ~Searching(s.link) /\ AiTurn(s.app) /\ r.app.shown = Nothing
               /\ r.link = Started(s.link, s.app.game.position)
  BY StartedIs DEF IsSession, IsApp, PlayAiIfNeeded, Alike

(* The timer of the user changes nothing else. *)
LEMMA HumanTimerIs ==
  ASSUME NEW s, IsSession(s)
  PROVE  LET r == StartHumanTimer(s) IN
         /\ IsSession(r) /\ Alike(s.app, r.app) /\ r.app.shown = s.app.shown /\ r.link = s.link
  BY DEF IsSession, IsApp, StartHumanTimer, Alike

(* What the end of a handler does. *)
LEMMA ResumeIs ==
  ASSUME NEW s, IsSession(s)
  PROVE  LET r == Resume(s) IN
         /\ IsSession(r) /\ Alike(s.app, r.app) /\ r.app.shown = Nothing
         /\ \/ r.link = s.link
            \/ /\ ~Searching(s.link) /\ AiTurn(s.app)
               /\ r.link = Started(s.link, s.app.game.position)
<1> DEFINE s1 == [s EXCEPT !.app.shown = Nothing, !.app.timed = FALSE]
           s2 == PlayAiIfNeeded(s1)
<1>1. IsSession(s1) /\ Alike(s.app, s1.app) /\ s1.app.shown = Nothing /\ s1.link = s.link
  <2>1. s1.app = [s.app EXCEPT !.shown = Nothing, !.timed = FALSE]
    BY DEF IsSession
  <2>2. s1.link = s.link
    BY DEF IsSession
  <2>3. {"app", "link"} \subseteq DOMAIN s1
    BY DEF IsSession
  <2> QED
    BY <2>1, <2>2, <2>3 DEF IsSession, IsApp, Alike
<1> HIDE DEF s1
<1>2. /\ IsSession(s2) /\ Alike(s1.app, s2.app) /\ s2.app.shown = Nothing
      /\ \/ s2.link = s1.link
         \/ /\ ~Searching(s1.link) /\ AiTurn(s1.app)
            /\ s2.link = Started(s1.link, s1.app.game.position)
  BY <1>1, PlayAiIs
<1>3. AiTurn(s1.app) = AiTurn(s.app)
  BY <1>1 DEF AiTurn, Alike
<1>4. Resume(s) = StartHumanTimer(s2)
  BY DEF Resume, s1
<1> HIDE DEF s2
<1> QED
  BY <1>1, <1>2, <1>3, <1>4, HumanTimerIs DEF Alike

-----------------------------------------------------------------------------
(* What the calls of the user interface keep of the invariant. *)

(* Append, index by index. *)
LEMMA AppendFacts ==
  ASSUME NEW S, NEW s \in Seq(S), NEW e \in S
  PROVE  /\ Append(s, e) \in Seq(S) /\ Len(s) \in Nat /\ Len(Append(s, e)) = Len(s) + 1
         /\ DOMAIN s = 1..Len(s) /\ DOMAIN Append(s, e) = 1..Len(s) + 1
         /\ \A i \in DOMAIN s : i \in DOMAIN Append(s, e) /\ Append(s, e)[i] = s[i]
         /\ Append(s, e)[Len(s) + 1] = e /\ Append(s, e) # <<>>
  BY AppendProperties, LenProperties

(* Tail, index by index. *)
LEMMA TailFacts ==
  ASSUME NEW S, NEW s \in Seq(S), s # <<>>
  PROVE  /\ Tail(s) \in Seq(S) /\ Head(s) \in S /\ Head(s) = s[1] /\ Len(s) \in Nat
         /\ 1 \in DOMAIN s /\ Len(Tail(s)) = Len(s) - 1
         /\ DOMAIN s = 1..Len(s) /\ DOMAIN Tail(s) = 1..Len(s) - 1
         /\ \A i \in DOMAIN Tail(s) : i + 1 \in DOMAIN s /\ Tail(s)[i] = s[i + 1]
  BY HeadTailProperties, LenProperties

(* What a command carries. *)
LEMMA CommandFacts ==
  ASSUME NEW command \in Commands
  PROVE  /\ command.kind = "Search" => command.id \in Nat /\ command.position \in Positions
         /\ command.kind = "Reconfigure" => command.config \in Configs
         /\ command.kind = "ReplaceEvaluator" => command.evaluator \in Evaluators
         /\ command.kind = "OpeningBook" => command.book \in MaybeBooks
  BY DEF Commands, MaybeBooks

(* The invariant does not depend on times and on what is shown. *)
LEMMA AlikeKeeps ==
  ASSUME NEW a, NEW b, NEW l, Inv(a, l, thread, engine, running, events, reports), Alike(a, b)
  PROVE  Inv(b, l, thread, engine, running, events, reports)
<1>1. AppInv(b)
  BY DEF Inv, AppInv, Alike
<1>2. AiTurn(a) = AiTurn(b) /\ About(a) = About(b)
  BY DEF AiTurn, About, Alike
<1>3. ExpectInv(b, l, running, events)
  BY <1>2 DEF Inv, ExpectInv, Alike
<1>4. thread = "alive" => SettingsInv(b, l.requests, engine)
  BY DEF Inv, SettingsInv, Alike
<1>5. thread = "alive" => ShownInv(b, l.requests, engine, reports)
  BY DEF Inv, ShownInv, Alike
<1> QED
  BY <1>1, <1>3, <1>4, <1>5 DEF Inv

(* A search that is given up expects nothing: the game may be another one. *)
LEMMA GiveUpKeeps ==
  ASSUME NEW a, NEW b, NEW l, Inv(a, l, thread, engine, running, events, reports),
         AppInv(b), b.config = a.config, b.evaluator = a.evaluator, b.book = a.book
  PROVE  Inv(b, Invalidated(l), thread, engine, running, events, reports)
<1> DEFINE m == Invalidated(l)
<1>1. /\ IsLink(l) /\ IsLink(m) /\ m.id = l.id + 1 /\ m.current = Nothing
      /\ m.requests = l.requests
  BY InvalidatedIs DEF Inv, TrafficInv
<1> HIDE DEF m
<1>2. TrafficInv(m, running, events)
  <2>1. /\ l.id \in Nat /\ l.requests \in Seq(Commands) /\ events \in Seq(EventTypes)
        /\ \A i \in DOMAIN l.requests : l.requests[i] \in Commands
        /\ \A i \in DOMAIN events : events[i] \in EventTypes
    BY LenProperties DEF Inv, TrafficInv
  <2>2. \A i \in DOMAIN events : events[i].id \in Nat
    BY <2>1 DEF EventTypes
  <2>3. \A i \in DOMAIN l.requests : l.requests[i].kind = "Search" => l.requests[i].id \in Nat
    BY <2>1, CommandFacts
  <2>4. running # Nothing => running \in Searches /\ running.id \in Nat
    BY DEF Inv, TrafficInv, Searches
  <2>5. /\ \A i \in DOMAIN l.requests : l.requests[i].kind = "Search" => l.requests[i].id <= m.id
        /\ \A i \in DOMAIN events : events[i].id <= m.id
        /\ running # Nothing => running.id <= m.id
    BY <1>1, <2>1, <2>2, <2>3, <2>4 DEF Inv, TrafficInv
  <2> QED
    BY <1>1, <2>1, <2>4, <2>5 DEF TrafficInv
<1>3. ExpectInv(b, m, running, events)
  BY <1>1 DEF ExpectInv, Searching
<1>4. thread = "alive" => SettingsInv(b, m.requests, engine)
  BY <1>1 DEF Inv, SettingsInv
<1>5. thread = "alive" => ShownInv(b, m.requests, engine, reports)
  BY <1>1 DEF Inv, ShownInv
<1> QED
  BY <1>2, <1>3, <1>4, <1>5 DEF Inv, m

(* Whatever is sent, the handle stays within the traffic. *)
LEMMA SentTraffic ==
  ASSUME NEW l, NEW m, TrafficInv(l, running, events), IsLink(m), m.id = l.id + 1,
         NEW command \in Commands, command.kind = "Search" => command.id = m.id,
         m.requests = IF Connected THEN Append(l.requests, command) ELSE l.requests
  PROVE  TrafficInv(m, running, events)
<1>1. /\ l.id \in Nat /\ l.requests \in Seq(Commands) /\ events \in Seq(EventTypes)
      /\ \A i \in DOMAIN l.requests : l.requests[i] \in Commands
      /\ \A i \in DOMAIN events : events[i] \in EventTypes
      /\ DOMAIN l.requests = 1..Len(l.requests) /\ Len(l.requests) \in Nat
  BY LenProperties DEF TrafficInv
<1>2. \A i \in DOMAIN events : events[i].id \in Nat
  BY <1>1 DEF EventTypes
<1>3. \A i \in DOMAIN l.requests : l.requests[i].kind = "Search" => l.requests[i].id \in Nat
  BY <1>1, CommandFacts
<1>4. running # Nothing => running \in Searches /\ running.id \in Nat
  BY DEF TrafficInv, Searches
<1>5. /\ \A i \in DOMAIN l.requests : l.requests[i].kind = "Search" => l.requests[i].id <= m.id
      /\ \A i \in DOMAIN events : events[i].id <= m.id
      /\ running # Nothing => running.id <= m.id
      /\ m.id \in Nat
  BY <1>1, <1>2, <1>3, <1>4 DEF TrafficInv
<1>6. CASE Connected
  <2>1. m.requests = Append(l.requests, command)
    BY <1>6
  <2>2. /\ m.requests \in Seq(Commands) /\ m.requests[Len(l.requests) + 1] = command
        /\ DOMAIN m.requests = 1..Len(l.requests) + 1
        /\ \A i \in DOMAIN l.requests : m.requests[i] = l.requests[i]
    BY <1>1, <2>1, AppendFacts
  <2>3. ASSUME NEW i \in DOMAIN m.requests, m.requests[i].kind = "Search"
        PROVE  m.requests[i].id <= m.id
    <3>1. i \in DOMAIN l.requests \/ i = Len(l.requests) + 1
      BY <1>1, <2>2
    <3> QED
      BY <1>5, <2>2, <2>3, <3>1
  <2> QED
    BY <1>1, <1>4, <1>5, <2>2, <2>3 DEF TrafficInv
<1>7. CASE ~Connected
  BY <1>1, <1>4, <1>5, <1>7 DEF TrafficInv
<1> QED
  BY <1>6, <1>7

(* One more command: it is the last of its kind, or leaves the last in place.*)
OneMore(s, command, t) ==
  \A kind :
    /\ \A i \in DOMAIN t : IsLast(t, kind, i) =>
         \/ t[i] = command /\ command.kind = kind
         \/ /\ i \in DOMAIN s /\ t[i] = s[i] /\ IsLast(s, kind, i)
            /\ command.kind # kind
    /\ None(t, kind) => None(s, kind) /\ command.kind # kind

(* One more command is one more command. *)
LEMMA Appended ==
  ASSUME NEW s \in Seq(Commands), NEW command \in Commands
  PROVE  OneMore(s, command, Append(s, command))
<1> DEFINE t == Append(s, command)
<1> SUFFICES ASSUME NEW kind
             PROVE  /\ \A i \in DOMAIN t : IsLast(t, kind, i) =>
                         \/ t[i] = command /\ command.kind = kind
                         \/ /\ i \in DOMAIN s /\ t[i] = s[i] /\ IsLast(s, kind, i)
                            /\ command.kind # kind
                    /\ None(t, kind) => None(s, kind) /\ command.kind # kind
  BY DEF OneMore
<1>1. /\ Len(s) \in Nat /\ DOMAIN s = 1..Len(s) /\ DOMAIN t = 1..Len(s) + 1
      /\ \A i \in DOMAIN s : i \in DOMAIN t /\ t[i] = s[i]
      /\ t[Len(s) + 1] = command
  BY AppendFacts
<1>2. Len(s) + 1 \in DOMAIN t
  BY <1>1
<1>3. ASSUME NEW i \in DOMAIN t, IsLast(t, kind, i), i # Len(s) + 1
      PROVE  i \in DOMAIN s /\ t[i] = s[i] /\ IsLast(s, kind, i) /\ command.kind # kind
  <2>1. i \in DOMAIN s /\ Len(s) + 1 > i
    BY <1>1, <1>3
  <2> QED
    BY <1>1, <1>2, <1>3, <2>1 DEF IsLast
<1>4. ASSUME NEW i \in DOMAIN t, IsLast(t, kind, i), i = Len(s) + 1
      PROVE  t[i] = command /\ command.kind = kind
  BY <1>1, <1>4 DEF IsLast
<1>5. None(t, kind) => None(s, kind) /\ command.kind # kind
  BY <1>1, <1>2 DEF None
<1> QED
  BY <1>3, <1>4, <1>5

(* An order gives the search up and is waiting for the thread.  What it    *)
(* changes of the engine is changed of the application too.                *)
LEMMA OrderKeeps ==
  ASSUME NEW a, NEW b, NEW l, Inv(a, l, thread, engine, running, events, reports), AppInv(b),
         NEW command \in Commands, command.kind # "Search",
         Connected =>
           /\ b.config = IF command.kind = "Reconfigure" THEN command.config ELSE a.config
           /\ b.evaluator = IF command.kind = "ReplaceEvaluator" THEN command.evaluator
                            ELSE a.evaluator
           /\ command.kind # "OpeningBook" => b.book = a.book
  PROVE  Inv(b, Ordered(l, command), thread, engine, running, events, reports)
<1> DEFINE m == Ordered(l, command)
<1>1. /\ IsLink(l) /\ IsLink(m) /\ m.id = l.id + 1 /\ m.current = Nothing
      /\ m.requests = IF Connected THEN Append(l.requests, command) ELSE l.requests
      /\ l.requests \in Seq(Commands)
  BY OrderedIs DEF Inv, TrafficInv
<1> HIDE DEF m
<1>2. TrafficInv(m, running, events)
  BY <1>1, SentTraffic DEF Inv
<1>3. ExpectInv(b, m, running, events)
  BY <1>1 DEF ExpectInv, Searching
<1>4. CASE Connected
  <2>1. m.requests = Append(l.requests, command)
    BY <1>1, <1>4
  <2> DEFINE t == m.requests
  <2>2. OneMore(l.requests, command, t)
    <3>1. l.requests \in Seq(Commands) /\ command \in Commands
      BY <1>1
    <3> QED
      BY <2>1, <3>1, Appended
  <2> HIDE DEF t
  <2>3. SettingsInv(a, l.requests, engine) /\ ShownInv(a, l.requests, engine, reports)
    BY <1>4 DEF Connected, Inv
  <2>4. SettingsInv(b, t, engine)
    <3>1. ASSUME NEW i \in DOMAIN t, IsLast(t, "Reconfigure", i) PROVE t[i].config = b.config
      BY <1>4, <2>2, <2>3, <3>1 DEF SettingsInv, OneMore
    <3>2. ASSUME NEW i \in DOMAIN t, IsLast(t, "ReplaceEvaluator", i)
          PROVE  t[i].evaluator = b.evaluator
      BY <1>4, <2>2, <2>3, <3>2 DEF SettingsInv, OneMore
    <3>3. None(t, "Reconfigure") => engine.config = b.config
      BY <1>4, <2>2, <2>3 DEF SettingsInv, OneMore
    <3>4. None(t, "ReplaceEvaluator") => engine.evaluator = b.evaluator
      BY <1>4, <2>2, <2>3 DEF SettingsInv, OneMore
    <3> QED
      BY <3>1, <3>2, <3>3, <3>4 DEF SettingsInv
  <2>5. ShownInv(b, t, engine, reports)
    BY <1>4, <2>2, <2>3 DEF ShownInv, OneMore
  <2> USE DEF t
  <2> QED
    BY <1>2, <1>3, <2>4, <2>5 DEF Inv, m
<1>5. CASE ~Connected
  BY <1>2, <1>3, <1>5 DEF Inv, m, Connected
<1> QED
  BY <1>4, <1>5

(* The position of the game is a position. *)
LEMMA GameFacts ==
  ASSUME NEW a, AppInv(a)
  PROVE  a.game.position \in Positions
<1>1. PICK line : \E n \in 0..Len(line) : IsLine(line) /\ a.game = GameAt(line, n)
  BY Zenon DEF AppInv, OnLine
<1>2. PICK n \in 0..Len(line) : IsLine(line) /\ a.game = GameAt(line, n)
  BY <1>1
<1>3. a.game.position = PositionAt(line, n)
  BY <1>2 DEF GameAt
<1> QED
  BY <1>2, <1>3, PositionIn

(* A search that is started is about the game on the board. *)
LEMMA StartKeeps ==
  ASSUME NEW a, NEW b, NEW l, Inv(a, l, thread, engine, running, events, reports),
         Alike(a, b), AiTurn(a)
  PROVE  Inv(b, Started(l, a.game.position), thread, engine, running, events, reports)
<1> DEFINE m == Started(l, a.game.position)
           command == [kind |-> "Search", id |-> l.id + 1, position |-> a.game.position]
<1>1. /\ IsLink(l) /\ IsLink(m) /\ m.id = l.id + 1
      /\ m.current = IF Connected THEN l.id + 1 ELSE Nothing
      /\ m.requests = IF Connected THEN Append(l.requests, command) ELSE l.requests
      /\ l.requests \in Seq(Commands) /\ l.id \in Nat
  BY StartedIs DEF Inv, TrafficInv
<1>2. a.game.position \in Positions
  BY GameFacts DEF Inv
<1>3. command \in Commands
  BY <1>1, <1>2 DEF Commands
<1>4. /\ command.kind = "Search" /\ command.id = m.id
      /\ command.position = a.game.position
  BY <1>1
<1> HIDE DEF m, command
<1>5. TrafficInv(m, running, events)
  BY <1>1, <1>3, <1>4, SentTraffic DEF Inv
<1>6. CASE Connected
  <2>1. m.requests = Append(l.requests, command)
    BY <1>1, <1>6
  <2> DEFINE t == m.requests
  <2>2. OneMore(l.requests, command, t)
    <3>1. l.requests \in Seq(Commands) /\ command \in Commands
      BY <1>1, <1>3
    <3> QED
      BY <2>1, <3>1, Appended
  <2>3. /\ Len(l.requests) \in Nat /\ Len(t) = Len(l.requests) + 1
        /\ DOMAIN l.requests = 1..Len(l.requests) /\ DOMAIN t = 1..Len(l.requests) + 1
        /\ \A i \in DOMAIN l.requests : t[i] = l.requests[i] /\ l.requests[i] \in Commands
        /\ t[Len(l.requests) + 1] = command
    BY <1>1, <1>3, <2>1, AppendFacts, LenProperties
  <2> HIDE DEF t
  <2>4. SettingsInv(a, l.requests, engine) /\ ShownInv(a, l.requests, engine, reports)
    BY <1>6 DEF Connected, Inv
  <2>5. SettingsInv(a, t, engine) /\ ShownInv(a, t, engine, reports)
    <3>1. SettingsInv(a, t, engine)
      BY <1>4, <2>2, <2>4 DEF SettingsInv, OneMore
    <3>2. ShownInv(a, t, engine, reports)
      BY <1>4, <2>2, <2>4 DEF ShownInv, OneMore
    <3> QED
      BY <3>1, <3>2
  <2>6. ExpectInv(a, m, running, events)
    <3>1. ASSUME NEW i \in DOMAIN t, t[i].kind = "Search", t[i].id = m.id
          PROVE  i = Len(t) /\ t[i].position = a.game.position
      <4>1. i \notin DOMAIN l.requests
        <5>1. ASSUME i \in DOMAIN l.requests PROVE FALSE
          <6>1. t[i] = l.requests[i] /\ l.requests[i].id <= l.id /\ l.requests[i].id \in Nat
            BY <2>3, <3>1, <5>1, CommandFacts DEF Inv, TrafficInv
          <6> QED
            BY <1>1, <3>1, <6>1
        <5> QED
          BY <5>1
      <4>2. i = Len(l.requests) + 1
        BY <2>3, <4>1
      <4> QED
        BY <1>4, <2>3, <4>2
    <3>2. running # Nothing => running.id # m.id
      BY <1>1 DEF Inv, TrafficInv, Searches
    <3>3. ASSUME NEW i \in DOMAIN events PROVE events[i].id # m.id
      <4>1. events[i] \in EventTypes /\ events[i].id <= l.id
        BY LenProperties DEF Inv, TrafficInv
      <4>2. events[i].id \in Nat
        BY <4>1 DEF EventTypes
      <4> QED
        BY <1>1, <4>1, <4>2
    <3> QED
      BY <3>1, <3>2, <3>3 DEF ExpectInv, t
  <2>7. Inv(a, m, thread, engine, running, events, reports)
    BY <1>5, <2>5, <2>6 DEF Inv, t
  <2> QED
    BY <2>7, AlikeKeeps DEF m
<1>7. CASE ~Connected
  <2>1. ExpectInv(a, m, running, events)
    BY <1>1, <1>7 DEF ExpectInv, Searching
  <2>2. Inv(a, m, thread, engine, running, events, reports)
    BY <1>5, <1>7, <2>1 DEF Inv, Connected
  <2> QED
    BY <2>2, AlikeKeeps DEF m
<1> QED
  BY <1>6, <1>7

(* A good session is a session. *)
LEMMA GoodIs == ASSUME NEW s, Good(s) PROVE IsSession(s) /\ IsApp(s.app) /\ IsLink(s.link)
  BY DEF Good, IsSession, Inv, AppInv, TrafficInv

(* play_ai_if_needed leaves a good session. *)
LEMMA PlayAiKeeps ==
  ASSUME NEW s, Good(s)
  PROVE  Good(PlayAiIfNeeded(s))
<1> DEFINE r == PlayAiIfNeeded(s)
<1>1. /\ IsSession(r) /\ Alike(s.app, r.app)
      /\ \/ r.link = s.link
         \/ AiTurn(s.app) /\ r.link = Started(s.link, s.app.game.position)
  BY GoodIs, PlayAiIs
<1> HIDE DEF r
<1>2. r.link = s.link => Good(r)
  BY <1>1, AlikeKeeps DEF Good, IsSession
<1>3. AiTurn(s.app) /\ r.link = Started(s.link, s.app.game.position) => Good(r)
  BY <1>1, StartKeeps DEF Good, IsSession
<1> QED
  BY <1>1, <1>2, <1>3 DEF r

(* The end of a handler leaves a good session. *)
LEMMA ResumeKeeps ==
  ASSUME NEW s, Good(s)
  PROVE  Good(Resume(s))
<1> DEFINE r == Resume(s)
<1>1. /\ IsSession(r) /\ Alike(s.app, r.app)
      /\ \/ r.link = s.link
         \/ AiTurn(s.app) /\ r.link = Started(s.link, s.app.game.position)
  BY GoodIs, ResumeIs
<1> HIDE DEF r
<1>2. r.link = s.link => Good(r)
  BY <1>1, AlikeKeeps DEF Good, IsSession
<1>3. AiTurn(s.app) /\ r.link = Started(s.link, s.app.game.position) => Good(r)
  BY <1>1, StartKeeps DEF Good, IsSession
<1> QED
  BY <1>1, <1>2, <1>3 DEF r

-----------------------------------------------------------------------------
(* Where undo and redo stop. *)

(* The greatest of some naturals below a bound is one of them. *)
LEMMA GreatestIs ==
  ASSUME NEW n \in Nat, NEW S \in SUBSET (1..n), S # {}
  PROVE  Max(S) \in S
<1> DEFINE T == {n - x : x \in S}
<1>1. T \in SUBSET Nat /\ T # {}
  <2>1. \A x \in S : n - x \in Nat
    OBVIOUS
  <2>2. PICK x : x \in S
    OBVIOUS
  <2>3. n - x \in T
    BY <2>2
  <2> QED
    BY <2>1, <2>3
<1>2. PICK least \in T : \A t \in T : least <= t
  BY <1>1, LeastNatural
<1>3. PICK x \in S : least = n - x
  BY <1>2
<1>4. \A y \in S : x >= y
  <2> SUFFICES ASSUME NEW y \in S PROVE x >= y
    OBVIOUS
  <2>1. n - y \in T
    OBVIOUS
  <2>2. n - x <= n - y
    BY <1>2, <1>3, <2>1
  <2>3. x \in 1..n /\ y \in 1..n
    OBVIOUS
  <2> QED
    BY <2>2, <2>3
<1> HIDE DEF T
<1> QED
  BY <1>4, Zenon DEF Max

(* The least of some naturals is one of them. *)
LEMMA LeastIs ==
  ASSUME NEW S \in SUBSET Nat, S # {}
  PROVE  Min(S) \in S
<1>1. PICK x \in S : \A y \in S : x <= y
  BY LeastNatural
<1> QED
  BY <1>1, Zenon DEF Min

(* The line of a game, and what it can redo. *)
LEMMA LineAt ==
  ASSUME NEW a, AppInv(a)
  PROVE  \E line, n :
           /\ n \in 0..Len(line) /\ IsLine(line) /\ a.game = GameAt(line, n)
           /\ n < Len(line) => Stone(n + 1) = a.human
  BY Zenon DEF AppInv, OnLine

(* Undo stops before a move of the user. *)
LEMMA UndoStops ==
  ASSUME NEW a, AppInv(a), HumanUndoPlies(a) > 0
  PROVE  /\ HumanUndoPlies(a) \in 1..Len(a.game.history)
         /\ OnLine(UndoPlies(a.game, HumanUndoPlies(a)), a.human)
<1>1. PICK line, n :
           /\ n \in 0..Len(line) /\ IsLine(line) /\ a.game = GameAt(line, n)
  BY LineAt
<1>2. line \in Seq(Cells) /\ Len(line) \in Nat /\ n \in Nat
  BY <1>1, LenProperties DEF IsLine
<1>3. /\ Len(a.game.history) = n /\ DOMAIN a.game.history = 1..n
      /\ \A i \in 1..n : a.game.history[i].at = line[i]
  <2>1. a.game.history = HistoryAt(line, n)
    BY <1>1 DEF GameAt
  <2>2. /\ Len(HistoryAt(line, n)) = n /\ DOMAIN HistoryAt(line, n) = 1..n
        /\ \A i \in 1..n : HistoryAt(line, n)[i] = [at |-> line[i], undo |-> UndoAt(line, i)]
    BY <1>1, <1>2, HistoryIs
  <2> QED
    BY <2>1, <2>2
<1> DEFINE own == {i \in DOMAIN a.game.history :
                i > a.floor /\ a.game.position.cells[a.game.history[i].at] = a.human}
           m == Max(own)
<1>4. HumanUndoPlies(a) = IF own = {} THEN 0 ELSE Len(a.game.history) - Max(own) + 1
  BY Zenon DEF HumanUndoPlies
<1>5. own # {} /\ own \in SUBSET (1..n)
  <2>1. own # {}
    <3> HIDE DEF own
    <3>1. own = {} => HumanUndoPlies(a) = 0
      BY <1>4, Zenon
    <3> QED
      BY <3>1
  <2>2. own \subseteq DOMAIN a.game.history
    OBVIOUS
  <2> QED
    BY <1>3, <2>1, <2>2
<1>6. m \in own
  BY <1>2, <1>5, GreatestIs
<1>7. m \in 1..n /\ CellsAt(line, n)[line[m]] = a.human
  <2>1. a.game.position.cells = CellsAt(line, n)
    BY <1>1 DEF GameAt, PositionAt
  <2> QED
    BY <1>3, <1>6, <2>1
<1>8. HumanUndoPlies(a) = n - m + 1
  BY <1>3, <1>4, <1>5
<1> HIDE DEF m
<1>9. Stone(m) = a.human
  <2>1. CellsAt(line, n)[line[m]] = Stone(m)
    BY <1>1, <1>2, <1>7, CellFacts DEF IsLine
  <2> QED
    BY <1>7, <2>1
<1>10. UndoPlies(a.game, n - m + 1) = GameAt(line, m - 1)
  <2>1. n - m + 1 \in Nat /\ (IF n - m + 1 < n THEN n - (n - m + 1) ELSE 0) = m - 1
    BY <1>2, <1>7
  <2> QED
    BY <1>1, <2>1, UndoPliesIs
<1>11. m - 1 \in 0..Len(line) /\ (m - 1) + 1 = m /\ n - m + 1 \in 1..n
  BY <1>1, <1>2, <1>7
<1>12. OnLine(GameAt(line, m - 1), a.human)
  BY <1>1, <1>9, <1>11 DEF OnLine
<1> QED
  BY <1>3, <1>8, <1>10, <1>11, <1>12

(* Redo stops before a move of the user, or at the end of the line. *)
LEMMA RedoStops ==
  ASSUME NEW a, AppInv(a), CanRedo(a.game)
  PROVE  /\ RedoLength(a) \in 1..Len(a.game.future)
         /\ OnLine(RedoPlies(a.game, RedoLength(a)), a.human)
<1>1. PICK line, n :
           /\ n \in 0..Len(line) /\ IsLine(line) /\ a.game = GameAt(line, n)
  BY LineAt
<1>2. line \in Seq(Cells) /\ Len(line) \in Nat /\ n \in Nat
  BY <1>1, LenProperties DEF IsLine
<1> DEFINE L == Len(line)
<1>3. Len(a.game.future) = L - n /\ DOMAIN a.game.future = 1..L - n /\ a.game.future # <<>>
  <2>1. a.game.future = FutureAt(line, n)
    BY <1>1 DEF GameAt
  <2>2. a.game.future \in Seq(Cells) /\ Len(a.game.future) = L - n
    BY <1>1, <1>2, <2>1, HistoryIs
  <2> QED
    BY <2>2, LenProperties DEF CanRedo
<1>4. L - n \in 1..L - n
  <2>1. a.game.future \in Seq(Cells)
    <3>1. a.game.future = FutureAt(line, n)
      BY <1>1 DEF GameAt
    <3> QED
      BY <1>1, <1>2, <3>1, HistoryIs
  <2>2. L - n # 0
    BY <1>3, <2>1
  <2> QED
    BY <1>1, <1>2, <2>2
<1>5. ASSUME NEW k \in 1..L - n PROVE RedoPlies(a.game, k) = GameAt(line, n + k)
  <2>1. k \in Nat /\ (IF k < L - n THEN n + k ELSE L) = n + k
    BY <1>1, <1>2
  <2> QED
    BY <1>1, <2>1, RedoPliesIs
<1>6. ASSUME NEW k \in 0..L, CanRedo(GameAt(line, k)) PROVE k < L
  <2>1. FutureAt(line, k) \in Seq(Cells) /\ Len(FutureAt(line, k)) = L - k
    BY <1>2, HistoryIs
  <2>2. FutureAt(line, k) # <<>>
    BY <1>6 DEF CanRedo, GameAt
  <2> QED
    BY <1>2, <2>1, <2>2
<1> DEFINE stops == {k \in 1..L - n : StopsRedo(RedoPlies(a.game, k), a.human)}
           k == Min(stops)
<1>7. RedoLength(a) = k
  BY <1>3, Zenon DEF RedoLength
<1>8. L - n \in stops
  <2>1. RedoPlies(a.game, L - n) = GameAt(line, L)
    BY <1>1, <1>2, <1>4, <1>5
  <2>2. ~CanRedo(GameAt(line, L))
    BY <1>2, <1>6
  <2> QED
    BY <1>4, <2>1, <2>2 DEF StopsRedo
<1>9. k \in stops
  <2>1. stops \in SUBSET Nat /\ stops # {}
    BY <1>8
  <2> HIDE DEF stops
  <2> QED
    BY <2>1, LeastIs
<1> HIDE DEF k
<1>10. k \in 1..L - n /\ StopsRedo(GameAt(line, n + k), a.human)
  BY <1>5, <1>9
<1>11. n + k \in 0..L /\ n + k \in Nat
  BY <1>1, <1>2, <1>10
<1>12. n + k < L => Stone(n + k + 1) = a.human
  <2> SUFFICES ASSUME n + k < L PROVE Stone(n + k + 1) = a.human
    OBVIOUS
  <2>1. n + k \in 0..Len(line) - 1
    BY <1>2, <1>11
  <2>2. GameAt(line, n + k).status = "Ongoing"
    BY <1>1, <2>1, StillOpen DEF GameAt
  <2>3. CanRedo(GameAt(line, n + k))
    <3>1. FutureAt(line, n + k) \in Seq(Cells) /\ Len(FutureAt(line, n + k)) = L - (n + k)
      BY <1>2, <1>11, HistoryIs
    <3>2. FutureAt(line, n + k) # <<>>
      BY <1>2, <2>1, <3>1
    <3> QED
      BY <3>2 DEF CanRedo, GameAt
  <2>4. GameAt(line, n + k).position.side = a.human
    BY <1>10, <2>2, <2>3 DEF StopsRedo
  <2> QED
    BY <2>4 DEF GameAt, PositionAt
<1>13. OnLine(GameAt(line, n + k), a.human)
  BY <1>1, <1>11, <1>12 DEF OnLine
<1> QED
  BY <1>3, <1>5, <1>7, <1>10, <1>13

(* After a move there is nothing to redo. *)
LEMMA PlayStops ==
  ASSUME NEW a, AppInv(a), NEW at \in Cells, Playable(a.game, at), NEW human
  PROVE  OnLine(PlayMove(a.game, at), human)
<1>1. PICK line, n :
           /\ n \in 0..Len(line) /\ IsLine(line) /\ a.game = GameAt(line, n)
  BY LineAt
<1> DEFINE cut == Cut(line, n, at)
<1>2. IsLine(cut) /\ Len(cut) = n + 1 /\ PlayMove(a.game, at) = GameAt(cut, n + 1)
  BY <1>1, CutIs, PlayIs
<1> HIDE DEF cut
<1>3. n + 1 \in 0..Len(cut) /\ ~(n + 1 < Len(cut))
  <2>1. Len(line) \in Nat
    BY <1>1, LenProperties DEF IsLine
  <2> QED
    BY <1>1, <1>2, <2>1
<1> QED
  BY <1>2, <1>3 DEF OnLine

(* A game that was replayed has nothing to redo. *)
LEMMA ReplayStops ==
  ASSUME NEW moves \in Seq(Cells), IsRecord(moves), NEW human
  PROVE  OnLine(Replay(moves), human)
<1>1. IsLine(moves) /\ Replay(moves) = GameAt(moves, Len(moves)) /\ Len(moves) \in Nat
  BY RecordIs, LenProperties
<1> QED
  BY <1>1 DEF OnLine

-----------------------------------------------------------------------------
(* The handlers. *)

AppIs(a, b) == a.human = b.human /\ a.config = b.config /\ a.evaluator = b.evaluator

(* The session a handler begins with is good. *)
LEMMA NowGood == ASSUME IInv PROVE Good(Now) /\ Now.app = app /\ Now.link = link
  BY DEF IInv, Good, Now

(* A handler that ends in a good session keeps the invariant. *)
LEMMA DoneKeeps ==
  ASSUME NEW r, Good(r), Do(r), UNCHANGED <<thread, engine, running, events, reports>>
  PROVE  IInv'
  BY DEF IInv, Good, Do

(* A handler that gives the search up and leaves another game. *)
LEMMA ReplacedKeeps ==
  ASSUME IInv, NEW t, {"app", "link"} \subseteq DOMAIN t, t.link = Invalidated(link),
         AppInv(t.app), t.app.config = app.config, t.app.evaluator = app.evaluator,
         t.app.book = app.book
  PROVE  /\ Good(t) /\ Good(Resume(t)) /\ Good(PlayAiIfNeeded(t))
         /\ Alike(t.app, Resume(t).app) /\ Resume(t).app.shown = Nothing
         /\ Alike(t.app, PlayAiIfNeeded(t).app)
         /\ PlayAiIfNeeded(t).app.shown \in {t.app.shown, Nothing}
<1>1. Inv(t.app, Invalidated(link), thread, engine, running, events, reports)
  BY GiveUpKeeps DEF IInv
<1>2. Good(t)
  BY <1>1 DEF Good
<1>3. IsSession(t)
  BY <1>2, GoodIs
<1>4. Alike(t.app, Resume(t).app) /\ Resume(t).app.shown = Nothing
  BY <1>3, ResumeIs
<1>5. Alike(t.app, PlayAiIfNeeded(t).app) /\ PlayAiIfNeeded(t).app.shown \in {t.app.shown, Nothing}
  BY <1>3, PlayAiIs
<1> QED
  BY <1>2, <1>4, <1>5, ResumeKeeps, PlayAiKeeps

(* What a handler that replaces or moves the game leaves. *)
Leaves(r, g, human) ==
  /\ Good(r) /\ r.app.game = g /\ r.app.human = human /\ r.app.shown = Nothing
  /\ r.app.config = app.config /\ r.app.evaluator = app.evaluator

(* replace_game, whatever the user changed of the colour before. *)
LEMMA ReplaceGameKeeps ==
  ASSUME IInv, NEW stone \in Stones, NEW moves \in Seq(Cells), IsRecord(moves), NEW floor, NEW s,
         {"app", "link"} \subseteq DOMAIN s, s.link = link, IsApp(s.app), s.app.human = stone,
         s.app.config = app.config, s.app.evaluator = app.evaluator, s.app.book = app.book
  PROVE  Leaves(ReplaceGame(s, moves, floor), Replay(moves), stone)
<1> DEFINE times == [i \in DOMAIN moves |-> Nothing]
           g == GiveUp(s)
           t == [g EXCEPT !.app.game = Replay(moves), !.app.floor = floor,
                          !.app.times = times, !.app.undone = <<>>]
<1>1. {"app", "link"} \subseteq DOMAIN g /\ g.app = s.app /\ g.link = Invalidated(link)
  BY DEF GiveUp
<1> HIDE DEF g, times
<1>2. t.app = [s.app EXCEPT !.game = Replay(moves), !.floor = floor, !.times = times,
                            !.undone = <<>>]
  BY <1>1
<1>3. t.link = Invalidated(link) /\ {"app", "link"} \subseteq DOMAIN t
  BY <1>1
<1>4. ReplaceGame(s, moves, floor) = Resume(t)
  BY Zenon DEF ReplaceGame, g, times
<1> HIDE DEF t
<1>5. /\ IsApp(t.app) /\ t.app.game = Replay(moves) /\ t.app.human = stone
      /\ t.app.config = app.config /\ t.app.evaluator = app.evaluator /\ t.app.book = app.book
  BY <1>2 DEF IsApp
<1>6. AppInv(t.app)
  BY <1>5, ReplayStops DEF AppInv, IInv, Inv
<1>7. Good(Resume(t)) /\ Alike(t.app, Resume(t).app) /\ Resume(t).app.shown = Nothing
  BY <1>3, <1>5, <1>6, ReplacedKeeps
<1> QED
  BY <1>4, <1>5, <1>7 DEF Alike, Leaves

(* New game, in a colour and from an opening. *)
LEMMA NewGameKeeps ==
  ASSUME IInv, NewGameChosen
  PROVE  /\ IInv'
         /\ \E moves \in Openings : app'.game = Replay(moves) /\ IsRecord(moves)
         /\ app'.human \in Stones /\ app'.shown = Nothing
         /\ app'.config = app.config /\ app'.evaluator = app.evaluator
<1>1. PICK stone \in Stones, opening \in Openings :
         Do(ReplaceGame([Now EXCEPT !.app.human = stone], opening, Len(opening)))
  BY Zenon DEF NewGameChosen
<1> DEFINE s == [Now EXCEPT !.app.human = stone]
           r == ReplaceGame(s, opening, Len(opening))
<1>2. opening \in Seq(Cells) /\ IsRecord(opening)
  OBVIOUS
<1>3. {"app", "link"} \subseteq DOMAIN s /\ s.link = link /\ s.app = [app EXCEPT !.human = stone]
  BY DEF Now
<1> HIDE DEF s
<1>4. /\ IsApp(s.app) /\ s.app.human = stone
      /\ s.app.config = app.config /\ s.app.evaluator = app.evaluator /\ s.app.book = app.book
  <2>1. IsApp(app)
    BY DEF IInv, Inv, AppInv
  <2> QED
    BY <1>3, <2>1 DEF IsApp
<1>5. Leaves(r, Replay(opening), stone)
  BY <1>2, <1>3, <1>4, ReplaceGameKeeps
<1>6. Do(r)
  BY <1>1 DEF s
<1> HIDE DEF r
<1>7. IInv'
  BY <1>5, <1>6, DoneKeeps DEF NewGameChosen, Acts, Leaves
<1> QED
  BY <1>2, <1>5, <1>6, <1>7 DEF Do, Leaves

(* Importing a record. *)
LEMMA ImportKeeps ==
  ASSUME IInv, ImportRecord
  PROVE  /\ IInv'
         /\ \E moves \in Records : app'.game = Replay(moves) /\ IsRecord(moves)
         /\ app'.human \in Stones /\ app'.shown = Nothing
         /\ app'.config = app.config /\ app'.evaluator = app.evaluator
<1>1. PICK moves \in Records : IsRecord(moves) /\ Do(ReplaceGame(Now, moves, 0))
  BY Zenon DEF ImportRecord
<1> DEFINE r == ReplaceGame(Now, moves, 0)
<1>2. moves \in Seq(Cells) /\ IsRecord(moves)
  BY <1>1
<1>3. {"app", "link"} \subseteq DOMAIN Now /\ Now.link = link /\ Now.app = app
  BY DEF Now
<1>4. IsApp(app) /\ app.human \in Stones
  BY DEF IInv, Inv, AppInv
<1>5. Leaves(r, Replay(moves), app.human)
  BY <1>2, <1>3, <1>4, ReplaceGameKeeps
<1>6. Do(r)
  BY <1>1
<1> HIDE DEF r
<1>7. IInv'
  BY <1>5, <1>6, DoneKeeps DEF ImportRecord, Acts, Leaves
<1> QED
  BY <1>2, <1>4, <1>5, <1>6, <1>7 DEF Do, Leaves

(* Another place on the line of play. *)
LEMMA MovedKeeps ==
  ASSUME IInv, NEW g, OnLine(g, app.human), NEW times, NEW undone
  PROVE  Leaves(Resume([GiveUp(Now) EXCEPT !.app.game = g, !.app.times = times,
                                           !.app.undone = undone]), g, app.human)
<1> DEFINE h == GiveUp(Now)
           t == [h EXCEPT !.app.game = g, !.app.times = times, !.app.undone = undone]
<1>1. {"app", "link"} \subseteq DOMAIN h /\ h.app = app /\ h.link = Invalidated(link)
  BY DEF GiveUp, Now
<1> HIDE DEF h
<1>3. t.app = [app EXCEPT !.game = g, !.times = times, !.undone = undone]
  BY <1>1
<1>4. t.link = Invalidated(link) /\ {"app", "link"} \subseteq DOMAIN t
  BY <1>1
<1> HIDE DEF t
<1>5. IsApp(app) /\ app.human \in Stones
  BY DEF IInv, Inv, AppInv
<1>6. /\ IsApp(t.app) /\ t.app.game = g /\ t.app.human = app.human
      /\ t.app.config = app.config /\ t.app.evaluator = app.evaluator /\ t.app.book = app.book
  BY <1>3, <1>5 DEF IsApp
<1>7. AppInv(t.app)
  BY <1>5, <1>6 DEF AppInv, IInv, Inv
<1>8. Good(Resume(t)) /\ Alike(t.app, Resume(t).app) /\ Resume(t).app.shown = Nothing
  BY <1>4, <1>6, <1>7, ReplacedKeeps
<1>9. Leaves(Resume(t), g, app.human)
  BY <1>6, <1>8 DEF Alike, Leaves
<1> QED
  BY <1>9 DEF t, h

(* Undo to the last decision of the user. *)
LEMMA UndoKeeps ==
  ASSUME IInv, UndoToHuman
  PROVE  /\ IInv'
         /\ \E k \in 1..Len(app.game.history) : app'.game = UndoPlies(app.game, k)
         /\ app'.human = app.human /\ app'.shown = Nothing
         /\ app'.config = app.config /\ app'.evaluator = app.evaluator
<1> DEFINE plies == HumanUndoPlies(app)
           clocks == UndoneTimes(app, plies)
           t == [GiveUp(Now) EXCEPT !.app.game = UndoPlies(@, plies),
                                    !.app.times = clocks.times, !.app.undone = clocks.undone]
           u == [GiveUp(Now) EXCEPT !.app.game = UndoPlies(app.game, plies),
                                    !.app.times = clocks.times, !.app.undone = clocks.undone]
<1>1. plies > 0 /\ Do(Resume(t)) /\ AppInv(app)
  BY DEF UndoToHuman, IInv, Inv
<1>2. plies \in 1..Len(app.game.history) /\ OnLine(UndoPlies(app.game, plies), app.human)
  BY <1>1, UndoStops
<1>3. t = u
  <2>1. GiveUp(Now).app.game = app.game
    BY DEF GiveUp, Now
  <2> HIDE DEF plies, clocks
  <2> QED
    BY <2>1
<1> DEFINE r == Resume(u)
<1>4. Leaves(r, UndoPlies(app.game, plies), app.human)
  <2> HIDE DEF plies, clocks
  <2> QED
    BY <1>2, MovedKeeps
<1>5. Do(r)
  BY <1>1, <1>3
<1> HIDE DEF r, t, u
<1>6. IInv'
  BY <1>4, <1>5, DoneKeeps DEF UndoToHuman, Acts, Leaves
<1> QED
  BY <1>2, <1>4, <1>5, <1>6 DEF Do, Leaves

(* Redo to the next decision of the user. *)
LEMMA RedoKeeps ==
  ASSUME IInv, RedoToHuman
  PROVE  /\ IInv'
         /\ \E k \in 1..Len(app.game.future) : app'.game = RedoPlies(app.game, k)
         /\ app'.human = app.human /\ app'.shown = Nothing
         /\ app'.config = app.config /\ app'.evaluator = app.evaluator
<1> DEFINE plies == RedoLength(app)
           clocks == RedoneTimes(app, plies)
           t == [GiveUp(Now) EXCEPT !.app.game = RedoPlies(@, plies),
                                    !.app.times = clocks.times, !.app.undone = clocks.undone]
           u == [GiveUp(Now) EXCEPT !.app.game = RedoPlies(app.game, plies),
                                    !.app.times = clocks.times, !.app.undone = clocks.undone]
<1>1. CanRedo(app.game) /\ Do(Resume(t)) /\ AppInv(app)
  BY DEF RedoToHuman, IInv, Inv
<1>2. plies \in 1..Len(app.game.future) /\ OnLine(RedoPlies(app.game, plies), app.human)
  BY <1>1, RedoStops
<1>3. t = u
  <2>1. GiveUp(Now).app.game = app.game
    BY DEF GiveUp, Now
  <2> HIDE DEF plies, clocks
  <2> QED
    BY <2>1
<1> DEFINE r == Resume(u)
<1>4. Leaves(r, RedoPlies(app.game, plies), app.human)
  <2> HIDE DEF plies, clocks
  <2> QED
    BY <1>2, MovedKeeps
<1>5. Do(r)
  BY <1>1, <1>3
<1> HIDE DEF r, t, u
<1>6. IInv'
  BY <1>4, <1>5, DoneKeeps DEF RedoToHuman, Acts, Leaves
<1> QED
  BY <1>2, <1>4, <1>5, <1>6 DEF Do, Leaves

(* A move of the user. *)
LEMMA PlayHumanKeeps ==
  ASSUME IInv, PlayHumanMove
  PROVE  /\ IInv'
         /\ \E at \in Cells : /\ app.game.position.side = app.human /\ Playable(app.game, at)
                            /\ app'.game = PlayMove(app.game, at)
         /\ app'.human = app.human /\ app'.shown \in {app.shown, Nothing}
         /\ app'.config = app.config /\ app'.evaluator = app.evaluator
<1>1. PICK at \in Cells :
         /\ Playable(app.game, at)
         /\ LET moved == PlayTimed(app, at, IF app.timed THEN at ELSE Nothing)
            IN Do(PlayAiIfNeeded(GiveUp([Now EXCEPT !.app = [moved EXCEPT !.timed = FALSE]])))
  BY Zenon DEF PlayHumanMove
<1> DEFINE time == IF app.timed THEN at ELSE Nothing
           b == [PlayTimed(app, at, time) EXCEPT !.timed = FALSE]
           u == [Now EXCEPT !.app = b]
           t == GiveUp(u)
           r == PlayAiIfNeeded(t)
<1>2. Do(r)
  BY <1>1, Zenon
<1>3. IsApp(app) /\ app.human \in Stones /\ AppInv(app)
  BY DEF IInv, Inv, AppInv
<1> HIDE DEF time
<1>4. /\ IsApp(b) /\ b.game = PlayMove(app.game, at) /\ b.human = app.human
      /\ b.config = app.config /\ b.evaluator = app.evaluator /\ b.book = app.book
      /\ b.shown = app.shown
  <2> DEFINE g == PlayMove(app.game, at)
             times == Append(app.times, time)
             c == PlayTimed(app, at, time)
  <2>1. c = [app EXCEPT !.game = g, !.times = times, !.undone = <<>>]
    BY Zenon DEF PlayTimed
  <2> HIDE DEF g, times
  <2>2. /\ IsApp(c) /\ c.game = g /\ c.human = app.human /\ c.config = app.config
        /\ c.evaluator = app.evaluator /\ c.book = app.book /\ c.shown = app.shown
    BY <1>3, <2>1 DEF IsApp
  <2> HIDE DEF c
  <2>3. b = [c EXCEPT !.timed = FALSE]
    BY DEF c
  <2> HIDE DEF b
  <2>4. /\ IsApp(b) /\ b.game = g /\ b.human = app.human /\ b.config = app.config
        /\ b.evaluator = app.evaluator /\ b.book = app.book /\ b.shown = app.shown
    BY <2>2, <2>3 DEF IsApp
  <2> QED
    BY <2>4 DEF g
<1>5. AppInv(b)
  <2> HIDE DEF b
  <2>1. app.config \in Configs /\ app.evaluator \in Evaluators
    BY <1>3 DEF AppInv
  <2>2. OnLine(b.game, b.human)
    BY <1>1, <1>3, <1>4, PlayStops
  <2> QED
    BY <1>3, <1>4, <2>1, <2>2 DEF AppInv
<1> HIDE DEF b
<1>6. {"app", "link"} \subseteq DOMAIN u /\ u.app = b /\ u.link = link
  BY DEF Now
<1> HIDE DEF u
<1>7. {"app", "link"} \subseteq DOMAIN t /\ t.app = b /\ t.link = Invalidated(link)
  BY <1>6 DEF GiveUp
<1> HIDE DEF t
<1>8. Good(r) /\ Alike(b, r.app) /\ r.app.shown \in {b.shown, Nothing}
  BY <1>4, <1>5, <1>7, ReplacedKeeps
<1> HIDE DEF r
<1>9. IInv'
  BY <1>2, <1>8, DoneKeeps DEF PlayHumanMove, Acts
<1>10. app' = r.app
  BY <1>2 DEF Do
<1>11. app.game.position.side = app.human
  BY DEF PlayHumanMove, HumanTurn
<1>12. /\ app'.game = PlayMove(app.game, at) /\ app'.human = app.human
       /\ app'.shown \in {app.shown, Nothing}
       /\ app'.config = app.config /\ app'.evaluator = app.evaluator
  BY <1>4, <1>8, <1>10 DEF Alike
<1> QED
  BY <1>1, <1>9, <1>11, <1>12

-----------------------------------------------------------------------------
(* The settings. *)

(* The same game under settings that are still settings. *)
Configured(a, b) ==
  /\ b.game = a.game /\ b.human = a.human /\ b.config \in Configs /\ b.evaluator \in Evaluators
  /\ \/ b.shown = Nothing
     \/ b.shown = a.shown /\ b.config = a.config /\ b.evaluator = a.evaluator

(* Other settings, the same game. *)
LEMMA SameGame ==
  ASSUME NEW a, AppInv(a), NEW b, IsApp(b), b.game = a.game, b.human = a.human,
         b.config \in Configs, b.evaluator \in Evaluators
  PROVE  AppInv(b)
  BY DEF AppInv

(* What an order changes of the engine is changed of the application too.  *)
Follows(command, b) ==
  Connected =>
    /\ b.config = IF command.kind = "Reconfigure" THEN command.config ELSE app.config
    /\ b.evaluator = IF command.kind = "ReplaceEvaluator" THEN command.evaluator
                     ELSE app.evaluator
    /\ command.kind # "OpeningBook" => b.book = app.book

(* An order, then what follows it. *)
LEMMA OrderedKeeps ==
  ASSUME IInv, NEW command \in Commands, command.kind # "Search",
         NEW t, AppInv(t.app), Follows(command, t.app),
         {"app", "link"} \subseteq DOMAIN t, t.link = Ordered(link, command)
  PROVE  /\ Good(t) /\ Good(Resume(t)) /\ Good(PlayAiIfNeeded(t))
         /\ Alike(t.app, Resume(t).app) /\ Resume(t).app.shown = Nothing
         /\ Alike(t.app, PlayAiIfNeeded(t).app)
         /\ PlayAiIfNeeded(t).app.shown \in {t.app.shown, Nothing}
<1>1. Inv(t.app, Ordered(link, command), thread, engine, running, events, reports)
  BY OrderKeeps DEF IInv, Follows
<1>2. Good(t)
  BY <1>1 DEF Good
<1>3. IsSession(t)
  BY <1>2, GoodIs
<1>4. Alike(t.app, Resume(t).app) /\ Resume(t).app.shown = Nothing
  BY <1>3, ResumeIs
<1>5. Alike(t.app, PlayAiIfNeeded(t).app) /\ PlayAiIfNeeded(t).app.shown \in {t.app.shown, Nothing}
  BY <1>3, PlayAiIs
<1> QED
  BY <1>2, <1>4, <1>5, ResumeKeeps, PlayAiKeeps

(* Loading a search profile. *)
LEMMA LoadProfileKeeps ==
  ASSUME IInv, LoadSearchProfile
  PROVE  IInv' /\ Configured(app, app')
<1>1. PICK config \in Configs :
       LET sent == Order(Now, [kind |-> "Reconfigure", config |-> config])
       IN Do(IF Connected
             THEN PlayAiIfNeeded([sent EXCEPT !.app.config = config, !.app.shown = Nothing])
             ELSE sent)
  BY Zenon DEF LoadSearchProfile
<1> DEFINE command == [kind |-> "Reconfigure", config |-> config]
           sent == Order(Now, command)
           t == [sent EXCEPT !.app.config = config, !.app.shown = Nothing]
<1>2. command \in Commands /\ command.kind = "Reconfigure" /\ command.config = config
  BY DEF Commands
<1> HIDE DEF command
<1>3. IsApp(app) /\ AppInv(app)
  BY DEF IInv, Inv, AppInv
<1>4. {"app", "link"} \subseteq DOMAIN sent /\ sent.app = app /\ sent.link = Ordered(link, command)
  BY DEF Order, Now
<1>5. Do(IF Connected THEN PlayAiIfNeeded(t) ELSE sent)
  BY <1>1, Zenon DEF command
<1> HIDE DEF sent
<1>6. /\ {"app", "link"} \subseteq DOMAIN t /\ t.link = Ordered(link, command)
      /\ t.app = [app EXCEPT !.config = config, !.shown = Nothing]
  BY <1>4
<1> HIDE DEF t
<1>7. /\ IsApp(t.app) /\ t.app.game = app.game /\ t.app.human = app.human
      /\ t.app.config = config /\ t.app.evaluator = app.evaluator /\ t.app.book = app.book
      /\ t.app.shown = Nothing
  BY <1>3, <1>6 DEF IsApp
<1>8. AppInv(t.app)
  <2>1. app.evaluator \in Evaluators
    BY <1>3 DEF AppInv
  <2> QED
    BY <1>3, <1>7, <2>1, SameGame
<1>9. CASE Connected
  <2>1. Do(PlayAiIfNeeded(t))
    BY <1>5, <1>9
  <2>2. /\ Good(PlayAiIfNeeded(t)) /\ Alike(t.app, PlayAiIfNeeded(t).app)
        /\ PlayAiIfNeeded(t).app.shown \in {t.app.shown, Nothing}
    <3>1. Follows(command, t.app)
      BY <1>2, <1>6, <1>7, <1>8 DEF Follows
    <3> QED
      BY <1>2, <1>6, <1>7, <1>8, <3>1, OrderedKeeps
  <2>3. IInv'
    BY <2>1, <2>2, DoneKeeps DEF LoadSearchProfile, Acts
  <2>4. app' = PlayAiIfNeeded(t).app
    BY <2>1 DEF Do
  <2> QED
    BY <1>7, <1>8, <2>2, <2>3, <2>4 DEF Configured, Alike, AppInv
<1>10. CASE ~Connected
  <2>1. Do(sent)
    BY <1>5, <1>10
  <2>2. Good(sent)
    <3>1. Follows(command, sent.app)
      BY <1>2, <1>3, <1>4, <1>10 DEF Follows
    <3> QED
      BY <1>2, <1>3, <1>4, <1>10, <3>1, OrderedKeeps
  <2>3. IInv'
    BY <2>1, <2>2, DoneKeeps DEF LoadSearchProfile, Acts
  <2>4. app' = app
    BY <1>4, <2>1 DEF Do
  <2> QED
    BY <1>3, <2>3, <2>4 DEF Configured, AppInv
<1> QED
  BY <1>9, <1>10

(* Changing the threads or the memory. *)
LEMMA ChangeThreadsKeeps ==
  ASSUME IInv, ChangeThreads
  PROVE  IInv' /\ Configured(app, app')
<1>1. PICK config \in Configs :
       LET sent == Order([Now EXCEPT !.app.config = config, !.app.shown = Nothing],
                         [kind |-> "Reconfigure", config |-> config])
       IN Do(IF Connected THEN PlayAiIfNeeded(sent) ELSE sent)
  BY Zenon DEF ChangeThreads
<1> DEFINE command == [kind |-> "Reconfigure", config |-> config]
           u == [Now EXCEPT !.app.config = config, !.app.shown = Nothing]
           t == Order(u, command)
<1>2. command \in Commands /\ command.kind = "Reconfigure" /\ command.config = config
  BY DEF Commands
<1> HIDE DEF command
<1>3. IsApp(app) /\ AppInv(app)
  BY DEF IInv, Inv, AppInv
<1>4. /\ {"app", "link"} \subseteq DOMAIN u /\ u.link = link
      /\ u.app = [app EXCEPT !.config = config, !.shown = Nothing]
  <2>1. {"app", "link"} \subseteq DOMAIN u
    BY DEF Now
  <2>2. u.link = link
    BY DEF Now
  <2>3. u.app = [app EXCEPT !.config = config, !.shown = Nothing]
    BY DEF Now
  <2> QED
    BY <2>1, <2>2, <2>3
<1>5. Do(IF Connected THEN PlayAiIfNeeded(t) ELSE t)
  BY <1>1, Zenon DEF command
<1> HIDE DEF u
<1>6. {"app", "link"} \subseteq DOMAIN t /\ t.link = Ordered(link, command) /\ t.app = u.app
  BY <1>4 DEF Order
<1> HIDE DEF t
<1>7. /\ IsApp(t.app) /\ t.app.game = app.game /\ t.app.human = app.human
      /\ t.app.config = config /\ t.app.evaluator = app.evaluator /\ t.app.book = app.book
      /\ t.app.shown = Nothing
  <2>1. t.app = [app EXCEPT !.config = config, !.shown = Nothing]
    BY <1>4, <1>6
  <2>2. t.app = [game |-> app.game, human |-> app.human, floor |-> app.floor,
                 times |-> app.times, undone |-> app.undone, timed |-> app.timed,
                 shown |-> Nothing, config |-> config, evaluator |-> app.evaluator,
                 book |-> app.book]
    BY <1>3, <2>1 DEF IsApp
  <2> QED
    BY <2>2 DEF IsApp
<1>8. AppInv(t.app)
  <2>1. app.evaluator \in Evaluators
    BY <1>3 DEF AppInv
  <2> QED
    BY <1>3, <1>7, <2>1, SameGame
<1>9. /\ Good(t) /\ Good(PlayAiIfNeeded(t)) /\ Alike(t.app, PlayAiIfNeeded(t).app)
      /\ PlayAiIfNeeded(t).app.shown \in {t.app.shown, Nothing}
  <2>1. Follows(command, t.app)
    BY <1>2, <1>6, <1>7, <1>8 DEF Follows
  <2> QED
    BY <1>2, <1>6, <1>7, <1>8, <2>1, OrderedKeeps
<1>10. CASE Connected
  <2>1. Do(PlayAiIfNeeded(t))
    BY <1>5, <1>10
  <2>2. IInv'
    BY <1>9, <2>1, DoneKeeps DEF ChangeThreads, Acts
  <2>3. app' = PlayAiIfNeeded(t).app
    BY <2>1 DEF Do
  <2> QED
    BY <1>7, <1>8, <1>9, <2>2, <2>3 DEF Configured, Alike, AppInv
<1>11. CASE ~Connected
  <2>1. Do(t)
    BY <1>5, <1>11
  <2>2. IInv'
    BY <1>9, <2>1, DoneKeeps DEF ChangeThreads, Acts
  <2>3. app' = t.app
    BY <2>1 DEF Do
  <2> QED
    BY <1>7, <1>8, <2>2, <2>3 DEF Configured, AppInv
<1> QED
  BY <1>10, <1>11

(* Going back to the pattern evaluator. *)
LEMMA UsePatternKeeps ==
  ASSUME IInv, UsePattern
  PROVE  IInv' /\ Configured(app, app')
<1> DEFINE command == [kind |-> "ReplaceEvaluator", evaluator |-> Pattern]
           sent == Order(Now, command)
           t == [sent EXCEPT !.app.evaluator = Pattern]
<1>1. Do(IF Connected THEN Resume(t) ELSE sent)
  BY Zenon DEF UsePattern
<1>2. command \in Commands /\ command.kind = "ReplaceEvaluator" /\ command.evaluator = Pattern
  BY DEF Commands
<1> HIDE DEF command
<1>3. IsApp(app) /\ AppInv(app)
  BY DEF IInv, Inv, AppInv
<1>4. {"app", "link"} \subseteq DOMAIN sent /\ sent.app = app /\ sent.link = Ordered(link, command)
  BY DEF Order, Now
<1> HIDE DEF sent
<1>6. /\ {"app", "link"} \subseteq DOMAIN t /\ t.link = Ordered(link, command)
      /\ t.app = [app EXCEPT !.evaluator = Pattern]
  BY <1>4
<1> HIDE DEF t
<1>7. /\ IsApp(t.app) /\ t.app.game = app.game /\ t.app.human = app.human
      /\ t.app.config = app.config /\ t.app.evaluator = Pattern /\ t.app.book = app.book
  BY <1>3, <1>6 DEF IsApp
<1>8. AppInv(t.app)
  <2>1. app.config \in Configs
    BY <1>3 DEF AppInv
  <2> QED
    BY <1>3, <1>7, <2>1, SameGame
<1>9. CASE Connected
  <2>1. Do(Resume(t))
    BY <1>1, <1>9
  <2>2. Good(Resume(t)) /\ Alike(t.app, Resume(t).app) /\ Resume(t).app.shown = Nothing
    <3>1. Follows(command, t.app)
      BY <1>2, <1>6, <1>7, <1>8 DEF Follows
    <3> QED
      BY <1>2, <1>6, <1>7, <1>8, <3>1, OrderedKeeps
  <2>3. IInv'
    BY <2>1, <2>2, DoneKeeps DEF UsePattern, Acts
  <2>4. app' = Resume(t).app
    BY <2>1 DEF Do
  <2> QED
    BY <1>7, <1>8, <2>2, <2>3, <2>4 DEF Configured, Alike, AppInv
<1>10. CASE ~Connected
  <2>1. Do(sent)
    BY <1>1, <1>10
  <2>2. Good(sent)
    <3>1. Follows(command, sent.app)
      BY <1>2, <1>3, <1>4, <1>10 DEF Follows
    <3> QED
      BY <1>2, <1>3, <1>4, <1>10, <3>1, OrderedKeeps
  <2>3. IInv'
    BY <2>1, <2>2, DoneKeeps DEF UsePattern, Acts
  <2>4. app' = app
    BY <1>4, <2>1 DEF Do
  <2> QED
    BY <1>3, <2>3, <2>4 DEF Configured, AppInv
<1> QED
  BY <1>9, <1>10

(* Loading a learned model. *)
LEMMA LoadModelKeeps ==
  ASSUME IInv, LoadLearnedModel
  PROVE  IInv' /\ Configured(app, app')
<1>1. PICK evaluator \in Evaluators :
       LET sent == Order([Now EXCEPT !.app.shown = Nothing],
                         [kind |-> "ReplaceEvaluator", evaluator |-> evaluator])
       IN Do(IF Connected THEN Resume([sent EXCEPT !.app.evaluator = evaluator]) ELSE sent)
  BY Zenon DEF LoadLearnedModel
<1> DEFINE command == [kind |-> "ReplaceEvaluator", evaluator |-> evaluator]
           u == [Now EXCEPT !.app.shown = Nothing]
           sent == Order(u, command)
           t == [sent EXCEPT !.app.evaluator = evaluator]
<1>2. Do(IF Connected THEN Resume(t) ELSE sent)
  BY <1>1, Zenon
<1>3. command \in Commands /\ command.kind = "ReplaceEvaluator" /\ command.evaluator = evaluator
  BY DEF Commands
<1> HIDE DEF command
<1>4. IsApp(app) /\ AppInv(app)
  BY DEF IInv, Inv, AppInv
<1>5. {"app", "link"} \subseteq DOMAIN u /\ u.app = [app EXCEPT !.shown = Nothing] /\ u.link = link
  BY DEF Now
<1> HIDE DEF u
<1>6. {"app", "link"} \subseteq DOMAIN sent /\ sent.app = u.app /\ sent.link = Ordered(link, command)
  BY <1>5 DEF Order
<1> HIDE DEF sent
<1>7. /\ {"app", "link"} \subseteq DOMAIN t /\ t.link = Ordered(link, command)
      /\ t.app = [sent.app EXCEPT !.evaluator = evaluator]
  BY <1>6
<1> HIDE DEF t
<1>8. /\ IsApp(sent.app) /\ sent.app.game = app.game /\ sent.app.human = app.human
      /\ sent.app.config = app.config /\ sent.app.evaluator = app.evaluator
      /\ sent.app.book = app.book /\ sent.app.shown = Nothing
  BY <1>4, <1>5, <1>6 DEF IsApp
<1>9. /\ IsApp(t.app) /\ t.app.game = app.game /\ t.app.human = app.human
      /\ t.app.config = app.config /\ t.app.evaluator = evaluator /\ t.app.book = app.book
  BY <1>7, <1>8 DEF IsApp
<1>10. app.config \in Configs /\ app.evaluator \in Evaluators
  BY <1>4 DEF AppInv
<1>11. AppInv(t.app) /\ AppInv(sent.app)
  BY <1>4, <1>8, <1>9, <1>10, SameGame
<1>12. CASE Connected
  <2>1. Do(Resume(t))
    BY <1>2, <1>12
  <2>2. Good(Resume(t)) /\ Alike(t.app, Resume(t).app) /\ Resume(t).app.shown = Nothing
    <3>1. Follows(command, t.app)
      BY <1>3, <1>7, <1>9, <1>11 DEF Follows
    <3> QED
      BY <1>3, <1>7, <1>9, <1>11, <3>1, OrderedKeeps
  <2>3. IInv'
    BY <2>1, <2>2, DoneKeeps DEF LoadLearnedModel, Acts
  <2>4. app' = Resume(t).app
    BY <2>1 DEF Do
  <2> QED
    BY <1>9, <1>10, <2>2, <2>3, <2>4 DEF Configured, Alike
<1>13. CASE ~Connected
  <2>1. Do(sent)
    BY <1>2, <1>13
  <2>2. Good(sent)
    <3>1. Follows(command, sent.app)
      BY <1>3, <1>6, <1>11, <1>13 DEF Follows
    <3> QED
      BY <1>3, <1>6, <1>11, <1>13, <3>1, OrderedKeeps
  <2>3. IInv'
    BY <2>1, <2>2, DoneKeeps DEF LoadLearnedModel, Acts
  <2>4. app' = sent.app
    BY <2>1 DEF Do
  <2> QED
    BY <1>8, <1>10, <2>3, <2>4 DEF Configured
<1> QED
  BY <1>12, <1>13

(* Loading or clearing the opening book. *)
LEMMA ChooseBookKeeps ==
  ASSUME IInv, ChooseBook
  PROVE  IInv' /\ Configured(app, app')
<1>1. PICK book \in Books \cup {Nothing} :
       Do(PlayAiIfNeeded(
            [Order(Now, [kind |-> "OpeningBook", book |-> book])
              EXCEPT !.app.book = Nothing, !.app.shown = Nothing]))
  BY Zenon DEF ChooseBook
<1> DEFINE command == [kind |-> "OpeningBook", book |-> book]
           sent == Order(Now, command)
           t == [sent EXCEPT !.app.book = Nothing, !.app.shown = Nothing]
<1>2. command \in Commands /\ command.kind = "OpeningBook"
  BY DEF Commands
<1> HIDE DEF command
<1>3. IsApp(app) /\ AppInv(app)
  BY DEF IInv, Inv, AppInv
<1>4. {"app", "link"} \subseteq DOMAIN sent /\ sent.app = app /\ sent.link = Ordered(link, command)
  BY DEF Order, Now
<1>5. Do(PlayAiIfNeeded(t))
  BY <1>1, Zenon DEF command
<1> HIDE DEF sent
<1>6. /\ {"app", "link"} \subseteq DOMAIN t /\ t.link = Ordered(link, command)
      /\ t.app = [app EXCEPT !.book = Nothing, !.shown = Nothing]
  BY <1>4
<1> HIDE DEF t
<1>7. /\ IsApp(t.app) /\ t.app.game = app.game /\ t.app.human = app.human
      /\ t.app.config = app.config /\ t.app.evaluator = app.evaluator /\ t.app.shown = Nothing
  BY <1>3, <1>6 DEF IsApp
<1>8. app.config \in Configs /\ app.evaluator \in Evaluators
  BY <1>3 DEF AppInv
<1>9. AppInv(t.app)
  BY <1>3, <1>7, <1>8, SameGame
<1>10. /\ Good(PlayAiIfNeeded(t)) /\ Alike(t.app, PlayAiIfNeeded(t).app)
       /\ PlayAiIfNeeded(t).app.shown \in {t.app.shown, Nothing}
  <2>1. Follows(command, t.app)
    BY <1>2, <1>6, <1>7, <1>9 DEF Follows
  <2> QED
    BY <1>2, <1>6, <1>7, <1>9, <2>1, OrderedKeeps
<1>11. IInv'
  BY <1>5, <1>10, DoneKeeps DEF ChooseBook, Acts
<1>12. app' = PlayAiIfNeeded(t).app
  BY <1>5 DEF Do
<1> QED
  BY <1>7, <1>8, <1>10, <1>11, <1>12 DEF Configured, Alike

(* Closing the window sends one more command. *)
LEMMA CloseKeeps ==
  ASSUME IInv, Close
  PROVE  IInv' /\ app' = app
<1> DEFINE command == [kind |-> "Shutdown"]
           sent == Order(Now, command)
<1>1. command \in Commands /\ command.kind = "Shutdown"
  BY DEF Commands
<1> HIDE DEF command
<1>2. IsApp(app) /\ AppInv(app)
  BY DEF IInv, Inv, AppInv
<1>3. {"app", "link"} \subseteq DOMAIN sent /\ sent.app = app /\ sent.link = Ordered(link, command)
  BY DEF Order, Now
<1>4. Good(sent)
  <2>1. Follows(command, sent.app)
    BY <1>1, <1>2, <1>3 DEF Follows
  <2> QED
    BY <1>1, <1>2, <1>3, <2>1, OrderedKeeps
<1>5. Do(sent) /\ UNCHANGED <<thread, engine, running, events, reports>>
  BY DEF Close, command
<1> HIDE DEF sent
<1>6. IInv'
  BY <1>4, <1>5 DEF IInv, Good, Do
<1> QED
  BY <1>3, <1>5, <1>6 DEF Do

-----------------------------------------------------------------------------
(* What a frame polls. *)

(* The expectation ends, by an answer or by giving it up. *)
LEMMA AnsweredKeeps ==
  ASSUME NEW a, NEW b, NEW l, NEW m, Inv(a, l, thread, engine, running, events, reports),
         AppInv(b), b.config = a.config, b.evaluator = a.evaluator, b.book = a.book,
         IsLink(m), m.current = Nothing, m.id = l.id, m.requests = l.requests
  PROVE  Inv(b, m, thread, engine, running, events, reports)
<1>1. TrafficInv(m, running, events)
  BY DEF Inv, TrafficInv
<1>2. ExpectInv(b, m, running, events)
  BY DEF ExpectInv, Searching
<1>3. thread = "alive" => SettingsInv(b, m.requests, engine)
  BY DEF Inv, SettingsInv
<1>4. thread = "alive" => ShownInv(b, m.requests, engine, reports)
  BY DEF Inv, ShownInv
<1> QED
  BY <1>1, <1>2, <1>3, <1>4 DEF Inv

(* An event is taken from the channel. *)
LEMMA TailKeeps ==
  ASSUME NEW a, NEW l, Inv(a, l, thread, engine, running, events, reports), events # <<>>
  PROVE  Inv(a, l, thread, engine, running, Tail(events), reports)
<1> DEFINE left == Tail(events)
<1>1. /\ left \in Seq(EventTypes)
      /\ \A i \in DOMAIN left : i + 1 \in DOMAIN events /\ left[i] = events[i + 1]
  BY TailFacts DEF Inv, TrafficInv
<1> HIDE DEF left
<1>2. TrafficInv(l, running, left)
  BY <1>1 DEF Inv, TrafficInv
<1>3. ExpectInv(a, l, running, left)
  BY <1>1 DEF Inv, ExpectInv
<1> QED
  BY <1>2, <1>3 DEF Inv, left

(* What is expected of an answer that is accepted. *)
LEMMA HeadIs ==
  ASSUME IInv, events # <<>>, Accepts(link, Head(events))
  PROVE  /\ AiTurn(app) /\ Head(events) \in EventTypes /\ Head(events).about = About(app)
<1>1. Head(events) = events[1] /\ 1 \in DOMAIN events /\ Head(events) \in EventTypes
  BY TailFacts DEF IInv, Inv, TrafficInv
<1> QED
  BY <1>1 DEF IInv, Inv, ExpectInv, Accepts

(* An answer to a search the application still waits for is about the game *)
(* on the board: it is shown, and its move may be played.                  *)
Shows(a, b) ==
  /\ AiTurn(a) /\ b.human = a.human /\ b.config = a.config /\ b.evaluator = a.evaluator
  /\ b.shown = About(a)
  /\ \/ b.game = a.game
     \/ \E at \in Cells : Playable(a.game, at) /\ b.game = PlayMove(a.game, at)

(* What accepting an event leaves of the handle. *)
LEMMA AcceptedIs ==
  ASSUME NEW l, IsLink(l), NEW event
  PROVE  /\ IsLink(Accepted(l, event)) /\ Accepted(l, event).id = l.id
         /\ Accepted(l, event).requests = l.requests
         /\ \/ event.kind = "Finished" /\ Accepted(l, event).current = Nothing
            \/ event.kind # "Finished" /\ Accepted(l, event) = l
  BY DEF Accepted, IsLink

(* An accepted event is shown, and a final one may be played. *)
LEMMA HandledKeeps ==
  ASSUME IInv, NEW event, event \in EventTypes, AiTurn(app), event.about = About(app)
  PROVE  Good(Handled(Now, event)) /\ Shows(app, Handled(Now, event).app)
<1>1. IsApp(app) /\ AppInv(app) /\ IsLink(link)
  BY DEF IInv, Inv, AppInv, TrafficInv
<1> DEFINE m == Accepted(link, event)
           b == [app EXCEPT !.shown = event.about]
           seen == [app |-> b, link |-> m]
           plays == /\ event.kind = "Finished" /\ event.termination # "Cancelled"
                    /\ AiTurn(app) /\ Playable(app.game, event.best)
           c == [PlayTimed(b, event.best, event.best) EXCEPT !.timed = FALSE]
           t == [seen EXCEPT !.app = c]
<1>2. /\ IsLink(m) /\ m.id = link.id /\ m.requests = link.requests
      /\ \/ event.kind = "Finished" /\ m.current = Nothing
         \/ event.kind # "Finished" /\ m = link
  BY <1>1, AcceptedIs
<1>3. /\ IsApp(b) /\ Alike(app, b) /\ b.shown = About(app)
      /\ b.game = app.game /\ b.human = app.human /\ b.config = app.config
      /\ b.evaluator = app.evaluator /\ b.book = app.book
  BY <1>1 DEF IsApp, Alike
<1>4. Handled(Now, event) = IF plays THEN StartHumanTimer(t) ELSE seen
  <2>1. t = [seen EXCEPT !.app = [PlayTimed(@, event.best, event.best) EXCEPT !.timed = FALSE]]
    BY DEF PlayTimed
  <2>2. Now.app = app /\ Now.link = link
    BY DEF Now
  <2> HIDE DEF t
  <2> QED
    BY <2>1, <2>2 DEF Handled
<1> HIDE DEF m, b
<1>5. CASE plays
  <2> DEFINE at == event.best
             g == PlayMove(app.game, at)
             times == Append(b.times, at)
             d == PlayTimed(b, at, at)
  <2>1. at \in Cells /\ Playable(app.game, at)
    BY <1>5 DEF EventTypes
  <2>2. d = [b EXCEPT !.game = g, !.times = times, !.undone = <<>>]
    BY <1>3, Zenon DEF PlayTimed
  <2>3. g = PlayMove(app.game, event.best)
    OBVIOUS
  <2> HIDE DEF g, times, at
  <2>4. /\ IsApp(d) /\ d.game = g /\ d.human = app.human /\ d.config = app.config
        /\ d.evaluator = app.evaluator /\ d.book = app.book /\ d.shown = About(app)
    BY <1>3, <2>2 DEF IsApp
  <2> HIDE DEF d
  <2>5. c = [d EXCEPT !.timed = FALSE]
    BY DEF d, at
  <2> HIDE DEF c
  <2>6. /\ IsApp(c) /\ c.game = g /\ c.human = app.human /\ c.config = app.config
        /\ c.evaluator = app.evaluator /\ c.book = app.book /\ c.shown = About(app)
    BY <2>4, <2>5 DEF IsApp
  <2>7. AppInv(c)
    <3>1. OnLine(g, app.human)
      BY <1>1, <2>1, PlayStops DEF g
    <3>2. app.config \in Configs /\ app.evaluator \in Evaluators /\ app.human \in Stones
      BY <1>1 DEF AppInv
    <3> QED
      BY <2>6, <3>1, <3>2 DEF AppInv
  <2>8. m.current = Nothing
    BY <1>2, <1>5
  <2>9. Inv(c, m, thread, engine, running, events, reports)
    BY <1>2, <2>6, <2>7, <2>8, AnsweredKeeps DEF IInv
  <2>10. {"app", "link"} \subseteq DOMAIN t /\ t.app = c /\ t.link = m
    OBVIOUS
  <2> HIDE DEF t
  <2>11. Good(t)
    BY <2>9, <2>10 DEF Good
  <2>12. /\ IsSession(StartHumanTimer(t)) /\ Alike(t.app, StartHumanTimer(t).app)
         /\ StartHumanTimer(t).app.shown = t.app.shown /\ StartHumanTimer(t).link = t.link
    BY <2>11, GoodIs, HumanTimerIs
  <2> DEFINE r == StartHumanTimer(t)
  <2>13. Good(r)
    <3> HIDE DEF r
    <3>1. Inv(r.app, t.link, thread, engine, running, events, reports)
      BY <2>11, <2>12, AlikeKeeps DEF Good, r
    <3> QED
      BY <2>12, <3>1 DEF Good, IsSession, r
  <2>14. Shows(app, r.app)
    <3> HIDE DEF r
    <3>1. r.app.game = g /\ r.app.human = app.human /\ r.app.config = app.config
          /\ r.app.evaluator = app.evaluator /\ r.app.shown = About(app)
      BY <2>6, <2>10, <2>12 DEF Alike, r
    <3> QED
      BY <2>1, <3>1 DEF Shows, g
  <2>15. Handled(Now, event) = r
    BY <1>4, <1>5
  <2> HIDE DEF r
  <2> QED
    BY <2>13, <2>14, <2>15
<1>6. CASE ~plays
  <2>1. Inv(b, link, thread, engine, running, events, reports)
    BY <1>3, AlikeKeeps DEF IInv
  <2>2. Inv(b, m, thread, engine, running, events, reports)
    <3>1. CASE m = link
      BY <2>1, <3>1
    <3>2. CASE m.current = Nothing
      <4>1. AppInv(b)
        BY <2>1 DEF Inv
      <4> QED
        BY <1>2, <2>1, <3>2, <4>1, AnsweredKeeps
    <3> QED
      BY <1>2, <3>1, <3>2
  <2>3. {"app", "link"} \subseteq DOMAIN seen /\ seen.app = b /\ seen.link = m
    OBVIOUS
  <2>4. Handled(Now, event) = seen
    BY <1>4, <1>6
  <2> HIDE DEF seen
  <2>5. Good(seen)
    BY <2>2, <2>3 DEF Good
  <2>6. Shows(app, seen.app)
    BY <1>3, <2>3 DEF Shows
  <2> QED
    BY <2>4, <2>5, <2>6
<1> QED
  BY <1>5, <1>6

(* Polling the events. *)
LEMMA PollSearchKeeps ==
  ASSUME IInv, PollSearch
  PROVE  IInv' /\ (app' = app \/ Shows(app, app'))
<1> DEFINE event == Head(events)
<1>1. /\ events # <<>> /\ events' = Tail(events)
      /\ UNCHANGED <<thread, engine, running, reports>>
      /\ Do(IF Accepts(link, event) THEN Handled(Now, event) ELSE Now)
  BY DEF PollSearch, Polls
<1>2. CASE Accepts(link, event)
  <2> DEFINE r == Handled(Now, event)
  <2>1. Do(r)
    BY <1>1, <1>2
  <2>2. Good(r) /\ Shows(app, r.app)
    BY <1>1, <1>2, HeadIs, HandledKeeps
  <2> HIDE DEF r
  <2>3. Inv(r.app, r.link, thread, engine, running, Tail(events), reports)
    BY <1>1, <2>2, TailKeeps DEF Good
  <2>4. app' = r.app /\ link' = r.link
    BY <2>1 DEF Do
  <2> QED
    BY <1>1, <2>2, <2>3, <2>4 DEF IInv
<1>3. CASE ~Accepts(link, event)
  <2>1. app' = app /\ link' = link
    BY <1>1, <1>3 DEF Do, Now
  <2>2. Inv(app, link, thread, engine, running, Tail(events), reports)
    BY <1>1, TailKeeps DEF IInv
  <2> QED
    BY <1>1, <2>1, <2>2 DEF IInv
<1> QED
  BY <1>2, <1>3

(* Polling a worker that is gone. *)
LEMMA PollDisconnectedKeeps ==
  ASSUME IInv, PollDisconnected
  PROVE  IInv' /\ app' = app
<1> DEFINE t == GiveUp(Now)
<1>1. {"app", "link"} \subseteq DOMAIN t /\ t.app = app /\ t.link = Invalidated(link)
  BY DEF GiveUp, Now
<1>2. Do(t) /\ UNCHANGED <<thread, engine, running, events, reports>>
  BY DEF PollDisconnected, Polls
<1> HIDE DEF t
<1>3. AppInv(app)
  BY DEF IInv, Inv
<1>4. Good(t)
  BY <1>1, <1>3, ReplacedKeeps
<1>5. IInv'
  BY <1>2, <1>4 DEF IInv, Good, Do
<1> QED
  BY <1>1, <1>2, <1>5 DEF Do

(* Polling the status of the book. *)
LEMMA PollBookKeeps ==
  ASSUME IInv, PollBookStatus
  PROVE  /\ IInv' /\ app'.game = app.game /\ app'.human = app.human
         /\ app'.config = app.config /\ app'.evaluator = app.evaluator
         /\ app'.shown = app.shown
<1> DEFINE book == Last(reports).book
           t == [Now EXCEPT !.app.book = book]
<1>1. /\ Do(t) /\ reports # <<>> /\ reports' = <<>>
      /\ UNCHANGED <<thread, engine, running, events>>
  BY DEF PollBookStatus, Polls
<1>2. book = engine.book
  BY <1>1 DEF Last, IInv, Inv, EngineInv
<1> HIDE DEF book
<1>3. t.app = [app EXCEPT !.book = book] /\ t.link = link
  BY DEF Now
<1> HIDE DEF t
<1>4. app' = t.app /\ link' = link
  BY <1>1, <1>3 DEF Do
<1>5. IsApp(app) /\ AppInv(app)
  BY DEF IInv, Inv, AppInv
<1>6. /\ IsApp(app') /\ app'.game = app.game /\ app'.human = app.human
      /\ app'.config = app.config /\ app'.evaluator = app.evaluator
      /\ app'.shown = app.shown /\ app'.book = engine.book
  BY <1>2, <1>3, <1>4, <1>5 DEF IsApp
<1> DEFINE b == app'
<1>7. Inv(b, link, thread, engine, running, events, <<>>)
  <2> HIDE DEF b
  <2>1. AppInv(b)
    BY <1>5, <1>6 DEF AppInv, b
  <2>2. AiTurn(b) = AiTurn(app) /\ About(b) = About(app) /\ b.game = app.game
    BY <1>6 DEF AiTurn, About, b
  <2>3. ExpectInv(b, link, running, events)
    BY <2>2 DEF IInv, Inv, ExpectInv
  <2>4. EngineInv(engine, <<>>)
    BY DEF IInv, Inv, EngineInv
  <2>5. thread = "alive" => SettingsInv(b, link.requests, engine)
    BY <1>6 DEF IInv, Inv, SettingsInv, b
  <2>6. ShownInv(b, link.requests, engine, <<>>)
    BY <1>6 DEF ShownInv, b
  <2> QED
    BY <2>1, <2>3, <2>4, <2>5, <2>6 DEF IInv, Inv
<1>8. IInv'
  BY <1>1, <1>4, <1>7 DEF IInv
<1> QED
  BY <1>6, <1>8

-----------------------------------------------------------------------------
(* The thread. *)

(* What is pending once the first command is taken. *)
LEMMA Taken ==
  ASSUME NEW s \in Seq(Commands), s # <<>>
  PROVE  /\ \A kind, i : i \in DOMAIN Tail(s) /\ IsLast(Tail(s), kind, i) =>
              i + 1 \in DOMAIN s /\ Tail(s)[i] = s[i + 1] /\ IsLast(s, kind, i + 1)
         /\ \A kind : None(Tail(s), kind) =>
              IF Head(s).kind = kind THEN IsLast(s, kind, 1) ELSE None(s, kind)
<1> DEFINE t == Tail(s)
<1>1. /\ Len(s) \in Nat /\ Head(s) = s[1] /\ 1 \in DOMAIN s
      /\ DOMAIN s = 1..Len(s) /\ DOMAIN t = 1..Len(s) - 1
      /\ \A i \in DOMAIN t : i + 1 \in DOMAIN s /\ t[i] = s[i + 1]
  BY TailFacts
<1> HIDE DEF t
<1>2. ASSUME NEW j \in DOMAIN s, j # 1 PROVE j - 1 \in DOMAIN t /\ t[j - 1] = s[j]
  <2>1. j - 1 \in DOMAIN t /\ (j - 1) + 1 = j
    BY <1>1, <1>2
  <2> QED
    BY <1>1, <2>1
<1>3. ASSUME NEW kind, NEW i \in DOMAIN t, IsLast(t, kind, i) PROVE IsLast(s, kind, i + 1)
  <2>1. ASSUME NEW j \in DOMAIN s, j > i + 1 PROVE s[j].kind # kind
    <3>1. j # 1 /\ j - 1 > i
      BY <1>1, <2>1
    <3> QED
      BY <1>2, <1>3, <3>1 DEF IsLast
  <2> QED
    BY <1>1, <1>3, <2>1 DEF IsLast
<1>4. ASSUME NEW kind, None(t, kind), NEW j \in DOMAIN s, j # 1 PROVE s[j].kind # kind
  BY <1>2, <1>4 DEF None
<1>5. ASSUME NEW kind, None(t, kind)
      PROVE  IF Head(s).kind = kind THEN IsLast(s, kind, 1) ELSE None(s, kind)
  <2>1. CASE Head(s).kind = kind
    <3>1. \A j \in DOMAIN s : j > 1 => j # 1
      BY <1>1
    <3> QED
      BY <1>1, <1>4, <1>5, <2>1, <3>1 DEF IsLast
  <2>2. CASE Head(s).kind # kind
    BY <1>1, <1>4, <1>5, <2>2 DEF None
  <2> QED
    BY <2>1, <2>2
<1> QED
  BY <1>1, <1>3, <1>5 DEF t

(* A command is taken, by a thread that searches for nothing. *)
LEMMA ReceivesIs ==
  ASSUME IInv, NEW kind, Receives(kind)
  PROVE  /\ thread = "alive" /\ running = Nothing /\ link.requests \in Seq(Commands)
         /\ link.requests # <<>> /\ Received \in Commands /\ Received.kind = kind
         /\ Received = link.requests[1] /\ 1 \in DOMAIN link.requests
         /\ IsLink(link') /\ link'.id = link.id /\ link'.current = link.current
         /\ link'.requests = Tail(link.requests)
         /\ TrafficInv(link', Nothing, events)
         /\ ExpectInv(app, link', Nothing, events)
<1> DEFINE t == Tail(link.requests)
           m == link'
<1>1. /\ thread = "alive" /\ running = Nothing /\ link.requests # <<>>
      /\ Head(link.requests).kind = kind /\ m = [link EXCEPT !.requests = t]
  BY DEF Receives
<1>2. IsLink(link) /\ link.requests \in Seq(Commands)
  BY DEF IInv, Inv, TrafficInv
<1>3. /\ t \in Seq(Commands) /\ Head(link.requests) \in Commands
      /\ Head(link.requests) = link.requests[1] /\ 1 \in DOMAIN link.requests
      /\ Len(t) = Len(link.requests) - 1 /\ Len(link.requests) \in Nat
      /\ DOMAIN t = 1..Len(link.requests) - 1
      /\ \A i \in DOMAIN t : i + 1 \in DOMAIN link.requests /\ t[i] = link.requests[i + 1]
  BY <1>1, <1>2, TailFacts
<1> HIDE DEF t, m
<1>4. /\ IsLink(m) /\ m.id = link.id /\ m.current = link.current /\ m.requests = t
  BY <1>1, <1>2 DEF IsLink
<1>5. TrafficInv(m, Nothing, events)
  <2>1. ASSUME NEW i \in DOMAIN t, t[i].kind = "Search" PROVE t[i].id <= m.id
    BY <1>3, <1>4, <2>1 DEF IInv, Inv, TrafficInv
  <2> QED
    BY <1>3, <1>4, <2>1 DEF IInv, Inv, TrafficInv
<1>6. ExpectInv(app, m, Nothing, events)
  <2>1. ASSUME Searching(m), NEW i \in DOMAIN t, t[i].kind = "Search", t[i].id = m.id
        PROVE  i = Len(t) /\ t[i].position = app.game.position
    <3>1. i + 1 = Len(link.requests) /\ link.requests[i + 1].position = app.game.position
      BY <1>3, <1>4, <2>1 DEF IInv, Inv, ExpectInv, Searching
    <3> QED
      BY <1>3, <2>1, <3>1
  <2>2. Searching(m) = Searching(link)
    BY <1>4 DEF Searching
  <2> QED
    BY <1>4, <2>1, <2>2 DEF IInv, Inv, ExpectInv
<1> QED
  BY <1>1, <1>2, <1>3, <1>4, <1>5, <1>6 DEF Received, t, m

(* The settings of the engine after a command are those of the application *)
(* once the rest is taken.                                                 *)
LEMMA SettingsFollow ==
  ASSUME IInv, NEW kind, Receives(kind), NEW en,
         en.config = IF kind = "Reconfigure" THEN Received.config ELSE engine.config,
         en.evaluator = IF kind = "ReplaceEvaluator" THEN Received.evaluator
                        ELSE engine.evaluator
  PROVE  SettingsInv(app, Tail(link.requests), en)
<1> DEFINE s == link.requests  t == Tail(s)
<1>1. /\ thread = "alive" /\ s \in Seq(Commands) /\ s # <<>> /\ Head(s).kind = kind
      /\ Received = s[1] /\ 1 \in DOMAIN s
  BY ReceivesIs DEF Received
<1>2. SettingsInv(app, s, engine)
  BY <1>1 DEF IInv, Inv
<1>3. /\ \A k, i : i \in DOMAIN t /\ IsLast(t, k, i) =>
           i + 1 \in DOMAIN s /\ t[i] = s[i + 1] /\ IsLast(s, k, i + 1)
      /\ \A k : None(t, k) => IF Head(s).kind = k THEN IsLast(s, k, 1) ELSE None(s, k)
  BY <1>1, Taken
<1> HIDE DEF s, t
<1>4. ASSUME NEW i \in DOMAIN t, IsLast(t, "Reconfigure", i) PROVE t[i].config = app.config
  BY <1>2, <1>3, <1>4 DEF SettingsInv
<1>5. ASSUME NEW i \in DOMAIN t, IsLast(t, "ReplaceEvaluator", i)
      PROVE  t[i].evaluator = app.evaluator
  BY <1>2, <1>3, <1>5 DEF SettingsInv
<1>6. None(t, "Reconfigure") => en.config = app.config
  BY <1>1, <1>2, <1>3 DEF SettingsInv
<1>7. None(t, "ReplaceEvaluator") => en.evaluator = app.evaluator
  BY <1>1, <1>2, <1>3 DEF SettingsInv
<1> QED
  BY <1>4, <1>5, <1>6, <1>7 DEF SettingsInv, t, s

(* A cancelled request is skipped. *)
LEMMA SkipKeeps ==
  ASSUME IInv, SkipSearch, UNCHANGED app
  PROVE  IInv'
<1>1. Receives("Search") /\ UNCHANGED <<thread, engine, running, events, reports>>
  BY DEF SkipSearch, threadVars
<1> DEFINE s == link.requests  t == Tail(s)  m == link'
<1>2. /\ thread = "alive" /\ running = Nothing /\ s \in Seq(Commands) /\ s # <<>>
      /\ Head(s).kind = "Search" /\ m.requests = t
      /\ TrafficInv(m, Nothing, events) /\ ExpectInv(app, m, Nothing, events)
  BY <1>1, ReceivesIs DEF Received
<1>3. SettingsInv(app, t, engine)
  BY <1>1, SettingsFollow
<1>4. ShownInv(app, t, engine, reports)
  BY <1>2, Taken DEF ShownInv, IInv, Inv
<1> HIDE DEF t, s, m
<1>5. Inv(app, m, thread, engine, running, events, reports)
  BY <1>2, <1>3, <1>4 DEF IInv, Inv
<1> QED
  BY <1>1, <1>5 DEF IInv, m

(* A search begins with the settings of the application, if it is the one *)
(* the application expects an answer of: no command comes after it.       *)
LEMMA BeginKeeps ==
  ASSUME IInv, BeginSearch, UNCHANGED app
  PROVE  IInv'
<1> DEFINE about == [position |-> Received.position, config |-> engine.config,
                     evaluator |-> engine.evaluator]
           search == [id |-> Received.id, infos |-> 0, about |-> about]
<1>1. /\ Receives("Search") /\ running' = search
      /\ UNCHANGED <<thread, engine, events, reports>>
  BY DEF BeginSearch
<1> DEFINE s == link.requests  t == Tail(s)  m == link'
<1>2. /\ thread = "alive" /\ running = Nothing /\ s \in Seq(Commands) /\ s # <<>>
      /\ Head(s).kind = "Search" /\ m.requests = t /\ m.id = link.id /\ m.current = link.current
      /\ TrafficInv(m, Nothing, events) /\ ExpectInv(app, m, Nothing, events)
      /\ Received \in Commands /\ Received = s[1] /\ 1 \in DOMAIN s /\ Received.kind = "Search"
  BY <1>1, ReceivesIs DEF Received
<1>3. SettingsInv(app, t, engine)
  BY <1>1, SettingsFollow
<1>4. ShownInv(app, t, engine, reports)
  BY <1>2, Taken DEF ShownInv, IInv, Inv
<1>5. Received.id \in Nat /\ Received.position \in Positions /\ Received.id <= link.id
  BY <1>2, CommandFacts DEF IInv, Inv, TrafficInv
<1>6. engine.config \in Configs /\ engine.evaluator \in Evaluators
  BY DEF IInv, Inv, EngineInv
<1>7. about \in Subjects /\ about.position = Received.position
      /\ about.config = engine.config /\ about.evaluator = engine.evaluator
  BY <1>5, <1>6 DEF Subjects
<1>8. ASSUME Searching(m), Received.id = m.id PROVE about = About(app)
  <2>1. 1 = Len(s) /\ Received.position = app.game.position
    BY <1>2, <1>8 DEF IInv, Inv, ExpectInv, Searching
  <2>2. DOMAIN t = {}
    BY <1>2, <2>1, TailFacts
  <2> HIDE DEF t
  <2>3. None(t, "Reconfigure") /\ None(t, "ReplaceEvaluator")
    BY <2>2 DEF None
  <2>4. engine.config = app.config /\ engine.evaluator = app.evaluator
    BY <1>3, <2>3 DEF SettingsInv
  <2> QED
    BY <2>1, <2>4 DEF About
<1> HIDE DEF about
<1>9. search \in Searches /\ search.id = Received.id /\ search.about = about
  BY <1>5, <1>7 DEF Searches
<1> HIDE DEF t, s, m, search
<1>10. TrafficInv(m, search, events)
  BY <1>2, <1>5, <1>9 DEF TrafficInv
<1>11. ExpectInv(app, m, search, events)
  BY <1>2, <1>8, <1>9 DEF ExpectInv
<1>12. Inv(app, m, thread, engine, search, events, reports)
  BY <1>2, <1>3, <1>4, <1>10, <1>11 DEF IInv, Inv
<1> QED
  BY <1>1, <1>12 DEF IInv, m

(* An event of the search in progress. *)
LEMMA EventKeeps ==
  ASSUME IInv, running # Nothing, NEW event \in EventTypes, event.id = running.id,
         event.about = running.about, NEW ru,
         ru # Nothing => ru \in Searches /\ ru.id = running.id /\ ru.about = running.about
  PROVE  Inv(app, link, thread, engine, ru, Append(events, event), reports)
<1> DEFINE more == Append(events, event)
<1>1. /\ more \in Seq(EventTypes) /\ Len(events) \in Nat
      /\ DOMAIN events = 1..Len(events) /\ DOMAIN more = 1..Len(events) + 1
      /\ \A i \in DOMAIN events : more[i] = events[i]
      /\ more[Len(events) + 1] = event
  BY AppendFacts DEF IInv, Inv, TrafficInv
<1> HIDE DEF more
<1>2. \A i \in DOMAIN more : i \in DOMAIN events \/ more[i] = event
  BY <1>1
<1>3. TrafficInv(link, ru, more)
  BY <1>1, <1>2 DEF IInv, Inv, TrafficInv
<1>4. ExpectInv(app, link, ru, more)
  BY <1>1, <1>2 DEF IInv, Inv, ExpectInv
<1> QED
  BY <1>3, <1>4 DEF IInv, Inv, more

(* A snapshot. *)
LEMMA InformKeeps ==
  ASSUME IInv, Inform, UNCHANGED app
  PROVE  IInv'
<1> DEFINE event == [kind |-> "Info", id |-> running.id, about |-> running.about]
           ru == [running EXCEPT !.infos = @ + 1]
<1>1. /\ running # Nothing /\ events' = Append(events, event) /\ running' = ru
      /\ UNCHANGED <<link, thread, engine, reports>>
  BY DEF Inform
<1>2. running \in Searches
  BY <1>1 DEF IInv, Inv, TrafficInv
<1>3. event \in EventTypes /\ event.id = running.id /\ event.about = running.about
  BY <1>2 DEF EventTypes, Searches
<1>4. ru \in Searches /\ ru.id = running.id /\ ru.about = running.about
  BY <1>2 DEF Searches
<1> HIDE DEF event, ru
<1>5. Inv(app, link, thread, engine, ru, Append(events, event), reports)
  BY <1>1, <1>3, <1>4, EventKeeps
<1> QED
  BY <1>1, <1>5 DEF IInv

(* A search ends. *)
LEMMA FinishKeeps ==
  ASSUME IInv, FinishSearch, UNCHANGED app
  PROVE  IInv'
<1>1. PICK at \in Cells, termination \in {"Completed", "Cancelled"} :
       events' = Append(events, [kind |-> "Finished", id |-> running.id,
                                 about |-> running.about, best |-> at,
                                 termination |-> termination])
  BY DEF FinishSearch
<1> DEFINE event == [kind |-> "Finished", id |-> running.id, about |-> running.about,
                     best |-> at, termination |-> termination]
<1>2. /\ running # Nothing /\ running' = Nothing
      /\ UNCHANGED <<link, thread, engine, reports>>
  BY DEF FinishSearch
<1>3. running \in Searches
  BY <1>2 DEF IInv, Inv, TrafficInv
<1>4. event \in EventTypes /\ event.id = running.id /\ event.about = running.about
  BY <1>3 DEF EventTypes, Searches
<1>5. events' = Append(events, event)
  BY <1>1
<1> HIDE DEF event
<1>6. Inv(app, link, thread, engine, Nothing, Append(events, event), reports)
  BY <1>2, <1>4, EventKeeps
<1> QED
  BY <1>2, <1>5, <1>6 DEF IInv

(* The engine changes, and its book is reported. *)
LEMMA EngineKeeps ==
  ASSUME IInv, UNCHANGED app, NEW kind, Receives(kind), NEW en,
         en \in [config : Configs, evaluator : Evaluators, book : MaybeBooks],
         en.book # Nothing => en.book = [config |-> en.config, evaluator |-> en.evaluator],
         en.config = IF kind = "Reconfigure" THEN Received.config ELSE engine.config,
         en.evaluator = IF kind = "ReplaceEvaluator" THEN Received.evaluator
                        ELSE engine.evaluator,
         engine' = en, reports' = Append(reports, [book |-> en.book]),
         UNCHANGED <<thread, running, events>>
  PROVE  IInv'
<1> DEFINE m == link'  re == Append(reports, [book |-> en.book])
<1>1. /\ running = Nothing /\ m.requests = Tail(link.requests)
      /\ TrafficInv(m, Nothing, events) /\ ExpectInv(app, m, Nothing, events)
  BY ReceivesIs
<1>2. SettingsInv(app, m.requests, en)
  BY <1>1, SettingsFollow
<1>3. [book |-> en.book] \in Reports /\ reports \in Seq(Reports)
  BY DEF Reports, IInv, Inv, EngineInv
<1>4. re \in Seq(Reports) /\ re # <<>> /\ re[Len(re)] = [book |-> en.book]
  BY <1>3, AppendFacts
<1>5. ShownInv(app, m.requests, en, re)
  BY <1>4 DEF ShownInv
<1> HIDE DEF m, re
<1>6. EngineInv(en, re)
  BY <1>4 DEF EngineInv
<1>7. Inv(app, m, thread, en, running, events, re)
  BY <1>1, <1>2, <1>5, <1>6 DEF IInv, Inv
<1> QED
  BY <1>7 DEF IInv, m, re

(* Another configuration. *)
LEMMA ReconfigureKeeps ==
  ASSUME IInv, Reconfigure, UNCHANGED app
  PROVE  IInv'
<1> DEFINE en == [engine EXCEPT !.config = Received.config, !.book = Nothing]
<1>1. /\ Receives("Reconfigure") /\ engine' = en
      /\ reports' = Append(reports, [book |-> Nothing])
      /\ UNCHANGED <<thread, running, events>>
  BY DEF Reconfigure
<1>2. Received.config \in Configs
  BY <1>1, ReceivesIs, CommandFacts
<1>3. engine \in [config : Configs, evaluator : Evaluators, book : MaybeBooks]
  BY DEF IInv, Inv, EngineInv
<1>4. /\ en \in [config : Configs, evaluator : Evaluators, book : MaybeBooks]
      /\ en.config = Received.config /\ en.evaluator = engine.evaluator /\ en.book = Nothing
  BY <1>2, <1>3 DEF MaybeBooks
<1> HIDE DEF en
<1> QED
  BY <1>1, <1>4, EngineKeeps

(* Another evaluator. *)
LEMMA ReplaceEvaluatorKeeps ==
  ASSUME IInv, ReplaceEvaluator, UNCHANGED app
  PROVE  IInv'
<1> DEFINE en == [engine EXCEPT !.evaluator = Received.evaluator, !.book = Nothing]
<1>1. /\ Receives("ReplaceEvaluator") /\ engine' = en
      /\ reports' = Append(reports, [book |-> Nothing])
      /\ UNCHANGED <<thread, running, events>>
  BY DEF ReplaceEvaluator
<1>2. Received.evaluator \in Evaluators
  BY <1>1, ReceivesIs, CommandFacts
<1>3. engine \in [config : Configs, evaluator : Evaluators, book : MaybeBooks]
  BY DEF IInv, Inv, EngineInv
<1>4. /\ en \in [config : Configs, evaluator : Evaluators, book : MaybeBooks]
      /\ en.evaluator = Received.evaluator /\ en.config = engine.config /\ en.book = Nothing
  BY <1>2, <1>3 DEF MaybeBooks
<1> HIDE DEF en
<1> QED
  BY <1>1, <1>4, EngineKeeps

(* Another opening book, or none. *)
LEMMA OpenBookKeeps ==
  ASSUME IInv, OpenBook, UNCHANGED app
  PROVE  IInv'
<1>1. PICK loaded \in Loadable(Received.book) :
         /\ engine' = [engine EXCEPT !.book = loaded]
         /\ reports' = Append(reports, [book |-> loaded])
  BY DEF OpenBook
<1> DEFINE en == [engine EXCEPT !.book = loaded]
<1>2. Receives("OpeningBook") /\ UNCHANGED <<thread, running, events>>
  BY DEF OpenBook
<1>3. Received.book \in MaybeBooks
  BY <1>2, ReceivesIs, CommandFacts
<1>4. engine \in [config : Configs, evaluator : Evaluators, book : MaybeBooks]
  BY DEF IInv, Inv, EngineInv
<1>5. loaded = Nothing \/ (loaded = Received.book /\ Fits(Received.book))
  BY <1>1 DEF Loadable
<1>6. loaded \in MaybeBooks
  BY <1>3, <1>5 DEF MaybeBooks
<1>7. loaded # Nothing => loaded = [config |-> engine.config, evaluator |-> engine.evaluator]
  <2> SUFFICES ASSUME loaded # Nothing
               PROVE  loaded = [config |-> engine.config, evaluator |-> engine.evaluator]
    OBVIOUS
  <2>1. loaded \in [config : Configs, evaluator : Evaluators]
    BY <1>6 DEF MaybeBooks
  <2>2. loaded.config = engine.config /\ loaded.evaluator = engine.evaluator
    BY <1>5 DEF Fits
  <2> QED
    BY <2>1, <2>2
<1>8. /\ en \in [config : Configs, evaluator : Evaluators, book : MaybeBooks]
      /\ en.config = engine.config /\ en.evaluator = engine.evaluator /\ en.book = loaded
  BY <1>4, <1>6
<1>9. engine' = en /\ reports' = Append(reports, [book |-> en.book])
  BY <1>1, <1>8
<1> HIDE DEF en
<1>10. en.book # Nothing => en.book = [config |-> en.config, evaluator |-> en.evaluator]
  BY <1>7, <1>8
<1>11. /\ en.config = IF "OpeningBook" = "Reconfigure" THEN Received.config ELSE engine.config
       /\ en.evaluator = IF "OpeningBook" = "ReplaceEvaluator" THEN Received.evaluator
                        ELSE engine.evaluator
  BY <1>8
<1>12. UNCHANGED <<thread, running, events>>
  BY <1>2
<1>13. en \in [config : Configs, evaluator : Evaluators, book : MaybeBooks]
  BY <1>8
<1>14. Receives("OpeningBook") /\ reports' = Append(reports, [book |-> en.book])
  BY <1>2, <1>9
<1>15. engine' = en
  BY <1>9
<1> QED
  BY <1>10, <1>11, <1>12, <1>13, <1>14, <1>15, EngineKeeps

(* A thread that is gone has no settings to keep. *)
LEMMA StopsKeeps ==
  ASSUME IInv, UNCHANGED app, NEW how, how # "alive", Stops(how),
         IsLink(link'), link'.id = link.id,
         TrafficInv(link', Nothing, events), ExpectInv(app, link', Nothing, events)
  PROVE  IInv'
<1> DEFINE m == link'
<1>1. thread' = how /\ running' = Nothing /\ UNCHANGED <<engine, events, reports>>
  BY DEF Stops
<1>2. Inv(app, m, how, engine, Nothing, events, reports)
  BY DEF IInv, Inv
<1> HIDE DEF m
<1> QED
  BY <1>1, <1>2 DEF IInv, m

(* The thread ends. *)
LEMMA ShutdownKeeps ==
  ASSUME IInv, Shutdown, UNCHANGED app
  PROVE  IInv'
<1>1. Receives("Shutdown") /\ Stops("ended")
  BY DEF Shutdown
<1> QED
  BY <1>1, ReceivesIs, StopsKeeps

(* The thread dies. *)
LEMMA PanicKeeps ==
  ASSUME IInv, Panic, UNCHANGED app
  PROVE  IInv'
<1> DEFINE m == link'
<1>1. m = [link EXCEPT !.requests = <<>>] /\ Stops("panicked")
  BY DEF Panic
<1>2. IsLink(link)
  BY DEF IInv, Inv, TrafficInv
<1> HIDE DEF m
<1>3. IsLink(m) /\ m.id = link.id /\ m.current = link.current /\ m.requests = <<>>
  BY <1>1, <1>2 DEF IsLink
<1>4. TrafficInv(m, Nothing, events)
  BY <1>3 DEF IInv, Inv, TrafficInv
<1>5. ExpectInv(app, m, Nothing, events)
  BY <1>3 DEF IInv, Inv, ExpectInv, Searching
<1> QED
  BY <1>1, <1>3, <1>4, <1>5, StopsKeeps DEF m

-----------------------------------------------------------------------------
(* Joining the thread. *)
LEMMA JoinKeeps == ASSUME IInv, Join PROVE IInv'
  BY DEF Join, IInv

(* The invariant holds at first. *)
LEMMA InitIInv == ASSUME Init PROVE IInv
<1>1. /\ app.game = NewGame /\ app.human = "Black" /\ app.config = FirstConfig
      /\ app.evaluator = Pattern /\ app.book = Nothing /\ IsApp(app)
  BY DEF Init, IsApp
<1>2. /\ link = [id |-> 0, current |-> Nothing, cancelled |-> {}, requests |-> <<>>]
      /\ thread = "alive"
      /\ engine = [config |-> FirstConfig, evaluator |-> Pattern, book |-> Nothing]
      /\ running = Nothing /\ events = <<>> /\ reports = <<>>
  BY DEF Init, WorkerInit
<1>3. OnLine(NewGame, "Black")
  <2>1. IsLine(<<>>) /\ NewGame = GameAt(<<>>, 0) /\ 0 \in 0..Len(<<>>) /\ ~(0 < Len(<<>>))
    BY NewGameIs
  <2> QED
    BY <2>1 DEF OnLine
<1>4. AppInv(app)
  BY <1>1, <1>3 DEF AppInv, Stones
<1>5. TrafficInv(link, running, events)
  BY <1>2 DEF TrafficInv, IsLink
<1>6. EngineInv(engine, reports)
  BY <1>2 DEF EngineInv, MaybeBooks
<1>7. ExpectInv(app, link, running, events)
  BY <1>2 DEF ExpectInv, Searching
<1>8. SettingsInv(app, link.requests, engine)
  BY <1>1, <1>2 DEF SettingsInv
<1>9. ShownInv(app, link.requests, engine, reports)
  BY <1>1, <1>2 DEF ShownInv
<1> QED
  BY <1>4, <1>5, <1>6, <1>7, <1>8, <1>9 DEF IInv, Inv

(* A step of the worker. *)
LEMMA ThreadKeeps == ASSUME IInv, Thread PROVE IInv' /\ app' = app
<1>1. UNCHANGED app
  BY DEF Thread
<1>2. CASE Work
  BY <1>1, <1>2, SkipKeeps, BeginKeeps, InformKeeps, FinishKeeps, ReconfigureKeeps,
     ReplaceEvaluatorKeeps, OpenBookKeeps, ShutdownKeeps DEF Work
<1>3. CASE Panic
  BY <1>1, <1>3, PanicKeeps
<1> QED
  BY <1>1, <1>2, <1>3 DEF Thread

(* What a step does to the application, and that it keeps the invariant. *)
LEMMA StepIs ==
  ASSUME IInv, Next
  PROVE  /\ IInv'
         /\ \/ app' = app
            \/ /\ \E moves \in Openings \cup Records :
                    app'.game = Replay(moves) /\ IsRecord(moves)
               /\ app'.human \in Stones /\ app'.shown = Nothing
               /\ app'.config = app.config /\ app'.evaluator = app.evaluator
            \/ /\ \/ \E k \in 1..Len(app.game.history) : app'.game = UndoPlies(app.game, k)
                  \/ \E k \in 1..Len(app.game.future) : app'.game = RedoPlies(app.game, k)
               /\ app'.human = app.human /\ app'.shown = Nothing
               /\ app'.config = app.config /\ app'.evaluator = app.evaluator
            \/ /\ \E at \in Cells :
                    /\ app.game.position.side = app.human /\ Playable(app.game, at)
                    /\ app'.game = PlayMove(app.game, at)
               /\ app'.human = app.human /\ app'.shown \in {app.shown, Nothing}
               /\ app'.config = app.config /\ app'.evaluator = app.evaluator
            \/ Configured(app, app')
            \/ Shows(app, app')
            \/ /\ app'.game = app.game /\ app'.human = app.human /\ app'.shown = app.shown
               /\ app'.config = app.config /\ app'.evaluator = app.evaluator
<1>1. CASE NewGameChosen
  BY <1>1, NewGameKeeps
<1>2. CASE ImportRecord
  BY <1>2, ImportKeeps
<1>3. CASE UndoToHuman
  BY <1>3, UndoKeeps
<1>4. CASE RedoToHuman
  BY <1>4, RedoKeeps
<1>5. CASE PlayHumanMove
  BY <1>5, PlayHumanKeeps
<1>6. CASE LoadSearchProfile \/ ChangeThreads
  BY <1>6, LoadProfileKeeps, ChangeThreadsKeeps
<1>7. CASE UsePattern \/ LoadLearnedModel
  BY <1>7, UsePatternKeeps, LoadModelKeeps
<1>8. CASE ChooseBook \/ Close
  BY <1>8, ChooseBookKeeps, CloseKeeps
<1>9. CASE PollSearch \/ PollDisconnected
  BY <1>9, PollSearchKeeps, PollDisconnectedKeeps
<1>10. CASE PollBookStatus
  BY <1>10, PollBookKeeps
<1>11. CASE Join \/ Thread
  BY <1>11, JoinKeeps, ThreadKeeps DEF Join
<1> QED
  BY <1>1, <1>2, <1>3, <1>4, <1>5, <1>6, <1>7, <1>8, <1>9, <1>10, <1>11
     DEF Next, User, Frame

(* The inductive invariant holds in every reachable state. *)
THEOREM NativeInvariance == Spec => []IInv
<1>1. IInv /\ UNCHANGED vars => IInv'
  BY DEF IInv, vars
<1>2. IInv /\ [Next]_vars => IInv'
  BY <1>1, StepIs
<1>3. Init => IInv
  BY InitIInv
<1> QED
  BY <1>2, <1>3, PTL DEF Spec

(* Redo goes on to a reply of the AI that the line of play already holds:  *)
(* whenever it is the AI's turn there is nothing to redo.                  *)
THEOREM ReplyNotSearchedAgain == Spec => []ReplyIsNotSearchedAgain
<1>1. IInv => ReplyIsNotSearchedAgain
  <2> SUFFICES ASSUME IInv, AiTurn(app) PROVE ~CanRedo(app.game)
    BY DEF ReplyIsNotSearchedAgain
  <2>1. PICK line, n :
           /\ n \in 0..Len(line) /\ IsLine(line) /\ app.game = GameAt(line, n)
           /\ n < Len(line) => Stone(n + 1) = app.human
    BY LineAt DEF IInv, Inv
  <2>2. line \in Seq(Cells) /\ Len(line) \in Nat
    BY <2>1, LenProperties DEF IsLine
  <2>3. ~(n < Len(line))
    <3>1. app.game.position.side = Stone(n + 1)
      BY <2>1 DEF GameAt, PositionAt
    <3> QED
      BY <2>1, <3>1 DEF AiTurn
  <2>4. FutureAt(line, n) \in Seq(Cells) /\ Len(FutureAt(line, n)) = 0
    BY <2>1, <2>2, <2>3, HistoryIs
  <2>5. FutureAt(line, n) = <<>>
    BY <2>4
  <2> QED
    BY <2>1, <2>5 DEF CanRedo, GameAt
<1> QED
  BY <1>1, NativeInvariance, PTL

(* Once a living thread has caught up, the book shown is the one its engine *)
(* uses, and it was made for the settings in force.                        *)
THEOREM ShownBookUsed == Spec => []ShownBookIsUsed
<1>1. IInv => ShownBookIsUsed
  <2> SUFFICES ASSUME IInv, Connected, link.requests = <<>>, reports = <<>>
               PROVE  /\ app.book = engine.book
                      /\ engine.book # Nothing =>
                           engine.book = [config |-> app.config, evaluator |-> app.evaluator]
    BY DEF ShownBookIsUsed
  <2>1. SettingsInv(app, <<>>, engine) /\ ShownInv(app, <<>>, engine, <<>>)
    BY DEF IInv, Inv, Connected
  <2>2. \A kind : None(<<>>, kind)
    BY DEF None
  <2> QED
    BY <2>1, <2>2 DEF SettingsInv, ShownInv, IInv, Inv, EngineInv
<1> QED
  BY <1>1, NativeInvariance, PTL

-----------------------------------------------------------------------------
(* The promise to the user. *)

(* The rules mean the same in the promise. *)
LEMMA SameMoves ==
  ASSUME NEW g, NEW at
  PROVE  /\ Promise!Playable(g, at) = Playable(g, at)
         /\ Promise!PlayMove(g, at) = PlayMove(g, at)
         /\ Promise!NewGame = NewGame /\ Promise!Stones = Stones
<1>1. Promise!Playable(g, at) = Playable(g, at)
  BY Zenon DEF Playable, Promise!Playable, Legal, Promise!Legal, IsFull, Promise!IsFull,
     Cardinality, Promise!Cardinality
<1>2. Promise!PlayMove(g, at) = PlayMove(g, at)
  BY Zenon DEF PlayMove, Promise!PlayMove, Played, Promise!Played, MakeMove, Promise!MakeMove,
     StatusAfter, Promise!StatusAfter, IsFull, Promise!IsFull, Cardinality,
     Promise!Cardinality, Token, Promise!Token,
     HasFiveFrom, Promise!HasFiveFrom, Opponent, Promise!Opponent
<1>3. Promise!NewGame = NewGame
  BY Zenon DEF NewGame, Promise!NewGame, EmptyPosition, Promise!EmptyPosition
<1>4. Promise!Stones = Stones
  BY Zenon DEF Stones, Promise!Stones
<1> QED
  BY <1>1, <1>2, <1>3, <1>4

(* Undo, redo and the list of moves mean the same in the promise. *)
LEMMA SameSteps ==
  ASSUME NEW g, NEW n
  PROVE  /\ Promise!UndoPlies(g, n) = UndoPlies(g, n)
         /\ Promise!RedoPlies(g, n) = RedoPlies(g, n)
         /\ Promise!Moves(g) = Moves(g)
<1>1. Promise!UndoPlies(g, n) = UndoPlies(g, n)
  BY Zenon DEF UndoPlies, Promise!UndoPlies, Undo, Promise!Undo, UnmakeMove, Promise!UnmakeMove,
     Top, Promise!Top, Popped, Promise!Popped
<1>2. Promise!RedoPlies(g, n) = RedoPlies(g, n)
  BY Zenon DEF RedoPlies, Promise!RedoPlies, Redo, Promise!Redo, Played, Promise!Played,
     MakeMove, Promise!MakeMove, StatusAfter, Promise!StatusAfter, IsFull, Promise!IsFull,
     Cardinality, Promise!Cardinality,
     Token, Promise!Token, HasFiveFrom, Promise!HasFiveFrom, Opponent, Promise!Opponent,
     Top, Promise!Top, Popped, Promise!Popped
<1>3. Promise!Moves(g) = Moves(g)
  BY Zenon DEF Moves, Promise!Moves
<1> QED
  BY <1>1, <1>2, <1>3

(* Records mean the same in the promise. *)
LEMMA SameRecords ==
  ASSUME NEW moves
  PROVE  /\ Promise!Replay(moves) = Replay(moves)
         /\ Promise!IsRecord(moves) = IsRecord(moves)
<1>1. Promise!Replays(moves) = Replays(moves)
  BY Zenon DEF Replays, Promise!Replays, NewGame, Promise!NewGame, EmptyPosition,
     Promise!EmptyPosition, PlayMove, Promise!PlayMove, Played, Promise!Played,
     MakeMove, Promise!MakeMove, StatusAfter, Promise!StatusAfter, IsFull, Promise!IsFull,
     Cardinality, Promise!Cardinality,
     Token, Promise!Token, HasFiveFrom, Promise!HasFiveFrom, Opponent, Promise!Opponent
<1>2. \A g, at : Promise!Playable(g, at) = Playable(g, at)
  BY SameMoves
<1>3. Promise!Replay(moves) = Replay(moves)
  BY <1>1, Zenon DEF Replay, Promise!Replay
<1>4. Promise!IsRecord(moves) = IsRecord(moves)
  BY <1>1, <1>2 DEF IsRecord, Promise!IsRecord
<1> QED
  BY <1>3, <1>4

(* What the promise sees of the search on display. *)
ShownOf(a) ==
  IF a.shown = Nothing THEN Nothing
  ELSE [position |-> a.shown.position,
        settings |-> [config |-> a.shown.config, evaluator |-> a.shown.evaluator]]

SettingsOf(a) == [config |-> a.config, evaluator |-> a.evaluator]

(* Another game. *)
LEMMA RestartRefines ==
  ASSUME NEW moves \in Openings \cup Records, app'.game = Replay(moves), IsRecord(moves),
         app'.human \in Stones, app'.shown = Nothing,
         app'.config = app.config, app'.evaluator = app.evaluator
  PROVE  Promise!Restart
<1>1. moves \in Seq(Cells)
  BY SMT
<1>2. IsLine(moves) /\ Replay(moves) = GameAt(moves, Len(moves)) /\ Len(moves) \in Nat
  BY <1>1, RecordIs, LenProperties
<1> DEFINE g == app'.game
<1>3. Moves(g) = moves
  <2>1. Moves(g) = [i \in 1..Len(moves) |-> moves[i]]
    BY <1>1, <1>2, MovesIs
  <2> QED
    BY <1>1, <2>1, LenProperties
<1>4. Promise!Moves(g) = moves /\ Promise!IsRecord(moves) /\ g = Promise!Replay(moves)
  BY <1>3, SameSteps, SameRecords
<1> QED
  BY <1>4, SameMoves DEF Promise!Restart

(* Undo and redo. *)
LEMMA NavigateRefines ==
  ASSUME \/ \E k \in 1..Len(app.game.history) : app'.game = UndoPlies(app.game, k)
         \/ \E k \in 1..Len(app.game.future) : app'.game = RedoPlies(app.game, k),
         app'.human = app.human, app'.shown = Nothing,
         app'.config = app.config, app'.evaluator = app.evaluator
  PROVE  Promise!Navigate
<1>1. \/ \E k \in 1..Len(app.game.history) : app'.game = Promise!UndoPlies(app.game, k)
      \/ \E k \in 1..Len(app.game.future) : app'.game = Promise!RedoPlies(app.game, k)
  BY SameSteps
<1> QED
  BY <1>1 DEF Promise!Navigate

(* A move of the user. *)
LEMMA HumanPlaysRefines ==
  ASSUME NEW at \in Cells, app.game.position.side = app.human, Playable(app.game, at),
         app'.game = PlayMove(app.game, at),
         app'.human = app.human, app'.shown \in {app.shown, Nothing},
         app'.config = app.config, app'.evaluator = app.evaluator
  PROVE  Promise!HumanPlays(at)
<1>1. Promise!Playable(app.game, at) /\ app'.game = Promise!PlayMove(app.game, at)
  BY SameMoves
<1>2. ShownOf(app)' \in {ShownOf(app), Nothing}
  BY DEF ShownOf
<1> QED
  BY <1>1, <1>2 DEF Promise!HumanPlays, ShownOf

(* Other settings. *)
LEMMA ConfigureRefines ==
  ASSUME Configured(app, app')
  PROVE  Promise!Configure \/ UNCHANGED Promise!vars
<1>1. /\ app'.game = app.game /\ app'.human = app.human
      /\ app'.config \in Configs /\ app'.evaluator \in Evaluators
  BY DEF Configured
<1>2. CASE app'.shown = Nothing
  BY <1>1, <1>2 DEF Promise!Configure
<1>3. CASE /\ app'.shown = app.shown /\ app'.config = app.config
           /\ app'.evaluator = app.evaluator
  BY <1>1, <1>3 DEF Promise!vars
<1> QED
  BY <1>2, <1>3 DEF Configured

(* A result that is shown is about the position and the settings in force. *)
LEMMA ShowsRefines ==
  ASSUME IInv, Shows(app, app')
  PROVE  Promise!Think \/ \E at \in Cells : Promise!Reply(at)
<1>1. About(app) \in Subjects /\ About(app) # Nothing
  <2>1. app.game.position \in Positions
    BY GameFacts DEF IInv, Inv
  <2>2. About(app) \in Subjects
    BY <2>1 DEF About, Subjects, IInv, Inv, AppInv
  <2> QED
    BY <2>2
<1>2. /\ app'.human = app.human /\ app'.config = app.config /\ app'.evaluator = app.evaluator
      /\ app'.shown = About(app)
  BY DEF Shows
<1>3. ShownOf(app)' = [position |-> app.game.position, settings |-> SettingsOf(app)]
  BY <1>1, <1>2 DEF ShownOf, About, SettingsOf
<1>4. Promise!AiTurn
  BY DEF Shows, AiTurn, Promise!AiTurn
<1>5. CASE app'.game = app.game
  BY <1>2, <1>3, <1>4, <1>5 DEF Promise!Think, Promise!About, ShownOf, SettingsOf
<1>6. ASSUME NEW at \in Cells, Playable(app.game, at), app'.game = PlayMove(app.game, at)
      PROVE  Promise!Reply(at)
  <2>1. Promise!Playable(app.game, at) /\ app'.game = Promise!PlayMove(app.game, at)
    BY <1>6, SameMoves
  <2> QED
    BY <1>2, <1>3, <1>4, <2>1 DEF Promise!Reply, Promise!About, ShownOf, SettingsOf
<1> QED
  BY <1>5, <1>6 DEF Shows

(* The application keeps its promise: the AI answers only on its turn, for *)
(* the position on the board and with the settings in force, whatever was  *)
(* queued, running or already answered when the user changed any of them.  *)
THEOREM ImplementsPromise == Spec => ImplementsDuel
<1>1. Init => Promise!Init
  <2> SUFFICES ASSUME Init PROVE Promise!Init
    OBVIOUS
  <2>1. /\ app.game = NewGame /\ app.human = "Black" /\ app.shown = Nothing
        /\ app.config = FirstConfig /\ app.evaluator = Pattern
    BY DEF Init
  <2> QED
    BY <2>1, SameMoves DEF Promise!Init
<1>2. IInv /\ [Next]_vars => [Promise!Next]_(Promise!vars)
  <2> SUFFICES ASSUME IInv, [Next]_vars PROVE Promise!Next \/ UNCHANGED Promise!vars
    OBVIOUS
  <2>1. CASE app' = app
    BY <2>1 DEF Promise!vars
  <2>2. CASE Next
    <3>1. CASE /\ \E moves \in Openings \cup Records :
                    app'.game = Replay(moves) /\ IsRecord(moves)
               /\ app'.human \in Stones /\ app'.shown = Nothing
               /\ app'.config = app.config /\ app'.evaluator = app.evaluator
      BY <3>1, RestartRefines DEF Promise!Next
    <3>2. CASE /\ \/ \E k \in 1..Len(app.game.history) : app'.game = UndoPlies(app.game, k)
                  \/ \E k \in 1..Len(app.game.future) : app'.game = RedoPlies(app.game, k)
               /\ app'.human = app.human /\ app'.shown = Nothing
               /\ app'.config = app.config /\ app'.evaluator = app.evaluator
      BY <3>2, NavigateRefines DEF Promise!Next
    <3>3. CASE /\ \E at \in Cells :
                    /\ app.game.position.side = app.human /\ Playable(app.game, at)
                    /\ app'.game = PlayMove(app.game, at)
               /\ app'.human = app.human /\ app'.shown \in {app.shown, Nothing}
               /\ app'.config = app.config /\ app'.evaluator = app.evaluator
      BY <3>3, HumanPlaysRefines DEF Promise!Next
    <3>4. CASE Configured(app, app')
      BY <3>4, ConfigureRefines DEF Promise!Next
    <3>5. CASE Shows(app, app')
      BY <3>5, ShowsRefines DEF Promise!Next
    <3>6. CASE /\ app'.game = app.game /\ app'.human = app.human /\ app'.shown = app.shown
               /\ app'.config = app.config /\ app'.evaluator = app.evaluator
      BY <3>6 DEF Promise!vars
    <3> QED
      BY <2>1, <2>2, <3>1, <3>2, <3>3, <3>4, <3>5, <3>6, StepIs
  <2> QED
    BY <2>1, <2>2 DEF vars
<1> QED
  BY <1>1, <1>2, NativeInvariance, PTL DEF Spec, ImplementsDuel, Promise!Spec
=============================================================================
