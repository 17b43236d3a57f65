----------------------------- MODULE OpeningBook -----------------------------
(***************************************************************************)
(* The program that builds opening databases (apps/rustmoku-book): a walk  *)
(* in breadth from a record, which analyses each position in one           *)
(* orientation, publishes its entry and goes on to the moves it retains.   *)
(* A build that a limit or a crash cuts short is resumed over its file.    *)
(* A game is its record.                                                   *)
(***************************************************************************)
EXTENDS OpeningDatabase

CONSTANTS
  Names,         \* the files
  Builds,        \* what a build may be asked for: record, limits and model
  Analyse(_),    \* analyze_root: the scored moves of a position, none if no depth completes
  MaxSeen        \* the positions one build may look at

VARIABLES
  files,         \* the published databases by name, Nothing where there is none
  complete,      \* the files that a build has ended over without meeting a limit
  output, build, \* the file being built, and what is asked for; Nothing when idle
  database, queue, seen, generated,   \* what the running program keeps
  limited,       \* whether a limit has cut the build short
  game           \* the game taken from the queue, and its position

program == <<output, build, database, queue, seen, generated, limited, game>>
builder == <<files, complete, program>>

Position(record) == Replay(record).position

(* The options in the generation string; the number of positions and the   *)
(* length of the queue are not among them.                                 *)
Identity(b) ==
  [model |-> b.model, plies |-> b.plies, k |-> b.k, margin |-> b.margin, root |-> Key(Position(b.record))]

Idle == /\ output' = Nothing /\ build' = Nothing /\ database' = Nothing /\ game' = Nothing
        /\ queue' = <<>> /\ seen' = {} /\ generated' = 0 /\ limited' = FALSE

BuilderInit == /\ files = [name \in Names |-> Nothing] /\ complete = {}
        /\ output = Nothing /\ build = Nothing /\ database = Nothing /\ game = Nothing
        /\ queue = <<>> /\ seen = {} /\ generated = 0 /\ limited = FALSE

(* write_to_path: a file is replaced as a whole. *)
Write(name, db) == files' = [files EXCEPT ![name] = db]

(* build and resume; a file of another identity is not resumed. *)
Start(name, b) ==
  LET db == IF files[name] = Nothing THEN EmptyDatabase(Identity(b)) ELSE files[name]
  IN /\ build = Nothing /\ build' = b /\ output' = name
     /\ db.identity = Identity(b) /\ Readable(db) /\ database' = db
     /\ queue' = <<b.record>>
     /\ UNCHANGED <<files, complete, seen, generated, limited, game>>

(* Mutant: a game is analysed as it was reached. *)
AsReached(record) == [record |-> record, position |-> Position(record)]

(* The same game on the board as its canonical position lies. *)
Normalized(record) ==
  LET p == Position(record)
      moves == FoldLeft(LAMBDA done, at : Append(done, CanonicalMove(p, at)), <<>>, record)
  IN [record |-> moves, position |-> Position(moves)]

(* The next game, unless too many were looked at: a limit leaves the queue. *)
Take ==
  /\ queue # <<>> /\ game = Nothing
  /\ IF Cardinality(seen) >= MaxSeen THEN queue' = <<>> /\ limited' = TRUE /\ UNCHANGED game
     ELSE queue' = Tail(queue) /\ game' = Normalized(Head(queue)) /\ UNCHANGED limited
  /\ UNCHANGED <<files, complete, output, build, database, seen, generated>>

(* The moves followed: those of the best, if the second is close enough,   *)
(* and every five of either side.                                          *)
Retained(p, moves, b) ==
  LET near == Len(moves) > 1 /\ moves[1].score - moves[2].score <= b.margin
  IN {moves[i].at : i \in {j \in DOMAIN moves : j <= IF near THEN b.k ELSE 1}}
     \cup ProtectedMoves(p)

(* The children in the order of their indices, as many as the queue takes. *)
Enqueue(moves) ==
  LET children == InOrder(Retained(game.position, moves, build))
      fits == Len(queue) + Len(children) <= build.frontier
  IN /\ queue' = IF fits THEN FoldLeft(LAMBDA q, at : Append(q, Append(game.record, at)), queue, children)
                 ELSE <<>>
     /\ limited' = ~fits /\ game' = Nothing

(* A position that is decided, deep enough or known is left out; any other *)
(* is looked at once.                                                      *)
LeftOut ==
  LET p == game.position
  IN p.winner # Nothing \/ IsFull(p) \/ Len(game.record) - Len(build.record) >= build.plies \/ Key(p) \in seen

LeaveOut ==
  /\ game # Nothing /\ LeftOut /\ game' = Nothing
  /\ UNCHANGED <<files, complete, output, build, database, queue, seen, generated, limited>>

Sees == seen' = seen \cup {Key(game.position)} /\ UNCHANGED <<complete, output, build>>
Looks(known) == game # Nothing /\ ~LeftOut /\ known = (Key(game.position) \in DOMAIN database.entries)

(* Mutant: what is known is not followed. *)
FollowNot ==
  /\ Looks(TRUE) /\ Sees
  /\ game' = Nothing /\ UNCHANGED <<files, database, queue, generated, limited>>

Follow ==
  /\ Looks(TRUE) /\ Sees
  /\ Enqueue(Query(database, game.position, Identity(build)))
  /\ UNCHANGED <<files, database, generated>>

Exhaust ==
  /\ Looks(FALSE) /\ Sees /\ generated >= build.positions
  /\ queue' = <<>> /\ limited' = TRUE /\ game' = Nothing
  /\ UNCHANGED <<files, database, generated>>

(* No depth was completed. *)
GiveUp ==
  /\ Looks(FALSE) /\ Sees /\ generated < build.positions /\ Analyse(game.position) = {}
  /\ game' = Nothing
  /\ UNCHANGED <<files, database, queue, generated, limited>>

(* An entry that is refused ends the program, its file as it was. *)
Publish ==
  /\ Looks(FALSE) /\ generated < build.positions /\ Analyse(game.position) # {}
  /\ \E new \in {Insert(database, game.position, Analyse(game.position))} :
       IF new = Error THEN Idle /\ UNCHANGED <<files, complete>>
       ELSE /\ Sees /\ database' = new /\ generated' = generated + 1
            /\ Write(output, new)
            /\ Enqueue(Query(new, game.position, Identity(build)))

EndBuild ==
  /\ build # Nothing /\ queue = <<>> /\ game = Nothing
  /\ Write(output, database)
  /\ complete' = IF limited THEN complete ELSE complete \cup {output}
  /\ Idle

(* The file stays as it was last written. *)
Crash == build # Nothing /\ Idle /\ UNCHANGED <<files, complete>>

(* merge: left and right, into one of them. *)
MergeFiles(left, right) ==
  /\ build = Nothing /\ left # right /\ files[left] # Nothing /\ files[right] # Nothing
  /\ \E merged \in {Merge(files[left], files[right])} :
       merged # Error /\ Write(left, merged)
  /\ complete' = IF right \in complete THEN complete \cup {left} ELSE complete
  /\ UNCHANGED program

BuilderNext ==
  \/ \E name \in Names, b \in Builds : Start(name, b)
  \/ Take \/ LeaveOut \/ Follow \/ Exhaust \/ GiveUp \/ Publish \/ EndBuild \/ Crash
  \/ \E left, right \in Names : MergeFiles(left, right)

-----------------------------------------------------------------------------
(* A canonical position as a board, and the entry its analysis gives it.   *)
BoardOfKey(key) ==
  [cells |-> key.cells, side |-> key.side, count |-> Cardinality(StonesOf(key)),
   last |-> Nothing, winner |-> Nothing]
EntryOf(key) == Insert(EmptyDatabase(Nothing), BoardOfKey(key), Analyse(BoardOfKey(key))).entries[key]

(* What a build goes on to from an entry, its terminal positions left out. *)
Follows(db, key) ==
  LET p == BoardOfKey(key)
      children == {MakeMove(p, c) : c \in Retained(p, Query(db, p, db.identity), db.identity)}
  IN {q \in children : q.winner = Nothing /\ ~IsFull(q)}

(* However builds of one identity are cut short, resumed from records in   *)
(* other orientations and merged, each entry is the one an analysis of its *)
(* canonical position gives, so that no two ever conflict; a file that a   *)
(* build has ended over without meeting a limit has an entry for every     *)
(* position its own entries lead to; and each entry is the start of a game. *)
BuildsAgree ==
  \A name \in {n \in Names : files[n] # Nothing} :
    LET db == files[name]
        known == DOMAIN db.entries
        Depth(key) == Cardinality(StonesOf(key)) - Cardinality(StonesOf(db.identity.root))
        followed == {key \in known : Depth(key) + 1 < db.identity.plies}
    IN /\ \A key \in known : db.entries[key] = EntryOf(key)
       /\ \A key \in StartKeys(db, 0, Cardinality(Cells)) : ReplayStart(key) # Error
       /\ name \in complete =>
            \A q \in {BoardOfKey(db.identity.root)} \cup UNION {Follows(db, key) : key \in followed} :
              Key(q) \in known \/ Analyse(BoardOfKey(Key(q))) = {}
=============================================================================
