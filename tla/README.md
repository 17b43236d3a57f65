# Verification of RustMoku

TLA+ specifications of RustMoku, the Gomoku engine and applications of this
repository, with TLC configurations that check them on small instances and
TLAPS proofs about them. Paths below are relative to the repository root;
`engine/` abbreviates `src/crates/rustmoku-engine/src/`, `core/`
`src/crates/rustmoku-core/src/`, `native/` `src/apps/rustmoku-native/src/`.

Every definition that models code names its lines in `PROJECT.json` (`map`);
`hazards` there lists what is hard to test in this code and which property
looks after it.

## 1. The system

RustMoku is a Rust workspace (a core crate with the rules, an engine crate, a
SIMD helper, five applications) and two Python packages (`offline/`, a
disk-backed proof search over a native helper process, and `training/`). The
program is mostly sequential; what is concurrent or long-lived is concentrated
in a few places. Around them stand the searches, whose recursions and caches
decide what may be called proven.

| Part | State | Operations | Interacts with | What is hard |
|---|---|---|---|---|
| **Position** `core/position.rs` | cells, side, count, last move, winner, analysis depth | `make_move`, `unmake_move`, analysis turns | everything | incremental facts that only LIFO tokens restore |
| **Game** `core/game.rs`, `record.rs`, `openings.rs` | position, cached status, history with tokens, future | `play_move`, `undo(_plies)`, `redo(_plies)`, `from_record` | native app, arena, data tool | `redo` unwraps legality of a stored future |
| **Search lifecycle** `engine/search_control.rs`, `search.rs` | admission counter, state byte (stop code + TEAM_DONE), token, clock; per worker its budget | `charge`, `poll`, `note_stop`, `mark_team_done`, join, report | shared by principal and Lazy-SMP helpers | weak-memory races between stop, completion and admission |
| **Transposition table** `engine/transposition_table.rs` | buckets of two-word slots, a version per bucket, a replacement counter | `probe`, `store_with_outcome`, `statistics`, `clear` | every search thread | lock-free readers, torn entries, replacement policy |
| **Search** `engine/search/*.rs` | board/search state, heuristics, PV, last completed snapshot | root pipeline, negamax, aspiration, qsearch, ProbCut, interior proof | TT, proof caches, evaluators | which results are exact enough to cache |
| **Board/search state** `engine/board_state.rs`, `search_state.rs` | position, Zobrist key, candidate frontier, patterns, accumulators | make/unmake, analysis turn | search, oracles | several sidecars undone separately |
| **Tactical oracles** `engine/vcf.rs`, `vct/`, `proof_table.rs` | budgets, proof caches tagged with a generation | prove, probe, store | root, interior proof, offline solver | a failure under a budget is not a refutation |
| **Offline solver** `engine/offline.rs` | PN tree, exact map, checkpoint | `solve`, `save/load_checkpoint`, `export_book` | oracles, proof book, solver app | resume, caches by canonical position, consistent export |
| **Proof book** `engine/proof_book.rs` | entries by canonical key | export, parse, verify, query | root search, solver app, native app | nothing untrusted may be believed |
| **Opening database** `engine/opening_database.rs`, `src/apps/rustmoku-book/` | scored moves by canonical key, identity; a file | build, resume, merge, query | root search, native app | one orientation, whatever cut a build short |
| **Native worker** `native/worker.rs` | engine, command/event/report channels, request id, token | start, invalidate, reconfigure, replace evaluator, book, shutdown | native app | stale events, cancellation at any point, teardown |
| **Native app** `native/main.rs` | game, user's colour, timings, settings, shown result, turn timer | new game, import, undo, redo, play, load profile/model/book, polls | worker | every handler must leave AI turn, timer and search consistent |
| **Arena** `src/apps/rustmoku-arena/` | match, clocks, external process with two pipe threads | start, send, reply, choose, drop | external engines | pipes, timeouts, teardown |
| **Disk solver and shards** `src/offline/*.py` | SQLite nodes, edges, dirty marks, certificates; JSON artifacts | expand, propagate, solve, verify, export; frontier, solve-batch, merge | native facts helper | crash between transactions, merging shards |
| **Evaluators, ordering, SIMD, training, data tool** | tables, weights, files | numeric kernels, batch I/O | | numeric; bit-exact tests exist |

What makes each correct, in one line: the *lifecycle* takes one decision about
why a search ended and reports it once everybody has left; the *table* behaves
like one whose stores and probes are atomic; a *game* is a cursor on a lawful
line of play; the *native app* lets the AI answer only on its turn, for the
position on the board and the settings in force, and never leaves it to move
with nobody thinking; the *offline solver* calls a position proven only if it
is, also after resume; so does the *disk solver*, whatever dies between two
transactions and whatever is merged; the *search* caches only true bounds and
announces only forced mates; the *root pipeline* calls a move proven only if it
is; the *arena* never takes a late answer for a timely one and always tears a
player down.

## 2. Modules

| Module | Role | Models |
|---|---|---|
| `TeamLifecycle` | abstract | what one search promises about its end |
| `SearchControl` | detailed | `engine/search_control.rs`, the team part of `search.rs` |
| `SearchControlProofs` | proofs | about `SearchControl` |
| `TtBucket` | pure | replacement policy of one bucket, as a value |
| `AtomicBucket` | abstract | a bucket with atomic stores and snapshots |
| `TtSeqlock`, `MCTtSeqlock` | detailed | the version protocol of one bucket on release/acquire memory |
| `TtSeqlockProofs` | proofs | about the two |
| `Gomoku` | pure | `Position` and `Game` as values |
| `Timeline` | abstract | a line of play and a cursor on it |
| `GameTimeline`, `MCGameTimeline` | detailed | `Game` under any sequence of its operations |
| `GomokuProofs`, `GameTimelineProofs` | proofs | lemmas about `Gomoku` and sums; about `GameTimeline` and `BoardState` |
| `LinePattern` | pure | `line_classifier.rs`, `pattern.rs`, `line_geometry.rs` |
| `BoardState` | component | `board_state.rs`, `search_state.rs` and the sidecars they carry; searches on a game |
| `SearchWorker` | component | handle, channels and thread of `native/worker.rs` |
| `Duel` | abstract | what the native application promises its user |
| `NativeApp`, `MCNativeApp` | composition | `native/main.rs` over `SearchWorker` and `Gomoku` |
| `NativeAppProofs` | proofs | about `NativeApp` |
| `CanonicalPosition` | pure | `core/symmetry.rs` and the facts every proof search asks first |
| `OfflineSolver`, `MCOfflineSolver` | component | the proof-number solver of `engine/offline.rs` |
| `OfflineOutcomes` | pure | the game itself worked out, as the solver's reference |
| `OfflineSolverProofs` | proofs | about `OfflineSolver` |
| `BookVerifier` | pure | parsing and verification of `engine/proof_book.rs` |
| `ProofBook`, `MCProofBook` | composition | export of a proven root and its verification |
| `DiskSolver`, `MCDiskSolver` | component | `src/offline/*.py` over the native facts |
| `Board` | instance | squares with three in a row, and the tactics played on them |
| `TimeManager` | component | `src/apps/time_manager.rs` |
| `ArenaMatch` | component | `play_game` and `ExternalPlayer` of `src/apps/rustmoku-arena/` |
| `ArenaMatchProofs` | proofs | about `ArenaMatch` and `TimeManager` |
| `GameTree` | reference | small games, their minimax values, scores as the table keeps them |
| `AlphaBeta`, `MCAlphaBeta` | component | `engine/search.rs`, `engine/search/*.rs` |
| `AlphaBetaProofs` | proofs | about `AlphaBeta` and `GameTree` |
| `Threats` | pure | `tactical.rs`, `threat.rs` |
| `ThreatProof` | component | `vcf.rs`, `vct/`, `proof_table.rs` |
| `OpeningDatabase` | pure | `opening_database.rs` |
| `OpeningBook` | component | the builder of `src/apps/rustmoku-book/` |
| `RootSearch` | component | `search_with_budget` and `interior_proof.rs` |
| `BookedSearch`, `MCRootSearch` | composition | the builder, then searches that ask its file |

### SearchControl

One action per atomic access. The state byte is its modification order
(`states`): a load returns any element not older than the loader's `view`, a
compare-and-exchange reads the last one; the admission counter only grows, so
a Relaxed load by `w` is any value between `seen[w]` and the present one; the
token is Relaxed, so a load may still miss it. Spawn and join carry views over,
as the scope does. `pc` follows `poll` (state word, token, clock, in this
order), `charge` (a poll every `PollStride` visits, then admission), the depth
loop, and the principal's teardown (`mark_team_done`, join, `admitted_nodes`,
`termination`). A tree search is any non-empty sequence of charges, with inner
polls for the principal's interior proof. `tickets` is a history variable: who
won which admission. `TeamLifecycle` sees `outcome` as the loops, `reported`,
and as `decision` the stop in the newest word, or completion once the word is
marked done (or, for a search without helpers, once the principal's loop is
over).

### TtSeqlock

The memory is a modification order per location with messages that carry the
writer's view (release) which an acquire load merges; a relaxed access would
not, and the mutants that make it so are killed. `snapshot_bucket`,
`claim_bucket`, `load_slot`, `write_slot`, the publication, the counter and
`clear` are followed load by load and store by store; `TtBucket!Decision` is
what `store_with_outcome` does with the slots it read. A key word of 0 in an
unwritten slot is also a legal key, as in the code. `epochs` is a history
variable: the contents published so far. `AtomicBucket` sees the epochs, and
what each thread knows of them is half its view of the version word.

### Gomoku, GameTimeline, BoardState

Cells and winning lines are constants: the code's 225 cells and its lines of
five become a small board with shorter lines, nothing in `Position` or `Game`
depending on the geometry otherwise. `Token`/`UnmakeMove` are `MoveUndo` and
`unmake_move`; `Played` is `play_move_internal`; `UndoPlies` and `RedoPlies`
iterate the single steps, as the code does. `Timeline` computes board and
result from the moves before the cursor, by a scan of every line, where the
code scans around the last move only and caches the status.

`BoardState` is the board of a search: position, key, frontier, line patterns
and accumulators, each updated move by move and taken back with its own token.
`SidecarsMatch` compares every one of them with what the position gives from
scratch. A Zobrist key is a set under symmetric difference, so collisions are
left out; the weights of a pattern are any numbers. `SearchSpec` is the game with
searches: `Search` copies the position of one of the games of `Asked`, `Walk`
makes, passes and takes back, at most `MaxWalk` deep, `Return` drops the copy.

### SearchWorker, NativeApp

`link` is the handle (`request_id`, the token of the search expected, the
tokens cancelled, the queue of commands); `thread`, `engine`, `running` belong
to the thread; `events` and `reports` are the two channels back. Each handler of
`RustMokuApp` is one action, with all it calls: state-to-state operators
(`Invalidated`, `Started`, `PlayAiIfNeeded`, `Resume`, ...) are composed in
the order of the calls. Between two handlers the thread may receive, begin, report,
finish, or panic. `PollSearch` takes one event; the code drains the channel in
one go, so the model has more interleavings, not fewer. Wall-clock times are
modelled by the move they belong to. Files that cannot be read only change a
message and are left out; a book that cannot be opened or does not fit the
engine is one outcome of `OpenBook`. `Duel` is the user's view: game, colour,
settings in force, and what the displayed result is about.

### OfflineSolver, ProofBook, BookVerifier

`nodes` is the vector of the code (a node's children are the nodes that name it
as parent, in order), `exact` the table of first results by canonical position.
`solve_controlled` is cut where a limit may be noticed: `Select`, the steps of
`expand_selected` (`Adopt`, `Immediate`, `Tactical`, `StartWidening`, one
`AddChild` per move of a batch, `EndWidening`), `Propagate` per node of the
path. `Interrupt` stands for work, time and cancellation, each of which stays
reached until the call returns; the resident limit is computed. `Written` is
what a checkpoint keeps of a tree, `Loaded` what the load rebuilds of it after
all its checks; `Resume` does one after the other. VCF and VCT are one oracle,
the operator `Tactic`: the winning first moves an attempt may find. The threat profiles in
the move order are reduced to "a five is due here, for me or for you".
`ProofBook` adds no state: `Entries` and `Conflicting` are what `export_node`
collects from the tree. `BookVerifier` takes a book through its file and walks
it with the verifier's memo, in the order in which it visits replies; a
tactical leaf is proved once more, by a solver that knows nothing yet. The canonical image and the
symmetry that leads to it are a fixed choice among the images, where the code
takes the smallest key.

### DiskSolver

A database is a record of its rows; a transaction is worked on in `open` and
committed whole, and a program may die before and after each. Database 0 is
the coordinator's, the others belong to frontier jobs, which a manifest hands
out and whose artifacts are merged back. Programs on different databases share
nothing, so one runs at a time. The native helper is `CanonicalPosition`'s
facts and `Tactic`.

### ArenaMatch, TimeManager

`ExternalPlayer` is two queues and two threads: the channel to the writer, the
pipe to the program, the pipe back, the channel of lines, all bounded. The
program may chat, answer (each request at most once), answer badly, or exit at any
point. Killing it closes the pipes. The game is a number of plies any of which may
end it. `TimeManager` works in natural numbers with the code's divisions; the
cost of an iteration is any number, its score drop one of `Fractions`.

### AlphaBeta

A worker's stack of frames is the recursion of `negamax` and `qsearch_inner`;
its fields are the locals of one call. Table, aspiration, principal variation search, quiescence,
shortcuts, extensions, analysis and teacher domains, helpers, stops and a
replaced evaluator are in it; two searches of one engine follow each other over one
table. Abstracted: what a tier of the move order is made of (`tier` is data of the
game; within a tier the order is any), which Fours extend a line (all), the margins of
the selective shortcuts (zero, and each is taken or not when its guard holds),
the probe of threes in quiescence and singular extensions (left out). A stop
may come at any visit, a probe may miss when the table is `lossy`.

The references of `GameTree` have no windows, no table and no order. `QuietValues`
is what quiescence looks for, `Worth` what a position may be worth at a nominal depth: the
minimax value, or, where threats extend a line, the interval between the values
that favour one side and the other. The key of an entry does not say whether its line
has spent its extension (`threat_extension` allows one), so an entry may
rest on another whose line extends again: an interval with one extension per line is
too narrow for what the table holds, and the model has them without limit.

`MatesAreForced` is about settings that look at every move. Late moves, policy
and futility (`Blind`) leave moves out unseen, and a fail-soft score may then
show a mate against a side that had other moves: the code marks such a score as
no evidence and stores nothing, but publishes it. No comment of the code says
otherwise.

### Threats, ThreatProof, RootSearch

Moves, cells and lines are those of a 5×5 board on which three in a row wins,
so "four" reads "two that threaten". The searches thread a solver record
through their recursion: table, visits left, budget. One bucket stands for all
keys that collide. `RootSearch` follows `search_with_budget` from one stage to
the next, each behind the poll it has, and the interior proof at nodes given by
the request. The ordinary search in it returns any move of the best tactical
class (`AlphaBeta` is about its values). Stops are charges refused at the
visits a request names.

### OpeningDatabase, OpeningBook, BookedSearch

A database is its identity and a function from canonical keys to moves. The
builder is the walk of `main`: queue, seen positions, limits, one write per
entry; a crash leaves the last file written. `Analyse` is any function of the
oriented position (`analyze_root` keeps no table between calls); depth, work,
domain and win statistics are left out.

## 3. Runs

| Run | Instance | States | Shows |
|---|---|---|---|
| `control_pair` | principal and one helper, cap 3, clock, 2 depths, stride 2 | 68,692 | admission exact, work accounted; implements `TeamLifecycle` |
| `control_endless` | helper, no cap, one depth, unbounded iterations | 6,204 | team end and interruption are noticed by workers that never finish by themselves |
| `tt_shared` | 2 threads, 2 slots, 3 keys, 2 depths, 3 generations, versions up to 5 | 57,038 | one writer, knowledge kept, evictions reasonable; implements `AtomicBucket`; operations end |
| `game` | two crossing rows of three, records legal and illegal, searches asked about some positions | 5,101 | redo legal, sidecars exact and unwound; implements `Timeline` |
| `native` | row of 3 cells, two in a row win, 2 configurations, 2 evaluators, a book, an opening, an import, snapshots | 209,811 | no reply searched twice, books shown are used; implements `Duel`; the AI replies, closing ends |
| `offline` | 3×3, three roots, both attackers, two calls, with and without forks | 96,415 | outcomes true, checkpoints load, strategies verify, calls return |
| `disk` | 3×3, five searches, one job | 21,586 | working outcomes true, commits consistent, witnesses accepted, jobs merge, published strategies verify |
| `arena` | clocks of 2 with increment 1, 4 plies, queues of 1, 2 lines, 2 chats | 360,361 | matches return, answers match their turn, failures deserved, reserve kept |
| `search` | 74 games of up to 22 positions under fifteen settings | 228,930 | the table is true, completed results exact, mates forced, searches end |
| `root` | 5×5, three in a row: 35 requests and five builds over two files | 7,436 | proofs forced, answers the shortest, facts first, opening files agree |
| `offline_export` | 4×4, one root, no tactic | | violated: finding 1 |
| `disk_merge` | 3×3, one root | | violated: finding 2 |

Bounds, and why they are enough:

- *Team*: the races are between the principal and a helper, over one word and
  one counter; a cap of 3 with stride 2 makes both workers poll in mid-search
  and compete for the last admission; the proofs cover every team and cap.
- *TtSeqlock*: `VersionMax = 5` lets two publications happen and the third claim be
  refused as exhausted, so a reader can be overtaken twice (its two attempts)
  and the exhaustion guard bites. The version word wraps (`Following`); without
  the guard a third publication brings back the version a reader began with, and the
  mutant of `ImplementsAtomicBucket` shows the reader deceived; two slots and three keys give a hit and
  evictions; `Generations = 3` wraps. The proofs cover every size.
- *Games*: five cells on two lines allow wins, overlapping lines, full boards
  and every undo/redo split. `MaxWalk` bounds the depth of a search on it.
- *NativeApp*: `MaxRequestId = 5` bounds the ids the user's actions consume;
  one search, its cancellation, its replacement and a late event need three.
  The bound stops the user only. The proofs have no bound.
- *OfflineSolver*: 3×3 with three in a row has wins, refutations, draws,
  transpositions and positions that only a symmetry makes equal; the three roots
  (two to five stones) are the ones whose trees use every kind of evidence.
  `WidenBatch = 4` is the code's; `ResidentLimit = 44` lets the small
  trees finish and stops the large ones in the middle of a batch; two calls let a
  tree be left at every point, saved, loaded and taken up again. The finding about
  export needs a root with two independent occurrences of a position, which 4×4 has
  after one stone.
- *DiskSolver*: the five searches use immediate and tactical leaves, both
  attackers and a ply limit that cuts a proof; one job lets a row reach the
  coordinator by its own work and by a merge. Jobs that contradict each other are
  not met.
- *ArenaMatch*: every queue of one slot can be full, chat can overrun the lines
  and a deadline falls before, with and after an answer.
- *AlphaBeta*: layers of three positions transpose; seeds and settings were
  taken so that each shortcut, bound and re-search is met, internal reductions also
  in the scout windows next to a mate, and so that evidence claimed for a reduced node, a
  selective cutoff, razoring or a reduced move would be found false. All positions of a layer
  have the same side to move, as in the game.
- *RootSearch*: the requests are positions with attacks of few and many
  answers, terminal ones, limits that run out and stops before, amid and after
  a search; `MaxEntries = 4` and `MaxSeen = 6` are reached by the builds.

`CHECK_DEADLOCK FALSE` appears where the system stops by design: a user may
stop acting (`native`), a caller stops after `MaxSolves` calls (`offline`), a
job, match or search is over (`disk`, `arena`, `search`, `root`). `control_*`
has an explicit stuttering step for a search that has returned.

### Findings

1. **A proven root may have no book** (`offline_export`, `engine/offline.rs:819`).
   `adopt_cached_exact` refuses a result recorded by a later node, so an unresolved
   node older than the recorded source is solved a
   second time, may prove another move, and the export reports "conflicting
   canonical strategies". The solver application then leaves neither a book nor a
   checkpoint. The comment on `adopt_cached_exact` says the recheck avoids that
   second tree.
2. **A merged proof may have no acceptable witness** (`disk_merge`,
   `src/offline/shards.py:103`). A merge keeps the coordinator's first moves for a
   position it already has, and takes the job's leaf evidence, made for the moves
   the job met it by; the verification repeats the leaf on the coordinator's moves and
   may find another line. The documentation promises that a merged witness is
   freshly replayed.

### Fairness

- `SearchControl`: every thread runs (weak fairness); a store becomes visible
  in finite time to a load repeated for ever, and `compare_exchange_weak` does
  not fail spuriously for ever (strong fairness of `SeesStop`, `PollCancelled`,
  `AdmitWon`, `MarkTeamDone`). Nothing is assumed about iterations ending, the
  clock or the caller.
- `TtSeqlock`: a thread inside an operation keeps running. No fairness is assumed of the
  outcome of the weak compare-and-exchange: an operation gives up by itself.
- `NativeApp`: the worker's thread runs and a search ends (by its limits or
  its token, which is what the lifecycle runs show); the interface polls while
  a turn is timed, because that is when it asks for a repaint
  (`native/main.rs:1069-1072`); joining is not abandoned. Nothing is assumed of
  the user.
- `OfflineSolver`: a solve call that was made keeps running. This is weak
  fairness of `Step`, which is enabled exactly while a call is under way;
  `Fairness` says so without ENABLED, which TLC would have to evaluate on
  every tree. No limit is assumed to be reached.
- `ArenaMatch`: the three threads run and time goes by. Nothing is assumed of
  the program.
- `AlphaBeta`: every worker runs, and a search whose workers are done is
  closed. No engine has to search again. `DiskSolver`, `RootSearch` and
  `BookedSearch` state safety only.

## 4. Proofs

Eight modules hold proofs, each for every value of its constants. Assumptions
are those the modules state (`ControlAssumption`, `BucketAssumption`,
`BoardAssumption`, `NothingAssumption`, ...); TLC evaluates them in the runs. The inductive
invariants of `TtSeqlock`, `NativeApp`, `ArenaMatch` and `AlphaBeta` were checked by TLC on the
instances above before they were proved.

| Property | Run | Theorem |
|---|---|---|
| `ExactAdmission`, `AdmittedMatchesWork` | `control_pair` | `AdmissionIsExact`, `WorkIsAccounted` |
| `ImplementsLifecycle` | `control_pair` | `Implementation` |
| `WriterIsAlone`, `KnowledgeIsKept`, `EvictionIsReasonable` | `tt_shared` | `WriterAlone`, `KnowledgeKept`, `EvictionReasonable` |
| `ImplementsAtomicBucket` | `tt_shared` | `Implements` |
| `RedoStaysLegal` | `game` | `RedoLegal` |
| `SidecarsStayExact` | `game` | `SidecarsExact`, under `IntegerWeights` |
| `SearchUnwinds` | `game` | `SearchRestores`, under `IntegerWeights` |
| `ImplementsTimeline` | `game` | `ImplementsAbstract` |
| `ReplyIsNotSearchedAgain`, `ShownBookIsUsed` | `native` | `ReplyNotSearchedAgain`, `ShownBookUsed` |
| `ImplementsDuel` | `native` | `ImplementsPromise` |
| `CheckpointLoads` | `offline` | `CheckpointsLoad` |
| `OutcomesAreTrue` | `offline` | `OutcomesTrue`, under `TacticsSound` |
| `EvidenceIsTrue` | `search` | `EvidenceTrue` |
| `MatesAreForced` | `search` | `MatesForced` |
| `AnswersTheTurn`, `FailuresAreDeserved`, `ReserveIsKept` | `arena` | `AnswersMatch`, `FailuresDeserved`, `ReserveKept` |

### SearchControlProofs

Type correctness (`TypeCorrect`), exact admission, that the final Relaxed load
sees all the work, that reasons are genuine, interruptions reported and reports
final, that the first decision stays (`FirstDecisionStays`, an action
property), and the refinement. `IInv` adds to them: every recorded stop is also
the stop of the newest word (`StopStays`); `TEAM_DONE` is in the word only when
the principal is past its loop, and is in it when the principal joins
(`DoneInv`); a worker that was unwound leaves a word behind that says why, and
the principal's is a public reason because it leaves before the bit is set
(`CauseInv`); some worker has seen the newest word and the newest counter
(`SeenInv`, `ViewInv`), which is what makes the join bring the principal up to
date (`EndInv`); what a worker is about to note already has its cause
(`ReasonInv`). Each part has a lemma with one step per action; frame lemmas
collect the actions that cannot disturb it.

### TtSeqlockProofs

One store writes one slot: the key's own, else a vacant one, else the one of
least quality, which exists because qualities are integers over a finite range of
slots. From this follow `StoreKeepsBucket`, `StoreKeepsKnowledge` and
`StoreLosesTheCheapest`, about values.

The seqlock's invariant explains why words stored one by one between a claim
and a publication are read as one content. The version word counts, and never to its
wrap (`FollowingIs`: a claim is only made below it), so its odd messages are the
epochs; `End(h, e, l)` is how much of word `l` epoch `e` stands on
(`EpochInv`). Whoever has seen a publication has seen all the epoch stands
on (`ClosedInv`: the Release publication and Acquire loads); what was written after
an epoch carries the view of the claim that ended it (`OrderInv`: claim first,
Release words); nobody writes between a publication and the next claim
(`FreshInv`). A reader that met a newer word has therefore seen a newer
version, and its second load of the version cannot confirm (`ReaderInv`); a
writer's claim is a read-modify-write of the newest version, so it is alone and
decides on the newest epoch (`WriterInv`). In the refinement a confirmed load
is the abstract probe and a publication the abstract store; the counter
afterwards, failed claims and unconfirmed loads are stutters or the abstract failure.

### GomokuProofs, GameTimelineProofs

`GameAt(line, n)` says without recursion what a game is once the first `n` moves of
`line` are played. Each operation of `Game` moves the cursor or cuts and extends
the line; the recursive functions of the model (undoing and redoing several
plies, replaying a record) are followed along the line by the least number they
could fail at. `WinsIs` is the point of the code's shortcut: since nobody had
five before a move, looking around that move finds what a scan of the whole board
finds. `GameIsALine`, `RedoLegal` and `ImplementsAbstract` follow.

The rest is about the board of a search. `BoardAt(p, n)` is the board whose
sidecars are computed from the position `p` afresh, after `n` turns. `MadeIs` and
`PassedIs` say that a move or a turn takes such a board to the one of the next
position, and that the token kept takes it back. For the tables this needs
that a cell changes exactly the windows `Influences` names (`LinesMove`), that a
window written again files its centre under its new classes while a covered cell is filed
nowhere (`Filed`, `RefileIs`), and, since the code updates window by window, that the
fold over the windows ends at the scan (`FoldAgrees`, `UpdateLinesIs`). For the
evaluators it needs that a sum changes by what its changed terms change by
(`SumMoves`), for the windows around one cell, for all of them, and for the cells
a nonlinear evaluator values again. `WinsHere` ties the class "winning move" to five
in a row on the board, by `WindowsAssumption`: the rows through a cell are the rows of its
windows, which is what `line_cells` computes.

That every board is exact is not inductive, for taking back reads the token,
not the position. `SearchInv` therefore has the trail of boards from the root of
the search to where it stands (`Trailed`): all are exact, and each token leads
from one to the one before. `SidecarsExact` reads off the last board,
`SearchRestores` follows the trail down, any number of moves and turns (`MaxWalk`
is any number). The one hypothesis beside the constants' assumptions is
`IntegerWeights`: weights and activations are integers, as in the code, for any tables
of them; machine widths are left out.

### NativeAppProofs

The invariant speaks of everything on its way between the threads:
`TrafficInv` (no id is later than the handle's), `ExpectInv` (what bears the
expected id, queued, running or answered, is about the game on the board and
the settings in force), `SettingsInv` (once the pending commands are taken, the engine has the
application's settings), `EngineInv` and `ShownInv` (a book fits the settings
it was loaded under, and the last report tells of the one in use), and `OnLine` (what can be
redone next is a move of the user). A handler is followed as a value through
each call it makes (`Good`), and `StepIs` sums a step up. The refinement maps
the handlers to the user's view, each to `Restart`, `Navigate`, `HumanPlays`,
`Configure`, `Think` or `Reply`, and every step of the thread to a stutter.
`NothingAssumption` says that the model value for "none" is no subject of a search.

### ArenaMatchProofs

A request and its answer are counted wherever they may be: seven places, at most one
in all (`Total`), none between two turns, and it bears the number of the
turn (`LinesOf`). So nothing late can answer for a later turn, however much
the program chats. `DeathInv` traces every error the threads see to the program's death.
`CompletedIs` and `BudgetIs` follow the time manager by its arithmetic.

### OfflineSolverProofs

A saved tree passes the load because of `SolverInv`. `Shaped` says that the
vector is a tree of the game: parents come first, a node's children are the first
`next` moves of its position's order, each once (which needs that `Ordered` lists
the empty cells, `OrderedIs`). `Judged` ties a node's evidence to its outcome: an
adopted result points backward to a decided node with the same key. `Counted` says
that a node's numbers are those its children give; while a solve call runs it may
fail only on the path from the selected node to the root (`OnPath`), and all nodes of that
path but the first are undecided, so no other node depends on what is not yet
counted. `Above` is that path as the least set closed under parents; `Propagate`
takes one node off it (`PathShortens`), and computing a node again changes
nothing (`CountedOnce`). The sums over children and the positions of a loaded
file are recursive functions; they are followed by the least set, or the least
node, at which two of them could differ (`SummingAgrees`, `LoadedIs`). Selection
is a walk down the tree whose end is found by the same kind of argument
(`MostProvingIs`).

`VerdictsAreTrue` compares verdicts with the game itself. `ForcedBy(stone)` is the
least set of boards that holds whatever is won in it: by five stones, by one move
of the stone, or by every reply. A result is reused by its canonical key, so the
set is shown to be the same under symmetries (`KeyForced`), which needs of them that
they are a group and map lines to lines. A refutation of a node to move, or a
proof against it, needs every reply: once as many children are there as the
position has empty cells, no cell is left out (`AllTried`). Fives now, and two
fives next, are true by `FiveNow` and `TwoFivesNext`. The one hypothesis is
`TacticsSound`, that a move a VCF or VCT attempt finds does force a win; the run
`offline` has tactics that do. `ForcedWins` of `OfflineOutcomes` works the whole game out,
from the full boards down, so that TLC can compare; `WorkedOut` says that it finds the
least set, and `OutcomesTrue` that every decided node has its outcome. `Resume` takes part
in the invariant: a loaded tree is the saved one, its table is rebuilt.

### AlphaBetaProofs

`EvidenceTrue`: whatever the workers interleave, prune, reduce, extend or leave
unfinished, an entry of the table bounds what its position is worth at its
depth. It holds for every game that `IsGame` allows (every move fills a cell, mates need
cells, evaluations are no mates), every depth, aspiration window, set of helpers and
choice of shortcuts; the competitive table, which cuts by deeper entries, is
outside the property itself.

First the references. They are computed in rounds, and since every move fills a
cell they settle: after as many rounds as cells a position's value is what its moves'
values make it (`RoundsSettle`, `QuietSettles`, `WorthSettles`). A mate in a value fits into
the empty cells (`Worthy`, `WorthWorthy`); hence `score_to_tt` and
`score_from_tt` keep scores in order, and negating the value of a child commutes with the
ply (`ToTtOrder`, `FromChildAt`).

Then the stack. That entries are true is inductive only together with what the
frames of every worker know, so `IInv` describes each stack: a frame is `Placed` in the
game; the top one is `Current`, each one below `Waits` for the one it `Called`. For a
node `InnerTruth` says what its two flags claim at any time: with `lower`, the best
score is no more than the position may be worth; with `upper`, every move that
is not open any more is worth no more than the best score, in one way of playing on.
`QuietTruth` says the same of a leaf and the two sides of its window. A result is
`Truthful` about its position and thereby `Answers` the question its caller
asked, whatever window, depth or extension that was. A reduced
search, razoring, a pruned move or a selective cutoff owes nothing: it
takes evidence away, and so the flags stay true. Once no move is open, what the flags support may be
stored (`FinishStores`). `StepKeeps` has one lemma per action;
`StepFrames` shows that the other workers' stacks and the game are not touched.
The root of an adaptive principal may see moves the reference does not: it
`Knows` nothing and, as in the code, stores nothing.

Without extensions the interval is one value (`WorthIsOne`), so an entry then bounds
the minimax value itself, and an exact one is it (`BoundsHold`).

`MatesForced` proves `MatesAreForced`: a mate score the engine completes is a forced mate,
no longer than it says. It needs a second invariant, `MInv`, because the first one
owes nothing where evidence was taken away, and mate scores also come out of
reduced searches, razoring, passes and entries of other depths. An entry that
shows a mate shows a forced one (`MateEntry`), for competitive tables too. Each stack is
`Chained`: the last frame is `Ready` for its next step, every other one `Pauses` for
the one it called, and that one's window `Covers` the mates it was asked for. A
frame `Finds`: a mate that raised its window is one some counted move forces,
and a mate against it is one that every counted move runs into. A result is thereby a `Verdict` on the root, and what the
engine publishes, it `Announces`. That some move of a node is never looked at would break
`Finds`; so the theorem, as the property, is about the settings that look at
every move (`Sighted`). `ForcedWins`, the reference, is worked out in rounds and settles
like the others.

### Left to TLC

Liveness (`TeamReturns`, `InterruptionEndsSearch`, `OperationsEnd`,
`AiReplies`, `CloseEnds`, `SolveReturns`, `MatchReturns`, `SearchEnds`): fairness and
ENABLED are beyond the prover. `CompletedIsExact` says more of a search than its
table and its mates do: it needs one more invariant on the stack, about windows and
the order of equal moves. Whatever computes with recursive operators (`BookVerifier`,
`DiskSolver`, `Threats`, `ThreatProof`, `RootSearch`, `Board` and the modules
over them) stays with TLC: outcomes against the game itself, published
strategies, tactical proofs.

## 5. Plan

The text of native settings, the limits of a book verification.

## 6. Not modelled

Numeric kernels (evaluators, SIMD), scores of the move order, drawing and
localization, bytes of files, batch data tools and the training scripts: they
keep no protocol state, and the repository checks them against references bit
by bit. The data tool plays deterministic games with a table of their own each.
Debug-only counters and logging are left out everywhere. Each component of
`PROJECT.json` names what is left out of it.

Two divergences were met that no run keeps. A load rebuilds the table of exact
results in node order, the running solver in the order of completion, so a
resumed solve may adopt a result where an uninterrupted one solves it again
(`engine/offline.rs:1094`); outcomes are not affected. And a tactical leaf
stores the canonical form of the first move its proof found, while the verifier
repeats the search in the orientation it meets first and demands the same move
(`engine/proof_book.rs:900`): with two winning moves they may differ.
