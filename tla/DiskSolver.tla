------------------------------ MODULE DiskSolver ------------------------------
(***************************************************************************)
(* The disk-backed proof search of src/offline: a database of nodes keyed  *)
(* by canonical position (storage.py), a proof-number search that commits  *)
(* one expansion per transaction (solve.py), and frontier jobs solved in   *)
(* databases of their own and merged back (shards.py).                     *)
(* Database 0 is the coordinator's, database j the one of the manifest's   *)
(* job j.  Programs on different databases share nothing while they run,   *)
(* so one runs at a time; any of them may die at any point.                *)
(***************************************************************************)
EXTENDS CanonicalPosition

CONSTANTS
  Configurations,   \* what a search may be started with: attacker, root record,
                    \* leaf_limits ("none", "immediate", "tactic") and ply limit
  MaxJobs,          \* bound: the limit of a frontier request
  Infinity          \* INFINITY of the proof numbers

ASSUME DiskAssumption ==
  /\ \A c \in Configurations :
       /\ c.attacker \in Stones /\ c.root \in Seq(Cells) /\ IsRecord(c.root)
       /\ c.leaf \in {"none", "immediate", "tactic"} /\ c.plies \in Nat
  /\ {TacticPlies, Infinity} \subseteq Nat \ {0} /\ MaxJobs \in Nat

VARIABLES
  config,       \* the frozen configuration: attacker, root, leaf and ply limits
  disk,         \* what is committed in each database
  manifest,     \* the frontier jobs, once published
  receipts,     \* the outcome in the artifact of each job, "none" before
  running,      \* the database a program is working on, or Nothing
  phase,        \* where that program is
  open,         \* what its connection sees: disk and its open transaction
  unmerged      \* the jobs a merge has still to look at

files == <<disk, manifest, receipts>>
vars == <<config, files, running, phase, open, unmerged>>

Databases == 0..MaxJobs
Absent == [nodes |-> <<>>, dirty |-> {}]

-----------------------------------------------------------------------------
(* DiskNodes. *)

NoEvidence == [leaf |-> FALSE, by |-> <<>>]

(* A row: the moves of the first path to its key, and their replay. *)
NewRow(moves) ==
  LET p == Replay(moves).position
  IN [key |-> Key(p), moves |-> moves, position |-> p, expanded |-> FALSE,
      outcome |-> "Unknown", pn |-> 1, dn |-> 1, evidence |-> NoEvidence, children |-> <<>>]

WithKey(db, key) == {id \in DOMAIN db.nodes : db.nodes[id].key = key}
IdOf(db, key) == CHOOSE id \in WithKey(db, key) : TRUE

(* INSERT OR IGNORE by key: the moves of a known position stay. *)
Keep(db, row) == IF WithKey(db, row.key) # {} THEN db ELSE [db EXCEPT !.nodes = Append(@, row)]
Intern(db, moves) == Keep(db, NewRow(moves))

Children(db, id) == {db.nodes[id].children[m] : m \in DOMAIN db.nodes[id].children}
Parents(db, id) == {k \in DOMAIN db.nodes : id \in Children(db, k)}

NumbersOf(outcome) ==
  CASE outcome = "ProvenWin" -> [pn |-> 0, dn |-> Infinity]
    [] outcome = "Refuted" -> [pn |-> Infinity, dn |-> 0]
    [] outcome = "Unknown" -> [pn |-> 1, dn |-> 1]

(* result: a change marks the parents dirty. *)
Result(db, id, outcome, numbers, evidence) ==
  LET old == db.nodes[id]
      new == [old EXCEPT !.outcome = outcome, !.pn = numbers.pn, !.dn = numbers.dn,
                         !.evidence = evidence]
  IN IF new = old THEN db
     ELSE [nodes |-> [db.nodes EXCEPT ![id] = new], dirty |-> db.dirty \cup Parents(db, id)]

Settle(db, id, outcome, evidence) == Result(db, id, outcome, NumbersOf(outcome), evidence)

-----------------------------------------------------------------------------
(* DiskSolver. *)

IsOr(n) == n.position.side = config.attacker
Terminal(n) == TerminalFor(config.attacker, n.position)

(* Mutant: a defender's node is numbered like one of the attacker. *)
NumbersOfAttacker(db, id) ==
  LET kids == db.nodes[id].children
  IN [pn |-> Min({db.nodes[kids[m]].pn : m \in DOMAIN kids}),
      dn |-> Min({Infinity, MapThenSumSet(LAMBDA m : db.nodes[kids[m]].dn, DOMAIN kids)})]

(* The numbers of an expanded node are those of its children, saturated.   *)
Numbers(db, id) ==
  LET kids == db.nodes[id].children
      Least(number) == Min({db.nodes[kids[m]][number] : m \in DOMAIN kids})
      Total(number) ==
        Min({Infinity, MapThenSumSet(LAMBDA m : db.nodes[kids[m]][number], DOMAIN kids)})
  IN IF IsOr(db.nodes[id]) THEN [pn |-> Least("pn"), dn |-> Total("dn")]
     ELSE [pn |-> Total("pn"), dn |-> Least("dn")]

Decided(db, id) ==
  LET numbers == Numbers(db, id)
  IN IF numbers.pn = 0 THEN "ProvenWin" ELSE IF numbers.dn = 0 THEN "Refuted" ELSE "Unknown"

Aggregate(db, id) ==
  IF ~db.nodes[id].expanded \/ Children(db, id) = {} THEN db
  ELSE Result(db, id, Decided(db, id), Numbers(db, id), NoEvidence)

(* Mutant: what the propagation marks in its turn is left for later. *)
PropagatedOnce(db) == FoldLeft(Aggregate, [db EXCEPT !.dirty = {}], InOrder(db.dirty))

(* propagate: until nothing is dirty. *)
RECURSIVE Propagated(_)
Propagated(db) ==
  IF db.dirty = {} THEN db
  ELSE LET id == Min(db.dirty) IN Propagated(Aggregate([db EXCEPT !.dirty = @ \ {id}], id))

(* Plies left below a node, counted from the frozen root. *)
PliesLeft(n) == config.plies - (Len(n.moves) - Len(config.root))

(* The line of a winning leaf: a five, an answer to every defence, a tactic. *)
LeafPlies(p) ==
  IF ImmediateFor(config.attacker, p) = "Unknown" THEN TacticPlies
  ELSE IF p.side = config.attacker THEN 1 ELSE 2

(* native.leaf with the effective limits: a win has to end in time. *)
Leaf(n) ==
  LET immediate == ImmediateFor(config.attacker, n.position)
      InTime == LeafPlies(n.position) <= PliesLeft(n)
  IN IF config.leaf = "none" THEN "Unknown"
     ELSE IF Terminal(n) # "Unknown" THEN Terminal(n)
     ELSE IF immediate = "Refuted" \/ (immediate = "ProvenWin" /\ InTime) THEN immediate
     ELSE IF immediate = "Unknown" /\ config.leaf = "tactic" /\ InTime
             /\ TacticalAttempt(config.attacker, n.position) # Nothing THEN "ProvenWin"
     ELSE "Unknown"

(* The evidence kept for a leaf: the certificate of a win starts with the  *)
(* moves it was made for; a refutation has none.                           *)
LeafEvidence(n) ==
  [leaf |-> TRUE, by |-> IF Leaf(n) = "ProvenWin" THEN n.moves ELSE <<>>]

(* Every legal move, named in the canonical position, and what it leads to. *)
CanonicalMoves(n) == {CanonicalMove(n.position, c) : c \in Empties(n.position)}
After(n, m) == Append(n.moves, FromCanonical(n.position, m))

(* A child row, with its result at once when the game ends there. *)
AddChild(db, row) ==
  LET grown == Keep(db, row)
      id == IdOf(grown, row.key)
  IN IF Terminal(row) = "Unknown" THEN grown
     ELSE Settle(grown, id, Terminal(row), NoEvidence)

WithChildren(db, id) ==
  LET n == db.nodes[id]
      order == InOrder(CanonicalMoves(n))
      rows == [i \in DOMAIN order |-> NewRow(After(n, order[i]))]
      grown == FoldLeft(AddChild, db, rows)
      children == [m \in ToSet(order) |-> IdOf(grown, rows[CHOOSE i \in DOMAIN order : order[i] = m].key)]
  IN [grown EXCEPT !.nodes[id].children = children, !.nodes[id].expanded = TRUE]

(* expand: a leaf is tried before all legal moves are added. *)
Expand(db, id) ==
  LET n == db.nodes[id]
  IN IF Leaf(n) # "Unknown" THEN Settle(db, id, Leaf(n), LeafEvidence(n))
     ELSE IF Terminal(n) # "Unknown"
     THEN Settle([db EXCEPT !.nodes[id].expanded = TRUE], id, Terminal(n), NoEvidence)
     ELSE Aggregate(WithChildren(db, id), id)

Pending(db, id) ==
  {m \in DOMAIN db.nodes[id].children : db.nodes[db.nodes[id].children[m]].outcome = "Unknown"}

(* select: the pending child with the least number, then the least move.   *)
Easiest(db, id) ==
  LET Child(m) == db.nodes[db.nodes[id].children[m]]
      Number(m) == IF IsOr(db.nodes[id]) THEN Child(m).pn ELSE Child(m).dn
  IN CHOOSE m \in Pending(db, id) : \A n \in Pending(db, id) :
       Number(m) < Number(n) \/ (Number(m) = Number(n) /\ m <= n)

(* The unexpanded node it leads to from a root; 0 where none is pending.   *)
Select(db, root) ==
  LET select[id \in DOMAIN db.nodes] ==
        IF ~db.nodes[id].expanded THEN id
        ELSE IF Pending(db, id) = {} THEN 0
        ELSE select[db.nodes[id].children[Easiest(db, id)]]
  IN select[root]

-----------------------------------------------------------------------------
(* verify_witness. *)

(* The edges are the legal moves, each to the position it leads to. *)
Covers(db, n) ==
  /\ DOMAIN n.children = CanonicalMoves(n)
  /\ \A m \in DOMAIN n.children : db.nodes[n.children[m]].key = NewRow(After(n, m)).key

Existential(n) == IsOr(n) = (n.outcome = "ProvenWin")
Agreeing(db, n) == {m \in DOMAIN n.children : db.nodes[n.children[m]].outcome = n.outcome}

(* The moves a witness of a node goes on with. *)
Continues(db, id) ==
  LET n == db.nodes[id]
      agreeing == Agreeing(db, n)
  IN IF Terminal(n) # "Unknown" \/ n.evidence.leaf THEN {}
     ELSE IF Existential(n) /\ agreeing # {} THEN {Min(agreeing)}
     ELSE agreeing

(* Where visit raises an error instead of certifying a node. *)
Flawed(db, id) ==
  LET n == db.nodes[id]
  IN CASE n.outcome = "Unknown" -> TRUE
       [] n.outcome # "Unknown" /\ Terminal(n) # "Unknown" -> n.outcome # Terminal(n)
       [] n.outcome # "Unknown" /\ Terminal(n) = "Unknown" /\ n.evidence.leaf ->
            Leaf(n) # n.outcome \/ n.evidence # LeafEvidence(n)
       [] OTHER ->
            \/ ~Covers(db, n)
            \/ Agreeing(db, n) = {}
            \/ ~Existential(n) /\ Agreeing(db, n) # DOMAIN n.children

(* The nodes a witness visits, one ply after the other. *)
Deeper(db, ids) == {db.nodes[id].children[m] : <<id, m>> \in
                      UNION {{id} \X Continues(db, id) : id \in ids}}

Witness(db, root) ==
  LET level[ply \in 0..Cardinality(Cells)] ==
        IF ply = 0 THEN {root} ELSE Deeper(db, level[ply - 1])
  IN UNION {level[ply] : ply \in DOMAIN level}

Accepted(db, root) == \A id \in Witness(db, root) : ~Flawed(db, id)

(* The distance of each certificate. *)
Distances(db) ==
  LET plies[id \in DOMAIN db.nodes] ==
        LET n == db.nodes[id]
        IN IF Terminal(n) # "Unknown" \/ n.outcome # "ProvenWin" THEN 0
           ELSE IF n.evidence.leaf THEN LeafPlies(n.position)
           ELSE 1 + Max({0} \cup {plies[n.children[m]] : m \in Continues(db, id)})
  IN plies

-----------------------------------------------------------------------------
(* export: the entries of the certified witness of a proven root. *)

(* Mutant: the winning point of a leaf is named as it was played. *)
ActionAsPlayed(db, id) ==
  LET n == db.nodes[id]
      p == n.position
      Does(kind, at) == [kind |-> kind, at |-> at]
  IN IF ~n.evidence.leaf
     THEN IF IsOr(n) THEN Does("move", CHOOSE m \in Continues(db, id) : TRUE)
          ELSE Does("all", Nothing)
     ELSE IF ImmediateFor(config.attacker, p) = "Unknown"
     THEN Does("tactic", TacticalAttempt(config.attacker, p))
     ELSE IF IsOr(n) THEN Does("move", Min(Wins(p, config.attacker)))
     ELSE Does("immediate", Nothing)

Action(db, id) ==
  LET n == db.nodes[id]
      p == n.position
      Does(kind, at) == [kind |-> kind, at |-> at]
  IN IF ~n.evidence.leaf
     THEN IF IsOr(n) THEN Does("move", CHOOSE m \in Continues(db, id) : TRUE)
          ELSE Does("all", Nothing)
     ELSE IF ImmediateFor(config.attacker, p) = "Unknown"
     THEN Does("tactic", CanonicalMove(p, TacticalAttempt(config.attacker, p)))
     ELSE IF IsOr(n) THEN Does("move", CanonicalMove(p, Min(Wins(p, config.attacker))))
     ELSE Does("immediate", Nothing)

Book(db, root) ==
  LET certified == {id \in Witness(db, root) : Terminal(db.nodes[id]) = "Unknown"}
      keys == {db.nodes[id].key : id \in certified}
  IN [key \in keys |->
        [key |-> key, action |-> Action(db, IdOf(db, key)), plies |-> Distances(db)[IdOf(db, key)]]]

-----------------------------------------------------------------------------
(* merge: the witness of a job is copied row by row.                       *)

(* Mutant: only the children the witness goes on with are copied. *)
CopyCertified(target, source, id) ==
  LET n == source.nodes[id]
      certified == Continues(source, id)
      known == Intern(target, n.moves)
      Add(db, m) == Intern(db, source.nodes[n.children[m]].moves)
      grown == FoldLeft(Add, known, InOrder(certified))
      here == IdOf(grown, n.key)
      edges == [m \in certified |-> IdOf(grown, source.nodes[n.children[m]].key)]
      joined == IF n.expanded /\ ~grown.nodes[here].expanded
                THEN [grown EXCEPT !.nodes[here].children = edges, !.nodes[here].expanded = TRUE]
                ELSE grown
  IN Settle(joined, here, n.outcome, n.evidence)

(* Edges of an expanded row are interned with it; a known expansion stays. *)
CopyRow(target, source, id) ==
  LET n == source.nodes[id]
      kids == InOrder(DOMAIN n.children)
      known == Intern(target, n.moves)
      Add(db, m) == Intern(db, source.nodes[n.children[m]].moves)
      grown == FoldLeft(Add, known, kids)
      here == IdOf(grown, n.key)
      edges == [m \in DOMAIN n.children |-> IdOf(grown, source.nodes[n.children[m]].key)]
      joined == IF n.expanded /\ ~grown.nodes[here].expanded
                THEN [grown EXCEPT !.nodes[here].children = edges, !.nodes[here].expanded = TRUE]
                ELSE grown
  IN Settle(joined, here, n.outcome, n.evidence)

Merged(target, source, root) ==
  LET order == InOrder(Witness(source, root))
  IN FoldLeft(LAMBDA db, id : CopyRow(db, source, id), target, order)

(* The errors of a merge: another outcome, or another expansion, is known. *)
Conflicts(target, source, root) ==
  \E id \in Witness(source, root) : \E here \in WithKey(target, source.nodes[id].key) :
    LET n == source.nodes[id] t == target.nodes[here]
    IN \/ t.outcome \notin {"Unknown", n.outcome}
       \/ n.expanded /\ t.expanded /\ DOMAIN t.children # DOMAIN n.children
       \/ n.expanded /\ t.expanded /\ \E m \in DOMAIN n.children :
            target.nodes[t.children[m]].key # source.nodes[n.children[m]].key

-----------------------------------------------------------------------------
(* main freezes its configuration before anything is stored. *)
Init ==
  /\ config \in Configurations
  /\ disk = [d \in Databases |-> Absent]
  /\ manifest = <<>>
  /\ receipts = [d \in Databases |-> "none"]
  /\ running = Nothing /\ phase = "closed" /\ open = Absent
  /\ unmerged = {}

Close == running' = Nothing /\ phase' = "closed" /\ open' = Absent /\ unmerged' = {}

(* main and solve_batch: open or resume a database, and intern its root.   *)
RootMoves(d) == IF d = 0 THEN config.root ELSE manifest[d].moves

Open(d) ==
  /\ running = Nothing
  /\ d = 0 \/ d \in DOMAIN manifest
  /\ disk' = [disk EXCEPT ![d] = Intern(@, RootMoves(d))]
  /\ running' = d /\ phase' = "check" /\ open' = disk'[d]
  /\ UNCHANGED <<config, manifest, receipts, unmerged>>

Undecided == open.nodes[1].outcome = "Unknown"

(* solve: one expansion of the most proving node; with what it propagates  *)
(* to, it is one transaction.                                              *)
Step ==
  LET id == Select(open, 1)
  IN /\ phase = "check" /\ Undecided
     /\ id # 0 /\ PliesLeft(open.nodes[id]) > 0
     /\ open' = Expand(open, id)
     /\ phase' = "expanded"
     /\ UNCHANGED <<config, files, running, unmerged>>

Commit ==
  /\ phase \in {"expanded", "merged"}
  /\ open' = Propagated(open)
  /\ disk' = [disk EXCEPT ![running] = open']
  /\ phase' = IF phase = "merged" THEN "merge" ELSE "check"
  /\ UNCHANGED <<config, manifest, receipts, running, unmerged>>

(* Mutant: a job that gives up claims a refutation. *)
ExhaustRefutes ==
  /\ running # Nothing
  /\ receipts' = IF running = 0 THEN receipts ELSE [receipts EXCEPT ![running] = "Refuted"]
  /\ Close
  /\ UNCHANGED <<config, disk, manifest>>

(* A work, time, ply, node or disk limit: the transaction is rolled back,  *)
(* and a job says Unknown.                                                 *)
Exhaust ==
  /\ running # Nothing
  /\ receipts' = IF running = 0 THEN receipts ELSE [receipts EXCEPT ![running] = "Unknown"]
  /\ Close
  /\ UNCHANGED <<config, disk, manifest>>

(* The program dies: what was not committed is gone. *)
Crash ==
  /\ running # Nothing
  /\ Close
  /\ UNCHANGED <<config, files>>

(* The root is decided: its witness is verified, and exported or claimed;  *)
(* where verify_witness raises, the program ends without a result.         *)
Finish ==
  /\ phase = "check" /\ ~Undecided
  /\ receipts' = IF running = 0 \/ ~Accepted(open, 1) THEN receipts
                 ELSE [receipts EXCEPT ![running] = open.nodes[1].outcome]
  /\ Close
  /\ UNCHANGED <<config, disk, manifest>>

-----------------------------------------------------------------------------
(* frontier: some unexpanded unknown rows become jobs. *)
Frontier ==
  LET rows == {id \in DOMAIN disk[0].nodes :
                 disk[0].nodes[id].outcome = "Unknown" /\ ~disk[0].nodes[id].expanded}
  IN /\ running = Nothing /\ manifest = <<>> /\ rows # {}
     /\ \E ids \in SUBSET rows :
          /\ Cardinality(ids) = Min({MaxJobs, Cardinality(rows)})
          /\ manifest' = [j \in 1..Cardinality(ids) |-> [moves |-> disk[0].nodes[InOrder(ids)[j]].moves]]
     /\ UNCHANGED <<config, disk, receipts, running, phase, open, unmerged>>

(* merge, while no worker writes. *)
StartMerge ==
  /\ running = Nothing /\ manifest # <<>>
  /\ running' = 0 /\ phase' = "merge" /\ open' = disk[0]
  /\ unmerged' = {d \in DOMAIN manifest : receipts[d] \notin {"none", "Unknown"}}
  /\ UNCHANGED <<config, files>>

(* Jobs come in the order of their keys, which is some order.              *)
MergeJob ==
  /\ phase = "merge"
  /\ \E d \in unmerged :
       /\ Accepted(disk[d], 1) /\ disk[d].nodes[1].outcome = receipts[d]
       /\ ~Conflicts(open, disk[d], 1)
       /\ open' = Merged(open, disk[d], 1)
       /\ unmerged' = unmerged \ {d}
  /\ phase' = "merged"
  /\ UNCHANGED <<config, files, running>>

EndMerge ==
  /\ phase = "merge" /\ unmerged = {}
  /\ Close
  /\ UNCHANGED <<config, files>>

-----------------------------------------------------------------------------
Next ==
  \/ \E d \in Databases : Open(d)
  \/ Step \/ Commit \/ Exhaust \/ Crash \/ Finish
  \/ Frontier \/ StartMerge \/ MergeJob \/ EndMerge

Spec == Init /\ [][Next]_vars

-----------------------------------------------------------------------------
(* Whatever dies between two transactions, what is committed is complete:  *)
(* nothing waits to be propagated, and every expanded row that does not    *)
(* rest on a leaf has the numbers and the outcome its children give it.    *)
CommittedIsConsistent ==
  \A d \in Databases :
    /\ disk[d].dirty = {}
    /\ \A id \in DOMAIN disk[d].nodes :
         LET n == disk[d].nodes[id]
         IN n.expanded /\ DOMAIN n.children # {} /\ ~n.evidence.leaf =>
              /\ [pn |-> n.pn, dn |-> n.dn] = Numbers(disk[d], id)
              /\ n.outcome = Decided(disk[d], id)

(* Rows of the coordinator whose evidence a job made for other moves.      *)
Foreign(db) ==
  {id \in DOMAIN db.nodes : LET n == db.nodes[id]
                            IN n.evidence.leaf /\ n.evidence # LeafEvidence(n)}

(* A decided root always has a witness that its verification accepts, also *)
(* after jobs were merged into a coordinator that went on meanwhile, unless*)
(* the witness rests on a leaf a job evaluated for other moves.            *)
WitnessIsAccepted ==
  phase = "check" /\ ~Undecided /\ Witness(open, 1) \cap Foreign(open) = {} => Accepted(open, 1)

(* A job that is done merges: its witness is accepted and contradicts      *)
(* nothing the coordinator came to by itself meanwhile.                    *)
DoneJobsMerge ==
  phase = "merge" => \A d \in unmerged :
    /\ Accepted(disk[d], 1) /\ disk[d].nodes[1].outcome = receipts[d]
    /\ ~Conflicts(open, disk[d], 1)

(* "Merge replays each result before copying its witness": after a merge   *)
(* the coordinator verifies its own witness and has its outcome.           *)
MergedWitnessVerifies ==
  phase = "check" /\ running = 0 /\ ~Undecided => Accepted(open, 1)
=============================================================================
