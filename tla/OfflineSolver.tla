---------------------------- MODULE OfflineSolver ----------------------------
(***************************************************************************)
(* The offline proof-number solver: one tree of positions in which the     *)
(* attacker's turns are OR nodes and the defender's AND nodes, grown by    *)
(* solve calls that a work, time, node or cancellation limit may cut short *)
(* at any point, and saved and loaded between them.  A node is named by    *)
(* its place in the sequence nodes, from 1; 0 is no node.                  *)
(***************************************************************************)
EXTENDS CanonicalPosition

CONSTANTS
  Preference,       \* the order in which equally urgent moves are tried
  Roots,            \* the records a solver may be created for
  Limits,           \* the tactical limits of a solve call, "none" among them
  WidenBatch,       \* WIDEN_BATCH
  ResidentLimit,    \* max_resident_nodes of a solve call
  MaxPersisted,     \* MAX_PERSISTED_SOLVER_NODES
  Infinity,         \* INFINITY of the proof numbers
  MaxSolves         \* bound: solve calls

ASSUME SolverAssumption ==
  /\ Cells \subseteq Nat
  /\ Preference \in Seq(Cells)
  /\ ToSet(Preference) = Cells /\ Len(Preference) = Cardinality(Cells)
  /\ Roots \subseteq Seq(Cells) /\ \A moves \in Roots : IsRecord(moves)
  /\ {WidenBatch, MaxPersisted, Infinity, MaxSolves} \subseteq Nat \ {0}
  /\ ResidentLimit \in 1..MaxPersisted   \* with_max_resident_nodes clamps
  /\ Limits # {}

VARIABLES
  attacker, nodes, exact,     \* the solver
  phase,                      \* where the solve call is
  node, batch,                \* its selected node, and the moves added to it
  limits, interrupted,        \* its tactical limits; whether another limit is reached
  solves                      \* the calls so far

solver == <<attacker, nodes, exact>>
vars == <<solver, phase, node, batch, limits, interrupted, solves>>

-----------------------------------------------------------------------------
(* Positions. *)

(* The cells of a set, in the order in which they are preferred. *)
Preferred(cells) ==
  LET kept[i \in 0..Len(Preference)] ==
        IF i = 0 THEN <<>>
        ELSE IF Preference[i] \in cells THEN Append(kept[i - 1], Preference[i])
        ELSE kept[i - 1]
  IN kept[Len(Preference)]

(* ordered_legal_moves: every empty cell, those where a five is due first. *)
Ordered(p) ==
  LET urgent == Wins(p, p.side) \cup Wins(p, Opponent(p.side))
  IN Preferred(urgent) \o Preferred(Empties(p) \ urgent)

TerminalOutcome(p) == TerminalFor(attacker, p)
ImmediateOutcome(p) == ImmediateFor(attacker, p)

-----------------------------------------------------------------------------
(* Nodes. *)

NumbersOf(outcome) ==
  CASE outcome = "ProvenWin" -> [proof |-> 0, disproof |-> Infinity]
    [] outcome = "Refuted" -> [proof |-> Infinity, disproof |-> 0]
    [] outcome = "Unknown" -> [proof |-> 1, disproof |-> 1]

Evidence(kind) == [kind |-> kind, source |-> 0, limits |-> "none"]
CachedFrom(source) == [Evidence("Cached") EXCEPT !.source = source]

(* set_outcome, with the evidence for it. *)
Settled(n, outcome, evidence) ==
  [n EXCEPT !.outcome = outcome, !.evidence = evidence,
            !.proof = NumbersOf(outcome).proof, !.disproof = NumbersOf(outcome).disproof]

Fresh(parent, via, p) ==
  [parent |-> parent, via |-> via, position |-> p, next |-> 0, tried |-> FALSE,
   outcome |-> "Unknown", proof |-> 1, disproof |-> 1, evidence |-> Evidence("Unknown")]

(* Node::new and apply_terminal. *)
NewNode(parent, via, p) ==
  IF TerminalOutcome(p) = "Unknown" THEN Fresh(parent, via, p)
  ELSE Settled(Fresh(parent, via, p), TerminalOutcome(p), Evidence("Terminal"))

Children(ns, k) == {j \in DOMAIN ns : ns[j].parent = k}
Omitted(ns, k) == Cardinality(Empties(ns[k].position)) - ns[k].next
IsOr(ns, k) == ns[k].position.side = attacker

(* The easiest of the children, an omitted move counting 1. *)
Easiest(ns, k, number) ==
  Min({Infinity} \cup {ns[j][number] : j \in Children(ns, k)}
      \cup (IF Omitted(ns, k) = 0 THEN {} ELSE {1}))

(* Mutant: the moves progressive widening leaves out are taken for decided. *)
TotalOfResident(ns, k, number) ==
  Min({Infinity, MapThenSumSet(LAMBDA j : ns[j][number], Children(ns, k))})

(* The saturated sum over the children, an omitted move counting 1. *)
Total(ns, k, number) ==
  Min({Infinity, Omitted(ns, k) + MapThenSumSet(LAMBDA j : ns[j][number], Children(ns, k))})

(* recompute: a node decided by anything but its children keeps its numbers. *)
Recomputed(ns, k) ==
  LET proof == IF IsOr(ns, k) THEN Easiest(ns, k, "proof") ELSE Total(ns, k, "proof")
      disproof == IF IsOr(ns, k) THEN Total(ns, k, "disproof") ELSE Easiest(ns, k, "disproof")
      outcome == IF proof = 0 THEN "ProvenWin" ELSE IF disproof = 0 THEN "Refuted" ELSE "Unknown"
  IN IF ns[k].outcome # "Unknown" /\ ns[k].evidence.kind # "Aggregated" THEN ns[k]
     ELSE [ns[k] EXCEPT
             !.proof = proof, !.disproof = disproof, !.outcome = outcome,
             !.evidence = Evidence(IF outcome = "Unknown" THEN "Unknown" ELSE "Aggregated")]

-----------------------------------------------------------------------------
(* The table of exact results: the source node of each canonical position. *)

(* cache_if_exact: the first result of a position stays its source. *)
Remember(ns, table, k) ==
  IF ns[k].outcome = "Unknown" THEN table
  ELSE [key \in DOMAIN table \cup {Key(ns[k].position)} |->
          IF key \in DOMAIN table THEN table[key] ELSE k]

(* The source recorded for a position, if any. *)
SourcesOf(table, p) == {table[key] : key \in {Key(p)} \cap DOMAIN table}

(* Mutant: any source will do, one made after this node too. *)
AdoptableFromAny(ns, table, k) == SourcesOf(table, ns[k].position) \ {k}

(* adopt_cached_exact: only from a node made before this one. *)
Adoptable(ns, table, k) == {s \in SourcesOf(table, ns[k].position) : s < k}

(* The table load_checkpoint builds: the first exact node of each position. *)
Rebuilt(ns) ==
  LET known == {[key |-> Key(ns[k].position), source |-> k] :
                  k \in {j \in DOMAIN ns : ns[j].outcome # "Unknown"}}
  IN [key \in {e.key : e \in known} |-> Min({e.source : e \in {f \in known : f.key = key}})]

-----------------------------------------------------------------------------
(* Selection. *)

Pending(ns, k) == {j \in Children(ns, k) : ns[j].outcome = "Unknown"}

(* The rank of a child or of the next omitted move: the smallest goes on. *)
NoLater(a, b) == a[1] < b[1] \/ (a[1] = b[1] /\ a[2] <= b[2])

Best(ns, k) ==
  LET number == IF IsOr(ns, k) THEN "proof" ELSE "disproof"
      Rank(j) == <<ns[j][number], ns[j].via>>
      pending == Pending(ns, k)
  IN CHOOSE j \in pending : \A i \in pending : NoLater(Rank(j), Rank(i))

(* The next omitted move counts as a child with the number 1. *)
StopsAt(ns, k) ==
  \/ ~ns[k].tried
  \/ Pending(ns, k) = {}
  \/ /\ Omitted(ns, k) > 0
     /\ LET best == ns[Best(ns, k)]
        IN NoLater(<<1, Ordered(ns[k].position)[ns[k].next + 1]>>,
                   <<IF IsOr(ns, k) THEN best.proof ELSE best.disproof, best.via>>)

(* select_most_proving, from the root down. *)
MostProving(ns) ==
  LET select[k \in DOMAIN ns] == IF StopsAt(ns, k) THEN k ELSE select[Best(ns, k)]
  IN select[1]

-----------------------------------------------------------------------------
(* new() *)
Init ==
  /\ attacker \in Stones
  /\ \E moves \in Roots : nodes = <<NewNode(0, Nothing, Replay(moves).position)>>
  /\ exact = Remember(nodes, <<>>, 1)
  /\ phase = "between" /\ node = 0 /\ batch = 0
  /\ limits = "none" /\ interrupted = FALSE /\ solves = 0

Solve ==
  /\ phase = "between" /\ solves < MaxSolves
  /\ phase' = "check" /\ solves' = solves + 1
  /\ limits' \in Limits
  /\ UNCHANGED <<solver, node, batch, interrupted>>

(* The work, time or cancellation limit of this call is reached: nothing   *)
(* lowers it again before the call returns.  Propagation never asks.       *)
Interrupt ==
  /\ phase \in {"check", "expand", "widen"} /\ ~interrupted
  /\ interrupted' = TRUE
  /\ UNCHANGED <<solver, phase, node, batch, limits, solves>>

Stopping == nodes[1].outcome # "Unknown" \/ interrupted \/ Len(nodes) >= ResidentLimit

Return ==
  /\ phase = "check" /\ Stopping
  /\ phase' = "between" /\ node' = 0
  /\ limits' = "none" /\ interrupted' = FALSE
  /\ UNCHANGED <<solver, batch, solves>>

Select ==
  /\ phase = "check" /\ ~Stopping
  /\ node' = MostProving(nodes)
  /\ phase' = "expand"
  /\ UNCHANGED <<solver, batch, limits, interrupted, solves>>

Keep(ns) == nodes' = ns /\ UNCHANGED <<attacker, batch, limits, interrupted, solves>>

(* An equivalent node that was finished since this one was made. *)
Adopt ==
  /\ phase = "expand"
  /\ \E source \in Adoptable(nodes, exact, node) :
       Keep([nodes EXCEPT ![node] = Settled(@, nodes[source].outcome, CachedFrom(source))])
  /\ phase' = "propagate"
  /\ UNCHANGED <<exact, node>>

Decide(outcome, evidence) ==
  LET ns == [nodes EXCEPT ![node] = [Settled(@, outcome, evidence) EXCEPT !.tried = TRUE]]
  IN Keep(ns) /\ exact' = Remember(ns, exact, node) /\ phase' = "propagate" /\ UNCHANGED node

FirstVisit ==
  phase = "expand" /\ Adoptable(nodes, exact, node) = {} /\ ~nodes[node].tried

Immediate ==
  /\ FirstVisit
  /\ ImmediateOutcome(nodes[node].position) # "Unknown"
  /\ Decide(ImmediateOutcome(nodes[node].position), Evidence("Immediate"))

(* An attempt that a limit cuts short proves nothing. *)
TacticFound == limits # "none" /\ ~interrupted /\ TacticalAttempt(attacker, nodes[node].position) # Nothing

Tactical ==
  /\ FirstVisit
  /\ ImmediateOutcome(nodes[node].position) = "Unknown" /\ TacticFound
  /\ Decide("ProvenWin", [Evidence("Tactical") EXCEPT !.limits = limits])

StartWidening ==
  /\ phase = "expand" /\ Adoptable(nodes, exact, node) = {}
  /\ nodes[node].tried \/ (ImmediateOutcome(nodes[node].position) = "Unknown" /\ ~TacticFound)
  /\ nodes' = [nodes EXCEPT ![node].tried = TRUE]
  /\ phase' = "widen" /\ batch' = 0
  /\ UNCHANGED <<attacker, exact, node, limits, interrupted, solves>>

(* Mutant: no move is added unless a whole batch still fits. *)
WholeBatchFits ==
  /\ batch < WidenBatch /\ ~interrupted /\ Omitted(nodes, node) > 0
  /\ Len(nodes) - batch + WidenBatch <= ResidentLimit

(* The checks before each move of a batch. *)
BatchGoesOn ==
  batch < WidenBatch /\ ~interrupted /\ Len(nodes) < ResidentLimit /\ Omitted(nodes, node) > 0

(* A child whose position is solved already starts out Cached. *)
AddChild ==
  LET at == Ordered(nodes[node].position)[nodes[node].next + 1]
      new == NewNode(node, at, MakeMove(nodes[node].position, at))
      known == SourcesOf(exact, new.position)
      child == IF new.outcome # "Unknown" \/ known = {} THEN new
               ELSE LET source == CHOOSE s \in known : TRUE
                    IN Settled(new, nodes[source].outcome, CachedFrom(source))
      grown == Append([nodes EXCEPT ![node].next = @ + 1], child)
  IN /\ phase = "widen" /\ BatchGoesOn
     /\ nodes' = grown
     /\ exact' = Remember(grown, exact, Len(grown))
     /\ batch' = batch + 1
     /\ UNCHANGED <<attacker, phase, node, limits, interrupted, solves>>

(* The recompute that ends an expansion is the first one of propagate. *)
EndWidening ==
  /\ phase = "widen" /\ ~BatchGoesOn
  /\ phase' = "propagate" /\ batch' = 0
  /\ UNCHANGED <<solver, node, limits, interrupted, solves>>

(* propagate, one node of the path to the root at a time. *)
Propagate ==
  LET ns == [nodes EXCEPT ![node] = Recomputed(nodes, node)]
  IN /\ phase = "propagate"
     /\ Keep(ns)
     /\ exact' = Remember(ns, exact, node)
     /\ node' = nodes[node].parent
     /\ phase' = IF nodes[node].parent = 0 THEN "check" ELSE "propagate"

-----------------------------------------------------------------------------
(* save_checkpoint and load_checkpoint. *)

(* write_checkpoint: the root by itself, and of every node all but its     *)
(* position and the order of its moves, which its parent and move give.    *)
Written(ns) ==
  [root |-> ns[1].position,
   nodes |-> [k \in DOMAIN ns |->
                [field \in DOMAIN ns[k] \ {"position"} |-> ns[k][field]]]]

(* load_checkpoint: each node once its parent has been read. *)
Loaded(file) ==
  LET position[k \in DOMAIN file.nodes] ==
        LET n == file.nodes[k]
        IN IF n.parent = 0 THEN file.root ELSE MakeMove(position[n.parent], n.via)
  IN [k \in DOMAIN file.nodes |->
        [field \in DOMAIN file.nodes[k] \cup {"position"} |->
           IF field = "position" THEN position[k] ELSE file.nodes[k][field]]]

WellLinked(ns, k) ==
  IF k = 1 THEN ns[k].parent = 0
  ELSE ns[k].parent \in 1..(k - 1) /\ Legal(ns[ns[k].parent].position, ns[k].via)

(* The children of a node, in the order of their places, are the first     *)
(* moves of its order, as many as its expansion cursor says.               *)
ExpandedInOrder(ns, k) ==
  LET kids == Children(ns, k)
      order == Ordered(ns[k].position)
  IN /\ Cardinality(kids) = ns[k].next
     /\ \A j \in kids : ns[j].via = order[Cardinality(kids \cap 1..j)]

EvidenceHolds(ns, k) ==
  LET kind == ns[k].evidence.kind
      source == ns[k].evidence.source
  IN /\ kind = "Unknown" => ns[k].outcome = "Unknown"
     /\ kind = "Terminal" =>
          ns[k].outcome # "Unknown" /\ ns[k].outcome = TerminalOutcome(ns[k].position)
     /\ kind = "Immediate" => ns[k].outcome = ImmediateOutcome(ns[k].position)
     /\ kind = "Tactical" => ns[k].outcome = "ProvenWin"
     /\ kind = "Cached" =>
          /\ source < k
          /\ ns[source].outcome = ns[k].outcome
          /\ Key(ns[source].position) = Key(ns[k].position)

NumbersHold(ns, k) ==
  /\ ns[k].outcome # "Unknown" =>
       ns[k].proof = NumbersOf(ns[k].outcome).proof /\ ns[k].disproof = NumbersOf(ns[k].outcome).disproof
  /\ ns[k].evidence.kind = "Aggregated" \/ (ns[k].evidence.kind = "Unknown" /\ ns[k].tried) =>
       Recomputed(ns, k) = ns[k]

(* The nodes that pass every check; load_checkpoint wants all of them to. *)
Sound(ns) ==
  {k \in DOMAIN ns :
     WellLinked(ns, k) /\ ExpandedInOrder(ns, k) /\ EvidenceHolds(ns, k) /\ NumbersHold(ns, k)}

Accepts(ns) == Len(ns) <= MaxPersisted /\ Sound(ns) = DOMAIN ns

(* The tree is saved, the program ends, and another one loads it. *)
Resume ==
  /\ phase = "between"
  /\ \E loaded \in {Loaded(Written(nodes))} :
       Accepts(loaded) /\ nodes' = loaded /\ exact' = Rebuilt(loaded)
  /\ UNCHANGED <<attacker, phase, node, batch, limits, interrupted, solves>>

-----------------------------------------------------------------------------
Step ==
  \/ Return \/ Select \/ Adopt \/ Immediate \/ Tactical
  \/ StartWidening \/ AddChild \/ EndWidening \/ Propagate

Next == Solve \/ Interrupt \/ Resume \/ Step

(* A solve call runs on its thread until it returns: weak fairness of Step, *)
(* which is enabled exactly while a call is under way.                     *)
Fairness == []<>(phase = "between") \/ []<><<Step>>_vars

Spec == Init /\ [][Next]_vars /\ Fairness

-----------------------------------------------------------------------------
(* A saved tree is always loaded again: its caches point backward to a     *)
(* finished node of the same position, its children are in the order of    *)
(* their moves, it fits, and the numbers it stores are those its children  *)
(* give when they are all computed again.  The tree that is loaded is the   *)
(* one that was saved, positions and expansion state included.             *)
CheckpointLoads ==
  phase = "between" =>
    \A loaded \in {Loaded(Written(nodes))} : Accepts(loaded) /\ loaded = nodes

(* Every solve call returns, whatever limits it has: an expansion always   *)
(* decides a node, adds one, or finds a limit reached.                     *)
SolveReturns == phase # "between" ~> phase = "between"

(* "Versioned checkpoints preserve the proof tree and deterministic        *)
(* expansion state": the loaded solver would do to the node that is next   *)
(* what the running one would, adopt a known result or expand it.          *)
ResumeExpandsAlike ==
  phase = "between" /\ nodes[1].outcome = "Unknown" =>
    LET next == MostProving(nodes)
    IN Adoptable(nodes, exact, next) = {} <=> Adoptable(nodes, Rebuilt(nodes), next) = {}
=============================================================================
