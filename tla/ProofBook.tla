------------------------------ MODULE ProofBook ------------------------------
(***************************************************************************)
(* The strategy an offline solver exports for a proven root, as a book of  *)
(* entries keyed by canonical position, and the verification a book has to *)
(* pass before anything uses it.  The program solves, exports, writes the  *)
(* book and verifies what it reads back; all of it is a function of the    *)
(* solver's tree.                                                          *)
(***************************************************************************)
EXTENDS OfflineSolver, BookVerifier
-----------------------------------------------------------------------------
(* export_node. *)

Won(k) == nodes[k].position.winner = attacker
Kind(k) == nodes[k].evidence.kind

(* Of the proven children, the one with the least canonical move. *)
ProvenChild(k) ==
  LET proven == {j \in Children(nodes, k) : nodes[j].outcome = "ProvenWin"}
      Index(j) == CanonicalMove(nodes[k].position, nodes[j].via)
  IN CHOOSE j \in proven : \A i \in proven : Index(j) <= Index(i)

Continues(k) ==
  IF Won(k) THEN {}
  ELSE IF Kind(k) = "Cached" THEN {nodes[k].evidence.source}
  ELSE IF Kind(k) # "Aggregated" THEN {}
  ELSE IF IsOr(nodes, k) THEN {ProvenChild(k)}
  ELSE Children(nodes, k)

Exported ==
  LET reached[k \in DOMAIN nodes] == {k} \cup UNION {reached[j] : j \in Continues(k)}
  IN reached[1]

Plies ==
  LET plies[k \in DOMAIN nodes] ==
        IF Won(k) THEN 0
        ELSE IF Kind(k) = "Immediate" THEN VerifyImmediate(attacker, nodes[k].position)
        ELSE IF Kind(k) = "Tactical" THEN TacticPlies
        ELSE IF Kind(k) = "Cached" THEN plies[nodes[k].evidence.source]
        ELSE 1 + Max({plies[j] : j \in Continues(k)})
  IN plies

(* StoredAction: the move of an OR node or of a tactical line, canonical. *)
Action(k) ==
  LET p == nodes[k].position
      Does(kind, at) == [kind |-> kind, at |-> at, limits |-> nodes[k].evidence.limits]
  IN CASE Kind(k) = "Immediate" /\ IsOr(nodes, k) ->
            Does("move", CanonicalMove(p, Min(Wins(p, attacker))))
       [] Kind(k) = "Immediate" /\ ~IsOr(nodes, k) -> Does("immediate", Nothing)
       [] Kind(k) = "Tactical" -> Does("tactic", CanonicalMove(p, TacticalAttempt(attacker, p)))
       [] Kind(k) = "Aggregated" /\ IsOr(nodes, k) ->
            Does("move", CanonicalMove(p, nodes[ProvenChild(k)].via))
       [] Kind(k) = "Aggregated" /\ ~IsOr(nodes, k) -> Does("all", Nothing)

Entries ==
  {[key |-> Key(nodes[k].position), action |-> Action(k), plies |-> Plies[k]] :
     k \in {j \in Exported : ~Won(j) /\ Kind(j) # "Cached"}}

(* export_proof_book refuses two strategies for one position. *)
Conflicting == \E e, f \in Entries : e.key = f.key /\ e # f

(* The record the solver was created for. *)
RootRecord == CHOOSE moves \in Roots : Replay(moves).position = nodes[1].position

-----------------------------------------------------------------------------
Solved == phase = "between" /\ nodes[1].outcome = "ProvenWin"

(* finish_solve: the book is written, read back and verified. *)
Verifies == Passes(BookFile(attacker, RootRecord, Entries))

-----------------------------------------------------------------------------
(* A proven root has a book: its entries, taken from nodes that were       *)
(* solved apart, never disagree on the strategy of one position, the cache *)
(* "preserving the first completed node as the canonical source".          *)
ExportSucceeds == Solved => ~Conflicting

(* An exported book passes the verification, tactical leaves included: "a  *)
(* fresh verifier can reproduce the proof".                                *)
ExportVerifies == Solved /\ ~Conflicting => Verifies

(* A book of moves and immediate facts passes the verification: whatever   *)
(* orientation the walk meets a position in, the entry's move leads to a   *)
(* position with an entry, every reply of the defender does, the distances *)
(* add up, and nothing is stored that no line of the strategy reaches.     *)
StrategyVerifies ==
  Solved /\ ~Conflicting /\ (\A e \in Entries : e.action.kind # "tactic") => Verifies
=============================================================================
