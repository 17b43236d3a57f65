----------------------------- MODULE MCDiskSolver -----------------------------
(* The disk-backed search on the boards of Board, with the tactic and the  *)
(* game itself it has as references.                                       *)
EXTENDS DiskSolver, BookVerifier, Board

Search(attacker, root, leaf, plies) ==
  [attacker |-> attacker, root |-> root, leaf |-> leaf, plies |-> plies]

SomeSearches ==
  {Search("Black", <<1, 2, 4>>, "immediate", 6), Search("Black", <<5, 2, 1, 9, 3>>, "immediate", 3),
   Search("Black", <<1, 5, 9, 3>>, "tactic", 3), Search("Black", <<1, 5, 9, 3>>, "tactic", 2),
   Search("White", <<1, 2, 5>>, "tactic", 4)}
OneSearch == {Search("Black", <<5, 2>>, "immediate", 7)}

Reachable == PlayedFrom({Replay(c.root).position : c \in Configurations})
ForcedWins == [stone \in Stones |-> {p.cells : p \in {q \in Reachable : Forces(q, stone)}}]

(* Whatever is interrupted, resumed, shared between paths or merged: a row *)
(* that is decided, also in a transaction that is still open, has the      *)
(* outcome the rules and all legal replies give its position.              *)
WorkingOutcomesAreTrue ==
  \A n \in ToSet(open.nodes) :
    n.outcome # "Unknown" =>
      (n.outcome = "ProvenWin") = (n.position.cells \in ForcedWins[config.attacker])

(* The strategy exported for a verified win passes the independent check   *)
(* of the engine, which shares nothing with the search: each of its entries *)
(* is reached and right, and it needs no more plies than are allowed.       *)
PublishedStrategyVerifies ==
  phase = "check" /\ ~Undecided /\ Accepted(open, 1)
    /\ open.nodes[1].outcome = "ProvenWin" /\ Terminal(open.nodes[1]) = "Unknown"
    => /\ Passes(BookFile(config.attacker, open.nodes[1].moves, Range(Book(open, 1))))
       /\ Distances(open)[1] <= config.plies
===============================================================================
