--------------------------- MODULE MCOfflineSolver ---------------------------
(* Roots whose trees use every kind of evidence. *)
EXTENDS MCProofBook, OfflineOutcomes

SomeRoots == {<<5, 2>>, <<1, 5, 9>>, <<1, 4, 2, 5, 3>>}
=============================================================================
