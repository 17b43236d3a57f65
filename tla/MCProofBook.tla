----------------------------- MODULE MCProofBook -----------------------------
(* Offline solving on the boards of Board: some roots.  *)
EXTENDS ProofBook, Board

AfterCornerReply == {<<5, 1>>}
FirstInner == {<<6>>}
SecondInner == {<<10>>}
=============================================================================
