----------------------------- MODULE BookedSearch -----------------------------
(***************************************************************************)
(* The opening builder and the engine that plays from its file: builds,    *)
(* crashes and merges of OpeningBook go on until a program loads a file    *)
(* into its engine and searches, with RootSearch.                          *)
(***************************************************************************)
EXTENDS RootSearch, OpeningBook

CONSTANT Askings   \* the requests for a search with openings

ASSUME AskingAssumption == \A asked \in Askings : asked.policy \in {"BookMove", "OrderOnly"}

(* A search with openings is not asked for before there is a file of them. *)
BookedInit == Init /\ BuilderInit

Waits == stage = "begin" /\ request.policy # "None" /\ opening = Nothing

(* read_from_path and set_opening_database: a database of another model is *)
(* refused, and the engine searches without it.                            *)
Attach ==
  /\ Waits /\ build = Nothing
  /\ request' \in Askings
  /\ \E name \in {n \in Names : files[n] # Nothing} :
       /\ Readable(files[name])
       /\ opening' = [database |-> files[name],
                      policy |-> IF files[name].identity.model = request'.loaded THEN request'.policy ELSE "None"]
  /\ UNCHANGED <<stage, budget, result, proof, interior, hint, builder>>

BuildStep == Waits /\ BuilderNext /\ UNCHANGED vars
SearchStep == ~Waits /\ Next /\ UNCHANGED builder

BookedNext == Attach \/ BuildStep \/ SearchStep
BookedSpec == BookedInit /\ [][BookedNext]_<<vars, builder>>

(* BuildsAgree, between builds: a crash shows what any of them leaves at any time. *)
OpeningsAgree == Waits /\ build = Nothing => BuildsAgree
===============================================================================
