----------------------------- MODULE BookVerifier -----------------------------
(***************************************************************************)
(* The verification a proof book has to pass before anything uses it: a    *)
(* walk from its root through the entries of the positions it meets.  The  *)
(* entries of a book are a function from canonical keys; a file of one is  *)
(* its roots and the set of what is stored for its keys.                   *)
(***************************************************************************)
EXTENDS CanonicalPosition

(* tactical: the leaf is proved once more, and its line begins as stored. *)
Reproved(attacker, p, stored) ==
  LET fresh == TacticalAttempt(attacker, p)
  IN fresh # Nothing /\ fresh = FromCanonical(p, stored)

Refused == {Nothing}

Allowed(attacker, p, action) ==
  CASE action.kind = "move" -> p.side = attacker /\ Legal(p, FromCanonical(p, action.at))
    [] action.kind = "all" -> p.side # attacker
    [] action.kind = "immediate" -> p.side # attacker /\ VerifyImmediate(attacker, p) # Nothing
    [] action.kind = "tactic" -> Reproved(attacker, p, action.at)

(* The positions an action goes on to, in the order they are visited. *)
Visits(p, action) ==
  LET moves == CASE action.kind = "move" -> {FromCanonical(p, action.at)}
                 [] action.kind = "all" -> Empties(p)
                 [] action.kind \in {"immediate", "tactic"} -> {}
  IN [i \in DOMAIN InOrder(moves) |-> MakeMove(p, InOrder(moves)[i])]

Distance(attacker, book, p) == IF p.winner = attacker THEN 0 ELSE book[Key(p)].plies

Computed(attacker, book, p, action) ==
  CASE action.kind \in {"move", "all"} ->
         1 + Max({Distance(attacker, book, q) : q \in ToSet(Visits(p, action))})
    [] action.kind = "immediate" -> VerifyImmediate(attacker, p)
    [] action.kind = "tactic" -> TacticPlies

(* The keys verified so far and those of this position and what it visits. *)
(* A position met a second time, in whatever orientation, is not looked at *)
(* again.                                                                  *)
RECURSIVE Verified(_, _, _, _)
Verified(attacker, book, p, keys) ==
  IF keys = Refused THEN Refused
  ELSE IF p.winner = attacker THEN keys
  ELSE IF p.winner # Nothing \/ IsFull(p) \/ Key(p) \notin DOMAIN book THEN Refused
  ELSE IF Key(p) \in keys THEN keys
  ELSE LET entry == book[Key(p)]
           Visit(known, q) == Verified(attacker, book, q, known)
           found == FoldLeft(Visit, keys, Visits(p, entry.action))
       IN IF ~Allowed(attacker, p, entry.action) \/ found = Refused THEN Refused
          ELSE IF Computed(attacker, book, p, entry.action) # entry.plies THEN Refused
          ELSE found \cup {Key(p)}

-----------------------------------------------------------------------------
(* The file of a book with one root, written and published. *)
BookFile(attacker, record, entries) ==
  [roots |-> {[attacker |-> attacker, moves |-> record, key |-> Key(Replay(record).position)]},
   entries |-> entries]

(* What is read back is in strict order of keys: one entry for each. *)
Parsed(file) == \A e, f \in file.entries : e.key = f.key => e = f

(* verify_controlled: a record replays to the key of its root, no two roots *)
(* are the same, the walk is accepted, and no entry is out of its reach.    *)
Passes(file) ==
  LET book == [key \in {e.key : e \in file.entries} |-> CHOOSE e \in file.entries : e.key = key]
      Found(root) == Verified(root.attacker, book, Replay(root.moves).position, {})
  IN /\ file.roots # {} /\ Parsed(file)
     /\ \A root \in file.roots :
          /\ IsRecord(root.moves) /\ Key(Replay(root.moves).position) = root.key
          /\ \A other \in file.roots : other.key = root.key => other = root
          /\ Found(root) # Refused
     /\ UNION {Found(root) : root \in file.roots} = DOMAIN book
=============================================================================
