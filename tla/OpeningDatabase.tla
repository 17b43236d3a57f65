--------------------------- MODULE OpeningDatabase ---------------------------
(***************************************************************************)
(* The opening database (opening_database.rs): for one identity of engine, *)
(* model and build options, the scored moves of positions up to symmetry.  *)
(* A database is a record of its identity and a function from canonical    *)
(* keys to sequences of moves, the best first, as the canonical board lies. *)
(***************************************************************************)
EXTENDS CanonicalPosition

CONSTANTS
  MaxEntries,    \* MAX_ENTRIES
  MaxScore       \* the largest score of an entry, either way

Error == Nothing

EmptyDatabase(identity) == [identity |-> identity, entries |-> <<>>]

(* Better moves first, equal ones by index. *)
Better(m, n) == m.score > n.score \/ (m.score = n.score /\ m.at < n.at)
Ranked(moves) ==
  LET rank == [m \in moves |-> 1 + Cardinality({n \in moves : Better(n, m)})]
  IN [i \in 1..Cardinality(moves) |-> CHOOSE m \in moves : rank[m] = i]

(* validate_entry, of the moves. *)
Valid(moves) ==
  /\ moves # {} /\ Cardinality(moves) <= Cardinality(Cells)
  /\ \A m \in moves : m.score \in -MaxScore..MaxScore /\ \A n \in moves : m.at = n.at => m = n

(* insert_canonical: another entry of the same key is a conflict. *)
Inserted(db, key, entry) ==
  IF key \in DOMAIN db.entries
  THEN IF db.entries[key] = entry THEN db ELSE Error
  ELSE IF Cardinality(DOMAIN db.entries) >= MaxEntries THEN Error
  ELSE [db EXCEPT !.entries = @ @@ (key :> entry)]

Insert(db, p, moves) ==
  IF ~Valid(moves) \/ \E m \in moves : ~Legal(p, m.at) THEN Error
  ELSE Inserted(db, Key(p), Ranked({[m EXCEPT !.at = CanonicalMove(p, @)] : m \in moves}))

(* Mutant: the moves are given as the canonical board lies. *)
QueryAsStored(db, p, identity) ==
  IF db.identity # identity \/ Key(p) \notin DOMAIN db.entries THEN Error ELSE db.entries[Key(p)]

(* query: the moves as this board lies. *)
Query(db, p, identity) ==
  IF db.identity # identity \/ Key(p) \notin DOMAIN db.entries THEN Error
  ELSE LET moves == [i \in DOMAIN db.entries[Key(p)] |->
                       [db.entries[Key(p)][i] EXCEPT !.at = FromCanonical(p, @)]]
       IN IF \A i \in DOMAIN moves : Legal(p, moves[i].at) THEN moves ELSE Error

(* merge: all conflicts are looked for before anything is taken over. *)
Merge(db, other) ==
  LET both == DOMAIN db.entries \cup DOMAIN other.entries
  IN IF \/ db.identity # other.identity
        \/ \E key \in DOMAIN db.entries \cap DOMAIN other.entries : db.entries[key] # other.entries[key]
        \/ Cardinality(both) > MaxEntries
     THEN Error
     ELSE [db EXCEPT !.entries = other.entries @@ @]

(* read_from, of what a file holds: a function has each key once. *)
Readable(db) ==
  /\ Cardinality(DOMAIN db.entries) <= MaxEntries
  /\ \A key \in DOMAIN db.entries :
       LET moves == ToSet(db.entries[key])
       IN Valid(moves) /\ Cardinality(moves) = Len(db.entries[key])
          /\ \A m \in moves : key.cells[m.at] = Nothing

-----------------------------------------------------------------------------
(* protected_moves: the fives of either side. *)
ProtectedMoves(p) == Wins(p, p.side) \cup Wins(p, Opponent(p.side))

StonesOf(key) == {c \in Cells : key.cells[c] # Nothing}

(* start_keys: the positions of so many stones. *)
StartKeys(db, least, most) == {key \in DOMAIN db.entries : Cardinality(StonesOf(key)) \in least..most}

(* replay_start: the stones of a key in the order of their indices, Black  *)
(* and White in turn; the record has to lead back to the key.              *)
ReplayStart(key) ==
  LET of(stone) == InOrder({c \in Cells : key.cells[c] = stone})
      Turn(ply) == IF ply % 2 = 1 THEN "Black" ELSE "White"
      count == Cardinality(StonesOf(key))
      complete == \A ply \in 1..count : (ply + 1) \div 2 \in DOMAIN of(Turn(ply))
      record == [ply \in 1..count |-> of(Turn(ply))[(ply + 1) \div 2]]
  IN IF ~complete THEN Error
     ELSE IF ~IsRecord(record) THEN Error
     ELSE LET p == Replay(record).position
          IN IF p.winner # Nothing \/ IsFull(p) \/ Key(p) # key THEN Error ELSE record
=============================================================================
