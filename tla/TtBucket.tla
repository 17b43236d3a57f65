------------------------------ MODULE TtBucket ------------------------------
(***************************************************************************)
(* One transposition-table bucket as a value: what store_with_outcome of   *)
(* transposition_table.rs writes into a bucket whose contents it has read. *)
(* The score and the best move of an entry share its payload word with the *)
(* depth, the bound and the generation and are never looked at here.       *)
(***************************************************************************)
EXTENDS Integers

CONSTANTS
  NSlots,        \* ENTRIES_PER_BUCKET
  Keys,          \* full Zobrist keys mapping to this bucket
  Depths,        \* u8 depths
  Generations    \* number of generation values, 2^8 in the code

ASSUME BucketAssumption ==
  /\ NSlots \in Nat \ {0}
  /\ Keys \subseteq Nat
  /\ Depths \subseteq Nat
  /\ Generations \in Nat \ {0}

Slots == 1..NSlots

(* The payload word; the all-zero one is Bound::Empty. *)
Payload   == [depth : Depths, bound : {"Exact", "Lower", "Upper"},
              generation : 0..Generations - 1]
NoPayload == [depth |-> 0, bound |-> "Empty", generation |-> 0]

(* A slot holds a key word and a payload word; the key word of a slot that *)
(* was never written is 0, which is also a legal key.                      *)
Entry == [key : Keys, payload : Payload]
Empty == [key |-> 0, payload |-> NoPayload]

(* decode_payload: only the bound says whether there is an entry. *)
Occupied(slot) == slot.payload.bound # "Empty"

(* The slots an entry may go to. *)
Matching(contents, entry) ==
  {s \in Slots : Occupied(contents[s]) /\ contents[s].key = entry.key}
Vacant(contents) == {s \in Slots : ~Occupied(contents[s])}

First(slots) == CHOOSE s \in slots : \A t \in slots : s <= t

(* Mutant: an equally deep bound displaces an Exact entry. *)
RejectsShallowerOnly(current, entry) == entry.payload.depth < current.payload.depth

(* The same key is already there with something better. *)
Rejects(current, entry) ==
  \/ entry.payload.depth < current.payload.depth
  \/ /\ entry.payload.depth = current.payload.depth
     /\ current.payload.bound = "Exact"
     /\ entry.payload.bound # "Exact"

(* Mutant: ages are not taken modulo the generation counter. *)
QualityWithoutWrap(slot, now) ==
  slot.payload.depth + (IF slot.payload.bound = "Exact" THEN 4 ELSE 0)
    - 4 * (now - slot.payload.generation)

(* replacement_priority: four plies buy one generation, Exact another. *)
Quality(slot, now) ==
  slot.payload.depth + (IF slot.payload.bound = "Exact" THEN 4 ELSE 0)
    - 4 * ((now - slot.payload.generation) % Generations)

Cheapest(contents, now) ==
  First({s \in Slots : \A t \in Slots : Quality(contents[s], now) <= Quality(contents[t], now)})

(* A refused store still refreshes the age of what is kept. *)
Refreshed(current, entry) ==
  [key |-> current.key,
   payload |-> [depth |-> current.payload.depth, bound |-> current.payload.bound,
                generation |-> entry.payload.generation]]

(* The slot written, what is written into it, and the TtStoreOutcome. *)
Decision(contents, entry) ==
  IF Matching(contents, entry) # {}
  THEN LET s == First(Matching(contents, entry))
           refused == Rejects(contents[s], entry)
       IN [slot |-> s, stored |-> ~refused, replacement |-> FALSE,
           written |-> IF refused THEN Refreshed(contents[s], entry) ELSE entry]
  ELSE IF Vacant(contents) # {}
  THEN [slot |-> First(Vacant(contents)), stored |-> TRUE, replacement |-> FALSE,
        written |-> entry]
  ELSE [slot |-> Cheapest(contents, entry.payload.generation), stored |-> TRUE,
        replacement |-> TRUE, written |-> entry]

StoreInto(contents, entry) ==
  LET d == Decision(contents, entry) IN [contents EXCEPT ![d.slot] = d.written]

(* Contents a bucket can have: no key is in two slots. *)
Buckets ==
  {c \in [Slots -> Entry \cup {Empty}] :
     \A s, u \in Slots : Occupied(c[s]) /\ Occupied(c[u]) /\ c[s].key = c[u].key => s = u}

Holds(contents, key) == \E s \in Slots : Occupied(contents[s]) /\ contents[s].key = key

(* The slots whose entry a store loses. *)
Lost(contents, entry) ==
  {s \in Slots : Occupied(contents[s]) /\ ~Holds(StoreInto(contents, entry), contents[s].key)}
===============================================================================
