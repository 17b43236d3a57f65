-------------------------- MODULE TtSeqlockProofs --------------------------
(***************************************************************************)
(* Proofs about the sequence lock of a transposition table's bucket, for   *)
(* every number of threads, slots, keys, depths and versions.              *)
(*                                                                         *)
(* The argument.  The version word counts: its message i carries i - 1, so *)
(* its odd messages publish the bucket's epochs and its even ones are      *)
(* claims (VersionInv).  An epoch's publication carries its writer's view, *)
(* which says how much of each word the epoch stands on (End, EpochInv).   *)
(* Three facts about views make the protocol work:                         *)
(*   - whoever has seen a publication has seen all the epoch stands on     *)
(*     (ClosedInv: the Release store and the Acquire loads);               *)
(*   - whatever was written to a word after an epoch carries the claim     *)
(*     that ended the epoch (OrderInv: a writer claims before it writes,   *)
(*     and its stores are Release);                                        *)
(*   - between a publication and the next claim nobody writes (FreshInv).  *)
(* So a reader that loads a word newer than its epoch has seen the claim   *)
(* (ReaderInv), its check of the version fails, and a snapshot that is     *)
(* confirmed is one whole epoch (SnapshotIsWhole).  A writer's claim is a  *)
(* read-modify-write of the newest version, so it excludes every other     *)
(* writer and hands it the newest epoch to decide on (WriterInv).          *)
(*                                                                         *)
(* First comes what one store does to a bucket.  It writes one slot        *)
(* (DecisionIs): the slot of its key when there is one, else a vacant one, *)
(* else the one of least quality, which exists because qualities are       *)
(* integers bounded from below (QualityIsInt, CheapestIs).  Everything     *)
(* else stays.  Then one lemma per kind of step on the memory, one per     *)
(* action on the threads, and last the atomic bucket is refined.           *)
(***************************************************************************)
EXTENDS TtSeqlock, WellFoundedInduction, SequenceTheorems, TLAPS

USE BucketAssumption

(* A set of naturals has a least element. *)
LEMMA LeastNumber ==
  ASSUME NEW T \in SUBSET Nat, T # {}
  PROVE  \E n \in T : \A m \in T : n <= m
<1>1. PICK n \in T : \A m \in T : <<m, n>> \notin OpToRel(<, Nat)
  BY WFMin, NatLessThanWellFounded, Zenon
<1>2. \A m \in T : ~ (m < n)
  BY <1>1, Zenon DEF OpToRel
<1> QED
  BY <1>2

(* First is the least slot of a set. *)
LEMMA FirstIs ==
  ASSUME NEW T \in SUBSET Slots, T # {}
  PROVE  First(T) \in T /\ \A s \in T : First(T) <= s
<1>1. \E s \in T : \A t \in T : s <= t
  BY LeastNumber DEF Slots
<1> QED
  BY <1>1 DEF First

(* What is left modulo the generations is a generation. *)
LEMMA Remainder ==
  ASSUME NEW n \in Int
  PROVE  n % Generations \in 0..Generations - 1
  OBVIOUS

(* An entry is never an empty slot, and what its fields can be. *)
LEMMA SlotFacts ==
  /\ Empty.key = 0
  /\ Empty.payload = NoPayload
  /\ ~Occupied(Empty)
  /\ NoPayload \notin Payload
  /\ Empty \notin Entry
  /\ \A e \in Entry : /\ Occupied(e) /\ e.key \in Keys /\ e.payload \in Payload
                      /\ e.payload.depth \in Nat /\ e.payload.depth \in Depths
                      /\ e.payload.bound \in {"Exact", "Lower", "Upper"}
                      /\ e.payload.generation \in 0..Generations - 1
                      /\ e = [key |-> e.key, payload |-> e.payload]
<1>1. NoPayload.bound = "Empty"
  BY DEF NoPayload
<1>2. \A p \in Payload : /\ p.bound \in {"Exact", "Lower", "Upper"} /\ p.depth \in Depths
                         /\ p.generation \in 0..Generations - 1
  BY DEF Payload
<1>3. \A e \in Entry : e.key \in Keys /\ e.payload \in Payload /\ e = [key |-> e.key, payload |-> e.payload]
  BY DEF Entry
<1> QED
  BY <1>1, <1>2, <1>3 DEF Empty, Occupied

(* The quality of a slot is an integer, bounded from below. *)
LEMMA QualityIsInt ==
  ASSUME NEW slot \in Entry \cup {Empty}, NEW now \in Int
  PROVE  /\ slot.payload.depth \in Nat
         /\ (now - slot.payload.generation) % Generations \in 0..Generations - 1
         /\ Quality(slot, now) \in Int
         /\ Quality(slot, now) >= -4 * Generations
<1>1. slot.payload.depth \in Nat /\ slot.payload.generation \in Int
  BY SlotFacts DEF NoPayload
<1>2. (now - slot.payload.generation) % Generations \in 0..Generations - 1
  <2> DEFINE n == now - slot.payload.generation
  <2>1. n \in Int
    BY <1>1
  <2> HIDE DEF n
  <2>2. n % Generations \in 0..Generations - 1
    BY <2>1
  <2> QED
    BY <2>2 DEF n
<1> DEFINE age == (now - slot.payload.generation) % Generations
<1> HIDE DEF age
<1>3. Quality(slot, now) = slot.payload.depth + (IF slot.payload.bound = "Exact" THEN 4 ELSE 0) - 4 * age
  BY DEF Quality, age
<1>4. age \in 0..Generations - 1
  BY <1>2 DEF age
<1> QED
  BY <1>1, <1>2, <1>3, <1>4

(* The victim of a replacement has the least quality. *)
LEMMA CheapestIs ==
  ASSUME NEW c \in Buckets, NEW now \in Int
  PROVE  /\ Cheapest(c, now) \in Slots
         /\ \A s \in Slots : Quality(c[Cheapest(c, now)], now) <= Quality(c[s], now)
<1> DEFINE q(s) == Quality(c[s], now)
           Best == {s \in Slots : \A t \in Slots : q(s) <= q(t)}
           T == {n \in Nat : \E s \in Slots : n = q(s) + 4 * Generations}
<1>1. \A s \in Slots : q(s) \in Int /\ q(s) + 4 * Generations \in Nat
  BY QualityIsInt DEF Buckets
<1> HIDE DEF q
<1>2. T # {} /\ T \in SUBSET Nat
  BY <1>1 DEF Slots
<1>3. PICK n \in T : \A m \in T : n <= m
  BY <1>2, LeastNumber
<1>4. PICK s \in Slots : n = q(s) + 4 * Generations
  BY <1>3
<1>5. \A t \in Slots : q(s) <= q(t)
  BY <1>1, <1>3, <1>4
<1>6. Best # {} /\ Best \in SUBSET Slots
  BY <1>4, <1>5
<1>7. First(Best) \in Best
  BY <1>6, FirstIs
<1>8. Cheapest(c, now) = First(Best)
  BY DEF Cheapest, q
<1> QED
  BY <1>7, <1>8 DEF q

(* Which slot a store writes, and what. *)
LEMMA DecisionIs ==
  ASSUME NEW c \in Buckets, NEW e \in Entry
  PROVE  LET d == Decision(c, e) IN
         /\ d.slot \in Slots
         /\ d.written \in Entry
         /\ d.written.key = e.key
         /\ d.stored \in BOOLEAN /\ d.replacement \in BOOLEAN
         /\ \A s \in Slots : Occupied(c[s]) /\ c[s].key = e.key => s = d.slot
         /\ \/ /\ Occupied(c[d.slot]) /\ c[d.slot].key = e.key
               /\ IF Rejects(c[d.slot], e) THEN d.written = Refreshed(c[d.slot], e)
                                            ELSE d.written = e
            \/ ~Occupied(c[d.slot])
            \/ /\ \A s \in Slots : Occupied(c[s]) /\ c[s].key # e.key
               /\ d.slot = Cheapest(c, e.payload.generation)
<1> DEFINE d == Decision(c, e)
<1>1. c \in [Slots -> Entry \cup {Empty}]
  BY DEF Buckets
<1>2. CASE Matching(c, e) # {}
  <2> DEFINE s == First(Matching(c, e))
  <2>1. s \in Slots /\ Occupied(c[s]) /\ c[s].key = e.key
    <3>1. Matching(c, e) \in SUBSET Slots
      BY DEF Matching
    <3>2. s \in Matching(c, e)
      BY <1>2, <3>1, FirstIs
    <3> QED
      BY <3>2 DEF Matching
  <2>2. c[s] \in Entry
    BY <1>1, <2>1, SlotFacts
  <2> HIDE DEF s
  <2>3. Refreshed(c[s], e) \in Entry /\ Refreshed(c[s], e).key = e.key
    BY <2>1, <2>2, SlotFacts DEF Refreshed, Entry, Payload
  <2>4. \A t \in Slots : Occupied(c[t]) /\ c[t].key = e.key => t = s
    BY <2>1 DEF Buckets
  <2>5. d = [slot |-> s, stored |-> ~Rejects(c[s], e), replacement |-> FALSE,
             written |-> IF Rejects(c[s], e) THEN Refreshed(c[s], e) ELSE e]
    BY <1>2 DEF Decision, s
  <2>6. /\ d.slot = s /\ d.stored = ~Rejects(c[s], e) /\ d.replacement = FALSE
        /\ d.written = IF Rejects(c[s], e) THEN Refreshed(c[s], e) ELSE e
    BY <2>5
  <2>7. d.stored \in BOOLEAN
    BY <2>6
  <2> HIDE DEF d
  <2> QED
    BY <2>1, <2>3, <2>4, <2>6, <2>7 DEF d
<1>3. CASE Matching(c, e) = {}
  <2>1. \A t \in Slots : ~(Occupied(c[t]) /\ c[t].key = e.key)
    BY <1>3 DEF Matching
  <2>2. CASE Vacant(c) # {}
    <3>1. Vacant(c) \in SUBSET Slots
      BY DEF Vacant
    <3>2. First(Vacant(c)) \in Slots /\ ~Occupied(c[First(Vacant(c))])
      BY <2>2, <3>1, FirstIs DEF Vacant
    <3>3. d = [slot |-> First(Vacant(c)), stored |-> TRUE, replacement |-> FALSE, written |-> e]
      BY <1>3, <2>2 DEF Decision
    <3>4. d.slot = First(Vacant(c)) /\ d.stored = TRUE /\ d.replacement = FALSE /\ d.written = e
      BY <3>3
    <3> HIDE DEF d
    <3> QED
      BY <2>1, <3>2, <3>4 DEF d
  <2>3. CASE Vacant(c) = {}
    <3>1. \A s \in Slots : Occupied(c[s])
      BY <2>3 DEF Vacant
    <3>2. Cheapest(c, e.payload.generation) \in Slots
      BY SlotFacts, CheapestIs
    <3>3. d = [slot |-> Cheapest(c, e.payload.generation), stored |-> TRUE,
               replacement |-> TRUE, written |-> e]
      BY <1>3, <2>3 DEF Decision
    <3>4. /\ d.slot = Cheapest(c, e.payload.generation) /\ d.stored = TRUE
          /\ d.replacement = TRUE /\ d.written = e
      BY <3>3
    <3> HIDE DEF d
    <3> QED
      BY <2>1, <3>1, <3>2, <3>4 DEF d
  <2> QED
    BY <2>2, <2>3
<1> QED
  BY <1>2, <1>3

(* What a store leaves. *)
LEMMA StoreIs ==
  ASSUME NEW c \in Buckets, NEW e \in Entry
  PROVE  /\ StoreInto(c, e) \in [Slots -> Entry \cup {Empty}]
         /\ StoreInto(c, e)[Decision(c, e).slot] = Decision(c, e).written
         /\ \A s \in Slots : s # Decision(c, e).slot => StoreInto(c, e)[s] = c[s]
<1>1. c \in [Slots -> Entry \cup {Empty}]
  BY DEF Buckets
<1>2. Decision(c, e).slot \in Slots /\ Decision(c, e).written \in Entry
  BY DecisionIs
<1> QED
  BY <1>1, <1>2 DEF StoreInto

(* No key gets into two slots. *)
THEOREM StoreKeepsBucket ==
  ASSUME NEW c \in Buckets, NEW e \in Entry
  PROVE  StoreInto(c, e) \in Buckets
<1> DEFINE n == StoreInto(c, e)  d == Decision(c, e)
<1>1. \A s, u \in Slots : Occupied(c[s]) /\ Occupied(c[u]) /\ c[s].key = c[u].key => s = u
  BY DEF Buckets
<1>2. \A s \in Slots : Occupied(c[s]) /\ c[s].key = e.key => s = d.slot
  BY DecisionIs
<1>3. d.written.key = e.key
  BY DecisionIs
<1>4. /\ n \in [Slots -> Entry \cup {Empty}]
      /\ n[d.slot] = d.written
      /\ \A s \in Slots : s # d.slot => n[s] = c[s]
  BY StoreIs
<1> HIDE DEF n, d
<1>5. \A s, u \in Slots : Occupied(n[s]) /\ Occupied(n[u]) /\ n[s].key = n[u].key => s = u
  BY <1>1, <1>2, <1>3, <1>4
<1> QED
  BY <1>4, <1>5 DEF n, Buckets

(* Storing does not make what is known of a key worse. *)
THEOREM StoreKeepsKnowledge ==
  ASSUME NEW c \in Buckets, NEW e \in Entry, NEW s \in Slots, NEW u \in Slots,
         Occupied(c[s]), Occupied(StoreInto(c, e)[u]), c[s].key = StoreInto(c, e)[u].key
  PROVE  LET old == c[s].payload new == StoreInto(c, e)[u].payload
         IN /\ old.depth <= new.depth
            /\ old.depth = new.depth /\ old.bound = "Exact" => new.bound = "Exact"
<1> DEFINE n == StoreInto(c, e)  d == Decision(c, e)
<1>1. /\ n[d.slot] = d.written
      /\ \A t \in Slots : t # d.slot => n[t] = c[t]
  BY StoreIs
<1>2. c[s] \in Entry
  BY SlotFacts DEF Buckets
<1>3. c[s].payload.depth \in Nat /\ e.payload.depth \in Nat
  BY <1>2, SlotFacts
<1>4. CASE u # d.slot
  <2>1. n[u] = c[u]
    BY <1>1, <1>4
  <2>2. u = s
    BY <2>1 DEF Buckets
  <2> QED
    BY <2>1, <2>2, <1>3
<1>5. CASE u = d.slot
  <2>1. c[s].key = e.key
    BY <1>1, <1>5, DecisionIs
  <2>2. s = d.slot
    BY <2>1, DecisionIs
  <2>3. IF Rejects(c[s], e) THEN d.written = Refreshed(c[s], e) ELSE d.written = e
    BY <2>1, <2>2, DecisionIs
  <2>4. CASE Rejects(c[s], e)
    BY <1>1, <1>3, <1>5, <2>3, <2>4 DEF Refreshed
  <2>5. CASE ~Rejects(c[s], e)
    BY <1>1, <1>3, <1>5, <2>3, <2>5 DEF Rejects
  <2> QED
    BY <2>4, <2>5
<1> QED
  BY <1>4, <1>5

(* At most one entry is lost, and none that is better than a kept one. *)
THEOREM StoreLosesTheCheapest ==
  ASSUME NEW c \in Buckets, NEW e \in Entry, NEW s \in Lost(c, e), NEW u \in Slots \ {s}
  PROVE  LET gone == c[s].payload
             kept == c[u].payload
             AgeOf(payload) == (e.payload.generation - payload.generation) % Generations
         IN /\ Occupied(c[u]) /\ u \notin Lost(c, e)
            /\ ~ /\ kept.depth < gone.depth
                 /\ kept.bound = "Exact" => gone.bound = "Exact"
                 /\ AgeOf(gone) <= AgeOf(kept)
<1> DEFINE n == StoreInto(c, e)  d == Decision(c, e)  now == e.payload.generation
           age(x) == (now - x.payload.generation) % Generations
<1>1. /\ n[d.slot] = d.written
      /\ \A t \in Slots : t # d.slot => n[t] = c[t]
  BY StoreIs
<1>2. s \in Slots /\ Occupied(c[s]) /\ \A t \in Slots : ~(Occupied(n[t]) /\ n[t].key = c[s].key)
  BY DEF Lost, Holds
<1>3. s = d.slot
  BY <1>1, <1>2
<1>4. d.written \in Entry /\ d.written.key = e.key /\ Occupied(d.written)
  BY DecisionIs, SlotFacts
<1>5. c[s].key # e.key
  BY <1>1, <1>2, <1>3, <1>4
<1>6. (\A t \in Slots : Occupied(c[t])) /\ s = Cheapest(c, now)
  BY <1>2, <1>3, <1>5, DecisionIs
<1>7. Occupied(c[u]) /\ u \notin Lost(c, e)
  BY <1>1, <1>3, <1>6 DEF Lost, Holds
<1>8. now \in Int
  BY SlotFacts
<1>9. Quality(c[s], now) <= Quality(c[u], now)
  BY <1>6, <1>8, CheapestIs
<1>10. /\ c[s].payload.depth \in Nat /\ c[u].payload.depth \in Nat
       /\ age(c[s]) \in Int /\ age(c[u]) \in Int
  <2>1. \A t \in Slots : c[t] \in Entry \cup {Empty}
    BY DEF Buckets
  <2>2. \A t \in Slots : c[t].payload.depth \in Nat /\ age(c[t]) \in 0..Generations - 1
    BY <1>8, <2>1, QualityIsInt
  <2> HIDE DEF age
  <2> QED
    BY <1>2, <2>2
<1>11. /\ Quality(c[s], now) = c[s].payload.depth + (IF c[s].payload.bound = "Exact" THEN 4 ELSE 0) - 4 * age(c[s])
       /\ Quality(c[u], now) = c[u].payload.depth + (IF c[u].payload.bound = "Exact" THEN 4 ELSE 0) - 4 * age(c[u])
  BY DEF Quality
<1> HIDE DEF age
<1>12. ~ /\ c[u].payload.depth < c[s].payload.depth
         /\ c[u].payload.bound = "Exact" => c[s].payload.bound = "Exact"
         /\ age(c[s]) <= age(c[u])
  BY <1>9, <1>10, <1>11
<1> QED
  BY <1>7, <1>12 DEF age

-----------------------------------------------------------------------------

(* What a word can hold, and what a message of a location is. *)
Values(l) ==
  IF l = Version THEN 0..VersionMax
  ELSE IF \E s \in Slots : l = KeyWord(s) THEN Keys \cup {0}
  ELSE Payload \cup {NoPayload}

Views == [Locations -> Nat \ {0}]
Message(l) == [value : Values(l), sees : Views]

Answer ==
  {NoAnswer, Missed, Dropped} \cup {Hit(c) : c \in Buckets}
    \cup [kind : {"store"}, stored : BOOLEAN, replacement : BOOLEAN]

LoadedWord == UNION {Values(l) : l \in Words}

MemoryType ==
  /\ DOMAIN history = Locations
  /\ \A l \in Locations : history[l] \in Seq(Message(l)) /\ history[l] # <<>>
  /\ view \in [Threads -> Views]
  /\ epochs \in Seq(Buckets) /\ epochs # <<>>

LocalsType ==
  /\ pc \in [Threads -> {"idle", "before", "load", "after", "even", "claim", "key",
                         "payload", "publish", "count"}]
  /\ attempt \in [Threads -> 0..2]
  /\ storing \in [Threads -> Entries \cup {Empty}]
  /\ before \in [Threads -> 0..VersionMax]
  /\ loaded \in [Threads -> Seq(LoadedWord)]
  /\ answer \in [Threads -> Answer]

LastEpoch == Len(epochs)
Versions == Len(history[Version])

(* How much of word l epoch e stands on. *)
End(h, e, l) == h[Version][2 * e - 1].sees[l]

(* The version word counts: message i carries i - 1.  Odd messages publish *)
(* an epoch, an even one that is the last is a claim.                      *)
VersionInv ==
  /\ Versions \in {2 * LastEpoch - 1, 2 * LastEpoch}
  /\ Versions <= VersionMax
  /\ \A i \in 1..Versions : history[Version][i].value = i - 1 /\ history[Version][i].sees[Version] = i

EpochInv ==
  /\ \A e \in 1..LastEpoch : \A l \in Words :
       /\ End(history, e, l) <= Len(history[l])
       /\ history[l][End(history, e, l)].value = WordOf(epochs[e], l)
  /\ \A e \in 1..LastEpoch - 1 : \E entry \in Entry : epochs[e + 1] = StoreInto(epochs[e], entry)

(* What was written to a word after an epoch carries a later claim along.  *)
OrderInv ==
  \A l \in Words : \A i \in 1..Len(history[l]) : \A e \in 1..LastEpoch :
    i > End(history, e, l) => history[l][i].sees[Version] >= 2 * e

(* Whoever has seen an epoch has seen what it stands on. *)
Closed(v, h, n) ==
  /\ \A l \in Locations : v[l] <= Len(h[l])
  /\ \A e \in 1..n : v[Version] >= 2 * e - 1 => \A l \in Words : v[l] >= End(h, e, l)

ClosedInv ==
  /\ \A t \in Threads : Closed(view[t], history, LastEpoch)
  /\ \A l \in Locations : \A i \in 1..Len(history[l]) : Closed(history[l][i].sees, history, LastEpoch)

FreshInv == Versions = 2 * LastEpoch - 1 => \A l \in Words : End(history, LastEpoch, l) = Len(history[l])

Epoch(t) == epochs[before[t] \div 2 + 1]

Stores(t) == storing[t] # Empty

(* Where each operation's locals stand. *)
LocalInv(t) ==
  /\ pc[t] \in {"idle", "before", "after"} => storing[t] = Empty
  /\ pc[t] \in {"even", "claim", "key", "payload", "publish", "count"} => Stores(t)
  /\ pc[t] \in {"idle", "before", "even", "claim"} => loaded[t] = <<>>
  /\ pc[t] = "load" => Len(loaded[t]) < 2 * NSlots
  /\ pc[t] \in {"after", "key", "payload", "publish", "count"} => Len(loaded[t]) = 2 * NSlots
  /\ pc[t] = "claim" => before[t] % 2 = 0 /\ before[t] + 2 < VersionMax
  /\ pc[t] = "count" => Contents(t) \in Buckets

(* A snapshot's words are one epoch's, or the thread has already seen the  *)
(* claim that ended it.                                                    *)
ReaderInv(t) ==
  pc[t] \in {"load", "after"} /\ ~Stores(t) =>
    /\ before[t] % 2 = 0
    /\ before[t] + 1 <= view[t][Version]
    /\ \A l \in 1..Len(loaded[t]) :
         \/ loaded[t][l] = WordOf(Epoch(t), l)
         \/ view[t][Version] >= before[t] + 2

(* A claim holder is alone and has seen everything; what it loads is the   *)
(* newest epoch, which it turns into the next one word by word.            *)
WriterInv(t) ==
  Claimed(t) =>
    /\ Versions = 2 * LastEpoch
    /\ before[t] = Versions - 1
    /\ Versions + 1 <= VersionMax
    /\ \A u \in Threads : Claimed(u) => u = t
    /\ \A l \in Locations : view[t][l] = Len(history[l])
    /\ \A l \in 1..Len(loaded[t]) : loaded[t][l] = WordOf(epochs[LastEpoch], l)
    /\ pc[t] \in {"load", "key"} =>
         \A l \in Words : LastValue(l) = WordOf(epochs[LastEpoch], l)
    /\ pc[t] = "payload" =>
         \A l \in Words : LastValue(l) = IF l = KeyWord(Chosen(t).slot)
                                         THEN Chosen(t).written.key
                                         ELSE WordOf(epochs[LastEpoch], l)
    /\ pc[t] = "publish" =>
         \A l \in Words : LastValue(l) = WordOf(StoreInto(epochs[LastEpoch], storing[t]), l)

MemoryInv == MemoryType /\ VersionInv /\ EpochInv /\ OrderInv /\ ClosedInv /\ FreshInv

ThreadInv(t) == LocalInv(t) /\ ReaderInv(t) /\ WriterInv(t)

IInv == MemoryInv /\ LocalsType /\ replacements \in Nat /\ \A t \in Threads : ThreadInv(t)

-----------------------------------------------------------------------------
USE SeqlockAssumption

(* Odd and even numbers. *)
LEMMA Parity == \A k \in Int : (2 * k) % 2 = 0 /\ (2 * k - 1) % 2 = 1 /\ (2 * k + 1) % 2 = 1
  OBVIOUS

(* The key and payload words of the slots are all the words, and distinct. *)
LEMMA WordFacts ==
  /\ Version \in Locations /\ Version \notin Words /\ Words \subseteq Locations
  /\ \A l \in Locations : l # Version => l \in Words
  /\ \A s \in Slots : KeyWord(s) \in Words /\ PayloadWord(s) \in Words
  /\ \A s, u \in Slots : KeyWord(s) # PayloadWord(u)
  /\ \A s, u \in Slots : KeyWord(s) = KeyWord(u) => s = u
  /\ \A s, u \in Slots : PayloadWord(s) = PayloadWord(u) => s = u
  /\ \A l \in Words : \E s \in Slots : l = KeyWord(s) \/ l = PayloadWord(s)
<1>1. \A l \in Words : \E s \in Slots : l = KeyWord(s) \/ l = PayloadWord(s)
  <2> SUFFICES ASSUME NEW l \in 1..2 * NSlots
               PROVE  \E s \in 1..NSlots : l = 2 * s - 1 \/ l = 2 * s
    BY DEF Words, Slots, KeyWord, PayloadWord
  <2>1. (l + 1) \div 2 \in 1..NSlots
    OBVIOUS
  <2>2. l = 2 * ((l + 1) \div 2) - 1 \/ l = 2 * ((l + 1) \div 2)
    OBVIOUS
  <2> QED
    BY <2>1, <2>2
<1>2. /\ \A s \in Slots : KeyWord(s) \in Words /\ PayloadWord(s) \in Words
      /\ \A s, u \in Slots : KeyWord(s) # PayloadWord(u)
      /\ \A s, u \in Slots : KeyWord(s) = KeyWord(u) => s = u
      /\ \A s, u \in Slots : PayloadWord(s) = PayloadWord(u) => s = u
  BY DEF Words, Slots, KeyWord, PayloadWord
<1> QED
  BY <1>1, <1>2 DEF Version, Locations, Words

(* Every word of a bucket is one of its slots' key or payload. *)
LEMMA WordOfIs ==
  ASSUME NEW c
  PROVE  \A s \in Slots : WordOf(c, KeyWord(s)) = c[s].key /\ WordOf(c, PayloadWord(s)) = c[s].payload
<1> TAKE s \in Slots
<1>1. KeyWord(s) # Version /\ PayloadWord(s) # Version
  BY WordFacts
<1>2. (CHOOSE u \in Slots : KeyWord(s) = KeyWord(u)) = s
  BY WordFacts
<1>3. (CHOOSE u \in Slots : PayloadWord(s) = PayloadWord(u)) = s
  BY WordFacts
<1>4. ~\E u \in Slots : PayloadWord(s) = KeyWord(u)
  BY WordFacts
<1> QED
  BY <1>1, <1>2, <1>3, <1>4 DEF WordOf

(* A cleared bucket is a bucket. *)
LEMMA BlankIs == Blank \in Buckets
  BY SlotFacts DEF Blank, Buckets

(* What a bucket's words can hold. *)
LEMMA WordTypes ==
  ASSUME NEW c \in Buckets, NEW l \in Locations
  PROVE  WordOf(c, l) \in Values(l)
<1>1. CASE l = Version
  BY <1>1 DEF WordOf, Values
<1>2. CASE l # Version
  <2>1. PICK s \in Slots : l = KeyWord(s) \/ l = PayloadWord(s)
    BY <1>2, WordFacts
  <2>2. c[s] \in Entry \cup {Empty}
    BY DEF Buckets
  <2>3. c[s].key \in Keys \cup {0} /\ c[s].payload \in Payload \cup {NoPayload}
    BY <2>2, SlotFacts
  <2>4. CASE l = KeyWord(s)
    BY <1>2, <2>3, <2>4, WordOfIs DEF Values
  <2>5. CASE l = PayloadWord(s)
    <3>1. ~\E u \in Slots : l = KeyWord(u)
      BY <2>5, WordFacts
    <3> QED
      BY <1>2, <2>3, <2>5, <3>1, WordOfIs DEF Values
  <2> QED
    BY <2>1, <2>4, <2>5
<1> QED
  BY <1>1, <1>2

(* The words of what a store leaves. *)
LEMMA StoredWords ==
  ASSUME NEW c \in Buckets, NEW e \in Entry, NEW l \in Words
  PROVE  WordOf(StoreInto(c, e), l) =
           IF l = KeyWord(Decision(c, e).slot) THEN Decision(c, e).written.key
           ELSE IF l = PayloadWord(Decision(c, e).slot) THEN Decision(c, e).written.payload
           ELSE WordOf(c, l)
<1> DEFINE n == StoreInto(c, e)  d == Decision(c, e)
<1>1. PICK s \in Slots : l = KeyWord(s) \/ l = PayloadWord(s)
  BY WordFacts
<1>2. d.slot \in Slots /\ n[d.slot] = d.written /\ (s # d.slot => n[s] = c[s])
  BY StoreIs, DecisionIs
<1>3. /\ WordOf(n, KeyWord(s)) = n[s].key /\ WordOf(n, PayloadWord(s)) = n[s].payload
      /\ WordOf(c, KeyWord(s)) = c[s].key /\ WordOf(c, PayloadWord(s)) = c[s].payload
  BY WordOfIs
<1> HIDE DEF n, d
<1>4. WordOf(n, l) = IF l = KeyWord(d.slot) THEN d.written.key
                     ELSE IF l = PayloadWord(d.slot) THEN d.written.payload ELSE WordOf(c, l)
  BY <1>1, <1>2, <1>3, WordFacts
<1> QED
  BY <1>4 DEF n, d

(* A thread that has loaded every word of a bucket decodes that bucket. *)
LEMMA Decoded ==
  ASSUME NEW t \in Threads, NEW c \in Buckets,
         \A l \in Words : loaded[t][l] = WordOf(c, l)
  PROVE  Contents(t) = c
<1>1. c \in [Slots -> Entry \cup {Empty}]
  BY DEF Buckets
<1>2. \A s \in Slots : c[s] = [key |-> c[s].key, payload |-> c[s].payload]
  BY <1>1, SlotFacts DEF Empty
<1>3. \A s \in Slots : loaded[t][KeyWord(s)] = c[s].key /\ loaded[t][PayloadWord(s)] = c[s].payload
  BY WordFacts, WordOfIs
<1>4. c = [s \in Slots |-> [key |-> c[s].key, payload |-> c[s].payload]]
  BY <1>1, <1>2
<1> QED
  BY <1>3, <1>4 DEF Contents

-----------------------------------------------------------------------------
(* The memory. *)

(* What the invariant says of each message. *)
LEMMA MemoryFacts ==
  ASSUME MemoryType
  PROVE  /\ \A l \in Locations :
              /\ Len(history[l]) \in Nat \ {0}
              /\ DOMAIN history[l] = 1..Len(history[l])
              /\ \A i \in 1..Len(history[l]) :
                   /\ history[l][i] \in Message(l)
                   /\ history[l][i].value \in Values(l)
                   /\ history[l][i].sees \in Views
                   /\ \A m \in Locations : history[l][i].sees[m] \in Nat \ {0}
         /\ \A t \in Threads : view[t] \in Views /\ \A l \in Locations : view[t][l] \in Nat \ {0}
         /\ LastEpoch \in Nat \ {0}
         /\ DOMAIN epochs = 1..LastEpoch
         /\ \A e \in 1..LastEpoch : epochs[e] \in Buckets
<1>1. ASSUME NEW l \in Locations
      PROVE  /\ Len(history[l]) \in Nat \ {0}
             /\ DOMAIN history[l] = 1..Len(history[l])
             /\ \A i \in 1..Len(history[l]) : history[l][i] \in Message(l)
  <2>1. history[l] \in Seq(Message(l)) /\ history[l] # <<>>
    BY DEF MemoryType
  <2> QED
    BY <2>1, LenProperties, EmptySeq, ElementOfSeq
<1>2. ASSUME NEW l \in Locations, NEW m \in Message(l)
      PROVE  m.value \in Values(l) /\ m.sees \in Views /\ \A k \in Locations : m.sees[k] \in Nat \ {0}
  BY DEF Message, Views
<1>3. \A t \in Threads : view[t] \in Views /\ \A l \in Locations : view[t][l] \in Nat \ {0}
  BY DEF MemoryType, Views
<1>4. LastEpoch \in Nat \ {0} /\ DOMAIN epochs = 1..LastEpoch /\ \A e \in 1..LastEpoch : epochs[e] \in Buckets
  BY LenProperties, EmptySeq, ElementOfSeq DEF MemoryType, LastEpoch
<1> QED
  BY <1>1, <1>2, <1>3, <1>4

(* The odd version messages are the epochs'. *)
LEMMA EpochMessages ==
  ASSUME MemoryType, VersionInv, NEW e \in 1..LastEpoch
  PROVE  /\ 2 * e - 1 \in 1..Versions
         /\ \A l \in Locations : End(history, e, l) \in Nat \ {0}
<1>1. LastEpoch \in Nat \ {0} /\ Versions \in Nat
  BY MemoryFacts, WordFacts DEF Versions
<1>2. 2 * e - 1 \in 1..Versions
  BY <1>1 DEF VersionInv
<1> QED
  BY <1>2, MemoryFacts, WordFacts DEF End, Versions

(* A merged view is the later of two, location by location. *)
LEMMA MergeIs ==
  ASSUME NEW v \in Views, NEW w \in Views
  PROVE  /\ Merge(v, w) \in Views
         /\ \A l \in Locations : /\ Merge(v, w)[l] >= v[l] /\ Merge(v, w)[l] >= w[l]
                                 /\ Merge(v, w)[l] \in {v[l], w[l]}
  BY DEF Merge, Views

(* An Acquire load leaves a view that is as closed as before. *)
LEMMA ReadKeepsMemory ==
  ASSUME MemoryInv, NEW t \in Threads, NEW l \in Locations, NEW i \in Readable(t, l),
         Read(t, l, i), UNCHANGED <<history, epochs>>
  PROVE  /\ MemoryInv'
         /\ i \in 1..Len(history[l])
         /\ \A u \in Threads \ {t} : view'[u] = view[u]
         /\ \A m \in Locations : view'[t][m] >= view[t][m]
         /\ view'[t][l] >= i
         /\ \A m \in Locations : view'[t][m] >= history[l][i].sees[m]
         /\ l = Version => view'[t][Version] = i
<1> DEFINE w == [view[t] EXCEPT ![l] = i]
           sees == history[l][i].sees
           v == Merge(w, sees)
<1>1. i \in 1..Len(history[l]) /\ i >= view[t][l]
  BY MemoryFacts DEF Readable, MemoryInv
<1>2. sees \in Views /\ Closed(sees, history, LastEpoch) /\ Closed(view[t], history, LastEpoch) /\ view[t] \in Views
  BY <1>1, MemoryFacts DEF MemoryInv, ClosedInv
<1>3. /\ w \in Views /\ w[l] = i
      /\ \A m \in Locations : m # l => w[m] = view[t][m]
      /\ \A m \in Locations : w[m] >= view[t][m]
  <2>1. i \in Nat \ {0} /\ \A m \in Locations : view[t][m] \in Nat
    BY <1>1, MemoryFacts DEF MemoryInv
  <2> HIDE DEF sees, v
  <2> QED
    BY <1>1, <1>2, <2>1 DEF Views
<1>4. v \in Views /\ \A m \in Locations : /\ v[m] >= w[m] /\ v[m] >= sees[m]
                                          /\ v[m] \in {w[m], sees[m]}
  BY <1>2, <1>3, MergeIs
<1>5. /\ view' \in [Threads -> Views]
      /\ view'[t] = v
      /\ \A u \in Threads \ {t} : view'[u] = view[u]
  BY <1>4 DEF Read, MemoryInv, MemoryType
<1> HIDE DEF v, w, sees
<1>6. \A m \in Locations : v[m] >= view[t][m]
  BY <1>2, <1>3, <1>4 DEF Views
<1>7. l = Version => v[Version] = i
  <2> SUFFICES ASSUME l = Version PROVE v[Version] = i
    OBVIOUS
  <2>1. sees[Version] = i
    BY <1>1 DEF sees, MemoryInv, VersionInv, Versions
  <2> QED
    BY <1>3, <1>4, <2>1, WordFacts
<1>8. Closed(v, history, LastEpoch)
  <2>1. \A m \in Locations : v[m] <= Len(history[m])
    BY <1>1, <1>2, <1>3, <1>4 DEF Closed
  <2>2. ASSUME NEW e \in 1..LastEpoch, v[Version] >= 2 * e - 1, NEW m \in Words
        PROVE  v[m] >= End(history, e, m)
    <3>1. m \in Locations /\ Version \in Locations /\ m # Version
      BY WordFacts
    <3>2. End(history, e, m) \in Nat /\ LastEpoch \in Nat
      BY <3>1, EpochMessages, MemoryFacts DEF MemoryInv
    <3>3. v[m] \in Nat /\ w[m] \in Nat /\ sees[m] \in Nat /\ view[t][m] \in Nat
      BY <1>2, <1>3, <1>4, <3>1 DEF Views
    <3>4. CASE sees[Version] >= 2 * e - 1
      <4>1. sees[m] >= End(history, e, m)
        BY <1>2, <3>4 DEF Closed, End
      <4> QED
        BY <1>4, <3>1, <3>2, <3>3, <4>1
    <3>5. CASE ~(sees[Version] >= 2 * e - 1)
      <4>1. v[Version] # sees[Version]
        BY <2>2, <3>5
      <4>2. v[Version] = w[Version]
        BY <1>4, <3>1, <4>1
      <4>3. l # Version
        BY <1>7, <1>1, <3>5, <2>2 DEF sees, MemoryInv, VersionInv, Versions
      <4>4. view[t][Version] >= 2 * e - 1
        BY <1>3, <2>2, <3>1, <4>2, <4>3
      <4>5. view[t][m] >= End(history, e, m)
        BY <1>2, <4>4 DEF Closed, End
      <4> QED
        BY <1>6, <3>1, <3>2, <3>3, <4>5
    <3> QED
      BY <3>4, <3>5
  <2> QED
    BY <2>1, <2>2 DEF Closed, End
<1>9. MemoryInv'
  <2>1. MemoryType'
    BY <1>5 DEF MemoryInv, MemoryType, Message, Views, Values
  <2>2. VersionInv' /\ EpochInv' /\ OrderInv' /\ FreshInv'
    BY DEF MemoryInv, VersionInv, EpochInv, OrderInv, FreshInv, Versions, LastEpoch, End
  <2>3. ClosedInv'
    <3>1. \A u \in Threads : Closed(view'[u], history, LastEpoch)
      BY <1>2, <1>5, <1>8 DEF MemoryInv, ClosedInv
    <3> QED
      BY <3>1 DEF MemoryInv, ClosedInv, LastEpoch
  <2> QED
    BY <2>1, <2>2, <2>3 DEF MemoryInv
<1> QED
  BY <1>1, <1>3, <1>4, <1>5, <1>6, <1>7, <1>9 DEF sees, Views

(* A store appends one message to one location. *)
LEMMA AppendsMessage ==
  ASSUME MemoryType, NEW l \in Locations, NEW m \in Message(l),
         history' = [history EXCEPT ![l] = Append(@, m)]
  PROVE  /\ DOMAIN history' = Locations
         /\ \A k \in Locations : k # l => history'[k] = history[k]
         /\ history'[l] \in Seq(Message(l)) /\ history'[l] # <<>>
         /\ Len(history'[l]) = Len(history[l]) + 1
         /\ \A i \in 1..Len(history[l]) : history'[l][i] = history[l][i]
         /\ history'[l][Len(history[l]) + 1] = m
<1>1. history[l] \in Seq(Message(l)) /\ DOMAIN history = Locations
  BY DEF MemoryType
<1>2. history'[l] = Append(history[l], m) /\ DOMAIN history' = Locations
      /\ \A k \in Locations : k # l => history'[k] = history[k]
  BY <1>1
<1>3. /\ Append(history[l], m) \in Seq(Message(l))
      /\ Len(Append(history[l], m)) = Len(history[l]) + 1
      /\ \A i \in 1..Len(history[l]) : Append(history[l], m)[i] = history[l][i]
      /\ Append(history[l], m)[Len(history[l]) + 1] = m
  BY <1>1, AppendProperties
<1>4. Append(history[l], m) # <<>>
  BY <1>1, <1>3, LenProperties, EmptySeq
<1> QED
  BY <1>2, <1>3, <1>4

(* The claim holder's store of a word. *)
LEMMA WriteKeepsMemory ==
  ASSUME MemoryInv, NEW t \in Threads, NEW l \in Words, NEW value \in Values(l),
         Write(t, l, value), epochs' = epochs,
         Versions = 2 * LastEpoch,
         \A k \in Locations : view[t][k] = Len(history[k])
  PROVE  /\ MemoryInv'
         /\ Versions' = Versions /\ LastEpoch' = LastEpoch
         /\ LastValue(l)' = value
         /\ \A k \in Locations : k # l => LastValue(k)' = LastValue(k)
         /\ \A k \in Locations : view'[t][k] = Len(history'[k])
         /\ \A u \in Threads \ {t} : view'[u] = view[u]
<1> DEFINE sees == [view[t] EXCEPT ![l] = Len(history[l]) + 1]
           m == [value |-> value, sees |-> sees]
<1>1. l \in Locations /\ Version \in Locations /\ l # Version
  BY WordFacts
<1>2. Len(history[l]) \in Nat \ {0} /\ view[t] \in Views /\ LastEpoch \in Nat \ {0}
  BY <1>1, MemoryFacts DEF MemoryInv
<1>3. /\ sees \in Views /\ sees[l] = Len(history[l]) + 1
      /\ \A k \in Locations : k # l => sees[k] = Len(history[k])
  BY <1>1, <1>2 DEF Views
<1>4. m \in Message(l) /\ m.value = value /\ m.sees = sees
  BY <1>3 DEF Message
<1>5. history' = [history EXCEPT ![l] = Append(@, m)] /\ view' = [view EXCEPT ![t] = sees]
  BY DEF Write
<1> HIDE DEF m, sees
<1>6. /\ DOMAIN history' = Locations
      /\ \A k \in Locations : k # l => history'[k] = history[k]
      /\ history'[l] \in Seq(Message(l)) /\ history'[l] # <<>>
      /\ Len(history'[l]) = Len(history[l]) + 1
      /\ \A i \in 1..Len(history[l]) : history'[l][i] = history[l][i]
      /\ history'[l][Len(history[l]) + 1] = m
  BY <1>1, <1>4, <1>5, AppendsMessage DEF MemoryInv
<1>7. view' \in [Threads -> Views] /\ view'[t] = sees /\ \A u \in Threads \ {t} : view'[u] = view[u]
  BY <1>3, <1>5 DEF MemoryInv, MemoryType
<1>8. history'[Version] = history[Version] /\ Versions' = Versions /\ LastEpoch' = LastEpoch
  BY <1>1, <1>6 DEF Versions, LastEpoch
<1>9. \A e \in 1..LastEpoch : \A k \in Locations : End(history', e, k) = End(history, e, k)
  BY <1>8 DEF End
<1>10. \A k \in Locations : Len(history[k]) \in Nat /\ Len(history'[k]) \in Nat
                            /\ Len(history'[k]) >= Len(history[k])
  BY <1>6, MemoryFacts DEF MemoryInv
<1>11. \A k \in Locations : \A i \in 1..Len(history[k]) : history'[k][i] = history[k][i]
  BY <1>6
<1>12. \A k \in Locations : view'[t][k] = Len(history'[k])
  BY <1>3, <1>6, <1>7
<1>13. ASSUME NEW v \in Views, Closed(v, history, LastEpoch) PROVE Closed(v, history', LastEpoch)
  <2>1. \A k \in Locations : v[k] \in Nat
    BY DEF Views
  <2> QED
    BY <1>8, <1>9, <1>10, <1>13, <2>1, WordFacts DEF Closed, End
<1>14. Closed(sees, history', LastEpoch)
  <2>1. \A e \in 1..LastEpoch : \A k \in Words : End(history, e, k) \in Nat /\ End(history, e, k) <= Len(history[k])
    BY EpochMessages, WordFacts DEF MemoryInv, EpochInv
  <2>2. \A k \in Locations : sees[k] = Len(history'[k])
    BY <1>7, <1>12
  <2>3. ASSUME NEW e \in 1..LastEpoch, NEW k \in Words
        PROVE  sees[k] >= End(history', e, k)
    <3>1. End(history', e, k) = End(history, e, k)
      BY <1>8 DEF End
    <3>2. k \in Locations
      BY WordFacts
    <3> QED
      BY <1>10, <2>1, <2>2, <3>1, <3>2
  <2> QED
    BY <1>10, <2>2, <2>3 DEF Closed
<1>15. MemoryInv'
  <2>1. MemoryType'
    BY <1>1, <1>6, <1>7 DEF MemoryInv, MemoryType, Message, Values, Views
  <2>2. VersionInv'
    BY <1>8 DEF MemoryInv, VersionInv
  <2>3. EpochInv'
    <3>1. ASSUME NEW e \in 1..LastEpoch, NEW k \in Words
          PROVE  /\ End(history', e, k) <= Len(history'[k])
                 /\ history'[k][End(history', e, k)].value = WordOf(epochs'[e], k)
      <4>1. k \in Locations /\ End(history, e, k) \in Nat \ {0} /\ End(history, e, k) <= Len(history[k])
            /\ history[k][End(history, e, k)].value = WordOf(epochs[e], k)
        BY EpochMessages, WordFacts DEF MemoryInv, EpochInv
      <4> QED
        BY <1>9, <1>10, <1>11, <4>1
    <3> QED
      BY <1>8, <3>1 DEF MemoryInv, EpochInv
  <2>4. OrderInv'
    <3>1. ASSUME NEW k \in Words, NEW i \in 1..Len(history'[k]), NEW e \in 1..LastEpoch, i > End(history, e, k)
          PROVE  history'[k][i].sees[Version] >= 2 * e
      <4>1. CASE i \in 1..Len(history[k])
        BY <1>11, <3>1, <4>1, WordFacts DEF MemoryInv, OrderInv
      <4>2. CASE i \notin 1..Len(history[k])
        <5>1. k = l /\ i = Len(history[l]) + 1
          BY <1>2, <1>6, <4>2, WordFacts
        <5>2. history'[k][i].sees[Version] = Versions
          BY <1>1, <1>3, <1>4, <1>6, <5>1 DEF Versions
        <5> QED
          BY <1>2, <5>2
      <4> QED
        BY <4>1, <4>2
    <3> QED
      BY <1>8, <1>9, <3>1, WordFacts DEF OrderInv
  <2>5. ClosedInv'
    <3>1. \A u \in Threads : Closed(view'[u], history', LastEpoch)
      BY <1>7, <1>13, <1>14, MemoryFacts DEF MemoryInv, ClosedInv
    <3>2. ASSUME NEW k \in Locations, NEW i \in 1..Len(history'[k])
          PROVE  Closed(history'[k][i].sees, history', LastEpoch)
      <4>1. CASE i \in 1..Len(history[k])
        <5>1. Closed(history[k][i].sees, history, LastEpoch) /\ history[k][i].sees \in Views
          BY <4>1, MemoryFacts DEF MemoryInv, ClosedInv
        <5> QED
          BY <1>11, <1>13, <4>1, <5>1
      <4>2. CASE i \notin 1..Len(history[k])
        <5>1. k = l /\ i = Len(history[l]) + 1
          BY <1>2, <1>6, <4>2
        <5> QED
          BY <1>4, <1>6, <1>14, <5>1
      <4> QED
        BY <4>1, <4>2
    <3> QED
      BY <1>8, <3>1, <3>2 DEF ClosedInv
  <2>6. FreshInv'
    BY <1>2, <1>8 DEF FreshInv
  <2> QED
    BY <2>1, <2>2, <2>3, <2>4, <2>5, <2>6 DEF MemoryInv
<1>16. LastValue(l)' = value /\ \A k \in Locations : k # l => LastValue(k)' = LastValue(k)
  BY <1>1, <1>4, <1>6 DEF LastValue
<1> QED
  BY <1>7, <1>8, <1>12, <1>15, <1>16

(* What is small is its own remainder. *)
LEMMA SmallRemainder ==
  ASSUME NEW m \in Nat \ {0}, NEW n \in 0..m - 1
  PROVE  n % m = n
<1> DEFINE q == n \div m  r == n % m
<1>1. n = m * q + r
  OBVIOUS
<1>2. q \in Int /\ r \in 0..m - 1
  OBVIOUS
<1> HIDE DEF q, r
<1>3. q = 0
  <2>1. ASSUME q >= 1 PROVE FALSE
    <3>1. m * q >= m
      BY <1>2, <2>1
    <3> QED
      BY <1>1, <1>2, <3>1
  <2>2. ASSUME q <= -1 PROVE FALSE
    <3>1. m * q <= -m
      BY <1>2, <2>2
    <3> QED
      BY <1>1, <1>2, <3>1
  <2> QED
    BY <1>2, <2>1, <2>2
<1> QED
  BY <1>1, <1>2, <1>3 DEF r

(* Below its maximum a version does not wrap. *)
LEMMA FollowingIs ==
  ASSUME NEW version \in 0..VersionMax - 1
  PROVE  Following(version) = version + 1
<1>1. VersionMax + 1 \in Nat \ {0} /\ version + 1 \in 0..(VersionMax + 1) - 1
  BY SeqlockAssumption
<1> QED
  BY <1>1, SmallRemainder DEF Following

(* A compare-and-exchange that succeeds: nobody had claimed the bucket, so *)
(* what its last publisher had seen is all there is.                       *)
LEMMA ClaimKeepsMemory ==
  ASSUME MemoryInv, LocalsType, NEW t \in Threads, LocalInv(t), Claim(t)
  PROVE  /\ MemoryInv'
         /\ Versions = 2 * LastEpoch - 1 /\ before[t] = Versions - 1
         /\ Versions + 2 <= VersionMax
         /\ Versions' = Versions + 1 /\ LastEpoch' = LastEpoch
         /\ \A k \in Words : LastValue(k) = WordOf(epochs[LastEpoch], k)
         /\ \A k \in Words : LastValue(k)' = LastValue(k)
         /\ \A k \in Locations : view'[t][k] = Len(history'[k])
         /\ \A u \in Threads \ {t} : view'[u] = view[u]
<1> DEFINE b == before[t]
           last == history[Version][Versions].sees
           sees == [Merge(view[t], last) EXCEPT ![Version] = Versions + 1]
           m == [value |-> b + 1, sees |-> sees]
<1>a. b \in Nat /\ b % 2 = 0 /\ b + 2 < VersionMax
  BY DEF Claim, LocalInv, LocalsType
<1>c. Following(b) = b + 1
  <2>1. b \in 0..VersionMax - 1
    BY <1>a DEF LocalsType
  <2> QED
    BY <2>1, FollowingIs
<1>b. /\ LastValue(Version) = b
      /\ history' = [history EXCEPT ![Version] = Append(@, m)]
      /\ view' = [view EXCEPT ![t] = sees]
      /\ epochs' = epochs
  BY <1>c DEF Claim, Versions
<1> HIDE DEF m, sees, last, b
<1>1. Version \in Locations /\ Versions \in Nat \ {0} /\ LastEpoch \in Nat \ {0}
  BY WordFacts, MemoryFacts DEF MemoryInv, Versions
<1>2. b = Versions - 1
  <2>1. LastValue(Version) = history[Version][Versions].value
    BY DEF LastValue, Versions
  <2>2. Versions \in 1..Versions
    BY <1>1
  <2>3. history[Version][Versions].value = Versions - 1
    BY <2>2 DEF MemoryInv, VersionInv
  <2> QED
    BY <1>b, <2>1, <2>3
<1>3. Versions = 2 * LastEpoch - 1
  <2>1. Versions \in {2 * LastEpoch - 1, 2 * LastEpoch}
    BY DEF MemoryInv, VersionInv
  <2>2. ASSUME Versions = 2 * LastEpoch PROVE FALSE
    <3>1. b = 2 * LastEpoch - 1
      BY <1>2, <2>2
    <3> QED
      BY <1>1, <1>a, <3>1, Parity
  <2> QED
    BY <2>1, <2>2
<1>4. \A k \in Words : last[k] = Len(history[k])
  BY <1>3 DEF MemoryInv, FreshInv, End, last
<1>5. view[t] \in Views /\ last \in Views /\ \A k \in Locations : view[t][k] <= Len(history[k])
  BY <1>1, MemoryFacts DEF MemoryInv, ClosedInv, Closed, Versions, last
<1>6. /\ sees \in Views
      /\ sees[Version] = Versions + 1
      /\ \A k \in Words : sees[k] = Len(history[k])
  <2> DEFINE v == Merge(view[t], last)
  <2>1. v \in Views /\ \A k \in Locations : v[k] >= last[k] /\ v[k] \in {view[t][k], last[k]}
    BY <1>5, MergeIs
  <2> HIDE DEF v
  <2>2. sees = [v EXCEPT ![Version] = Versions + 1]
    BY DEF v, sees
  <2>3. sees \in Views /\ sees[Version] = Versions + 1 /\ \A k \in Words : sees[k] = v[k]
    <3>1. DOMAIN v = Locations /\ \A k \in Locations : v[k] \in Nat \ {0}
      BY <2>1 DEF Views
    <3>2. DOMAIN sees = Locations /\ sees[Version] = Versions + 1
          /\ \A k \in Locations : k # Version => sees[k] = v[k]
      BY <1>1, <2>2, <3>1
    <3>3. sees = [k \in Locations |-> sees[k]]
      BY <2>2, <3>1, <3>2
    <3>4. \A k \in Locations : sees[k] \in Nat \ {0}
      BY <1>1, <3>1, <3>2
    <3> QED
      BY <3>2, <3>3, <3>4, WordFacts DEF Views
  <2>4. \A k \in Words : v[k] = Len(history[k])
    <3> SUFFICES ASSUME NEW k \in Words PROVE v[k] = Len(history[k])
      OBVIOUS
    <3>1. k \in Locations /\ view[t][k] \in Nat /\ Len(history[k]) \in Nat
      BY WordFacts, MemoryFacts DEF MemoryInv
    <3> QED
      BY <1>4, <1>5, <2>1, <3>1
  <2> QED
    BY <2>3, <2>4
<1>7. m \in Message(Version) /\ m.value = Versions /\ m.sees = sees
  <2>1. b + 1 \in 0..VersionMax /\ b + 1 = Versions
    BY <1>1, <1>2, <1>a
  <2> QED
    BY <1>6, <2>1 DEF Message, Values, m
<1>8. Versions + 2 <= VersionMax
  BY <1>1, <1>2, <1>a
<1>9. /\ DOMAIN history' = Locations
      /\ \A k \in Locations : k # Version => history'[k] = history[k]
      /\ history'[Version] \in Seq(Message(Version)) /\ history'[Version] # <<>>
      /\ Versions' = Versions + 1
      /\ \A i \in 1..Versions : history'[Version][i] = history[Version][i]
      /\ history'[Version][Versions + 1] = m
  BY <1>1, <1>7, <1>b, AppendsMessage DEF MemoryInv, Versions
<1>10. view' \in [Threads -> Views] /\ view'[t] = sees /\ \A u \in Threads \ {t} : view'[u] = view[u]
  BY <1>6, <1>b DEF MemoryInv, MemoryType
<1>11. LastEpoch' = LastEpoch
  BY <1>b DEF LastEpoch
<1>12. \A k \in Words : history'[k] = history[k]
  BY <1>9, WordFacts
<1>13. \A e \in 1..LastEpoch : \A k \in Locations : End(history', e, k) = End(history, e, k)
  BY <1>9, EpochMessages DEF MemoryInv, End
<1>14. \A k \in Locations : view'[t][k] = Len(history'[k])
  BY <1>6, <1>9, <1>10, <1>12, WordFacts DEF Versions
<1>15. ASSUME NEW v \in Views, Closed(v, history, LastEpoch) PROVE Closed(v, history', LastEpoch)
  <2>1. \A k \in Locations : v[k] \in Nat /\ Len(history[k]) \in Nat /\ v[k] <= Len(history[k])
    BY <1>15, MemoryFacts DEF Views, MemoryInv, Closed
  <2>2. \A k \in Locations : v[k] <= Len(history'[k])
    BY <1>1, <1>9, <2>1 DEF Versions
  <2>3. ASSUME NEW e \in 1..LastEpoch, v[Version] >= 2 * e - 1, NEW k \in Words
        PROVE  v[k] >= End(history', e, k)
    <3>1. v[k] >= End(history, e, k)
      BY <1>15, <2>3 DEF Closed, End
    <3>2. k \in Locations
      BY WordFacts
    <3> QED
      BY <1>13, <3>1, <3>2 DEF End
  <2> QED
    BY <2>2, <2>3 DEF Closed
<1>16. Closed(sees, history', LastEpoch)
  <2>1. \A e \in 1..LastEpoch : \A k \in Words : End(history, e, k) <= Len(history[k])
    BY DEF MemoryInv, EpochInv
  <2>2. \A k \in Locations : sees[k] = Len(history'[k]) /\ Len(history'[k]) \in Nat
    BY <1>1, <1>9, <1>10, <1>14, MemoryFacts DEF Versions, MemoryInv
  <2>3. ASSUME NEW e \in 1..LastEpoch, NEW k \in Words
        PROVE  sees[k] >= End(history', e, k)
    <3>1. End(history', e, k) = End(history, e, k) /\ k \in Locations
      BY <1>13, WordFacts DEF End
    <3>2. End(history, e, k) \in Nat
      BY <3>1, EpochMessages DEF MemoryInv
    <3> QED
      BY <1>6, <2>1, <2>2, <3>1, <3>2, <1>12
  <2>4. \A k \in Locations : sees[k] <= Len(history'[k])
    BY <2>2
  <2> QED
    BY <2>3, <2>4 DEF Closed
<1>17. MemoryInv'
  <2>1. MemoryType'
    BY <1>9, <1>10, <1>b DEF MemoryInv, MemoryType, Message, Values, Views
  <2>2. VersionInv'
    <3>1. Versions + 1 <= VersionMax
      BY <1>1, <1>8
    <3>2. \A i \in 1..Versions : history'[Version][i].value = i - 1 /\ history'[Version][i].sees[Version] = i
      BY <1>9 DEF MemoryInv, VersionInv
    <3>3. history'[Version][Versions + 1].value = Versions
          /\ history'[Version][Versions + 1].sees[Version] = Versions + 1
      BY <1>6, <1>7, <1>9
    <3>4. Versions' = 2 * LastEpoch' /\ Versions' <= VersionMax
      BY <1>1, <1>3, <1>9, <1>11, <3>1
    <3>5. \A i \in 1..Versions' : i \in 1..Versions \/ i = Versions + 1
      BY <1>1, <1>9
    <3>6. \A i \in 1..Versions' : history'[Version][i].value = i - 1 /\ history'[Version][i].sees[Version] = i
      <4> TAKE i \in 1..Versions'
      <4>1. CASE i \in 1..Versions
        BY <3>2, <4>1
      <4>2. CASE i = Versions + 1
        BY <1>1, <3>3, <4>2
      <4> QED
        BY <3>5, <4>1, <4>2
    <3> QED
      BY <3>4, <3>6 DEF VersionInv
  <2>3. EpochInv'
    <3>1. ASSUME NEW e \in 1..LastEpoch, NEW k \in Words
          PROVE  /\ End(history', e, k) <= Len(history'[k])
                 /\ history'[k][End(history', e, k)].value = WordOf(epochs'[e], k)
      BY <1>12, <1>13, <1>b, WordFacts DEF MemoryInv, EpochInv
    <3> QED
      BY <1>11, <1>b, <3>1 DEF MemoryInv, EpochInv
  <2>4. OrderInv'
    BY <1>11, <1>12, <1>13, WordFacts DEF MemoryInv, OrderInv
  <2>5. ClosedInv'
    <3>1. \A u \in Threads : Closed(view'[u], history', LastEpoch)
      BY <1>10, <1>15, <1>16, MemoryFacts DEF MemoryInv, ClosedInv
    <3>2. ASSUME NEW k \in Locations, NEW i \in 1..Len(history'[k])
          PROVE  Closed(history'[k][i].sees, history', LastEpoch)
      <4>1. CASE i \in 1..Len(history[k])
        <5>1. Closed(history[k][i].sees, history, LastEpoch) /\ history[k][i].sees \in Views
          BY <4>1, MemoryFacts DEF MemoryInv, ClosedInv
        <5>2. history'[k][i] = history[k][i]
          BY <1>9, <4>1 DEF Versions
        <5> QED
          BY <1>15, <5>1, <5>2
      <4>2. CASE i \notin 1..Len(history[k])
        <5>1. k = Version /\ i = Versions + 1
          BY <1>1, <1>9, <4>2 DEF Versions
        <5> QED
          BY <1>7, <1>9, <1>16, <5>1
      <4> QED
        BY <4>1, <4>2
    <3> QED
      BY <1>11, <3>1, <3>2 DEF ClosedInv
  <2>6. FreshInv'
    BY <1>1, <1>3, <1>9, <1>11 DEF FreshInv
  <2> QED
    BY <2>1, <2>2, <2>3, <2>4, <2>5, <2>6 DEF MemoryInv
<1>18. \A k \in Words : LastValue(k) = WordOf(epochs[LastEpoch], k)
  BY <1>1, <1>3 DEF MemoryInv, FreshInv, EpochInv, LastValue
<1>19. \A k \in Words : LastValue(k)' = LastValue(k)
  BY <1>12 DEF LastValue
<1> QED
  BY <1>2, <1>3, <1>8, <1>9, <1>10, <1>11, <1>14, <1>17, <1>18, <1>19 DEF b

(* The claim holder's publication: its words are the new epoch, and it     *)
(* stands on all of them.                                                  *)
LEMMA PublishKeepsMemory ==
  ASSUME MemoryInv, NEW t \in Threads, NEW entry \in Entry,
         Versions = 2 * LastEpoch, Versions + 1 <= VersionMax,
         \A k \in Locations : view[t][k] = Len(history[k]),
         \A k \in Words : LastValue(k) = WordOf(StoreInto(epochs[LastEpoch], entry), k),
         Write(t, Version, Versions),
         epochs' = Append(epochs, StoreInto(epochs[LastEpoch], entry))
  PROVE  /\ MemoryInv'
         /\ Versions' = Versions + 1 /\ LastEpoch' = LastEpoch + 1
         /\ \A e \in 1..LastEpoch : epochs'[e] = epochs[e]
         /\ view'[t][Version] = Versions + 1
         /\ \A u \in Threads \ {t} : view'[u] = view[u]
<1> DEFINE sees == [view[t] EXCEPT ![Version] = Versions + 1]
           m == [value |-> Versions, sees |-> sees]
           new == StoreInto(epochs[LastEpoch], entry)
<1>1. Version \in Locations /\ Versions \in Nat \ {0} /\ LastEpoch \in Nat \ {0}
  BY WordFacts, MemoryFacts DEF MemoryInv, Versions
<1>2. history' = [history EXCEPT ![Version] = Append(@, m)] /\ view' = [view EXCEPT ![t] = sees]
  BY DEF Write, Versions
<1>3. view[t] \in Views
  BY MemoryFacts DEF MemoryInv
<1>4. /\ sees \in Views /\ sees[Version] = Versions + 1
      /\ \A k \in Words : sees[k] = Len(history[k])
  BY <1>1, <1>3, WordFacts DEF Views
<1>5. m \in Message(Version) /\ m.value = Versions /\ m.sees = sees
  BY <1>1, <1>4 DEF Message, Values
<1>6. new \in Buckets /\ \A k \in Words : LastValue(k) = WordOf(new, k)
  <2>1. epochs[LastEpoch] \in Buckets
    BY <1>1, MemoryFacts DEF MemoryInv
  <2> QED
    BY <2>1, StoreKeepsBucket
<1>7. epochs' = Append(epochs, new)
  OBVIOUS
<1>8. /\ epochs' \in Seq(Buckets) /\ epochs' # <<>>
      /\ LastEpoch' = LastEpoch + 1
      /\ \A e \in 1..LastEpoch : epochs'[e] = epochs[e]
      /\ epochs'[LastEpoch + 1] = new
  <2>1. epochs \in Seq(Buckets)
    BY DEF MemoryInv, MemoryType
  <2> HIDE DEF new
  <2>2. /\ Append(epochs, new) \in Seq(Buckets)
        /\ Len(Append(epochs, new)) = Len(epochs) + 1
        /\ \A e \in 1..Len(epochs) : Append(epochs, new)[e] = epochs[e]
        /\ Append(epochs, new)[Len(epochs) + 1] = new
    BY <1>6, <2>1, AppendProperties
  <2>3. epochs' # <<>>
    BY <1>1, <1>7, <2>2, EmptySeq DEF LastEpoch
  <2> QED
    BY <1>7, <2>2, <2>3 DEF LastEpoch
<1> HIDE DEF m, sees, new
<1>9. /\ DOMAIN history' = Locations
      /\ \A k \in Locations : k # Version => history'[k] = history[k]
      /\ history'[Version] \in Seq(Message(Version)) /\ history'[Version] # <<>>
      /\ Versions' = Versions + 1
      /\ \A i \in 1..Versions : history'[Version][i] = history[Version][i]
      /\ history'[Version][Versions + 1] = m
  BY <1>1, <1>2, <1>5, AppendsMessage DEF MemoryInv, Versions
<1>10. view' \in [Threads -> Views] /\ view'[t] = sees /\ \A u \in Threads \ {t} : view'[u] = view[u]
  BY <1>2, <1>4 DEF MemoryInv, MemoryType
<1>11. \A k \in Words : history'[k] = history[k] /\ Len(history[k]) \in Nat \ {0}
  BY <1>9, WordFacts, MemoryFacts DEF MemoryInv
<1>12. \A e \in 1..LastEpoch : \A k \in Locations : End(history', e, k) = End(history, e, k)
  BY <1>9, EpochMessages DEF MemoryInv, End
<1>13. \A k \in Words : End(history', LastEpoch + 1, k) = Len(history[k])
  <2>1. 2 * (LastEpoch + 1) - 1 = Versions + 1
    BY <1>1
  <2>2. \A k \in Locations : End(history', LastEpoch + 1, k) = sees[k]
    BY <1>5, <1>9, <2>1 DEF End
  <2> QED
    BY <1>4, <2>2, WordFacts
<1>14. \A e \in 1..LastEpoch + 1 : e \in 1..LastEpoch \/ e = LastEpoch + 1
  BY <1>1
<1>15. ASSUME NEW v \in Views, Closed(v, history, LastEpoch) PROVE Closed(v, history', LastEpoch + 1)
  <2>1. \A k \in Locations : v[k] \in Nat /\ Len(history[k]) \in Nat /\ v[k] <= Len(history[k])
    BY <1>15, MemoryFacts DEF Views, MemoryInv, Closed
  <2>2. \A k \in Locations : v[k] <= Len(history'[k])
    <3> TAKE k \in Locations
    <3>1. CASE k = Version
      BY <1>1, <1>9, <2>1, <3>1 DEF Versions
    <3>2. CASE k # Version
      BY <1>9, <2>1, <3>2
    <3> QED
      BY <3>1, <3>2
  <2>3. ASSUME NEW e \in 1..LastEpoch + 1, v[Version] >= 2 * e - 1, NEW k \in Words
        PROVE  v[k] >= End(history', e, k)
    <3>1. v[Version] <= Versions /\ v[Version] \in Nat
      BY <1>1, <2>1 DEF Versions
    <3>2. e \in 1..LastEpoch
      BY <1>1, <1>14, <2>3, <3>1
    <3>3. v[k] >= End(history, e, k)
      BY <1>15, <2>3, <3>2 DEF Closed, End
    <3>4. k \in Locations
      BY WordFacts
    <3> QED
      BY <1>12, <3>2, <3>3, <3>4 DEF End
  <2> QED
    BY <2>2, <2>3 DEF Closed
<1>16. Closed(sees, history', LastEpoch + 1)
  <2>1. \A k \in Locations : sees[k] \in Nat /\ Len(history'[k]) \in Nat /\ sees[k] <= Len(history'[k])
    <3> TAKE k \in Locations
    <3>1. CASE k = Version
      BY <1>1, <1>4, <1>9, <3>1 DEF Versions
    <3>2. CASE k # Version
      BY <1>4, <1>11, <3>2, WordFacts
    <3> QED
      BY <3>1, <3>2
  <2>2. ASSUME NEW e \in 1..LastEpoch + 1, NEW k \in Words
        PROVE  sees[k] >= End(history', e, k)
    <3>1. k \in Locations
      BY WordFacts
    <3>2. CASE e \in 1..LastEpoch
      <4>1. End(history, e, k) \in Nat /\ End(history, e, k) <= Len(history[k])
        BY <3>1, <3>2, EpochMessages DEF MemoryInv, EpochInv
      <4>2. End(history', e, k) = End(history, e, k)
        BY <1>12, <3>1, <3>2 DEF End
      <4> QED
        BY <1>4, <1>11, <4>1, <4>2
    <3>3. CASE e = LastEpoch + 1
      BY <1>4, <1>11, <1>13, <3>3 DEF End
    <3> QED
      BY <1>14, <3>2, <3>3
  <2> QED
    BY <2>1, <2>2 DEF Closed
<1>17. MemoryInv'
  <2>1. MemoryType'
    BY <1>8, <1>9, <1>10 DEF MemoryInv, MemoryType, Message, Values, Views
  <2>2. VersionInv'
    <3>1. \A i \in 1..Versions : history'[Version][i].value = i - 1 /\ history'[Version][i].sees[Version] = i
      BY <1>9 DEF MemoryInv, VersionInv
    <3>2. history'[Version][Versions + 1].value = Versions
          /\ history'[Version][Versions + 1].sees[Version] = Versions + 1
      BY <1>4, <1>5, <1>9
    <3>a. Versions' = Versions + 1 /\ LastEpoch' = LastEpoch + 1
      BY <1>8, <1>9
    <3>3. Versions' = 2 * LastEpoch' - 1 /\ Versions' <= VersionMax
      BY <1>1, <3>a
    <3>4. \A i \in 1..Versions' : i \in 1..Versions \/ i = Versions + 1
      BY <1>1, <3>a
    <3>5. \A i \in 1..Versions' : history'[Version][i].value = i - 1 /\ history'[Version][i].sees[Version] = i
      <4> TAKE i \in 1..Versions'
      <4>1. CASE i \in 1..Versions
        BY <3>1, <4>1
      <4>2. CASE i = Versions + 1
        <5>1. i - 1 = Versions
          BY <1>1, <4>2
        <5> QED
          BY <3>2, <4>2, <5>1
      <4> QED
        BY <3>4, <4>1, <4>2
    <3> QED
      BY <3>3, <3>5 DEF VersionInv
  <2>3. EpochInv'
    <3>1. ASSUME NEW e \in 1..LastEpoch', NEW k \in Words
          PROVE  /\ End(history', e, k) <= Len(history'[k])
                 /\ history'[k][End(history', e, k)].value = WordOf(epochs'[e], k)
      <4>1. CASE e \in 1..LastEpoch
        <5>1. /\ End(history, e, k) <= Len(history[k])
              /\ history[k][End(history, e, k)].value = WordOf(epochs[e], k)
          BY <4>1 DEF MemoryInv, EpochInv
        <5>2. k \in Locations /\ history'[k] = history[k] /\ epochs'[e] = epochs[e]
          BY <1>8, <1>11, <4>1, WordFacts
        <5>3. End(history', e, k) = End(history, e, k)
          BY <1>12, <4>1, <5>2
        <5> QED
          BY <5>1, <5>2, <5>3
      <4>2. CASE e = LastEpoch + 1
        <5>1. history'[k] = history[k] /\ epochs'[e] = new
          BY <1>8, <1>11, <4>2
        <5>2. End(history', e, k) = Len(history[k]) /\ Len(history[k]) \in Nat
          BY <1>11, <1>13, <4>2
        <5>3. history[k][Len(history[k])].value = WordOf(new, k)
          BY <1>6 DEF LastValue
        <5> QED
          BY <5>1, <5>2, <5>3
      <4> QED
        <5>1. e \in 1..LastEpoch + 1
          BY <1>8
        <5> QED
          BY <1>14, <4>1, <4>2, <5>1
    <3>2. ASSUME NEW e \in 1..LastEpoch' - 1
          PROVE  \E x \in Entry : epochs'[e + 1] = StoreInto(epochs'[e], x)
      <4>1. CASE e = LastEpoch
        <5>1. epochs'[LastEpoch + 1] = new /\ epochs'[LastEpoch] = epochs[LastEpoch]
          <6>1. LastEpoch \in 1..LastEpoch
            BY <1>1
          <6> QED
            BY <1>8, <6>1, Zenon
        <5> QED
          BY <4>1, <5>1 DEF new
      <4>2. CASE e # LastEpoch
        <5>1. e \in 1..LastEpoch - 1 /\ e \in 1..LastEpoch /\ e + 1 \in 1..LastEpoch
          BY <1>1, <1>8, <4>2
        <5> QED
          BY <1>8, <5>1 DEF MemoryInv, EpochInv
      <4> QED
        BY <4>1, <4>2
    <3> QED
      BY <3>1, <3>2 DEF EpochInv
  <2>4. OrderInv'
    <3>1. ASSUME NEW k \in Words, NEW i \in 1..Len(history[k]), NEW e \in 1..LastEpoch + 1,
                 i > End(history', e, k)
          PROVE  history[k][i].sees[Version] >= 2 * e
      <4>1. CASE e \in 1..LastEpoch
        BY <1>12, <3>1, <4>1, WordFacts DEF MemoryInv, OrderInv
      <4>2. CASE e = LastEpoch + 1
        BY <1>11, <1>13, <3>1, <4>2
      <4> QED
        BY <1>14, <4>1, <4>2
    <3> QED
      BY <1>8, <1>11, <3>1 DEF OrderInv
  <2>5. ClosedInv'
    <3>1. \A u \in Threads : Closed(view'[u], history', LastEpoch + 1)
      BY <1>10, <1>15, <1>16, MemoryFacts DEF MemoryInv, ClosedInv
    <3>2. ASSUME NEW k \in Locations, NEW i \in 1..Len(history'[k])
          PROVE  Closed(history'[k][i].sees, history', LastEpoch + 1)
      <4>1. CASE i \in 1..Len(history[k])
        <5>1. Closed(history[k][i].sees, history, LastEpoch) /\ history[k][i].sees \in Views
          BY <4>1, MemoryFacts DEF MemoryInv, ClosedInv
        <5>2. history'[k][i] = history[k][i]
          BY <1>9, <4>1 DEF Versions
        <5> QED
          BY <1>15, <5>1, <5>2
      <4>2. CASE i \notin 1..Len(history[k])
        <5>1. k = Version /\ i = Versions + 1
          BY <1>1, <1>9, <4>2 DEF Versions
        <5> QED
          BY <1>5, <1>9, <1>16, <5>1
      <4> QED
        BY <4>1, <4>2
    <3> QED
      BY <1>8, <3>1, <3>2 DEF ClosedInv
  <2>6. FreshInv'
    BY <1>8, <1>11, <1>13 DEF FreshInv
  <2> QED
    BY <2>1, <2>2, <2>3, <2>4, <2>5, <2>6 DEF MemoryInv
<1> QED
  BY <1>4, <1>8, <1>9, <1>10, <1>17

-----------------------------------------------------------------------------
(* The threads. *)

(* What an operation can answer. *)
LEMMA Answers ==
  /\ NoAnswer \in Answer /\ Missed \in Answer /\ Dropped \in Answer
  /\ \A c \in Buckets : Hit(c) \in Answer
  /\ \A c \in Buckets, e \in Entry : Outcome(Decision(c, e)) \in Answer
<1>1. \A c \in Buckets, e \in Entry : Outcome(Decision(c, e)) \in Answer
  <2> TAKE c \in Buckets, e \in Entry
  <2>1. Decision(c, e).stored \in BOOLEAN /\ Decision(c, e).replacement \in BOOLEAN
    BY DecisionIs
  <2> QED
    BY <2>1 DEF Outcome, Answer
<1> QED
  BY <1>1 DEF Answer

Alone(t) ==
  \A u \in Threads \ {t} :
    /\ pc'[u] = pc[u] /\ storing'[u] = storing[u] /\ before'[u] = before[u]
    /\ loaded'[u] = loaded[u] /\ answer'[u] = answer[u]

(* What answering leaves of the locals. *)
LEMMA ReturnIs ==
  ASSUME LocalsType, NEW t \in Threads, NEW what \in Answer, Return(t, what)
  PROVE  /\ LocalsType' /\ Alone(t)
         /\ pc'[t] = "idle" /\ answer'[t] = what /\ storing'[t] = Empty /\ loaded'[t] = <<>>
<1>1. <<>> \in Seq(LoadedWord) /\ 0 \in 0..VersionMax
  BY EmptySeq
<1> QED
  BY <1>1 DEF Return, Goto, LocalsType, Alone

(* What a failed attempt leaves: an answer, or a second attempt. *)
LEMMA TryAgainIs ==
  ASSUME LocalsType, NEW t \in Threads, NEW label \in {"before", "even"},
         NEW otherwise \in {Missed, Dropped}, TryAgain(t, label, otherwise)
  PROVE  /\ LocalsType' /\ Alone(t)
         /\ loaded'[t] = <<>>
         /\ \/ pc'[t] = "idle" /\ storing'[t] = Empty /\ answer'[t] = otherwise
            \/ pc'[t] = label /\ storing'[t] = storing[t] /\ answer' = answer
<1>1. <<>> \in Seq(LoadedWord) /\ 0 \in 0..VersionMax
  BY EmptySeq
<1>2. CASE attempt[t] < 2
  <2>0. attempt[t] \in 0..2
    BY DEF LocalsType
  <2>1. attempt[t] + 1 \in 0..2
    BY <1>2, <2>0
  <2>2. /\ pc' = [pc EXCEPT ![t] = label]
        /\ attempt' = [attempt EXCEPT ![t] = attempt[t] + 1]
        /\ loaded' = [loaded EXCEPT ![t] = <<>>]
        /\ before' = [before EXCEPT ![t] = 0]
        /\ UNCHANGED <<answer, storing>>
    BY <1>2 DEF TryAgain, Goto
  <2>3. LocalsType'
    BY <1>1, <2>1, <2>2 DEF LocalsType
  <2>4. Alone(t)
    BY <2>2 DEF LocalsType, Alone
  <2> QED
    BY <2>2, <2>3, <2>4 DEF LocalsType
<1>3. CASE ~(attempt[t] < 2)
  <2>1. Return(t, otherwise)
    BY <1>3 DEF TryAgain
  <2> QED
    BY <2>1, ReturnIs, Answers
<1> QED
  BY <1>2, <1>3

(* A step of one thread that leaves the histories alone takes no other     *)
(* thread anywhere, if it takes no claim.                                  *)
LEMMA OthersStay ==
  ASSUME IInv, NEW t \in Threads, Alone(t), UNCHANGED <<history, epochs>>,
         \A u \in Threads \ {t} : view'[u] = view[u],
         Claimed(t)' => Claimed(t)
  PROVE  \A u \in Threads \ {t} : ThreadInv(u)'
<1> TAKE u \in Threads \ {t}
<1>1. /\ pc'[u] = pc[u] /\ storing'[u] = storing[u] /\ before'[u] = before[u]
      /\ loaded'[u] = loaded[u] /\ view'[u] = view[u]
  BY DEF Alone
<1>2. /\ Contents(u)' = Contents(u) /\ Chosen(u)' = Chosen(u) /\ Epoch(u)' = Epoch(u)
      /\ Stores(u)' = Stores(u) /\ Claimed(u)' = Claimed(u)
  BY <1>1 DEF Contents, Chosen, Epoch, Stores, Claimed
<1>3. LocalInv(u)'
  BY <1>1, <1>2 DEF IInv, ThreadInv, LocalInv
<1>4. ReaderInv(u)'
  BY <1>1, <1>2 DEF IInv, ThreadInv, ReaderInv
<1>5. WriterInv(u)'
  <2>1. \A v \in Threads : Claimed(v)' => Claimed(v)
    BY DEF Alone, Claimed
  <2>2. Versions' = Versions /\ LastEpoch' = LastEpoch /\ \A l \in Words : LastValue(l)' = LastValue(l)
    BY DEF Versions, LastEpoch, LastValue
  <2> QED
    BY <1>1, <1>2, <2>1, <2>2 DEF IInv, ThreadInv, WriterInv
<1> QED
  BY <1>3, <1>4, <1>5 DEF ThreadInv

(* Where a thread that holds no claim can be found after a failed attempt. *)
LEMMA Retreats ==
  ASSUME NEW t \in Threads, loaded'[t] = <<>>,
         \/ pc'[t] \in {"idle", "before"} /\ storing'[t] = Empty
         \/ pc'[t] = "even" /\ storing'[t] # Empty
  PROVE  ThreadInv(t)' /\ ~Claimed(t)'
  BY DEF ThreadInv, LocalInv, ReaderInv, WriterInv, Claimed, Stores

(* A snapshot's first load of the version. *)
LEMMA LoadBeforeKeeps ==
  ASSUME IInv, NEW t \in Threads, LoadBefore(t)
  PROVE  IInv'
<1>1. PICK i \in Readable(t, Version) :
        LET version == history[Version][i].value
        IN /\ Read(t, Version, i)
           /\ IF Odd(version)
              THEN TryAgain(t, "before", Missed)
              ELSE /\ before' = [before EXCEPT ![t] = version]
                   /\ Goto(t, "load")
                   /\ UNCHANGED <<attempt, storing, loaded, answer>>
  BY DEF LoadBefore
<1>2. UNCHANGED <<history, replacements, epochs>> /\ pc[t] = "before"
  BY DEF LoadBefore
<1>3. /\ MemoryInv' /\ i \in 1..Versions
      /\ \A u \in Threads \ {t} : view'[u] = view[u]
      /\ view'[t][Version] = i
  BY <1>1, <1>2, ReadKeepsMemory, WordFacts DEF IInv, Versions
<1>4. storing[t] = Empty /\ loaded[t] = <<>>
  BY <1>2 DEF IInv, ThreadInv, LocalInv
<1>5. LocalsType' /\ Alone(t) /\ ThreadInv(t)' /\ ~Claimed(t)'
  <2>1. CASE Odd(history[Version][i].value)
    <3>1. TryAgain(t, "before", Missed)
      BY <1>1, <2>1
    <3> QED
      BY <1>4, <3>1, TryAgainIs, Retreats DEF IInv
  <2>2. CASE ~Odd(history[Version][i].value)
    <3>1. /\ before' = [before EXCEPT ![t] = history[Version][i].value]
          /\ pc' = [pc EXCEPT ![t] = "load"]
          /\ UNCHANGED <<attempt, storing, loaded, answer>>
      BY <1>1, <2>2 DEF Goto
    <3>2. history[Version][i].value = i - 1 /\ i - 1 \in 0..VersionMax /\ i \in Nat
      BY <1>3 DEF IInv, MemoryInv, VersionInv
    <3>3. LocalsType' /\ Alone(t) /\ before'[t] = i - 1 /\ pc'[t] = "load"
      BY <3>1, <3>2 DEF IInv, LocalsType, Alone
    <3>4. (i - 1) % 2 = 0
      BY <2>2, <3>2 DEF Odd
    <3>5. Len(loaded'[t]) = 0 /\ storing'[t] = Empty
      BY <1>4, <3>1, EmptySeq
    <3>6. LocalInv(t)' /\ WriterInv(t)' /\ ~Claimed(t)'
      BY <3>3, <3>5 DEF LocalInv, WriterInv, Claimed
    <3>7. ReaderInv(t)'
      BY <1>3, <3>2, <3>3, <3>4, <3>5 DEF ReaderInv
    <3> QED
      BY <3>3, <3>6, <3>7 DEF ThreadInv
  <2> QED
    BY <2>1, <2>2
<1> QED
  BY <1>2, <1>3, <1>5, OthersStay DEF IInv

(* A store's load of the version. *)
LEMMA LoadEvenKeeps ==
  ASSUME IInv, NEW t \in Threads, LoadEven(t)
  PROVE  IInv'
<1>1. PICK i \in Readable(t, Version) :
        LET version == history[Version][i].value
        IN /\ Read(t, Version, i)
           /\ IF Odd(version)
              THEN TryAgain(t, "even", Dropped)
              ELSE IF Exhausted(version)
              THEN Return(t, Dropped)
              ELSE /\ before' = [before EXCEPT ![t] = version]
                   /\ Goto(t, "claim")
                   /\ UNCHANGED <<attempt, storing, loaded, answer>>
  BY DEF LoadEven
<1>2. UNCHANGED <<history, replacements, epochs>> /\ pc[t] = "even"
  BY DEF LoadEven
<1>3. /\ MemoryInv' /\ i \in 1..Versions
      /\ \A u \in Threads \ {t} : view'[u] = view[u]
  BY <1>1, <1>2, ReadKeepsMemory, WordFacts DEF IInv, Versions
<1>4. storing[t] # Empty /\ loaded[t] = <<>>
  BY <1>2 DEF IInv, ThreadInv, LocalInv, Stores
<1> DEFINE version == history[Version][i].value
<1>5. LocalsType' /\ Alone(t) /\ ThreadInv(t)' /\ ~Claimed(t)'
  <2>1. CASE Odd(version)
    <3>1. TryAgain(t, "even", Dropped)
      BY <1>1, <2>1
    <3> QED
      BY <1>4, <3>1, TryAgainIs, Retreats DEF IInv
  <2>2. CASE ~Odd(version) /\ Exhausted(version)
    <3>1. Return(t, Dropped)
      BY <1>1, <2>2
    <3> QED
      BY <3>1, ReturnIs, Retreats, Answers DEF IInv
  <2>3. CASE ~Odd(version) /\ ~Exhausted(version)
    <3>1. /\ before' = [before EXCEPT ![t] = version]
          /\ pc' = [pc EXCEPT ![t] = "claim"]
          /\ UNCHANGED <<attempt, storing, loaded, answer>>
      BY <1>1, <2>3 DEF Goto
    <3>2. version = i - 1 /\ i - 1 \in 0..VersionMax /\ i \in Nat
      BY <1>3 DEF IInv, MemoryInv, VersionInv
    <3>3. (i - 1) % 2 = 0 /\ i - 1 + 2 < VersionMax
      BY <2>3, <3>2 DEF Odd, Exhausted
    <3> HIDE DEF version
    <3>4. LocalsType' /\ Alone(t) /\ before'[t] = i - 1 /\ pc'[t] = "claim"
      BY <3>1, <3>2 DEF IInv, LocalsType, Alone
    <3> QED
      BY <1>4, <3>1, <3>3, <3>4
      DEF ThreadInv, LocalInv, ReaderInv, WriterInv, Claimed, Stores
  <2> QED
    BY <2>1, <2>2, <2>3
<1> QED
  BY <1>2, <1>3, <1>5, OthersStay DEF IInv

(* A claim that another writer has got ahead of. *)
LEMMA ClaimFailsKeeps ==
  ASSUME IInv, NEW t \in Threads, ClaimFails(t)
  PROVE  IInv'
<1>1. PICK i \in Readable(t, Version) : Read(t, Version, i)
  BY DEF ClaimFails
<1>2. UNCHANGED <<history, replacements, epochs>> /\ pc[t] = "claim" /\ TryAgain(t, "even", Dropped)
  BY DEF ClaimFails
<1>3. MemoryInv' /\ \A u \in Threads \ {t} : view'[u] = view[u]
  BY <1>1, <1>2, ReadKeepsMemory, WordFacts DEF IInv
<1>4. storing[t] # Empty /\ loaded[t] = <<>>
  BY <1>2 DEF IInv, ThreadInv, LocalInv, Stores
<1>5. LocalsType' /\ Alone(t) /\ ThreadInv(t)' /\ ~Claimed(t)'
  BY <1>2, <1>4, TryAgainIs, Retreats DEF IInv
<1> QED
  BY <1>2, <1>3, <1>5, OthersStay DEF IInv

(* The epoch a snapshot is of, when it has seen its version. *)
LEMMA EpochOf ==
  ASSUME MemoryInv, NEW t \in Threads, NEW b \in Nat, b % 2 = 0, b + 1 <= view[t][Version]
  PROVE  /\ b \div 2 + 1 \in 1..LastEpoch
         /\ b + 1 = 2 * (b \div 2 + 1) - 1
<1>1. view[t][Version] <= Versions /\ view[t][Version] \in Nat /\ Versions \in Nat
  BY WordFacts, MemoryFacts DEF MemoryInv, ClosedInv, Closed, Versions
<1>2. Versions <= 2 * LastEpoch /\ LastEpoch \in Nat
  BY MemoryFacts DEF MemoryInv, VersionInv
<1>3. b = 2 * (b \div 2) /\ b \div 2 \in Nat
  OBVIOUS
<1> QED
  BY <1>1, <1>2, <1>3

(* A probe begins. *)
LEMMA BeginSnapshotKeeps ==
  ASSUME IInv, NEW t \in Threads, BeginSnapshot(t)
  PROVE  IInv'
<1>1. /\ pc[t] = "idle" /\ pc' = [pc EXCEPT ![t] = "before"]
      /\ attempt' = [attempt EXCEPT ![t] = 1] /\ answer' = [answer EXCEPT ![t] = NoAnswer]
      /\ UNCHANGED <<history, view, replacements, storing, before, loaded, epochs>>
  BY DEF BeginSnapshot, Goto, memory
<1>2. LocalsType' /\ Alone(t) /\ pc'[t] = "before"
  BY <1>1, Answers DEF IInv, LocalsType, Alone
<1>3. storing[t] = Empty /\ loaded[t] = <<>>
  BY <1>1 DEF IInv, ThreadInv, LocalInv
<1>4. ThreadInv(t)' /\ ~Claimed(t)'
  BY <1>1, <1>2, <1>3, Retreats
<1>5. MemoryInv'
  BY <1>1 DEF IInv, MemoryInv, MemoryType, VersionInv, EpochInv, OrderInv, ClosedInv, FreshInv,
     Versions, LastEpoch, Values, Message, Views
<1> QED
  BY <1>1, <1>2, <1>4, <1>5, OthersStay DEF IInv

(* A store begins. *)
LEMMA BeginStoreKeeps ==
  ASSUME IInv, NEW t \in Threads, BeginStore(t)
  PROVE  IInv'
<1>1. PICK entry \in Entries : storing' = [storing EXCEPT ![t] = entry]
  BY DEF BeginStore
<1>2. /\ pc[t] = "idle" /\ pc' = [pc EXCEPT ![t] = "even"]
      /\ attempt' = [attempt EXCEPT ![t] = 1] /\ answer' = [answer EXCEPT ![t] = NoAnswer]
      /\ UNCHANGED <<history, view, replacements, before, loaded, epochs>>
  BY DEF BeginStore, Goto, memory
<1>3. LocalsType' /\ Alone(t) /\ pc'[t] = "even" /\ storing'[t] = entry
  BY <1>1, <1>2, Answers DEF IInv, LocalsType, Alone
<1>4. entry # Empty
  BY SlotFacts
<1>5. loaded[t] = <<>>
  BY <1>2 DEF IInv, ThreadInv, LocalInv
<1>6. ThreadInv(t)' /\ ~Claimed(t)'
  BY <1>2, <1>3, <1>4, <1>5, Retreats
<1>7. MemoryInv'
  BY <1>2 DEF IInv, MemoryInv, MemoryType, VersionInv, EpochInv, OrderInv, ClosedInv, FreshInv,
     Versions, LastEpoch, Values, Message, Views
<1> QED
  BY <1>2, <1>3, <1>6, <1>7, OthersStay DEF IInv

(* Loading one more word, and what is loaded then. *)
LEMMA LoadWordIs ==
  ASSUME IInv, NEW t \in Threads, LoadWord(t)
  PROVE  LET l == Len(loaded[t]) + 1
         IN /\ l \in Words /\ l \in Nat
            /\ pc[t] = "load"
            /\ \E i \in Readable(t, l) :
                 /\ Read(t, l, i)
                 /\ loaded'[t][l] = history[l][i].value
            /\ Len(loaded'[t]) = l
            /\ \A k \in 1..l - 1 : loaded'[t][k] = loaded[t][k]
            /\ pc'[t] = IF l < 2 * NSlots THEN "load"
                        ELSE IF storing[t] = Empty THEN "after" ELSE "key"
            /\ LocalsType' /\ Alone(t)
            /\ UNCHANGED <<history, replacements, storing, before, epochs>>
<1> DEFINE l == Len(loaded[t]) + 1
           label == IF l < 2 * NSlots THEN "load" ELSE IF storing[t] = Empty THEN "after" ELSE "key"
<1>1. /\ pc[t] = "load" /\ pc' = [pc EXCEPT ![t] = label]
      /\ UNCHANGED <<history, replacements, attempt, storing, before, answer, epochs>>
  BY DEF LoadWord, Goto
<1>2. PICK i \in Readable(t, l) :
        /\ Read(t, l, i)
        /\ loaded' = [loaded EXCEPT ![t] = Append(@, history[l][i].value)]
  BY DEF LoadWord, ReadField
<1>3. loaded[t] \in Seq(LoadedWord) /\ Len(loaded[t]) < 2 * NSlots
  BY <1>1 DEF IInv, LocalsType, ThreadInv, LocalInv
<1>4. Len(loaded[t]) \in Nat
  BY <1>3, LenProperties
<1>5. l \in Words /\ l \in Nat
  BY <1>3, <1>4 DEF Words
<1>6. history[l][i].value \in LoadedWord
  <2>1. i \in 1..Len(history[l])
    BY <1>5, WordFacts, MemoryFacts DEF IInv, MemoryInv, Readable
  <2>2. history[l][i].value \in Values(l)
    BY <1>5, <2>1, WordFacts, MemoryFacts DEF IInv, MemoryInv
  <2> QED
    BY <1>5, <2>2 DEF LoadedWord
<1> DEFINE x == history[l][i].value
           new == Append(loaded[t], x)
<1>7. /\ new \in Seq(LoadedWord)
      /\ Len(new) = Len(loaded[t]) + 1
      /\ \A k \in 1..Len(loaded[t]) : new[k] = loaded[t][k]
      /\ new[Len(loaded[t]) + 1] = x
  <2> HIDE DEF x, l
  <2>1. x \in LoadedWord
    BY <1>6 DEF x
  <2> QED
    BY <1>3, <2>1, AppendProperties
<1>8. loaded' = [loaded EXCEPT ![t] = new]
  BY <1>2
<1> HIDE DEF new, x
<1>9. loaded \in [Threads -> Seq(LoadedWord)] /\ pc \in [Threads -> {"idle", "before", "load", "after", "even", "claim", "key",
                         "payload", "publish", "count"}]
  BY DEF IInv, LocalsType
<1>10. loaded'[t] = new /\ loaded' \in [Threads -> Seq(LoadedWord)]
       /\ \A u \in Threads \ {t} : loaded'[u] = loaded[u]
  BY <1>7, <1>8, <1>9
<1>11. label \in {"load", "after", "key"}
  OBVIOUS
<1> HIDE DEF label
<1>12. pc'[t] = label /\ pc' \in [Threads -> {"idle", "before", "load", "after", "even", "claim", "key",
                         "payload", "publish", "count"}]
       /\ \A u \in Threads \ {t} : pc'[u] = pc[u]
  BY <1>1, <1>9, <1>11
<1>13. LocalsType' /\ Alone(t)
  BY <1>1, <1>10, <1>12 DEF IInv, LocalsType, Alone
<1>14. \A k \in 1..l - 1 : loaded'[t][k] = loaded[t][k]
  BY <1>4, <1>7, <1>10
<1>15. Len(loaded'[t]) = l /\ loaded'[t][l] = history[l][i].value
  BY <1>7, <1>10 DEF x
<1> HIDE DEF l
<1>16. \E j \in Readable(t, l) : Read(t, l, j) /\ loaded'[t][l] = history[l][j].value
  BY <1>2, <1>15
<1> QED
  BY <1>1, <1>5, <1>12, <1>13, <1>14, <1>15, <1>16 DEF l, label

(* Loading one word, for a snapshot or under a claim. *)
LEMMA LoadWordKeeps ==
  ASSUME IInv, NEW t \in Threads, LoadWord(t)
  PROVE  IInv'
<1> DEFINE l == Len(loaded[t]) + 1
<1>1. /\ l \in Words /\ l \in Nat
      /\ pc[t] = "load"
      /\ Len(loaded'[t]) = l
      /\ \A k \in 1..l - 1 : loaded'[t][k] = loaded[t][k]
      /\ pc'[t] = IF l < 2 * NSlots THEN "load"
                  ELSE IF storing[t] = Empty THEN "after" ELSE "key"
      /\ LocalsType' /\ Alone(t)
      /\ UNCHANGED <<history, replacements, storing, before, epochs>>
  BY LoadWordIs
<1>2. PICK i \in Readable(t, l) : Read(t, l, i) /\ loaded'[t][l] = history[l][i].value
  BY LoadWordIs
<1>a. Len(loaded[t]) = l - 1
  <2>1. loaded[t] \in Seq(LoadedWord)
    BY DEF IInv, LocalsType
  <2>2. Len(loaded[t]) \in Nat
    BY <2>1, LenProperties
  <2> QED
    BY <2>2
<1> HIDE DEF l
<1>3. l \in Locations /\ l # Version /\ Version \in Locations
  BY <1>1, WordFacts
<1>4. /\ MemoryInv' /\ i \in 1..Len(history[l])
      /\ \A u \in Threads \ {t} : view'[u] = view[u]
      /\ \A m \in Locations : view'[t][m] >= view[t][m]
      /\ \A m \in Locations : view'[t][m] >= history[l][i].sees[m]
  BY <1>1, <1>2, <1>3, ReadKeepsMemory DEF IInv
<1>5. \A m \in Locations : /\ view[t][m] \in Nat /\ view'[t][m] \in Nat
                           /\ Len(history[m]) \in Nat \ {0} /\ view'[t][m] <= Len(history[m])
  <2>1. MemoryType' /\ ClosedInv'
    BY <1>4 DEF MemoryInv
  <2>2. view \in [Threads -> Views] /\ view' \in [Threads -> Views]
    BY <2>1 DEF IInv, MemoryInv, MemoryType, Views
  <2>3. \A m \in Locations : view'[t][m] <= Len(history'[m])
    BY <2>1 DEF ClosedInv, Closed
  <2>4. \A m \in Locations : Len(history[m]) \in Nat \ {0}
    BY MemoryFacts DEF IInv, MemoryInv
  <2> QED
    BY <1>1, <2>2, <2>3, <2>4 DEF Views
<1>6. l <= 2 * NSlots /\ i >= view[t][l]
  BY <1>1, <1>2 DEF Words, Readable
<1>7. \A k \in 1..l : k \in 1..l - 1 \/ k = l
  BY <1>1
<1>8. LocalInv(t)'
  BY <1>1, <1>6 DEF LocalInv, Stores, IInv, ThreadInv
<1>9. ReaderInv(t)'
  <2> SUFFICES ASSUME storing[t] = Empty
               PROVE  /\ before[t] % 2 = 0
                      /\ before[t] + 1 <= view'[t][Version]
                      /\ \A k \in 1..l : \/ loaded'[t][k] = WordOf(Epoch(t), k)
                                         \/ view'[t][Version] >= before[t] + 2
    BY <1>1 DEF ReaderInv, Stores, Epoch
  <2> DEFINE b == before[t]  e == b \div 2 + 1
  <2>1. /\ b % 2 = 0
        /\ b + 1 <= view[t][Version]
        /\ \A k \in 1..l - 1 : loaded[t][k] = WordOf(Epoch(t), k) \/ view[t][Version] >= b + 2
    BY <1>1, <1>a DEF IInv, ThreadInv, ReaderInv, Stores
  <2>2. b \in Nat
    BY DEF IInv, LocalsType
  <2>3. e \in 1..LastEpoch /\ b + 1 = 2 * e - 1 /\ Epoch(t) = epochs[e]
    BY <2>1, <2>2, EpochOf DEF IInv, Epoch
  <2> HIDE DEF b, e
  <2>4. view'[t][Version] >= view[t][Version]
    BY <1>3, <1>4
  <2>5. LastEpoch \in Nat
    BY MemoryFacts DEF IInv, MemoryInv
  <2>6. loaded'[t][l] = WordOf(Epoch(t), l) \/ view'[t][Version] >= b + 2
    <3>1. view[t][l] >= End(history, e, l)
      BY <1>1, <2>1, <2>3 DEF IInv, MemoryInv, ClosedInv, Closed
    <3>2. End(history, e, l) \in Nat \ {0}
      BY <1>3, <2>3, EpochMessages DEF IInv, MemoryInv
    <3>3. CASE i = End(history, e, l)
      <4>1. history[l][i].value = WordOf(epochs[e], l)
        BY <1>1, <2>3, <3>3 DEF IInv, MemoryInv, EpochInv
      <4> QED
        BY <1>2, <2>3, <4>1
    <3>4. CASE i # End(history, e, l)
      <4>1. i > End(history, e, l)
        BY <1>3, <1>4, <1>5, <1>6, <3>1, <3>2, <3>4
      <4>2. history[l][i].sees[Version] >= 2 * e
        BY <1>1, <1>4, <2>3, <4>1 DEF IInv, MemoryInv, OrderInv
      <4>3. history[l][i].sees[Version] \in Nat
        BY <1>3, <1>4, MemoryFacts DEF IInv, MemoryInv
      <4>4. view'[t][Version] >= history[l][i].sees[Version]
        BY <1>3, <1>4
      <4>5. view'[t][Version] \in Nat
        BY <1>3, <1>5
      <4>6. e \in Nat /\ b \in Nat
        BY <2>2, <2>3, <2>5 DEF b
      <4>7. \A v, w, x, y \in Nat : /\ w >= 2 * x /\ v >= w /\ y + 1 = 2 * x - 1
                                   => v >= y + 2
        OBVIOUS
      <4> QED
        BY <2>3, <4>2, <4>3, <4>4, <4>5, <4>6, <4>7
    <3> QED
      BY <3>3, <3>4
  <2>7. view[t][Version] \in Nat /\ view'[t][Version] \in Nat
    BY <1>3, <1>5
  <2>8. b \in Nat
    BY <2>2 DEF b
  <2>9. b + 1 <= view'[t][Version]
    BY <2>1, <2>4, <2>7, <2>8
  <2>10. ASSUME NEW k \in 1..l - 1
         PROVE  loaded'[t][k] = WordOf(Epoch(t), k) \/ view'[t][Version] >= b + 2
    <3>1. loaded'[t][k] = loaded[t][k]
      BY <1>1
    <3>2. loaded[t][k] = WordOf(Epoch(t), k) \/ view[t][Version] >= b + 2
      BY <2>1
    <3>3. view[t][Version] >= b + 2 => view'[t][Version] >= b + 2
      BY <2>4, <2>7, <2>8
    <3> QED
      BY <3>1, <3>2, <3>3
  <2> QED
    BY <1>7, <2>1, <2>6, <2>9, <2>10 DEF b
<1>10. WriterInv(t)' /\ (Claimed(t)' => Claimed(t))
  <2>1. Claimed(t)' <=> storing[t] # Empty
    BY <1>1 DEF Claimed
  <2>2. Claimed(t) <=> storing[t] # Empty
    BY <1>1 DEF Claimed
  <2> SUFFICES ASSUME storing[t] # Empty PROVE WriterInv(t)'
    BY <2>1, <2>2 DEF WriterInv
  <2>3. /\ Versions = 2 * LastEpoch
        /\ before[t] = Versions - 1
        /\ Versions + 1 <= VersionMax
        /\ \A u \in Threads : Claimed(u) => u = t
        /\ \A m \in Locations : view[t][m] = Len(history[m])
        /\ \A k \in 1..l - 1 : loaded[t][k] = WordOf(epochs[LastEpoch], k)
        /\ \A k \in Words : LastValue(k) = WordOf(epochs[LastEpoch], k)
    BY <1>1, <1>a, <2>2 DEF IInv, ThreadInv, WriterInv
  <2>4. Versions' = Versions /\ LastEpoch' = LastEpoch /\ \A k \in Words : LastValue(k)' = LastValue(k)
    BY <1>1 DEF Versions, LastEpoch, LastValue
  <2>5. \A u \in Threads : Claimed(u)' => Claimed(u)
    BY <2>1, <2>2, <1>1 DEF Alone, Claimed
  <2>6. \A m \in Locations : view'[t][m] = Len(history[m])
    BY <1>4, <1>5, <2>3
  <2>7. i = Len(history[l])
    BY <1>3, <1>4, <1>5, <1>6, <2>3
  <2>8. loaded'[t][l] = WordOf(epochs[LastEpoch], l)
    BY <1>1, <1>2, <2>3, <2>7 DEF LastValue
  <2>9. \A k \in 1..l : loaded'[t][k] = WordOf(epochs[LastEpoch], k)
    BY <1>1, <1>7, <2>3, <2>8
  <2>10. pc'[t] \in {"load", "after", "key"}
    BY <1>1
  <2> QED
    BY <1>1, <2>3, <2>4, <2>5, <2>6, <2>9, <2>10 DEF WriterInv
<1> QED
  BY <1>1, <1>4, <1>8, <1>9, <1>10, OthersStay DEF IInv, ThreadInv

(* The heart of the protocol: if the version has not changed, what was     *)
(* loaded is one whole epoch, the newest the thread knows of.              *)
LEMMA SnapshotIsWhole ==
  ASSUME IInv, NEW t \in Threads, pc[t] = "after",
         NEW i \in Readable(t, Version), history[Version][i].value = before[t]
  PROVE  /\ i = view[t][Version]
         /\ KnownEpoch(t) \in 1..LastEpoch
         /\ Contents(t) = epochs[KnownEpoch(t)]
<1> DEFINE b == before[t]  e == b \div 2 + 1
<1>1. b \in Nat /\ b % 2 = 0 /\ b + 1 <= view[t][Version] /\ Len(loaded[t]) = 2 * NSlots
      /\ \A l \in Words : loaded[t][l] = WordOf(epochs[e], l) \/ view[t][Version] >= b + 2
  <2>1. storing[t] = Empty /\ Len(loaded[t]) = 2 * NSlots
    BY DEF IInv, ThreadInv, LocalInv
  <2>2. b \in Nat
    BY DEF IInv, LocalsType
  <2> QED
    BY <2>1, <2>2 DEF IInv, ThreadInv, ReaderInv, Stores, Words, Epoch
<1>2. e \in 1..LastEpoch /\ b + 1 = 2 * e - 1
  BY <1>1, EpochOf DEF IInv
<1>3. i \in 1..Versions /\ i >= view[t][Version] /\ view[t][Version] \in Nat
  BY WordFacts, MemoryFacts DEF IInv, MemoryInv, Readable, Versions
<1>4. i - 1 = b
  BY <1>3 DEF IInv, MemoryInv, VersionInv
<1> HIDE DEF b, e
<1>5. LastEpoch \in Nat
  BY MemoryFacts DEF IInv, MemoryInv
<1>6. i = view[t][Version] /\ view[t][Version] = 2 * e - 1
  BY <1>1, <1>2, <1>3, <1>4
<1>7. KnownEpoch(t) = e
  BY <1>2, <1>5, <1>6 DEF KnownEpoch
<1>8. \A l \in Words : loaded[t][l] = WordOf(epochs[e], l)
  BY <1>1, <1>2, <1>5, <1>6
<1>9. epochs[e] \in Buckets
  BY <1>2, MemoryFacts DEF IInv, MemoryInv
<1> QED
  BY <1>2, <1>6, <1>7, <1>8, <1>9, Decoded

(* A snapshot's second load of the version. *)
LEMMA LoadAfterKeeps ==
  ASSUME IInv, NEW t \in Threads, LoadAfter(t)
  PROVE  IInv'
<1>1. PICK i \in Readable(t, Version) :
        /\ Read(t, Version, i)
        /\ IF Confirms(t, history[Version][i].value)
           THEN Return(t, Hit(Contents(t)))
           ELSE TryAgain(t, "before", Missed)
  BY DEF LoadAfter
<1>2. UNCHANGED <<history, replacements, epochs>> /\ pc[t] = "after"
  BY DEF LoadAfter
<1>3. MemoryInv' /\ \A u \in Threads \ {t} : view'[u] = view[u]
  BY <1>1, <1>2, ReadKeepsMemory, WordFacts DEF IInv
<1>4. storing[t] = Empty
  BY <1>2 DEF IInv, ThreadInv, LocalInv
<1>5. LocalsType' /\ Alone(t) /\ ThreadInv(t)' /\ ~Claimed(t)'
  <2>1. CASE Confirms(t, history[Version][i].value)
    <3>1. Contents(t) \in Buckets
      BY <1>2, <2>1, SnapshotIsWhole, MemoryFacts DEF Confirms, IInv, MemoryInv
    <3>2. Return(t, Hit(Contents(t))) /\ Hit(Contents(t)) \in Answer
      BY <1>1, <2>1, <3>1, Answers
    <3> QED
      BY <3>2, ReturnIs, Retreats DEF IInv
  <2>2. CASE ~Confirms(t, history[Version][i].value)
    <3>1. TryAgain(t, "before", Missed)
      BY <1>1, <2>2
    <3> QED
      BY <1>4, <3>1, TryAgainIs, Retreats DEF IInv
  <2> QED
    BY <2>1, <2>2
<1> QED
  BY <1>2, <1>3, <1>5, OthersStay DEF IInv

(* A step of the claim holder: nobody else holds one. *)
LEMMA OthersWait ==
  ASSUME IInv, NEW t \in Threads, Alone(t),
         \A u \in Threads \ {t} : view'[u] = view[u] /\ ~Claimed(u),
         \A e \in 1..LastEpoch : epochs'[e] = epochs[e]
  PROVE  \A u \in Threads \ {t} : ThreadInv(u)' /\ ~Claimed(u)'
<1> TAKE u \in Threads \ {t}
<1>1. /\ pc'[u] = pc[u] /\ storing'[u] = storing[u] /\ before'[u] = before[u]
      /\ loaded'[u] = loaded[u] /\ view'[u] = view[u]
  BY DEF Alone
<1>2. /\ Contents(u)' = Contents(u) /\ Stores(u)' = Stores(u) /\ Claimed(u)' = Claimed(u)
  BY <1>1 DEF Contents, Stores, Claimed
<1>3. LocalInv(u)'
  BY <1>1, <1>2 DEF IInv, ThreadInv, LocalInv
<1>4. ReaderInv(u)'
  <2> SUFFICES ASSUME pc[u] \in {"load", "after"}, ~Stores(u)
               PROVE  /\ before[u] % 2 = 0
                      /\ before[u] + 1 <= view[u][Version]
                      /\ \A l \in 1..Len(loaded[u]) :
                           \/ loaded[u][l] = WordOf(Epoch(u)', l)
                           \/ view[u][Version] >= before[u] + 2
    BY <1>1, <1>2 DEF ReaderInv
  <2>1. /\ before[u] % 2 = 0
        /\ before[u] + 1 <= view[u][Version]
        /\ \A l \in 1..Len(loaded[u]) :
             \/ loaded[u][l] = WordOf(Epoch(u), l)
             \/ view[u][Version] >= before[u] + 2
    BY DEF IInv, ThreadInv, ReaderInv
  <2>2. before[u] \in Nat
    BY DEF IInv, LocalsType
  <2>3. before[u] \div 2 + 1 \in 1..LastEpoch
    BY <2>1, <2>2, EpochOf DEF IInv
  <2>4. Epoch(u)' = Epoch(u)
    BY <1>1, <2>3 DEF Epoch
  <2> QED
    BY <2>1, <2>4
<1>5. WriterInv(u)' /\ ~Claimed(u)'
  BY <1>2 DEF WriterInv
<1> QED
  BY <1>3, <1>4, <1>5 DEF ThreadInv

(* The odd version of a claim is still a version. *)
LEMMA ClaimedNext ==
  ASSUME NEW n \in Nat, n + 2 <= VersionMax, NEW b, b = n - 1
  PROVE  b + 1 \in 0..VersionMax /\ b + 1 = n
  BY SeqlockAssumption

(* A claim counts on: it is not made where the version is exhausted. *)
LEMMA ClaimCounts ==
  ASSUME IInv, NEW t \in Threads, Claim(t)
  PROVE  Following(before[t]) = before[t] + 1
<1>1. before[t] \in 0..VersionMax - 1
  BY DEF Claim, IInv, ThreadInv, LocalInv, LocalsType
<1> QED
  BY <1>1, FollowingIs

(* A successful claim. *)
LEMMA ClaimKeeps ==
  ASSUME IInv, NEW t \in Threads, Claim(t)
  PROVE  IInv'
<1>0. Following(before[t]) = before[t] + 1
  BY ClaimCounts
<1>1. /\ pc[t] = "claim"
      /\ before' = [before EXCEPT ![t] = @ + 1]
      /\ pc' = [pc EXCEPT ![t] = "load"]
      /\ UNCHANGED <<replacements, attempt, storing, loaded, answer, epochs>>
  BY <1>0 DEF Claim, Goto
<1>2. /\ MemoryInv'
      /\ Versions = 2 * LastEpoch - 1 /\ before[t] = Versions - 1
      /\ Versions + 2 <= VersionMax
      /\ Versions' = Versions + 1 /\ LastEpoch' = LastEpoch
      /\ \A k \in Words : LastValue(k) = WordOf(epochs[LastEpoch], k)
      /\ \A k \in Words : LastValue(k)' = LastValue(k)
      /\ \A k \in Locations : view'[t][k] = Len(history'[k])
      /\ \A u \in Threads \ {t} : view'[u] = view[u]
  BY ClaimKeepsMemory DEF IInv, ThreadInv
<1>3. Versions \in Nat /\ LastEpoch \in Nat
  BY WordFacts, MemoryFacts DEF IInv, MemoryInv, Versions
<1>4. LocalsType' /\ Alone(t) /\ before'[t] = Versions /\ pc'[t] = "load"
  <2>1. before[t] + 1 \in 0..VersionMax /\ before[t] + 1 = Versions
    BY <1>2, <1>3, ClaimedNext
  <2> QED
    BY <1>1, <2>1 DEF IInv, LocalsType, Alone
<1>5. storing[t] # Empty /\ loaded[t] = <<>> /\ Len(loaded[t]) = 0
  BY <1>1, EmptySeq DEF IInv, ThreadInv, LocalInv, Stores
<1>6. \A u \in Threads : ~Claimed(u)
  BY <1>2, <1>3 DEF IInv, ThreadInv, WriterInv
<1>7. \A u \in Threads \ {t} : ThreadInv(u)' /\ ~Claimed(u)'
  BY <1>1, <1>2, <1>4, <1>6, OthersWait
<1>8. ThreadInv(t)'
  <2>1. LocalInv(t)' /\ ReaderInv(t)'
    BY <1>1, <1>4, <1>5 DEF LocalInv, ReaderInv, Stores
  <2>2. Versions' = 2 * LastEpoch' /\ before'[t] = Versions' - 1 /\ Versions' + 1 <= VersionMax
    BY <1>2, <1>3, <1>4
  <2>3. \A l \in 1..Len(loaded'[t]) : loaded'[t][l] = WordOf(epochs'[LastEpoch'], l)
    BY <1>1, <1>5
  <2>4. \A l \in Words : LastValue(l)' = WordOf(epochs'[LastEpoch'], l)
    BY <1>1, <1>2
  <2>5. WriterInv(t)'
    BY <1>2, <1>4, <1>7, <2>2, <2>3, <2>4 DEF WriterInv
  <2> QED
    BY <2>1, <2>5 DEF ThreadInv
<1> QED
  BY <1>1, <1>2, <1>4, <1>7, <1>8 DEF IInv

(* What the claim holder has read, and what it decides. *)
LEMMA HolderFacts ==
  ASSUME IInv, NEW t \in Threads, pc[t] \in {"key", "payload", "publish"}
  PROVE  /\ storing[t] \in Entry /\ storing[t] # Empty
         /\ Len(loaded[t]) = 2 * NSlots
         /\ Contents(t) = epochs[LastEpoch]
         /\ epochs[LastEpoch] \in Buckets
         /\ Chosen(t) = Decision(epochs[LastEpoch], storing[t])
         /\ Chosen(t).slot \in Slots
         /\ Chosen(t).written \in Entry
         /\ Claimed(t)
         /\ \A u \in Threads \ {t} : ~Claimed(u)
         /\ Versions = 2 * LastEpoch /\ before[t] = Versions - 1 /\ Versions + 1 <= VersionMax
         /\ \A l \in Locations : view[t][l] = Len(history[l])
<1>1. Claimed(t)
  BY DEF Claimed
<1>2. storing[t] # Empty /\ Len(loaded[t]) = 2 * NSlots
  BY DEF IInv, ThreadInv, LocalInv, Stores
<1>3. storing[t] \in Entry
  BY <1>2 DEF IInv, LocalsType
<1>4. epochs[LastEpoch] \in Buckets
  BY MemoryFacts DEF IInv, MemoryInv
<1>5. /\ \A u \in Threads \ {t} : ~Claimed(u)
      /\ Versions = 2 * LastEpoch /\ before[t] = Versions - 1 /\ Versions + 1 <= VersionMax
      /\ \A l \in Locations : view[t][l] = Len(history[l])
      /\ \A l \in 1..Len(loaded[t]) : loaded[t][l] = WordOf(epochs[LastEpoch], l)
  BY <1>1 DEF IInv, ThreadInv, WriterInv
<1>6. Contents(t) = epochs[LastEpoch]
  BY <1>2, <1>4, <1>5, Decoded DEF Words
<1>7. Chosen(t) = Decision(epochs[LastEpoch], storing[t])
  BY <1>6 DEF Chosen
<1> QED
  BY <1>1, <1>2, <1>3, <1>4, <1>5, <1>6, <1>7, DecisionIs

(* The claim holder stores the key. *)
LEMMA StoreKeyKeeps ==
  ASSUME IInv, NEW t \in Threads, StoreKey(t)
  PROVE  IInv'
<1> DEFINE d == Chosen(t)
<1>1. /\ pc[t] = "key" /\ pc' = [pc EXCEPT ![t] = "payload"]
      /\ Write(t, KeyWord(d.slot), d.written.key)
      /\ UNCHANGED <<replacements, attempt, storing, before, loaded, answer, epochs>>
  BY DEF StoreKey, WriteField, Goto
<1>2. /\ storing[t] \in Entry /\ storing[t] # Empty /\ Len(loaded[t]) = 2 * NSlots
      /\ d.slot \in Slots /\ d.written \in Entry
      /\ \A u \in Threads \ {t} : ~Claimed(u)
      /\ Versions = 2 * LastEpoch /\ before[t] = Versions - 1 /\ Versions + 1 <= VersionMax
      /\ \A l \in Locations : view[t][l] = Len(history[l])
  BY <1>1, HolderFacts
<1> HIDE DEF d
<1>3. KeyWord(d.slot) \in Words /\ d.written.key \in Values(KeyWord(d.slot))
  BY <1>2, SlotFacts, WordFacts DEF Values
<1>w. PICK w \in Words : w = KeyWord(d.slot)
  BY <1>3
<1>x. PICK x \in Values(w) : x = d.written.key
  BY <1>3, <1>w
<1>4. /\ MemoryInv'
      /\ Versions' = Versions /\ LastEpoch' = LastEpoch
      /\ LastValue(w)' = x
      /\ \A k \in Locations : k # w => LastValue(k)' = LastValue(k)
      /\ \A k \in Locations : view'[t][k] = Len(history'[k])
      /\ \A u \in Threads \ {t} : view'[u] = view[u]
  <2>1. Write(t, w, x) /\ epochs' = epochs
    BY <1>1, <1>w, <1>x
  <2>2. MemoryInv
    BY DEF IInv
  <2> QED
    BY <1>2, <2>1, <2>2, WriteKeepsMemory
<1>5. LocalsType' /\ Alone(t) /\ pc'[t] = "payload"
  BY <1>1 DEF IInv, LocalsType, Alone
<1>6. \A u \in Threads \ {t} : ThreadInv(u)' /\ ~Claimed(u)'
  BY <1>1, <1>2, <1>4, <1>5, OthersWait
<1>7. Chosen(t)' = d
  BY <1>1 DEF Chosen, Contents, d
<1>8. ThreadInv(t)'
  <2>1. LocalInv(t)' /\ ReaderInv(t)'
    BY <1>1, <1>2, <1>5 DEF LocalInv, ReaderInv, Stores
  <2>2. /\ \A l \in 1..Len(loaded[t]) : loaded[t][l] = WordOf(epochs[LastEpoch], l)
        /\ \A l \in Words : LastValue(l) = WordOf(epochs[LastEpoch], l)
    BY <1>1 DEF IInv, ThreadInv, WriterInv, Claimed
  <2>3. \A l \in Words : LastValue(l)' = IF l = KeyWord(d.slot) THEN d.written.key
                                         ELSE WordOf(epochs[LastEpoch], l)
    <3> TAKE l \in Words
    <3>1. CASE l = w
      BY <1>4, <1>w, <1>x, <3>1
    <3>2. CASE l # w
      BY <1>4, <1>w, <2>2, <3>2, WordFacts
    <3> QED
      BY <3>1, <3>2
  <2>4. WriterInv(t)'
    BY <1>1, <1>2, <1>4, <1>5, <1>6, <1>7, <2>2, <2>3 DEF WriterInv
  <2> QED
    BY <2>1, <2>4 DEF ThreadInv
<1> QED
  BY <1>1, <1>4, <1>5, <1>6, <1>8 DEF IInv

(* The claim holder stores the payload. *)
LEMMA StorePayloadKeeps ==
  ASSUME IInv, NEW t \in Threads, StorePayload(t)
  PROVE  IInv'
<1> DEFINE d == Chosen(t)
<1>1. /\ pc[t] = "payload" /\ pc' = [pc EXCEPT ![t] = "publish"]
      /\ Write(t, PayloadWord(d.slot), d.written.payload)
      /\ UNCHANGED <<replacements, attempt, storing, before, loaded, answer, epochs>>
  BY DEF StorePayload, WriteField, Goto
<1>2. /\ storing[t] \in Entry /\ storing[t] # Empty /\ Len(loaded[t]) = 2 * NSlots
      /\ epochs[LastEpoch] \in Buckets
      /\ d = Decision(epochs[LastEpoch], storing[t])
      /\ d.slot \in Slots /\ d.written \in Entry
      /\ \A u \in Threads \ {t} : ~Claimed(u)
      /\ Versions = 2 * LastEpoch /\ before[t] = Versions - 1 /\ Versions + 1 <= VersionMax
      /\ \A l \in Locations : view[t][l] = Len(history[l])
  BY <1>1, HolderFacts
<1>3. /\ \A l \in 1..Len(loaded[t]) : loaded[t][l] = WordOf(epochs[LastEpoch], l)
      /\ \A l \in Words : LastValue(l) = IF l = KeyWord(d.slot) THEN d.written.key
                                         ELSE WordOf(epochs[LastEpoch], l)
  BY <1>1 DEF IInv, ThreadInv, WriterInv, Claimed
<1>4. \A l \in Words : WordOf(StoreInto(epochs[LastEpoch], storing[t]), l) =
           IF l = KeyWord(d.slot) THEN d.written.key
           ELSE IF l = PayloadWord(d.slot) THEN d.written.payload
           ELSE WordOf(epochs[LastEpoch], l)
  BY <1>2, StoredWords
<1>5. Chosen(t)' = d
  BY <1>1 DEF Chosen, Contents
<1> HIDE DEF d
<1>w. PICK w \in Words : w = PayloadWord(d.slot)
  BY <1>2, WordFacts
<1>x. PICK x \in Values(w) : x = d.written.payload
  <2>1. ~\E s \in Slots : w = KeyWord(s)
    BY <1>2, <1>w, WordFacts
  <2>2. w # Version
    BY WordFacts
  <2> QED
    BY <1>2, <2>1, <2>2, SlotFacts DEF Values
<1>6. Write(t, w, x) /\ epochs' = epochs
  BY <1>1, <1>w, <1>x
<1>7. /\ MemoryInv'
      /\ Versions' = Versions /\ LastEpoch' = LastEpoch
      /\ LastValue(w)' = x
      /\ \A k \in Locations : k # w => LastValue(k)' = LastValue(k)
      /\ \A k \in Locations : view'[t][k] = Len(history'[k])
      /\ \A u \in Threads \ {t} : view'[u] = view[u]
  <2>1. MemoryInv
    BY DEF IInv
  <2> QED
    BY <1>2, <1>6, <2>1, WriteKeepsMemory
<1>8. LocalsType' /\ Alone(t) /\ pc'[t] = "publish"
  BY <1>1 DEF IInv, LocalsType, Alone
<1>9. \A u \in Threads \ {t} : ThreadInv(u)' /\ ~Claimed(u)'
  BY <1>1, <1>2, <1>7, <1>8, OthersWait
<1>10. ThreadInv(t)'
  <2>1. LocalInv(t)' /\ ReaderInv(t)'
    BY <1>1, <1>2, <1>8 DEF LocalInv, ReaderInv, Stores
  <2>2. \A l \in Words : LastValue(l)' = WordOf(StoreInto(epochs[LastEpoch], storing[t]), l)
    <3> TAKE l \in Words
    <3>1. CASE l = w
      <4>1. l # KeyWord(d.slot)
        BY <1>2, <1>w, <3>1, WordFacts
      <4> QED
        BY <1>4, <1>7, <1>w, <1>x, <3>1, <4>1
    <3>2. CASE l # w
      <4>1. LastValue(l)' = LastValue(l)
        BY <1>7, <3>2, WordFacts
      <4> QED
        BY <1>3, <1>4, <1>w, <3>2, <4>1
    <3> QED
      BY <3>1, <3>2
  <2>3. WriterInv(t)'
    BY <1>1, <1>2, <1>3, <1>7, <1>8, <1>9, <2>2 DEF WriterInv
  <2> QED
    BY <2>1, <2>3 DEF ThreadInv
<1> QED
  BY <1>1, <1>7, <1>8, <1>9, <1>10 DEF IInv

(* What publishing does to memory and to the epochs. *)
LEMMA PublishIs ==
  ASSUME IInv, NEW t \in Threads, Publish(t)
  PROVE  /\ pc[t] = "publish" /\ replacements' = replacements
         /\ MemoryInv'
         /\ LastEpoch' = LastEpoch + 1
         /\ epochs' = Append(epochs, StoreInto(epochs[LastEpoch], storing[t]))
         /\ \A e \in 1..LastEpoch : epochs'[e] = epochs[e]
         /\ view'[t][Version] = Versions + 1
         /\ \A u \in Threads \ {t} : view'[u] = view[u]
<1>0. Following(before[t]) = before[t] + 1
  <2>1. before[t] = Versions - 1 /\ Versions + 1 <= VersionMax
    BY HolderFacts DEF Publish
  <2>2. Versions \in Nat \ {0}
    BY WordFacts, MemoryFacts DEF IInv, MemoryInv, Versions
  <2> QED
    BY <2>1, <2>2, FollowingIs
<1>1. /\ pc[t] = "publish" /\ replacements' = replacements
      /\ Write(t, Version, before[t] + 1)
      /\ epochs' = Append(epochs, StoreInto(Contents(t), storing[t]))
  BY <1>0 DEF Publish
<1>2. /\ storing[t] \in Entry
      /\ Contents(t) = epochs[LastEpoch]
      /\ Versions = 2 * LastEpoch /\ before[t] = Versions - 1 /\ Versions + 1 <= VersionMax
      /\ \A l \in Locations : view[t][l] = Len(history[l])
  BY <1>1, HolderFacts
<1>3. \A l \in Words : LastValue(l) = WordOf(StoreInto(epochs[LastEpoch], storing[t]), l)
  BY <1>1 DEF IInv, ThreadInv, WriterInv, Claimed
<1>4. before[t] + 1 = Versions
  BY <1>2, WordFacts, MemoryFacts DEF IInv, MemoryInv, Versions
<1>5. PICK entry \in Entry : entry = storing[t]
  BY <1>2
<1>6. /\ Write(t, Version, Versions)
      /\ epochs' = Append(epochs, StoreInto(epochs[LastEpoch], entry))
      /\ \A l \in Words : LastValue(l) = WordOf(StoreInto(epochs[LastEpoch], entry), l)
  BY <1>1, <1>2, <1>3, <1>4, <1>5
<1>7. /\ MemoryInv'
      /\ LastEpoch' = LastEpoch + 1
      /\ \A e \in 1..LastEpoch : epochs'[e] = epochs[e]
      /\ view'[t][Version] = Versions + 1
      /\ \A u \in Threads \ {t} : view'[u] = view[u]
  <2>1. MemoryInv
    BY DEF IInv
  <2> QED
    BY <1>2, <1>6, <2>1, PublishKeepsMemory
<1> QED
  BY <1>1, <1>5, <1>6, <1>7

(* The claim holder publishes. *)
LEMMA PublishKeeps ==
  ASSUME IInv, NEW t \in Threads, Publish(t)
  PROVE  IInv'
<1>1. /\ pc[t] = "publish" /\ replacements' = replacements
      /\ MemoryInv'
      /\ \A e \in 1..LastEpoch : epochs'[e] = epochs[e]
      /\ \A u \in Threads \ {t} : view'[u] = view[u]
  BY PublishIs
<1>2. /\ storing[t] \in Entry /\ storing[t] # Empty /\ Len(loaded[t]) = 2 * NSlots
      /\ Contents(t) = epochs[LastEpoch] /\ epochs[LastEpoch] \in Buckets
      /\ Chosen(t) = Decision(epochs[LastEpoch], storing[t])
      /\ \A u \in Threads \ {t} : ~Claimed(u)
  BY <1>1, HolderFacts
<1>3. LocalsType' /\ Alone(t) /\ ThreadInv(t)'
  <2>1. CASE Counts(t)
    <3>1. pc' = [pc EXCEPT ![t] = "count"] /\ UNCHANGED <<attempt, storing, before, loaded, answer>>
      BY <2>1 DEF Publish, Goto
    <3>2. LocalsType' /\ Alone(t) /\ pc'[t] = "count"
      BY <3>1 DEF IInv, LocalsType, Alone
    <3>3. Contents(t)' = Contents(t)
      BY <3>1 DEF Contents
    <3> QED
      BY <1>2, <3>1, <3>2, <3>3
      DEF ThreadInv, LocalInv, ReaderInv, WriterInv, Claimed, Stores
  <2>2. CASE ~Counts(t)
    <3>1. Return(t, Outcome(Chosen(t)))
      BY <2>2 DEF Publish
    <3>2. Outcome(Chosen(t)) \in Answer
      BY <1>2, Answers
    <3> QED
      BY <3>1, <3>2, ReturnIs, Retreats DEF IInv
  <2> QED
    BY <2>1, <2>2
<1>4. \A u \in Threads \ {t} : ThreadInv(u)'
  BY <1>1, <1>2, <1>3, OthersWait
<1> QED
  BY <1>1, <1>3, <1>4 DEF IInv

(* A replacement is counted after the bucket is published. *)
LEMMA CountKeeps ==
  ASSUME IInv, NEW t \in Threads, Count(t)
  PROVE  IInv'
<1>1. /\ pc[t] = "count" /\ replacements' = replacements + 1
      /\ Return(t, Outcome(Chosen(t)))
      /\ UNCHANGED <<history, view, epochs>>
  BY DEF Count, memory
<1>2. Contents(t) \in Buckets /\ storing[t] \in Entry
  <2>1. Contents(t) \in Buckets /\ storing[t] # Empty
    BY <1>1 DEF IInv, ThreadInv, LocalInv, Stores
  <2> QED
    BY <2>1 DEF IInv, LocalsType
<1>3. Outcome(Chosen(t)) \in Answer
  BY <1>2, Answers DEF Chosen
<1>4. LocalsType' /\ Alone(t) /\ ThreadInv(t)' /\ ~Claimed(t)'
  BY <1>1, <1>3, ReturnIs, Retreats DEF IInv
<1>5. MemoryInv'
  BY <1>1 DEF IInv, MemoryInv, MemoryType, VersionInv, EpochInv, OrderInv, ClosedInv, FreshInv,
     Versions, LastEpoch, Values, Message, Views
<1>6. replacements' \in Nat
  BY <1>1 DEF IInv
<1> QED
  BY <1>1, <1>4, <1>5, <1>6, OthersStay DEF IInv

-----------------------------------------------------------------------------
(* One message at every location, seen by every thread. *)
LEMMA FreshMemory ==
  ASSUME NEW c \in Buckets, NEW h, NEW l \in Locations,
         h = [k \in Locations |-> << [value |-> WordOf(c, k), sees |-> Zeroes] >>]
  PROVE  /\ h[l] \in Seq(Message(l)) /\ h[l] # <<>>
         /\ Len(h[l]) = 1 /\ h[l][1].value = WordOf(c, l) /\ h[l][1].sees = Zeroes
         /\ Zeroes \in Views /\ \A k \in Locations : Zeroes[k] = 1
<1>1. Zeroes \in Views /\ \A k \in Locations : Zeroes[k] = 1
  BY DEF Zeroes, Views
<1> DEFINE m == [value |-> WordOf(c, l), sees |-> Zeroes]
<1>2. m \in Message(l) /\ m.value = WordOf(c, l) /\ m.sees = Zeroes
  BY <1>1, WordTypes DEF Message
<1>3. h[l] = <<m>>
  OBVIOUS
<1> HIDE DEF m
<1>4. <<m>> \in Seq(Message(l)) /\ Len(<<m>>) = 1 /\ <<m>>[1] = m
  BY <1>2
<1>5. <<m>> # <<>>
  BY <1>4, EmptySeq
<1> QED
  BY <1>1, <1>2, <1>3, <1>4, <1>5

(* The invariant holds of a fresh or a warm bucket. *)
LEMMA InitIInv == Init => IInv
<1> SUFFICES ASSUME Init PROVE IInv
  OBVIOUS
<1>1. PICK c \in Warm :
        /\ history = [l \in Locations |-> << [value |-> WordOf(c, l), sees |-> Zeroes] >>]
        /\ epochs = << c >>
  BY DEF Init
<1>2. c \in Buckets
  OBVIOUS
<1>3. /\ view = [t \in Threads |-> Zeroes] /\ replacements = 0
      /\ pc = [t \in Threads |-> "idle"] /\ attempt = [t \in Threads |-> 0]
      /\ storing = [t \in Threads |-> Empty] /\ before = [t \in Threads |-> 0]
      /\ loaded = [t \in Threads |-> <<>>] /\ answer = [t \in Threads |-> NoAnswer]
  BY DEF Init
<1>4. \A l \in Locations :
        /\ history[l] \in Seq(Message(l)) /\ history[l] # <<>>
        /\ Len(history[l]) = 1 /\ history[l][1].value = WordOf(c, l) /\ history[l][1].sees = Zeroes
        /\ Zeroes \in Views /\ \A k \in Locations : Zeroes[k] = 1
  BY <1>1, <1>2, FreshMemory
<1>5. epochs \in Seq(Buckets) /\ epochs # <<>> /\ LastEpoch = 1 /\ epochs[1] = c
  BY <1>1, <1>2 DEF LastEpoch
<1>6. Versions = 1 /\ \A l \in Words : l \in Locations /\ End(history, 1, l) = 1
  BY <1>4, WordFacts DEF Versions, End
<1>7. MemoryInv
  <2>1. MemoryType
    BY <1>1, <1>3, <1>4, <1>5, WordFacts DEF MemoryType
  <2>2. VersionInv
    BY <1>4, <1>5, <1>6, WordFacts DEF VersionInv, WordOf
  <2>3. EpochInv
    BY <1>4, <1>5, <1>6 DEF EpochInv
  <2>4. OrderInv
    BY <1>4, <1>5, <1>6 DEF OrderInv
  <2>5. Closed(Zeroes, history, LastEpoch)
    BY <1>4, <1>5, <1>6, WordFacts DEF Closed
  <2>6. ClosedInv
    BY <1>3, <1>4, <2>5 DEF ClosedInv
  <2>7. FreshInv
    BY <1>4, <1>5, <1>6 DEF FreshInv
  <2> QED
    BY <2>1, <2>2, <2>3, <2>4, <2>6, <2>7 DEF MemoryInv
<1>8. LocalsType
  <2>1. <<>> \in Seq(LoadedWord) /\ 0 \in 0..VersionMax
    BY EmptySeq
  <2> QED
    BY <1>3, <2>1, Answers DEF LocalsType
<1>9. \A t \in Threads : ThreadInv(t)
  BY <1>3 DEF ThreadInv, LocalInv, ReaderInv, WriterInv, Claimed
<1> QED
  BY <1>3, <1>7, <1>8, <1>9 DEF IInv

(* Clearing the table, with no operation under way. *)
LEMMA ClearKeeps ==
  ASSUME IInv, Clear
  PROVE  IInv'
<1>1. /\ \A t \in Threads : pc[t] = "idle"
      /\ history' = [l \in Locations |-> << [value |-> WordOf(Blank, l), sees |-> Zeroes] >>]
      /\ view' = [t \in Threads |-> Zeroes]
      /\ replacements' = 0
      /\ answer' = [t \in Threads |-> NoAnswer]
      /\ epochs' = << Blank >>
      /\ UNCHANGED <<pc, attempt, storing, before, loaded>>
  BY DEF Clear
<1>2. \A l \in Locations :
        /\ history'[l] \in Seq(Message(l)) /\ history'[l] # <<>>
        /\ Len(history'[l]) = 1 /\ history'[l][1].value = WordOf(Blank, l)
        /\ history'[l][1].sees = Zeroes
        /\ Zeroes \in Views /\ \A k \in Locations : Zeroes[k] = 1
  BY <1>1, FreshMemory, BlankIs
<1>3. epochs' \in Seq(Buckets) /\ epochs' # <<>> /\ LastEpoch' = 1 /\ epochs'[1] = Blank
  BY <1>1, BlankIs DEF LastEpoch
<1>4. Versions' = 1 /\ \A l \in Words : l \in Locations /\ End(history', 1, l) = 1
  BY <1>2, WordFacts DEF Versions, End
<1>5. MemoryInv'
  <2>1. MemoryType'
    BY <1>1, <1>2, <1>3, WordFacts DEF MemoryType, Message, Values, Views
  <2>2. VersionInv'
    BY <1>2, <1>3, <1>4, WordFacts DEF VersionInv, WordOf
  <2>3. EpochInv'
    BY <1>2, <1>3, <1>4 DEF EpochInv
  <2>4. OrderInv'
    BY <1>2, <1>3, <1>4 DEF OrderInv
  <2>5. Closed(Zeroes, history', LastEpoch')
    BY <1>2, <1>3, <1>4, WordFacts DEF Closed
  <2>6. ClosedInv'
    BY <1>1, <1>2, <2>5 DEF ClosedInv
  <2>7. FreshInv'
    BY <1>2, <1>3, <1>4 DEF FreshInv
  <2> QED
    BY <2>1, <2>2, <2>3, <2>4, <2>6, <2>7 DEF MemoryInv
<1>6. LocalsType'
  BY <1>1, Answers DEF IInv, LocalsType
<1>7. \A t \in Threads : ThreadInv(t)'
  BY <1>1, Retreats DEF IInv, ThreadInv, LocalInv
<1> QED
  BY <1>1, <1>5, <1>6, <1>7 DEF IInv

(* The invariant is inductive: one case per action. *)
LEMMA NextIInv == IInv /\ [Next]_vars => IInv'
<1> SUFFICES ASSUME IInv, [Next]_vars PROVE IInv'
  OBVIOUS
<1>1. CASE UNCHANGED vars
  <2>1. /\ UNCHANGED <<history, view, replacements, pc, attempt, storing, before, loaded, answer, epochs>>
    BY <1>1 DEF vars, memory
  <2>2. MemoryInv' /\ LocalsType' /\ replacements' \in Nat
    BY <2>1 DEF IInv, MemoryInv, MemoryType, VersionInv, EpochInv, OrderInv, ClosedInv, FreshInv,
       Versions, LastEpoch, Values, Message, Views, LocalsType
  <2>3. \A t \in Threads : ThreadInv(t)'
    BY <2>1 DEF IInv, ThreadInv, LocalInv, ReaderInv, WriterInv, Contents, Chosen, Epoch, Stores,
       Claimed, LastValue, Versions, LastEpoch
  <2> QED
    BY <2>2, <2>3 DEF IInv
<1>2. CASE Clear
  BY <1>2, ClearKeeps
<1>3. ASSUME NEW t \in Threads, BeginSnapshot(t) \/ BeginStore(t) \/ Operate(t)
      PROVE  IInv'
  BY <1>3, BeginSnapshotKeeps, BeginStoreKeeps, LoadBeforeKeeps, LoadWordKeeps, LoadAfterKeeps,
     LoadEvenKeeps, ClaimKeeps, ClaimFailsKeeps, StoreKeyKeeps, StorePayloadKeeps, PublishKeeps,
     CountKeeps DEF Operate
<1> QED
  BY <1>1, <1>2, <1>3 DEF Next

(* The inductive invariant holds in every reachable state. *)
THEOREM Invariance == Spec => []IInv
  BY InitIInv, NextIInv, PTL DEF Spec

-----------------------------------------------------------------------------
(* What the invariant gives. *)

(* Every variable has its type; in particular every snapshot that was      *)
(* answered is a bucket's contents, whatever words it was put together of. *)
THEOREM TypeCorrect == Spec => []TypeOK
<1>1. IInv => TypeOK
  <2> SUFFICES ASSUME IInv PROVE TypeOK
    OBVIOUS
  <2>1. \A l \in Locations : \A i \in DOMAIN history[l] :
          /\ history[l][i].value \in Values(l)
          /\ history[l][i].sees \in [Locations -> Nat]
    BY MemoryFacts DEF IInv, MemoryInv, Views
  <2>2. view \in [Threads -> [Locations -> Nat \ {0}]] /\ \A t \in Threads, l \in Locations : view[t][l] <= Len(history[l])
    BY DEF IInv, MemoryInv, MemoryType, ClosedInv, Closed, Views
  <2>3. \A t \in Threads : Len(loaded[t]) <= 2 * NSlots
    <3> TAKE t \in Threads
    <3>1. loaded[t] \in Seq(LoadedWord) /\ pc[t] \in {"idle", "before", "load", "after", "even", "claim", "key", "payload", "publish", "count"}
      BY DEF IInv, LocalsType
    <3>2. LocalInv(t)
      BY DEF IInv, ThreadInv
    <3>3. Len(loaded[t]) \in Nat
      BY <3>1, LenProperties
    <3>4. CASE pc[t] \in {"idle", "before", "even", "claim"}
      BY <3>2, <3>4, EmptySeq DEF LocalInv
    <3>5. CASE pc[t] \in {"load", "after", "key", "payload", "publish", "count"}
      BY <3>2, <3>3, <3>5 DEF LocalInv
    <3> QED
      BY <3>1, <3>4, <3>5
  <2>4. \A i \in DOMAIN epochs : \A s \in Slots : epochs[i][s] \in Entry \cup {Empty}
    <3>1. \A i \in DOMAIN epochs : epochs[i] \in Buckets
      BY MemoryFacts DEF IInv, MemoryInv
    <3> QED
      BY <3>1 DEF Buckets
  <2> QED
    BY <2>1, <2>2, <2>3, <2>4 DEF IInv, LocalsType, TypeOK, Values
<1> QED
  BY <1>1, Invariance, PTL

(* A claim excludes every other writer, and its holder has seen all that   *)
(* earlier writers did (claim_bucket's AcqRel compare-and-exchange).       *)
THEOREM WriterAlone == Spec => []WriterIsAlone
<1>1. IInv => WriterIsAlone
  BY DEF IInv, ThreadInv, WriterInv, WriterIsAlone
<1> QED
  BY <1>1, Invariance, PTL

(* From one published epoch to the next nothing that is known of a         *)
(* position gets worse, and a position is in one slot.                     *)
THEOREM KnowledgeKept == Spec => []KnowledgeIsKept
<1>1. IInv => KnowledgeIsKept
  <2> SUFFICES ASSUME IInv PROVE KnowledgeIsKept
    OBVIOUS
  <2>1. \A e \in 1..LastEpoch : epochs[e] \in Buckets
    BY MemoryFacts DEF IInv, MemoryInv
  <2>2. DOMAIN epochs = 1..LastEpoch /\ LastEpoch \in Nat
    BY MemoryFacts DEF IInv, MemoryInv
  <2>3. OneSlotPerKey
    BY <2>1, <2>2 DEF OneSlotPerKey, Buckets
  <2>4. ASSUME NEW i \in 1..Len(epochs) - 1, NEW s \in Slots, NEW u \in Slots,
               Occupied(epochs[i][s]), Occupied(epochs[i + 1][u]),
               epochs[i][s].key = epochs[i + 1][u].key
        PROVE  /\ epochs[i][s].payload.depth <= epochs[i + 1][u].payload.depth
               /\ epochs[i][s].payload.depth = epochs[i + 1][u].payload.depth
                    /\ epochs[i][s].payload.bound = "Exact"
                  => epochs[i + 1][u].payload.bound = "Exact"
    <3>1. i \in 1..LastEpoch - 1 /\ i \in 1..LastEpoch
      BY <2>2 DEF LastEpoch
    <3>2. PICK entry \in Entry : epochs[i + 1] = StoreInto(epochs[i], entry)
      BY <3>1 DEF IInv, MemoryInv, EpochInv
    <3>3. PICK c \in Buckets : c = epochs[i]
      BY <2>1, <3>1
    <3> QED
      BY <2>4, <3>2, <3>3, StoreKeepsKnowledge
  <2> QED
    BY <2>3, <2>4 DEF KnowledgeIsKept
<1> QED
  BY <1>1, Invariance, PTL

(* Whatever is stored into the bucket as it stands, at most one entry is   *)
(* lost, and none that is better than one that is kept.                    *)
THEOREM EvictionReasonable == Spec => []EvictionIsReasonable
<1>1. IInv => EvictionIsReasonable
  <2> SUFFICES ASSUME IInv PROVE EvictionIsReasonable
    OBVIOUS
  <2>1. epochs[Len(epochs)] \in Buckets
    BY MemoryFacts DEF IInv, MemoryInv, LastEpoch
  <2>2. PICK c \in Buckets : c = epochs[Len(epochs)]
    BY <2>1
  <2> QED
    BY <2>2, StoreLosesTheCheapest DEF EvictionIsReasonable
<1> QED
  BY <1>1, Invariance, PTL

-----------------------------------------------------------------------------
(* The refinement. *)

(* The operators of a bucket mean the same in the atomic one. *)
LEMMA SameBucket ==
  /\ A!Buckets = Buckets /\ A!Entry = Entry /\ A!Slots = Slots /\ A!Empty = Empty
  /\ A!NoAnswer = NoAnswer /\ A!Missed = Missed /\ A!Dropped = Dropped
  /\ \A c : A!Hit(c) = Hit(c)
  /\ \A c, e : A!StoreInto(c, e) = StoreInto(c, e)
  /\ \A c, e : A!Outcome(A!Decision(c, e)) = Outcome(Decision(c, e))
<1>1. /\ A!Slots = Slots /\ A!NoPayload = NoPayload /\ A!Payload = Payload
      /\ \A s : A!First(s) = First(s) /\ A!Occupied(s) = Occupied(s)
  <2>1. A!Slots = Slots
    BY DEF A!Slots, Slots
  <2>2. A!NoPayload = NoPayload
    BY DEF A!NoPayload, NoPayload
  <2>3. A!Payload = Payload
    BY DEF A!Payload, Payload
  <2>4. \A s : A!First(s) = First(s)
    BY Zenon DEF A!First, First
  <2>5. \A s : A!Occupied(s) = Occupied(s)
    BY DEF A!Occupied, Occupied
  <2> QED
    BY <2>1, <2>2, <2>3, <2>4, <2>5
<1>2. /\ A!Entry = Entry /\ A!Empty = Empty
  BY <1>1 DEF A!Entry, Entry, A!Empty, Empty
<1>3. A!Buckets = Buckets
  BY <1>1, <1>2 DEF A!Buckets, Buckets
<1>4. \A c, e : /\ A!Matching(c, e) = Matching(c, e) /\ A!Vacant(c) = Vacant(c)
                /\ A!Rejects(c, e) = Rejects(c, e) /\ A!Refreshed(c, e) = Refreshed(c, e)
                /\ A!Quality(c, e) = Quality(c, e)
  <2>1. \A c, e : A!Matching(c, e) = Matching(c, e)
    BY <1>1 DEF A!Matching, Matching
  <2>2. \A c : A!Vacant(c) = Vacant(c)
    BY <1>1 DEF A!Vacant, Vacant
  <2>3. \A c, e : A!Rejects(c, e) = Rejects(c, e)
    BY DEF A!Rejects, Rejects
  <2>4. \A c, e : A!Refreshed(c, e) = Refreshed(c, e)
    BY Zenon DEF A!Refreshed, Refreshed
  <2>5. \A c, e : A!Quality(c, e) = Quality(c, e)
    BY DEF A!Quality, Quality
  <2> QED
    BY <2>1, <2>2, <2>3, <2>4, <2>5
<1>5. \A c, e : A!Cheapest(c, e) = Cheapest(c, e)
  BY <1>1, <1>4 DEF A!Cheapest, Cheapest
<1>6. \A c, e : A!Decision(c, e) = Decision(c, e)
  <2> TAKE c, e
  <2> DEFINE found == First(Matching(c, e))
  <2>1. /\ A!Matching(c, e) = Matching(c, e) /\ A!Vacant(c) = Vacant(c)
        /\ A!First(Matching(c, e)) = found /\ A!First(Vacant(c)) = First(Vacant(c))
        /\ A!Cheapest(c, e.payload.generation) = Cheapest(c, e.payload.generation)
        /\ A!Rejects(c[found], e) = Rejects(c[found], e)
        /\ A!Refreshed(c[found], e) = Refreshed(c[found], e)
    BY <1>1, <1>4, <1>5, Zenon
  <2> HIDE DEF found
  <2>2. CASE Matching(c, e) = {}
    BY <2>1, <2>2 DEF A!Decision, Decision
  <2>3. CASE Matching(c, e) # {}
    <3>1. Decision(c, e) =
            [slot |-> found, stored |-> ~Rejects(c[found], e), replacement |-> FALSE,
             written |-> IF Rejects(c[found], e) THEN Refreshed(c[found], e) ELSE e]
      BY <2>3, Zenon DEF Decision, found
    <3>2. A!Decision(c, e) =
            [slot |-> A!First(A!Matching(c, e)),
             stored |-> ~A!Rejects(c[A!First(A!Matching(c, e))], e), replacement |-> FALSE,
             written |-> IF A!Rejects(c[A!First(A!Matching(c, e))], e)
                         THEN A!Refreshed(c[A!First(A!Matching(c, e))], e) ELSE e]
      BY <2>1, <2>3, Zenon DEF A!Decision
    <3> QED
      BY <2>1, <3>1, <3>2
  <2> QED
    BY <2>2, <2>3
<1>7. \A c, e : A!StoreInto(c, e) = StoreInto(c, e)
  BY <1>6 DEF A!StoreInto, StoreInto
<1>8. \A c, e : A!Outcome(A!Decision(c, e)) = Outcome(Decision(c, e))
  BY <1>6 DEF A!Outcome, Outcome
<1> QED
  BY <1>1, <1>2, <1>3, <1>7, <1>8
  DEF A!NoAnswer, NoAnswer, A!Missed, Missed, A!Dropped, Dropped, A!Hit, Hit

(* What a thread knows, and what it has answered as far as the abstract    *)
(* bucket is concerned: a store is answered when it is published.          *)
Known == [t \in Threads |-> KnownEpoch(t)]
Answered == [t \in Threads |-> IF pc[t] = "count" THEN Outcome(Chosen(t)) ELSE answer[t]]

(* Knowledge only grows, and stays within what is published. *)
LEMMA KnownGrows ==
  ASSUME IInv, IInv', NEW t \in Threads,
         \A u \in Threads \ {t} : view'[u] = view[u],
         view'[t][Version] >= view[t][Version]
  PROVE  /\ Known' = [Known EXCEPT ![t] = Known'[t]]
         /\ Known'[t] >= Known[t] /\ Known'[t] <= Len(epochs') /\ Known'[t] \in Nat
         /\ Known[t] \in Nat
<1>1. view[t][Version] \in Nat /\ view'[t][Version] \in Nat
  <2>1. view \in [Threads -> Views] /\ view' \in [Threads -> Views]
    BY DEF IInv, MemoryInv, MemoryType, Views
  <2> QED
    BY <2>1, WordFacts DEF Views
<1>2. view'[t][Version] <= 2 * LastEpoch' /\ LastEpoch' \in Nat
  <2>1. view'[t][Version] <= Versions'
    BY WordFacts DEF IInv, MemoryInv, ClosedInv, Closed, Versions
  <2>2. Versions' \in {2 * LastEpoch' - 1, 2 * LastEpoch'}
    BY DEF IInv, MemoryInv, VersionInv
  <2>3. LastEpoch' \in Nat
    <3>1. epochs' \in Seq(Buckets)
      BY DEF IInv, MemoryInv, MemoryType
    <3> QED
      BY <3>1, LenProperties DEF LastEpoch
  <2> QED
    <3>1. PICK n \in Nat : n = LastEpoch'
      BY <2>3
    <3>2. Versions' = 2 * n - 1 \/ Versions' = 2 * n
      BY <2>2, <3>1
    <3>3. view'[t][Version] <= 2 * n
      BY <1>1, <2>1, <3>2
    <3> QED
      BY <3>1, <3>3
<1>3. \A u \in Threads \ {t} : KnownEpoch(u)' = KnownEpoch(u)
  BY DEF KnownEpoch
<1>4. Known[t] = (view[t][Version] + 1) \div 2 /\ Known'[t] = (view'[t][Version] + 1) \div 2
  BY DEF Known, KnownEpoch
<1>5. Known' = [Known EXCEPT ![t] = Known'[t]]
  BY <1>3 DEF Known
<1>6. LastEpoch' = Len(epochs')
  BY DEF LastEpoch
<1>7. ASSUME NEW m \in Nat, NEW n \in Nat, NEW last \in Nat, n >= m, n <= 2 * last
      PROVE  /\ (n + 1) \div 2 >= (m + 1) \div 2 /\ (n + 1) \div 2 <= last
             /\ (n + 1) \div 2 \in Nat /\ (m + 1) \div 2 \in Nat
  BY <1>7
<1>8. /\ Known'[t] >= Known[t] /\ Known'[t] <= LastEpoch'
      /\ Known'[t] \in Nat /\ Known[t] \in Nat
  <2>1. PICK m \in Nat, n \in Nat, last \in Nat :
          m = view[t][Version] /\ n = view'[t][Version] /\ last = LastEpoch'
    BY <1>1, <1>2
  <2>2. n >= m /\ n <= 2 * last
    BY <1>2, <2>1
  <2>3. Known[t] = (m + 1) \div 2 /\ Known'[t] = (n + 1) \div 2
    BY <1>4, <2>1
  <2> QED
    BY <1>7, <2>1, <2>2, <2>3
<1> QED
  BY <1>5, <1>6, <1>8

(* The answers of the threads that do not move are kept. *)
LEMMA AnswersOf ==
  ASSUME LocalsType, NEW t \in Threads, Alone(t)
  PROVE  Answered' = [Answered EXCEPT ![t] = Answered'[t]]
<1>1. \A u \in Threads \ {t} : Chosen(u)' = Chosen(u) /\ pc'[u] = pc[u] /\ answer'[u] = answer[u]
  BY DEF Alone, Chosen, Contents
<1> QED
  BY <1>1 DEF Answered

(* The initial states are initial states of the atomic bucket. *)
LEMMA InitRefines == Init => A!Init
<1> SUFFICES ASSUME Init PROVE A!Init
  OBVIOUS
<1>1. PICK c \in Warm : epochs = << c >>
  BY DEF Init
<1>2. Len(epochs) = 1 /\ epochs[1] \in Buckets
  BY <1>1
<1>3. view = [t \in Threads |-> Zeroes] /\ answer = [t \in Threads |-> NoAnswer] /\ pc = [t \in Threads |-> "idle"]
  BY DEF Init
<1>4. \A t \in Threads : KnownEpoch(t) = 1
  BY <1>3, WordFacts DEF KnownEpoch, Zeroes
<1>5. \A t \in Threads : (IF pc[t] = "count" THEN Outcome(Chosen(t)) ELSE answer[t]) = NoAnswer
  BY <1>3
<1> QED
  BY <1>2, <1>4, <1>5, SameBucket DEF A!Init

(* A thread that reads and answers nothing has at most learned something. *)
LEMMA LearnRefines ==
  ASSUME IInv, IInv', NEW t \in Threads, Alone(t), epochs' = epochs,
         \A u \in Threads \ {t} : view'[u] = view[u],
         view'[t][Version] >= view[t][Version],
         Answered'[t] = Answered[t]
  PROVE  A!Learn(t)
<1>1. /\ Known' = [Known EXCEPT ![t] = Known'[t]]
      /\ Known'[t] >= Known[t] /\ Known'[t] <= Len(epochs') /\ Known'[t] \in Nat /\ Known[t] \in Nat
  BY KnownGrows
<1>2. Answered' = Answered
  <2>1. Answered' = [Answered EXCEPT ![t] = Answered'[t]]
    BY AnswersOf DEF IInv
  <2>2. \A u \in Threads : Answered'[u] = Answered[u]
    BY <2>1 DEF Answered
  <2> QED
    BY <2>2 DEF Answered
<1>3. Len(epochs) \in Nat
  BY MemoryFacts DEF IInv, MemoryInv, LastEpoch
<1>4. PICK e \in Nat : e = Known'[t]
  BY <1>1
<1>5. e \in Known[t]..Len(epochs) /\ Known' = [Known EXCEPT ![t] = e]
  BY <1>1, <1>3, <1>4
<1> QED
  BY <1>2, <1>5 DEF A!Learn, A!Learns, Known, Answered

(* A failed attempt: it has learned, and answers Missed, Dropped or        *)
(* nothing yet.                                                            *)
LEMMA FailRefines ==
  ASSUME IInv, IInv', NEW t \in Threads, Alone(t), epochs' = epochs,
         \A u \in Threads \ {t} : view'[u] = view[u],
         view'[t][Version] >= view[t][Version],
         NEW what \in {Missed, Dropped}, Answered'[t] = what
  PROVE  A!Fail(t)
<1>1. /\ Known' = [Known EXCEPT ![t] = Known'[t]]
      /\ Known'[t] >= Known[t] /\ Known'[t] <= Len(epochs') /\ Known'[t] \in Nat /\ Known[t] \in Nat
  BY KnownGrows
<1>2. Answered' = [Answered EXCEPT ![t] = what]
  BY AnswersOf DEF IInv
<1>3. Len(epochs) \in Nat
  BY MemoryFacts DEF IInv, MemoryInv, LastEpoch
<1>4. PICK e \in Nat : e = Known'[t]
  BY <1>1
<1>5. e \in Known[t]..Len(epochs) /\ Known' = [Known EXCEPT ![t] = e]
  BY <1>1, <1>3, <1>4
<1>6. what \in {A!Missed, A!Dropped}
  BY SameBucket
<1> QED
  BY <1>2, <1>5, <1>6 DEF A!Fail, A!Learns, A!Returns, Known, Answered

(* Nothing the abstract bucket knows of. *)
LEMMA StutterRefines ==
  ASSUME IInv, NEW t \in Threads, Alone(t), epochs' = epochs,
         \A u \in Threads \ {t} : view'[u] = view[u],
         view'[t][Version] = view[t][Version],
         Answered'[t] = Answered[t]
  PROVE  UNCHANGED A!bucket
<1>1. Known' = Known
  BY DEF Known, KnownEpoch
<1>2. Answered' = Answered
  <2>1. Answered' = [Answered EXCEPT ![t] = Answered'[t]]
    BY AnswersOf DEF IInv
  <2>2. \A u \in Threads : Answered'[u] = Answered[u]
    BY <2>1 DEF Answered
  <2> QED
    BY <2>2 DEF Answered
<1> QED
  BY <1>1, <1>2 DEF A!bucket, Known, Answered

(* What is common to the steps that load: the view of the version grows. *)
LEMMA LoadLearns ==
  ASSUME IInv, NEW t \in Threads, NEW l \in Locations, NEW i \in Readable(t, l), Read(t, l, i),
         UNCHANGED <<history, epochs>>
  PROVE  /\ \A u \in Threads \ {t} : view'[u] = view[u]
         /\ view'[t][Version] >= view[t][Version]
  BY ReadKeepsMemory, WordFacts DEF IInv

(* A retry or a giving up. *)
LEMMA TryAgainRefines ==
  ASSUME IInv, IInv', NEW t \in Threads, epochs' = epochs,
         \A u \in Threads \ {t} : view'[u] = view[u],
         view'[t][Version] >= view[t][Version],
         pc[t] # "count",
         NEW label \in {"before", "even"}, NEW otherwise \in {Missed, Dropped},
         TryAgain(t, label, otherwise)
  PROVE  A!Learn(t) \/ A!Fail(t)
<1>1. /\ Alone(t)
      /\ \/ pc'[t] = "idle" /\ answer'[t] = otherwise
         \/ pc'[t] = label /\ answer' = answer
  BY TryAgainIs DEF IInv
<1>2. CASE pc'[t] = "idle" /\ answer'[t] = otherwise
  <2>1. Answered'[t] = otherwise
    BY <1>2 DEF Answered
  <2> QED
    BY <1>1, <2>1, FailRefines
<1>3. CASE pc'[t] = label /\ answer' = answer
  <2>1. Answered'[t] = Answered[t]
    BY <1>3 DEF Answered
  <2> QED
    BY <1>1, <2>1, LearnRefines
<1> QED
  BY <1>1, <1>2, <1>3

(* Beginning an operation forgets the last answer. *)
LEMMA BeginRefines ==
  ASSUME IInv, NEW t \in Threads, BeginSnapshot(t) \/ BeginStore(t)
  PROVE  A!Begin(t)
<1>1. /\ pc'[t] # "count" /\ \A u \in Threads \ {t} : pc'[u] = pc[u] /\ answer'[u] = answer[u] /\ storing'[u] = storing[u]
      /\ answer'[t] = NoAnswer /\ loaded' = loaded /\ epochs' = epochs /\ view' = view
  <2>1. pc \in [Threads -> {"idle", "before", "load", "after", "even", "claim", "key",
                         "payload", "publish", "count"}] /\ answer \in [Threads -> Answer]
        /\ storing \in [Threads -> Entries \cup {Empty}]
    BY DEF IInv, LocalsType
  <2> QED
    BY <2>1 DEF BeginSnapshot, BeginStore, Goto, memory
<1>2. \A u \in Threads \ {t} : Chosen(u)' = Chosen(u)
  BY <1>1 DEF Chosen, Contents
<1>3. Answered' = [Answered EXCEPT ![t] = NoAnswer]
  BY <1>1, <1>2 DEF Answered
<1>4. Known' = Known
  BY <1>1 DEF Known, KnownEpoch
<1> QED
  BY <1>1, <1>3, <1>4, SameBucket DEF A!Begin, A!Returns, Known, Answered

(* A first load of the version learns, or fails. *)
LEMMA LoadBeforeRefines ==
  ASSUME IInv, IInv', NEW t \in Threads, LoadBefore(t)
  PROVE  A!Learn(t) \/ A!Fail(t)
<1>1. PICK i \in Readable(t, Version) :
        LET version == history[Version][i].value
        IN /\ Read(t, Version, i)
           /\ IF Odd(version)
              THEN TryAgain(t, "before", Missed)
              ELSE /\ before' = [before EXCEPT ![t] = version]
                   /\ Goto(t, "load")
                   /\ UNCHANGED <<attempt, storing, loaded, answer>>
  BY DEF LoadBefore
<1>2. UNCHANGED <<history, epochs>> /\ pc[t] = "before"
  BY DEF LoadBefore
<1>3. /\ \A u \in Threads \ {t} : view'[u] = view[u]
      /\ view'[t][Version] >= view[t][Version]
  BY <1>1, <1>2, LoadLearns, WordFacts
<1>4. CASE Odd(history[Version][i].value)
  BY <1>1, <1>2, <1>3, <1>4, TryAgainRefines
<1>5. CASE ~Odd(history[Version][i].value)
  <2>1. /\ before' = [before EXCEPT ![t] = history[Version][i].value]
        /\ pc' = [pc EXCEPT ![t] = "load"]
        /\ UNCHANGED <<attempt, storing, loaded, answer>>
    BY <1>1, <1>5 DEF Goto
  <2>2. Alone(t) /\ pc'[t] = "load"
    BY <2>1 DEF IInv, LocalsType, Alone
  <2>3. Answered'[t] = Answered[t]
    BY <1>2, <2>1, <2>2 DEF Answered
  <2> QED
    BY <1>2, <1>3, <2>2, <2>3, LearnRefines
<1> QED
  BY <1>4, <1>5

(* Loading a word learns. *)
LEMMA LoadWordRefines ==
  ASSUME IInv, IInv', NEW t \in Threads, LoadWord(t)
  PROVE  A!Learn(t)
<1> DEFINE l == Len(loaded[t]) + 1
<1>1. /\ l \in Words /\ pc[t] = "load"
      /\ pc'[t] \in {"load", "after", "key"}
      /\ Alone(t)
      /\ UNCHANGED <<history, epochs>>
  BY LoadWordIs
<1>2. PICK i \in Readable(t, l) : Read(t, l, i)
  BY LoadWordIs
<1> HIDE DEF l
<1>3. /\ \A u \in Threads \ {t} : view'[u] = view[u]
      /\ view'[t][Version] >= view[t][Version]
  BY <1>1, <1>2, LoadLearns, WordFacts
<1>4. answer' = answer
  BY DEF LoadWord
<1>5. Answered'[t] = Answered[t]
  BY <1>1, <1>4 DEF Answered
<1> QED
  BY <1>1, <1>3, <1>5, LearnRefines

(* A confirmed snapshot is a probe of the newest epoch the thread knows. *)
LEMMA LoadAfterRefines ==
  ASSUME IInv, IInv', NEW t \in Threads, LoadAfter(t)
  PROVE  A!Probe(t) \/ A!Learn(t) \/ A!Fail(t)
<1>1. PICK i \in Readable(t, Version) :
        /\ Read(t, Version, i)
        /\ IF Confirms(t, history[Version][i].value)
           THEN Return(t, Hit(Contents(t)))
           ELSE TryAgain(t, "before", Missed)
  BY DEF LoadAfter
<1>2. UNCHANGED <<history, epochs>> /\ pc[t] = "after"
  BY DEF LoadAfter
<1>3. /\ \A u \in Threads \ {t} : view'[u] = view[u]
      /\ view'[t][Version] >= view[t][Version]
      /\ view'[t][Version] = i
  BY <1>1, <1>2, ReadKeepsMemory, WordFacts DEF IInv
<1>4. CASE ~Confirms(t, history[Version][i].value)
  BY <1>1, <1>2, <1>3, <1>4, TryAgainRefines
<1>5. CASE Confirms(t, history[Version][i].value)
  <2>1. /\ i = view[t][Version]
        /\ KnownEpoch(t) \in 1..LastEpoch
        /\ Contents(t) = epochs[KnownEpoch(t)]
    BY <1>2, <1>5, SnapshotIsWhole DEF Confirms
  <2>2. Contents(t) \in Buckets
    BY <2>1, MemoryFacts DEF IInv, MemoryInv
  <2>3. Return(t, Hit(Contents(t))) /\ Hit(Contents(t)) \in Answer
    BY <1>1, <1>5, <2>2, Answers
  <2>4. Alone(t) /\ pc'[t] = "idle" /\ answer'[t] = Hit(Contents(t))
    BY <2>3, ReturnIs DEF IInv
  <2>5. Answered' = [Answered EXCEPT ![t] = Hit(Contents(t))]
    <3>1. Answered'[t] = Hit(Contents(t))
      BY <2>4 DEF Answered
    <3> QED
      BY <2>4, <3>1, AnswersOf DEF IInv
  <2>6. Known' = Known /\ Known[t] = KnownEpoch(t)
    BY <1>3, <2>1 DEF Known, KnownEpoch
  <2>7. Hit(Contents(t)) = A!Hit(epochs[Known[t]])
    BY <2>1, <2>6, SameBucket
  <2> QED
    BY <1>2, <2>5, <2>6, <2>7 DEF A!Probe, A!Returns, Known, Answered
<1> QED
  BY <1>4, <1>5

(* A store's load of the version learns, or drops the store. *)
LEMMA LoadEvenRefines ==
  ASSUME IInv, IInv', NEW t \in Threads, LoadEven(t)
  PROVE  A!Learn(t) \/ A!Fail(t)
<1>1. PICK i \in Readable(t, Version) :
        LET version == history[Version][i].value
        IN /\ Read(t, Version, i)
           /\ IF Odd(version)
              THEN TryAgain(t, "even", Dropped)
              ELSE IF Exhausted(version)
              THEN Return(t, Dropped)
              ELSE /\ before' = [before EXCEPT ![t] = version]
                   /\ Goto(t, "claim")
                   /\ UNCHANGED <<attempt, storing, loaded, answer>>
  BY DEF LoadEven
<1>2. UNCHANGED <<history, epochs>> /\ pc[t] = "even"
  BY DEF LoadEven
<1>3. /\ \A u \in Threads \ {t} : view'[u] = view[u]
      /\ view'[t][Version] >= view[t][Version]
  BY <1>1, <1>2, LoadLearns, WordFacts
<1>4. CASE Odd(history[Version][i].value)
  BY <1>1, <1>2, <1>3, <1>4, TryAgainRefines
<1>5. CASE ~Odd(history[Version][i].value) /\ Exhausted(history[Version][i].value)
  <2>1. Return(t, Dropped)
    BY <1>1, <1>5
  <2>2. Alone(t) /\ pc'[t] = "idle" /\ answer'[t] = Dropped
    BY <2>1, ReturnIs, Answers DEF IInv
  <2>3. Answered'[t] = Dropped
    BY <2>2 DEF Answered
  <2> QED
    BY <1>2, <1>3, <2>2, <2>3, FailRefines
<1>6. CASE ~Odd(history[Version][i].value) /\ ~Exhausted(history[Version][i].value)
  <2>1. /\ before' = [before EXCEPT ![t] = history[Version][i].value]
        /\ pc' = [pc EXCEPT ![t] = "claim"]
        /\ UNCHANGED <<attempt, storing, loaded, answer>>
    BY <1>1, <1>6 DEF Goto
  <2>2. Alone(t) /\ pc'[t] = "claim"
    BY <2>1 DEF IInv, LocalsType, Alone
  <2>3. Answered'[t] = Answered[t]
    BY <1>2, <2>1, <2>2 DEF Answered
  <2> QED
    BY <1>2, <1>3, <2>2, <2>3, LearnRefines
<1> QED
  BY <1>4, <1>5, <1>6

(* A failed claim learns, or drops the store. *)
LEMMA ClaimFailsRefines ==
  ASSUME IInv, IInv', NEW t \in Threads, ClaimFails(t)
  PROVE  A!Learn(t) \/ A!Fail(t)
<1>1. PICK i \in Readable(t, Version) : Read(t, Version, i)
  BY DEF ClaimFails
<1>2. UNCHANGED <<history, epochs>> /\ pc[t] = "claim" /\ TryAgain(t, "even", Dropped)
  BY DEF ClaimFails
<1>3. /\ \A u \in Threads \ {t} : view'[u] = view[u]
      /\ view'[t][Version] >= view[t][Version]
  BY <1>1, <1>2, LoadLearns, WordFacts
<1> QED
  BY <1>2, <1>3, TryAgainRefines

(* A claim learns of the newest epoch. *)
LEMMA ClaimRefines ==
  ASSUME IInv, IInv', NEW t \in Threads, Claim(t)
  PROVE  A!Learn(t)
<1>0. Following(before[t]) = before[t] + 1
  BY ClaimCounts
<1>1. /\ pc[t] = "claim"
      /\ before' = [before EXCEPT ![t] = @ + 1]
      /\ pc' = [pc EXCEPT ![t] = "load"]
      /\ UNCHANGED <<attempt, storing, loaded, answer, epochs>>
  BY <1>0 DEF Claim, Goto
<1>2. Alone(t) /\ pc'[t] = "load"
  BY <1>1 DEF IInv, LocalsType, Alone
<1>3. /\ \A u \in Threads \ {t} : view'[u] = view[u]
      /\ view'[t][Version] = Len(history'[Version])
      /\ Versions' = Versions + 1
  BY ClaimKeepsMemory, WordFacts DEF IInv, ThreadInv
<1>4. view[t][Version] <= Versions /\ view[t][Version] \in Nat /\ Versions \in Nat
  BY WordFacts, MemoryFacts DEF IInv, MemoryInv, ClosedInv, Closed, Versions
<1>5. view'[t][Version] >= view[t][Version]
  BY <1>3, <1>4 DEF Versions
<1>6. Answered'[t] = Answered[t]
  BY <1>1, <1>2 DEF Answered
<1> QED
  BY <1>1, <1>2, <1>3, <1>5, <1>6, LearnRefines

(* The stores before the publication are no step of the atomic bucket. *)
LEMMA StoreRefines ==
  ASSUME IInv, NEW t \in Threads, StoreKey(t) \/ StorePayload(t)
  PROVE  UNCHANGED A!bucket
<1>1. /\ pc[t] \in {"key", "payload"}
      /\ pc' = [pc EXCEPT ![t] = IF pc[t] = "key" THEN "payload" ELSE "publish"]
      /\ UNCHANGED <<attempt, storing, before, loaded, answer, epochs>>
  BY DEF StoreKey, StorePayload, Goto
<1>2. Alone(t) /\ pc'[t] \in {"payload", "publish"}
  BY <1>1 DEF IInv, LocalsType, Alone
<1>3. PICK s \in Slots : s = Chosen(t).slot
  BY <1>1, HolderFacts
<1>4. \E l \in Words : \E x : Write(t, l, x)
  <2>1. KeyWord(Chosen(t).slot) \in Words /\ PayloadWord(Chosen(t).slot) \in Words
    BY <1>3, WordFacts
  <2> QED
    BY <2>1 DEF StoreKey, StorePayload, WriteField
<1>5. PICK l \in Words : view' = [view EXCEPT ![t] = [view[t] EXCEPT ![l] = Len(history[l]) + 1]]
  BY <1>4 DEF Write
<1>6. /\ \A u \in Threads \ {t} : view'[u] = view[u]
      /\ view'[t][Version] = view[t][Version]
  <2>1. view \in [Threads -> Views] /\ l # Version
    BY WordFacts DEF IInv, MemoryInv, MemoryType
  <2> QED
    BY <1>5, <2>1, WordFacts DEF Views
<1>7. Answered'[t] = Answered[t]
  BY <1>1, <1>2 DEF Answered
<1> QED
  BY <1>1, <1>2, <1>6, <1>7, StutterRefines

(* The publication is the atomic store. *)
LEMMA PublishRefines ==
  ASSUME IInv, IInv', NEW t \in Threads, Publish(t)
  PROVE  A!Publish(t)
<1>1. /\ pc[t] = "publish"
      /\ LastEpoch' = LastEpoch + 1
      /\ epochs' = Append(epochs, StoreInto(epochs[LastEpoch], storing[t]))
      /\ view'[t][Version] = Versions + 1
      /\ \A u \in Threads \ {t} : view'[u] = view[u]
  BY PublishIs
<1>2. /\ storing[t] \in Entry
      /\ Chosen(t) = Decision(epochs[LastEpoch], storing[t])
      /\ epochs[LastEpoch] \in Buckets
      /\ Versions = 2 * LastEpoch
      /\ view[t][Version] = Versions
  BY <1>1, HolderFacts, WordFacts DEF Versions
<1>3. LastEpoch \in Nat /\ LastEpoch = Len(epochs)
  BY MemoryFacts DEF IInv, MemoryInv, LastEpoch
<1>4. Known[t] = LastEpoch /\ Known'[t] = LastEpoch + 1
  <2>1. PICK n \in Nat : n = LastEpoch
    BY <1>3
  <2>2. view[t][Version] = 2 * n /\ view'[t][Version] = 2 * n + 1
    BY <1>1, <1>2, <2>1
  <2>3. (2 * n + 1) \div 2 = n /\ (2 * n + 1 + 1) \div 2 = n + 1
    BY <2>1
  <2>4. KnownEpoch(t) = n /\ KnownEpoch(t)' = n + 1
    BY <2>2, <2>3 DEF KnownEpoch
  <2> QED
    BY <2>1, <2>4 DEF Known
<1>5. Known' = [Known EXCEPT ![t] = LastEpoch + 1]
  <2>1. \A u \in Threads \ {t} : KnownEpoch(u)' = KnownEpoch(u)
    BY <1>1 DEF KnownEpoch
  <2> QED
    BY <1>4, <2>1 DEF Known
<1>6. Outcome(Chosen(t)) \in Answer
  BY <1>2, Answers
<1>7. Alone(t) /\ Answered'[t] = Outcome(Chosen(t))
  <2>1. CASE Counts(t)
    <3>1. pc' = [pc EXCEPT ![t] = "count"] /\ UNCHANGED <<attempt, storing, before, loaded, answer>>
      BY <2>1 DEF Publish, Goto
    <3>2. Alone(t) /\ pc'[t] = "count"
      BY <3>1 DEF IInv, LocalsType, Alone
    <3>3. Chosen(t)' = Chosen(t)
      BY <3>1 DEF Chosen, Contents
    <3> QED
      BY <3>2, <3>3 DEF Answered, Outcome
  <2>2. CASE ~Counts(t)
    <3>1. Return(t, Outcome(Chosen(t)))
      BY <2>2 DEF Publish
    <3>2. Alone(t) /\ pc'[t] = "idle" /\ answer'[t] = Outcome(Chosen(t))
      BY <1>6, <3>1, ReturnIs DEF IInv
    <3> QED
      BY <3>2 DEF Answered
  <2> QED
    BY <2>1, <2>2
<1>8. Answered' = [Answered EXCEPT ![t] = Outcome(Chosen(t))]
  BY <1>7, AnswersOf DEF IInv
<1>9. PICK entry \in Entry : entry = storing[t]
  BY <1>2
<1>10. epochs' = Append(epochs, A!StoreInto(A!Newest, entry))
  BY <1>1, <1>3, <1>9, SameBucket DEF A!Newest
<1>11. Outcome(Chosen(t)) = A!Outcome(A!Decision(A!Newest, entry))
  BY <1>2, <1>3, <1>9, SameBucket DEF A!Newest
<1>12. entry \in A!Entry
  BY SameBucket
<1> QED
  BY <1>3, <1>4, <1>5, <1>8, <1>10, <1>11, <1>12 DEF A!Publish, A!Returns, Known, Answered

(* Counting is no step: the store was answered when it was published. *)
LEMMA CountRefines ==
  ASSUME IInv, NEW t \in Threads, Count(t)
  PROVE  UNCHANGED A!bucket
<1>1. /\ pc[t] = "count" /\ Return(t, Outcome(Chosen(t)))
      /\ UNCHANGED <<history, view, epochs>>
  BY DEF Count, memory
<1>2. Contents(t) \in Buckets /\ storing[t] \in Entry
  <2>1. Contents(t) \in Buckets /\ storing[t] # Empty
    BY <1>1 DEF IInv, ThreadInv, LocalInv, Stores
  <2> QED
    BY <2>1 DEF IInv, LocalsType
<1>3. Outcome(Chosen(t)) \in Answer
  BY <1>2, Answers DEF Chosen
<1>4. Alone(t) /\ pc'[t] = "idle" /\ answer'[t] = Outcome(Chosen(t))
  BY <1>1, <1>3, ReturnIs DEF IInv
<1>5. Answered'[t] = Answered[t]
  BY <1>1, <1>4 DEF Answered
<1> QED
  BY <1>1, <1>4, <1>5, StutterRefines

(* Clearing. *)
LEMMA ClearRefines ==
  ASSUME Clear
  PROVE  A!Clear
<1>1. /\ \A t \in Threads : pc'[t] = "idle"
      /\ view' = [t \in Threads |-> Zeroes]
      /\ answer' = [t \in Threads |-> NoAnswer]
      /\ epochs' = << Blank >>
  BY DEF Clear
<1>2. \A t \in Threads : KnownEpoch(t)' = 1
  BY <1>1, WordFacts DEF KnownEpoch, Zeroes
<1>3. Known' = [t \in Threads |-> 1]
  BY <1>2 DEF Known
<1>4. Answered' = [t \in Threads |-> NoAnswer]
  BY <1>1 DEF Answered
<1>5. Blank = [s \in A!Slots |-> A!Empty]
  BY SameBucket DEF Blank
<1> QED
  BY <1>1, <1>3, <1>4, <1>5, SameBucket DEF A!Clear, Known, Answered

(* The protocol implements a bucket whose stores and snapshots are atomic: *)
(* each step of a thread is a step of that bucket, or none.                *)
THEOREM Implements == Spec => ImplementsAtomicBucket
<1>1. IInv /\ IInv' /\ [Next]_vars => [A!Next]_(A!bucket)
  <2> SUFFICES ASSUME IInv, IInv', [Next]_vars PROVE [A!Next]_(A!bucket)
    OBVIOUS
  <2>1. CASE UNCHANGED vars
    <3>1. UNCHANGED <<history, view, pc, storing, loaded, answer, epochs>>
      BY <2>1 DEF vars, memory
    <3>2. Known' = Known /\ Answered' = Answered
      BY <3>1 DEF Known, Answered, KnownEpoch, Chosen, Contents
    <3> QED
      BY <3>1, <3>2 DEF A!bucket, Known, Answered
  <2>2. CASE Clear
    BY <2>2, ClearRefines DEF A!Next
  <2>3. ASSUME NEW t \in Threads, BeginSnapshot(t) \/ BeginStore(t) \/ Operate(t)
        PROVE  [A!Next]_(A!bucket)
    <3>1. \/ A!Learn(t) \/ A!Begin(t) \/ A!Probe(t) \/ A!Fail(t) \/ A!Publish(t)
          \/ UNCHANGED A!bucket
      BY <2>3, BeginRefines, LoadBeforeRefines, LoadWordRefines, LoadAfterRefines,
         LoadEvenRefines, ClaimRefines, ClaimFailsRefines, StoreRefines, PublishRefines,
         CountRefines DEF Operate
    <3> QED
      BY <3>1 DEF A!Next
  <2> QED
    BY <2>1, <2>2, <2>3 DEF Next
<1>2. A!Init /\ [][A!Next]_(A!bucket) => A!Spec
  BY DEF A!Spec
<1> QED
  BY <1>1, <1>2, InitRefines, Invariance, PTL DEF Spec, ImplementsAtomicBucket
=============================================================================
