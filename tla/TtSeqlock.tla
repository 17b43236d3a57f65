------------------------------ MODULE TtSeqlock ------------------------------
(***************************************************************************)
(* The bucket protocol of the shared transposition table                   *)
(* (transposition_table.rs): a version word that writers claim by making   *)
(* it odd, slots of two 64-bit words, and readers that take no lock and    *)
(* accept what they loaded only if the version did not change.             *)
(*                                                                         *)
(* Every location is its modification order, a sequence of messages; a     *)
(* thread may load any message that is not older than its view of the      *)
(* location.  A Release store puts the writer's view into the message, an  *)
(* Acquire load merges it into the reader's, a Relaxed access does         *)
(* neither.  A compare-and-exchange reads the last message.                *)
(***************************************************************************)
EXTENDS Sequences, FiniteSets, TtBucket

CONSTANTS
  Threads,       \* search threads and diagnostic readers
  Entries,       \* what the searches store
  Warm,          \* what earlier searches may have left in the bucket
  VersionMax     \* u64::MAX

ASSUME SeqlockAssumption ==
  /\ Entries \subseteq Entry
  /\ Warm \subseteq Buckets
  /\ VersionMax \in Nat /\ VersionMax % 2 = 1 /\ VersionMax > 2

(* The words of a bucket in the order snapshot_bucket and claim holders    *)
(* load them: word 2s-1 is the key of slot s, word 2s its payload.         *)
Words == 1..2 * NSlots
KeyWord(s) == 2 * s - 1
PayloadWord(s) == 2 * s
Version == 0
Locations == {Version} \cup Words

VARIABLES
  history,       \* the modification order of every location
  view,          \* how far every thread has seen each location
  replacements,  \* the replacements counter
  pc, attempt,   \* control point of each thread, and its loop counter
  storing,       \* the entry being stored, Empty during a snapshot
  before,        \* the version a thread is working under
  loaded,        \* the words it has loaded since
  answer,        \* what its last finished operation returned
  epochs         \* history: the published contents of the bucket

memory == <<history, view>>
vars == <<memory, replacements, pc, attempt, storing, before, loaded, answer, epochs>>

(* Odd and even version messages alternate: epoch e is published by        *)
(* message 2e - 1 of the version word.                                     *)
KnownEpoch(t) == (view[t][Version] + 1) \div 2

NoAnswer == [kind |-> "none"]
Missed   == [kind |-> "missed"]
Dropped  == [kind |-> "dropped"]
Hit(c)   == [kind |-> "snapshot", contents |-> c]
Outcome(d) == [kind |-> "store", stored |-> d.stored, replacement |-> d.replacement]

Blank == [s \in Slots |-> Empty]
Zeroes == [l \in Locations |-> 1]

(* Versions are counted from the first search that is looked at.           *)
WordOf(contents, l) ==
  IF l = Version THEN 0
  ELSE IF \E s \in Slots : l = KeyWord(s)
  THEN contents[CHOOSE s \in Slots : l = KeyWord(s)].key
  ELSE contents[CHOOSE s \in Slots : l = PayloadWord(s)].payload

Init ==
  /\ \E contents \in Warm :
       /\ history = [l \in Locations |-> << [value |-> WordOf(contents, l), sees |-> Zeroes] >>]
       /\ epochs = << contents >>
  /\ view = [t \in Threads |-> Zeroes]
  /\ replacements = 0
  /\ pc = [t \in Threads |-> "idle"]
  /\ attempt = [t \in Threads |-> 0]
  /\ storing = [t \in Threads |-> Empty]
  /\ before = [t \in Threads |-> 0]
  /\ loaded = [t \in Threads |-> <<>>]
  /\ answer = [t \in Threads |-> NoAnswer]

-----------------------------------------------------------------------------
(* The memory: loads, stores and read-modify-writes. *)

Merge(v, w) == [l \in Locations |-> IF v[l] > w[l] THEN v[l] ELSE w[l]]

(* An Acquire load of message i. *)
Read(t, l, i) ==
  view' = [view EXCEPT ![t] = Merge([@ EXCEPT ![l] = i], history[l][i].sees)]

ReadField(t, l, i) == Read(t, l, i)

Readable(t, l) == view[t][l]..Len(history[l])

(* A Release store; its place in the modification order is the end, which  *)
(* WriterIsAlone shows to be the only one open to it.                      *)
Write(t, l, value) ==
  LET sees == [view[t] EXCEPT ![l] = Len(history[l]) + 1]
  IN /\ history' = [history EXCEPT ![l] = Append(@, [value |-> value, sees |-> sees])]
     /\ view' = [view EXCEPT ![t] = sees]

(* Mutant: the stores of write_slot are Relaxed. *)
WriteFieldRelaxed(t, l, value) ==
  /\ history' = [history EXCEPT ![l] = Append(@, [value |-> value, sees |-> Zeroes])]
  /\ view' = [view EXCEPT ![t][l] = Len(history[l]) + 1]

WriteField(t, l, value) == Write(t, l, value)

LastValue(l) == history[l][Len(history[l])].value

-----------------------------------------------------------------------------
Goto(t, label) == pc' = [pc EXCEPT ![t] = label]

Return(t, what) ==
  /\ Goto(t, "idle")
  /\ answer' = [answer EXCEPT ![t] = what]
  /\ attempt' = [attempt EXCEPT ![t] = 0]
  /\ storing' = [storing EXCEPT ![t] = Empty]
  /\ before' = [before EXCEPT ![t] = 0]
  /\ loaded' = [loaded EXCEPT ![t] = <<>>]

(* probe and statistics. *)
BeginSnapshot(t) ==
  /\ pc[t] = "idle"
  /\ Goto(t, "before")
  /\ attempt' = [attempt EXCEPT ![t] = 1]
  /\ answer' = [answer EXCEPT ![t] = NoAnswer]
  /\ UNCHANGED <<memory, replacements, storing, before, loaded, epochs>>

(* store_with_outcome. *)
BeginStore(t) ==
  /\ pc[t] = "idle"
  /\ Goto(t, "even")
  /\ attempt' = [attempt EXCEPT ![t] = 1]
  /\ answer' = [answer EXCEPT ![t] = NoAnswer]
  /\ \E entry \in Entries : storing' = [storing EXCEPT ![t] = entry]
  /\ UNCHANGED <<memory, replacements, before, loaded, epochs>>

(* Mutant: the loops retry for ever. *)
TryAgainForEver(t, label, otherwise) ==
  /\ Goto(t, label)
  /\ loaded' = [loaded EXCEPT ![t] = <<>>]
  /\ before' = [before EXCEPT ![t] = 0]
  /\ UNCHANGED <<attempt, answer, storing>>

(* The next round of `for _ in 0..2`, or the end of the operation. *)
TryAgain(t, label, otherwise) ==
  IF attempt[t] < 2
  THEN /\ Goto(t, label)
       /\ attempt' = [attempt EXCEPT ![t] = @ + 1]
       /\ loaded' = [loaded EXCEPT ![t] = <<>>]
       /\ before' = [before EXCEPT ![t] = 0]
       /\ UNCHANGED <<answer, storing>>
  ELSE Return(t, otherwise)

Odd(version) == version % 2 = 1

(* The version word wraps. *)
Following(version) == (version + 1) % (VersionMax + 1)

-----------------------------------------------------------------------------
(* snapshot_bucket. *)

LoadBefore(t) ==
  /\ pc[t] = "before"
  /\ \E i \in Readable(t, Version) :
       LET version == history[Version][i].value
       IN /\ Read(t, Version, i)
          /\ IF Odd(version)
             THEN TryAgain(t, "before", Missed)
             ELSE /\ before' = [before EXCEPT ![t] = version]
                  /\ Goto(t, "load")
                  /\ UNCHANGED <<attempt, storing, loaded, answer>>
  /\ UNCHANGED <<history, replacements, epochs>>

(* load_slot, key first; also of a claim holder reading what is there. *)
LoadWord(t) ==
  /\ pc[t] = "load"
  /\ LET l == Len(loaded[t]) + 1
     IN /\ \E i \in Readable(t, l) :
             /\ ReadField(t, l, i)
             /\ loaded' = [loaded EXCEPT ![t] = Append(@, history[l][i].value)]
        /\ Goto(t, IF l < 2 * NSlots THEN "load"
                   ELSE IF storing[t] = Empty THEN "after" ELSE "key")
  /\ UNCHANGED <<history, replacements, attempt, storing, before, answer, epochs>>

(* What the loaded words decode to. *)
Contents(t) ==
  [s \in Slots |-> [key |-> loaded[t][KeyWord(s)], payload |-> loaded[t][PayloadWord(s)]]]

Confirms(t, version) == version = before[t] /\ ~Odd(version)

LoadAfter(t) ==
  /\ pc[t] = "after"
  /\ \E i \in Readable(t, Version) :
       /\ Read(t, Version, i)
       /\ IF Confirms(t, history[Version][i].value)
          THEN Return(t, Hit(Contents(t)))
          ELSE TryAgain(t, "before", Missed)
  /\ UNCHANGED <<history, replacements, epochs>>

-----------------------------------------------------------------------------
(* claim_bucket. *)

(* Mutant: the version counts on and wraps. *)
NeverExhausted(version) == FALSE

(* Stores are dropped rather than let an old reader meet its version again. *)
Exhausted(version) == version >= VersionMax - 2

LoadEven(t) ==
  /\ pc[t] = "even"
  /\ \E i \in Readable(t, Version) :
       LET version == history[Version][i].value
       IN /\ Read(t, Version, i)
          /\ IF Odd(version)
             THEN TryAgain(t, "even", Dropped)
             ELSE IF Exhausted(version)
             THEN Return(t, Dropped)
             ELSE /\ before' = [before EXCEPT ![t] = version]
                  /\ Goto(t, "claim")
                  /\ UNCHANGED <<attempt, storing, loaded, answer>>
  /\ UNCHANGED <<history, replacements, epochs>>

(* Mutant: the claim is an unconditional store of the odd version. *)
ClaimStored(t) ==
  /\ pc[t] = "claim"
  /\ Write(t, Version, Following(before[t]))
  /\ before' = [before EXCEPT ![t] = Following(@)]
  /\ Goto(t, "load")
  /\ UNCHANGED <<replacements, attempt, storing, loaded, answer, epochs>>

(* compare_exchange_weak succeeds, AcqRel. *)
Claim(t) ==
  /\ pc[t] = "claim"
  /\ LastValue(Version) = before[t]
  /\ LET n == Len(history[Version])
         sees == [Merge(view[t], history[Version][n].sees) EXCEPT ![Version] = n + 1]
     IN /\ history' = [history EXCEPT ![Version] =
                        Append(@, [value |-> Following(before[t]), sees |-> sees])]
        /\ view' = [view EXCEPT ![t] = sees]
  /\ before' = [before EXCEPT ![t] = Following(@)]
  /\ Goto(t, "load")
  /\ UNCHANGED <<replacements, attempt, storing, loaded, answer, epochs>>

(* It fails, spuriously or not, having read with Acquire. *)
ClaimFails(t) ==
  /\ pc[t] = "claim"
  /\ \E i \in Readable(t, Version) : Read(t, Version, i)
  /\ TryAgain(t, "even", Dropped)
  /\ UNCHANGED <<history, replacements, epochs>>

-----------------------------------------------------------------------------
(* The claim holder writes one slot and publishes. *)

Chosen(t) == Decision(Contents(t), storing[t])

StoreKey(t) ==
  /\ pc[t] = "key"
  /\ WriteField(t, KeyWord(Chosen(t).slot), Chosen(t).written.key)
  /\ Goto(t, "payload")
  /\ UNCHANGED <<replacements, attempt, storing, before, loaded, answer, epochs>>

StorePayload(t) ==
  /\ pc[t] = "payload"
  /\ WriteField(t, PayloadWord(Chosen(t).slot), Chosen(t).written.payload)
  /\ Goto(t, "publish")
  /\ UNCHANGED <<replacements, attempt, storing, before, loaded, answer, epochs>>

Counts(t) == Chosen(t).replacement

Publish(t) ==
  /\ pc[t] = "publish"
  /\ Write(t, Version, Following(before[t]))
  /\ epochs' = Append(epochs, StoreInto(Contents(t), storing[t]))
  /\ IF Counts(t)
     THEN Goto(t, "count") /\ UNCHANGED <<attempt, storing, before, loaded, answer>>
     ELSE Return(t, Outcome(Chosen(t)))
  /\ UNCHANGED replacements

(* replacements.fetch_add(1), after the publication. *)
Count(t) ==
  /\ pc[t] = "count"
  /\ replacements' = replacements + 1
  /\ Return(t, Outcome(Chosen(t)))
  /\ UNCHANGED <<memory, epochs>>

(* Mutant: clear resets the versions and leaves the slots alone. *)
ClearVersions ==
  /\ \A t \in Threads : pc[t] = "idle"
  /\ history' = [l \in Locations |->
       IF l = Version THEN << [value |-> 0, sees |-> Zeroes] >>
       ELSE << [value |-> LastValue(l), sees |-> Zeroes] >>]
  /\ view' = [t \in Threads |-> Zeroes]
  /\ replacements' = 0
  /\ answer' = [t \in Threads |-> NoAnswer]
  /\ epochs' = << Blank >>
  /\ UNCHANGED <<pc, attempt, storing, before, loaded>>

(* clear, with exclusive access: no operation is under way, and whoever    *)
(* uses the table next is ordered after it.                                *)
Clear ==
  /\ \A t \in Threads : pc[t] = "idle"
  /\ history' = [l \in Locations |-> << [value |-> WordOf(Blank, l), sees |-> Zeroes] >>]
  /\ view' = [t \in Threads |-> Zeroes]
  /\ replacements' = 0
  /\ answer' = [t \in Threads |-> NoAnswer]
  /\ epochs' = << Blank >>
  /\ UNCHANGED <<pc, attempt, storing, before, loaded>>

Operate(t) ==
  \/ LoadBefore(t) \/ LoadWord(t) \/ LoadAfter(t)
  \/ LoadEven(t) \/ Claim(t) \/ ClaimFails(t)
  \/ StoreKey(t) \/ StorePayload(t) \/ Publish(t) \/ Count(t)

Next ==
  \/ \E t \in Threads : BeginSnapshot(t) \/ BeginStore(t) \/ Operate(t)
  \/ Clear

Spec == Init /\ [][Next]_vars

(* A thread inside an operation is not stopped for ever. *)
FairSpec == Spec /\ \A t \in Threads : WF_vars(Operate(t))

-----------------------------------------------------------------------------
Claimed(t) == \/ pc[t] \in {"key", "payload", "publish"}
              \/ pc[t] = "load" /\ storing[t] # Empty

(* Every variable has its type: views stay within the histories, and the   *)
(* answers are whole operations' answers.                                  *)
TypeOK ==
  /\ \A l \in Locations : \A i \in DOMAIN history[l] :
       /\ history[l][i].value \in IF l = Version THEN 0..VersionMax
                                  ELSE IF \E s \in Slots : l = KeyWord(s) THEN Keys \cup {0}
                                  ELSE Payload \cup {NoPayload}
       /\ history[l][i].sees \in [Locations -> Nat]
  /\ view \in [Threads -> [Locations -> Nat \ {0}]]
  /\ \A t \in Threads, l \in Locations : view[t][l] <= Len(history[l])
  /\ replacements \in Nat
  /\ pc \in [Threads -> {"idle", "before", "load", "after", "even", "claim", "key",
                         "payload", "publish", "count"}]
  /\ attempt \in [Threads -> 0..2]
  /\ storing \in [Threads -> Entries \cup {Empty}]
  /\ before \in [Threads -> 0..VersionMax]
  /\ \A t \in Threads : Len(loaded[t]) <= 2 * NSlots
  /\ \A i \in DOMAIN epochs : \A s \in Slots : epochs[i][s] \in Entry \cup {Empty}

(* A claim excludes every other writer, and the claim holder has seen all  *)
(* that earlier writers did: its loads and stores are the newest ones.     *)
WriterIsAlone ==
  \A t \in Threads : Claimed(t) =>
    /\ \A u \in Threads : Claimed(u) => u = t
    /\ \A l \in Locations : view[t][l] = Len(history[l])

(* At most one slot of a bucket holds a key, so probe's first match is the *)
(* only one.                                                               *)
OneSlotPerKey ==
  \A i \in DOMAIN epochs : \A s, u \in Slots :
    /\ Occupied(epochs[i][s]) /\ Occupied(epochs[i][u])
    /\ epochs[i][s].key = epochs[i][u].key
    => s = u

(* Storing never makes what is known of a position worse: it is in one     *)
(* slot, and while its key stays, the depth does not shrink, and Exact is  *)
(* given up only for depth.                                                *)
KnowledgeIsKept ==
  /\ OneSlotPerKey
  /\ \A i \in 1..Len(epochs) - 1 : \A s, u \in Slots :
       LET old == epochs[i][s] new == epochs[i + 1][u]
       IN Occupied(old) /\ Occupied(new) /\ old.key = new.key =>
            /\ old.payload.depth <= new.payload.depth
            /\ old.payload.depth = new.payload.depth /\ old.payload.bound = "Exact"
               => new.payload.bound = "Exact"

(* Whatever is stored next, at most one entry is lost, for want of room,   *)
(* and it was no better, in depth, bound and age together, than any that   *)
(* is kept; ages are counted from the search that stores, across the wrap  *)
(* of the generation.                                                      *)
EvictionIsReasonable ==
  (\A t \in Threads : pc[t] = "idle") =>
    LET contents == epochs[Len(epochs)]
    IN \A entry \in Entry : \A s \in Lost(contents, entry) : \A u \in Slots \ {s} :
         LET gone == contents[s].payload
             kept == contents[u].payload
             AgeOf(payload) == (entry.payload.generation - payload.generation) % Generations
         IN /\ Occupied(contents[u]) /\ u \notin Lost(contents, entry)
            /\ ~ /\ kept.depth < gone.depth
                 /\ kept.bound = "Exact" => gone.bound = "Exact"
                 /\ AgeOf(gone) <= AgeOf(kept)

(* The protocol implements a bucket whose stores and snapshots are atomic, *)
(* up to the last version of the bucket, which is never used twice.        *)
A == INSTANCE AtomicBucket WITH
  known <- [t \in Threads |-> KnownEpoch(t)],
  answer <- [t \in Threads |-> IF pc[t] = "count" THEN Outcome(Chosen(t)) ELSE answer[t]]

ImplementsAtomicBucket == A!Spec

(* No operation waits for another thread: after two attempts it gives up.  *)
OperationsEnd == \A t \in Threads : pc[t] # "idle" ~> pc[t] = "idle"
=============================================================================
