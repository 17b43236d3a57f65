---------------------------- MODULE AtomicBucket ----------------------------
(***************************************************************************)
(* What one transposition-table bucket promises to the threads that share  *)
(* it, independently of versions and memory orderings: its contents go     *)
(* through a sequence of published epochs, a store that takes effect makes *)
(* a new epoch out of the newest one, and a probe that answers returns one *)
(* whole epoch, never one older than the thread already knows of.          *)
(***************************************************************************)
EXTENDS Sequences, TtBucket

CONSTANT Threads

VARIABLES
  epochs,   \* published contents, oldest first
  known,    \* the newest epoch each thread knows of
  answer    \* what each thread's last finished operation returned

bucket == <<epochs, known, answer>>

NoAnswer   == [kind |-> "none"]
Missed     == [kind |-> "missed"]
Dropped    == [kind |-> "dropped"]
Hit(c)     == [kind |-> "snapshot", contents |-> c]
Outcome(d) == [kind |-> "store", stored |-> d.stored, replacement |-> d.replacement]

Newest == epochs[Len(epochs)]

Init ==
  /\ Len(epochs) = 1 /\ epochs[1] \in Buckets
  /\ known = [t \in Threads |-> 1]
  /\ answer = [t \in Threads |-> NoAnswer]

Returns(t, what) == answer' = [answer EXCEPT ![t] = what]

(* A thread may learn of newer epochs at any time. *)
Learns(t) == \E e \in known[t]..Len(epochs) : known' = [known EXCEPT ![t] = e]

Learn(t) == Learns(t) /\ UNCHANGED <<epochs, answer>>

Begin(t) == Returns(t, NoAnswer) /\ UNCHANGED <<epochs, known>>

Probe(t) == Returns(t, Hit(epochs[known[t]])) /\ UNCHANGED <<epochs, known>>

(* Nothing is promised to succeed: a contended probe or store is lost. *)
Fail(t) ==
  /\ Learns(t)
  /\ \E what \in {Missed, Dropped} : Returns(t, what)
  /\ UNCHANGED epochs

Publish(t) ==
  /\ known[t] = Len(epochs)
  /\ \E entry \in Entry :
       /\ epochs' = Append(epochs, StoreInto(Newest, entry))
       /\ Returns(t, Outcome(Decision(Newest, entry)))
  /\ known' = [known EXCEPT ![t] = Len(epochs) + 1]

(* Exclusive access: every thread starts again from an empty bucket. *)
Clear ==
  /\ epochs' = << [s \in Slots |-> Empty] >>
  /\ known' = [t \in Threads |-> 1]
  /\ answer' = [t \in Threads |-> NoAnswer]

Next ==
  \/ \E t \in Threads : Learn(t) \/ Begin(t) \/ Probe(t) \/ Fail(t) \/ Publish(t)
  \/ Clear

Spec == Init /\ [][Next]_bucket
=============================================================================
