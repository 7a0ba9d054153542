----------------------------- MODULE Publication -----------------------------
(***************************************************************************)
(* What the pipeline promises on the two lines out of it, to the clients    *)
(* (broadcast) and to the history.  Who publishes puts what it makes while   *)
(* it has something else before it in front of that, so its lines are        *)
(* stacks; the hub takes from the channels what was put there, in order,     *)
(* nothing is lost, repeated or changed, and clients see no internal event.  *)
(***************************************************************************)
EXTENDS Naturals, Sequences, FiniteSets, SequencesExt

CONSTANTS
  Event,       \* events, numbered in the order in which they are made
  Publishers,  \* who makes events
  Routes,      \* the sets of lines that a publisher's events may take
  Cap          \* how many batches a line's channel holds

VARIABLES
  made,      \* the events that there are
  internal,  \* those of them that no client is to see
  coming,    \* what each publisher is still to put on which lines, the next batch last
  queue,     \* the batches in a line's channel
  done       \* what has come out of a line

vars == <<made, internal, coming, queue, done>>

Lines == {"broadcast", "history"}

Init ==
  /\ made = {} /\ internal = {}
  /\ coming = [t \in Publishers |-> <<>>]
  /\ queue = [d \in Lines |-> <<>>]
  /\ done = [d \in Lines |-> <<>>]

\* A publisher makes events, and publishes them, internal ones perhaps not, before whatever
\* it was about to publish.
Make ==
  \E new \in (SUBSET (Event \ made)) \ {{}} :
    /\ made' = made \cup new
    /\ \A e \in made, f \in new : e < f
    /\ UNCHANGED <<queue, done>>
    /\ \E hidden \in SUBSET new :
         /\ internal' = internal \cup hidden
         /\ \E t \in Publishers : \E lines \in Routes[t], left \in SUBSET hidden :
              coming' = IF lines = {} \/ left = new THEN coming
                        ELSE [coming EXCEPT ![t] = Append(@, [batch |-> new \ left, lines |-> lines])]

\* It puts its next batch into one of the channels, when that has room.
Put(t) ==
  LET own == coming[t] IN
  /\ own # <<>>
  /\ \E d \in Last(own).lines :
       /\ Len(queue[d]) < Cap
       /\ queue' = [queue EXCEPT ![d] = Append(@, Last(own).batch)]
       /\ LET rest == Last(own).lines \ {d} IN
          coming' = [coming EXCEPT ![t] =
                       IF rest = {} THEN Front(own)
                       ELSE Append(Front(own), [batch |-> Last(own).batch, lines |-> rest])]
  /\ UNCHANGED <<made, internal, done>>

\* The events of a batch in the order in which they were made.
Ordered(batch) == {s \in [1 .. Cardinality(batch) -> batch] :
                     \A i, j \in 1 .. Cardinality(batch) : i < j => s[i] < s[j]}

\* The hub takes the oldest batch.
Take(d) ==
  /\ queue[d] # <<>>
  /\ queue' = [queue EXCEPT ![d] = Tail(@)]
  /\ LET seen == IF d = "broadcast" THEN Head(queue[d]) \ internal ELSE Head(queue[d]) IN
     \E s \in Ordered(seen) : done' = [done EXCEPT ![d] = @ \o s]
  /\ UNCHANGED <<made, internal, coming>>

Next == \/ Make
        \/ \E t \in Publishers : Put(t)
        \/ \E d \in Lines : Take(d)

Spec == Init /\ [][Next]_vars
=============================================================================
