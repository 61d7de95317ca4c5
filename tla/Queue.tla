-------------------------------- MODULE Queue --------------------------------
(***************************************************************************)
(* The intrusive queue of src/util/queue.hpp: the items are linked through *)
(* a field of their own, and the queue points to the first and to the last *)
(* one.  As in the code, last is left dangling when the queue gets empty.  *)
(***************************************************************************)
EXTENDS Naturals, Sequences

CONSTANTS
  Items,   \* TYPE: the items that can be linked, each in one queue at a time
  Null

ASSUME QueueAssumption == Null \notin Items

Links == Items \cup {Null}

\* The two pointers, and the NEXTFIELD of every item.
Queues == [first : Links, last : Links, next : [Items -> Links]]

\* queue_init
EmptyQueue == [first |-> Null, last |-> Null, next |-> [x \in Items |-> Null]]

QueueIsEmpty(q) == q.first = Null

QueuePush(q, x) ==
  IF QueueIsEmpty(q)
  THEN [first |-> x, last |-> x, next |-> [q.next EXCEPT ![x] = Null]]
  ELSE [first |-> q.first, last |-> x, next |-> [q.next EXCEPT ![x] = Null, ![q.last] = x]]

\* queue_take: the item, and the queue afterwards.
QueueItem(q) == q.first

QueueTake(q) == [q EXCEPT !.first = q.next[q.first]]

\* What a queue stands for: it links exactly the items of the sequence s, in order.
Chain(q, s) == \A i \in 1..(Len(s) - 1) : q.next[s[i]] = s[i + 1]

IsQueueOf(q, s) ==
  IF s = <<>> THEN q.first = Null
  ELSE /\ q.first = s[1]
       /\ q.last = s[Len(s)]
       /\ q.next[s[Len(s)]] = Null
       /\ Chain(q, s)
=============================================================================
