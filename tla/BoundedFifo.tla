---------------------------- MODULE BoundedFifo ----------------------------
(***************************************************************************)
(* What a queue between two threads promises: items come out in the order  *)
(* they went in, none is lost or duplicated, and there are never more than *)
(* Capacity of them.                                                       *)
(***************************************************************************)
EXTENDS Naturals, Sequences

CONSTANTS Capacity, Items

VARIABLE contents

FifoInit == contents = <<>>

Put(x) == Len(contents) < Capacity /\ contents' = Append(contents, x)

Get == contents # <<>> /\ contents' = Tail(contents)

FifoNext == (\E x \in Items : Put(x)) \/ Get

FifoSpec == FifoInit /\ [][FifoNext]_contents

FifoBounded == contents \in Seq(Items) /\ Len(contents) <= Capacity
=============================================================================
