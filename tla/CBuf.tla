-------------------------------- MODULE CBuf --------------------------------
(***************************************************************************)
(* The circular buffer of src/util/cbuf.hpp, on which every queue between  *)
(* two threads of the program is built: a struct CBUF(TYPE, CAP) is a      *)
(* record with an array of CAP + 1 cells, one of which is always left      *)
(* empty to tell an empty buffer from a full one.                          *)
(***************************************************************************)
EXTENDS Naturals, Sequences

CONSTANTS
  Capacity,   \* CAP
  Items,      \* TYPE
  NoItem      \* the value the cells are zero-initialised with

ASSUME CBufAssumption == Capacity \in Nat \ {0} /\ NoItem \notin Items

\* cbuf_size_
Size == Capacity + 1

\* All the states of a buffer.
CBufs == [data : [0..Capacity -> Items \cup {NoItem}], head : 0..Capacity, tail : 0..Capacity]

\* The definition of a buffer; cbuf_init resets head and tail only.
EmptyCBuf == [data |-> [i \in 0..Capacity |-> NoItem], head |-> 0, tail |-> 0]

CbufInit(b) == [data |-> b.data, head |-> 0, tail |-> 0]

CbufIsEmpty(b) == b.head = b.tail

BugNeverFull(b) == FALSE   \* a bug: the oldest items are overwritten

CbufIsFull(b) == (b.head + 1) % Size = b.tail

\* cbuf_push: the buffer afterwards; it is unchanged, and the result false, when full.
CbufPush(b, item) ==
  IF CbufIsFull(b) THEN b
  ELSE [data |-> [b.data EXCEPT ![b.head] = item],
        head |-> (b.head + 1) % Size,
        tail |-> b.tail]

\* cbuf_take: what is stored in *PITEM, and the buffer afterwards.
CbufItem(b) == b.data[b.tail]

CbufTake(b) ==
  IF CbufIsEmpty(b) THEN b ELSE [b EXCEPT !.tail = (b.tail + 1) % Size]

----------------------------------------------------------------------------
(* What a buffer stands for: the sequence of the items pushed and not yet  *)
(* taken.                                                                  *)

CbufCount(b) == IF b.head >= b.tail THEN b.head - b.tail ELSE b.head + Size - b.tail

Contents(b) == [i \in 1..CbufCount(b) |-> b.data[(b.tail + (i - 1)) % Size]]
=============================================================================
