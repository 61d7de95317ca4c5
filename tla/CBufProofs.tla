----------------------------- MODULE CBufProofs -----------------------------
(***************************************************************************)
(* A circular buffer is a bounded queue, for every capacity: cbuf_push     *)
(* appends to its contents and cbuf_take removes their head, wherever head *)
(* and tail are in the array.                                              *)
(***************************************************************************)
EXTENDS CBuf, Functions, SequenceTheorems, TLAPS

\* The indices wrap around once.
LEMMA Wrap ==
  ASSUME NEW i \in Nat, i < 2 * Size
  PROVE  i % Size = IF i < Size THEN i ELSE i - Size
<1>1. Size \in Nat /\ Size > 0
  BY CBufAssumption DEF Size
<1>2. CASE i < Size
  BY <1>1, <1>2
<1>3. CASE i >= Size
  <2>1. i - Size \in 0..(Size - 1) /\ i = Size * 1 + (i - Size)
    BY <1>1, <1>3
  <2>. QED BY <1>1, <1>3, <2>1
<1>. QED BY <1>1, <1>2, <1>3

Values == Items \cup {NoItem}

\* The index after i, without the modulo.
Succ(i) == IF i + 1 < Size THEN i + 1 ELSE i + 1 - Size

\* The next index is the one cbuf.hpp computes with a modulo.
LEMMA SuccIsWrap ==
  ASSUME NEW i \in 0..Capacity
  PROVE  (i + 1) % Size = Succ(i) /\ Succ(i) \in 0..Capacity
<1>. DEFINE j == i + 1
<1>1. j \in Nat /\ j < 2 * Size
  BY CBufAssumption DEF Size
<1>2. Succ(i) = (IF j < Size THEN j ELSE j - Size) /\ Succ(i) \in 0..Capacity
  BY CBufAssumption DEF Succ, Size
<1>. HIDE DEF j
<1>3. j % Size = IF j < Size THEN j ELSE j - Size
  BY <1>1, Wrap
<1>. QED BY <1>2, <1>3 DEF j

\* The number of items between two indices.
Distance(h, t) == IF h >= t THEN h - t ELSE h + Size - t

\* A push makes the distance one longer, a take one shorter; 0 and Capacity are the
\* tests for empty and full.
LEMMA Distances ==
  ASSUME NEW h \in 0..Capacity, NEW t \in 0..Capacity
  PROVE  /\ Distance(h, t) \in 0..Capacity
         /\ h = t <=> Distance(h, t) = 0
         /\ Succ(h) = t <=> Distance(h, t) = Capacity
         /\ Distance(h, t) # Capacity => Distance(Succ(h), t) = Distance(h, t) + 1
         /\ Distance(h, t) # 0 => Distance(h, Succ(t)) = Distance(h, t) - 1
BY CBufAssumption DEF Distance, Succ, Size

\* How many items there are, without the modulo.
LEMMA Counting ==
  ASSUME NEW b \in CBufs
  PROVE  /\ b.head \in 0..Capacity /\ b.tail \in 0..Capacity
         /\ CbufCount(b) = Distance(b.head, b.tail)
         /\ CbufCount(b) \in 0..Capacity
         /\ CbufIsEmpty(b) <=> CbufCount(b) = 0
         /\ CbufIsFull(b) <=> CbufCount(b) = Capacity
<1>1. b.head \in 0..Capacity /\ b.tail \in 0..Capacity
  BY DEF CBufs
<1>2. CbufCount(b) = Distance(b.head, b.tail)
  BY DEF CbufCount, Distance
<1>3. CbufIsFull(b) <=> Succ(b.head) = b.tail
  BY <1>1, SuccIsWrap DEF CbufIsFull
<1>4. CbufIsEmpty(b) <=> b.head = b.tail
  BY DEF CbufIsEmpty
<1>5. /\ Distance(b.head, b.tail) \in 0..Capacity
      /\ b.head = b.tail <=> Distance(b.head, b.tail) = 0
      /\ Succ(b.head) = b.tail <=> Distance(b.head, b.tail) = Capacity
  BY <1>1, Distances
<1>. QED BY <1>1, <1>2, <1>3, <1>4, <1>5

\* The cell of the i-th item, without the modulo.
Place(t, i) == IF t + (i - 1) < Size THEN t + (i - 1) ELSE t + (i - 1) - Size

\* The cell of an item is the one the modulo gives, inside the array.
LEMMA PlaceIsWrap ==
  ASSUME NEW t \in 0..Capacity, NEW i \in 1..Size
  PROVE  (t + (i - 1)) % Size = Place(t, i) /\ Place(t, i) \in 0..Capacity
<1>. DEFINE j == t + (i - 1)
<1>1. j \in Nat /\ j < 2 * Size
  BY CBufAssumption DEF Size
<1>2. Place(t, i) = (IF j < Size THEN j ELSE j - Size) /\ Place(t, i) \in 0..Capacity
  BY CBufAssumption DEF Place, Size
<1>. HIDE DEF j
<1>3. j % Size = IF j < Size THEN j ELSE j - Size
  BY <1>1, Wrap
<1>. QED BY <1>2, <1>3 DEF j

\* The cells in use are not the one the next push writes; that one comes next.
LEMMA Places ==
  ASSUME NEW h \in 0..Capacity, NEW t \in 0..Capacity
  PROVE  /\ \A i \in 1..Distance(h, t) : Place(t, i) # h
         /\ Place(t, Distance(h, t) + 1) = h
         /\ Place(t, 1) = t
         /\ \A i \in 1..Capacity : Place(Succ(t), i) = Place(t, i + 1)
BY CBufAssumption DEF Distance, Place, Succ, Size

\* The contents are a sequence of at most Capacity values.
LEMMA ContentsType ==
  ASSUME NEW b \in CBufs
  PROVE  /\ Contents(b) \in Seq(Values)
         /\ Len(Contents(b)) = CbufCount(b)
         /\ \A i \in 1..CbufCount(b) : Contents(b)[i] = b.data[Place(b.tail, i)]
<1>1. CbufCount(b) \in 0..Capacity /\ b.tail \in 0..Capacity
  BY Counting
<1>2. \A i \in 1..CbufCount(b) : i \in 1..Size
  BY <1>1, CBufAssumption DEF Size
<1>3. \A i \in 1..CbufCount(b) :
         /\ b.data[(b.tail + (i - 1)) % Size] = b.data[Place(b.tail, i)]
         /\ b.data[Place(b.tail, i)] \in Values
  BY <1>1, <1>2, PlaceIsWrap DEF CBufs, Values
<1>4. CbufCount(b) \in Nat
  BY <1>1
<1>. QED BY <1>3, <1>4 DEF Contents

\* cbuf_push on a buffer that is not full appends the item.
LEMMA Push ==
  ASSUME NEW b \in CBufs, NEW item \in Items, ~CbufIsFull(b)
  PROVE  /\ CbufPush(b, item) \in CBufs
         /\ Contents(CbufPush(b, item)) = Append(Contents(b), item)
<1>. DEFINE c == CbufPush(b, item)
            n == CbufCount(b)
<1>1. /\ b.head \in 0..Capacity /\ b.tail \in 0..Capacity
      /\ b.data \in [0..Capacity -> Values]
      /\ n = Distance(b.head, b.tail) /\ n \in 0..Capacity /\ n # Capacity
  BY Counting DEF CBufs, Values
<1>2. /\ c = [data |-> [b.data EXCEPT ![b.head] = item], head |-> Succ(b.head), tail |-> b.tail]
      /\ Succ(b.head) \in 0..Capacity
  BY <1>1, SuccIsWrap DEF CbufPush
<1>3. c \in CBufs
  BY <1>1, <1>2 DEF CBufs, Values
<1>4. CbufCount(c) = n + 1
  <2>1. Distance(Succ(b.head), b.tail) = Distance(b.head, b.tail) + 1
    BY <1>1, Distances
  <2>2. c.head = Succ(b.head) /\ c.tail = b.tail
    BY <1>2
  <2>. HIDE DEF c
  <2>3. CbufCount(c) = Distance(c.head, c.tail)
    BY <1>3, Counting
  <2>. QED BY <1>1, <2>1, <2>2, <2>3
<1>. HIDE DEF c, n
<1>5. \A i \in 1..n : Place(b.tail, i) # b.head /\ Place(b.tail, i) \in 0..Capacity
  <2>1. \A i \in 1..n : i \in 1..Size
    BY <1>1, CBufAssumption DEF Size
  <2>. QED BY <1>1, <2>1, Places, PlaceIsWrap
<1>6. Place(b.tail, n + 1) = b.head
  BY <1>1, Places
<1>7. /\ Contents(b) \in Seq(Values) /\ Len(Contents(b)) = n
      /\ \A i \in 1..n : Contents(b)[i] = b.data[Place(b.tail, i)]
  BY ContentsType DEF n
<1>8. /\ Contents(c) \in Seq(Values) /\ Len(Contents(c)) = n + 1
      /\ \A i \in 1..(n + 1) : Contents(c)[i] = c.data[Place(b.tail, i)]
  BY <1>2, <1>3, <1>4, ContentsType
<1>9. \A i \in 1..n : Contents(c)[i] = Contents(b)[i]
  <2>. TAKE i \in 1..n
  <2>1. i \in 1..(n + 1)
    BY <1>1
  <2>2. c.data[Place(b.tail, i)] = b.data[Place(b.tail, i)]
    BY <1>1, <1>2, <1>5
  <2>. QED BY <1>7, <1>8, <2>1, <2>2
<1>10. Contents(c)[n + 1] = item
  <2>1. n + 1 \in 1..(n + 1)
    BY <1>1
  <2>. QED BY <1>1, <1>2, <1>6, <1>8, <2>1
<1>11. item \in Values
  BY DEF Values
<1>12. Contents(c) = Append(Contents(b), item)
  BY <1>1, <1>7, <1>8, <1>9, <1>10, <1>11
<1>. QED BY <1>3, <1>12 DEF c

\* cbuf_take on a buffer that is not empty returns and removes the first item.
LEMMA Take ==
  ASSUME NEW b \in CBufs, ~CbufIsEmpty(b)
  PROVE  /\ CbufTake(b) \in CBufs
         /\ Contents(b) # <<>>
         /\ CbufItem(b) = Head(Contents(b))
         /\ Contents(CbufTake(b)) = Tail(Contents(b))
<1>. DEFINE c == CbufTake(b)
            n == CbufCount(b)
<1>1. /\ b.head \in 0..Capacity /\ b.tail \in 0..Capacity
      /\ n = Distance(b.head, b.tail) /\ n \in 1..Capacity
  BY Counting, CBufAssumption
<1>2. /\ c = [b EXCEPT !.tail = Succ(b.tail)]
      /\ Succ(b.tail) \in 0..Capacity
  BY <1>1, SuccIsWrap DEF CbufTake
<1>3. c \in CBufs /\ c.head = b.head /\ c.tail = Succ(b.tail) /\ c.data = b.data
  BY <1>2 DEF CBufs
<1>. HIDE DEF c
<1>4. CbufCount(c) = n - 1
  <2>1. Distance(b.head, b.tail) # 0
    BY <1>1, CBufAssumption
  <2>2. Distance(b.head, Succ(b.tail)) = Distance(b.head, b.tail) - 1
    BY <1>1, <2>1, Distances
  <2>3. CbufCount(c) = Distance(c.head, c.tail)
    BY <1>3, Counting
  <2>. QED BY <1>1, <1>3, <2>2, <2>3
<1>5. /\ Contents(b) \in Seq(Values) /\ Len(Contents(b)) = n
      /\ \A i \in 1..n : Contents(b)[i] = b.data[Place(b.tail, i)]
  BY ContentsType
<1>6. /\ Contents(c) \in Seq(Values) /\ Len(Contents(c)) = n - 1
      /\ \A i \in 1..(n - 1) : Contents(c)[i] = b.data[Place(Succ(b.tail), i)]
  BY <1>3, <1>4, ContentsType
<1>. HIDE DEF n
<1>7. \A i \in 1..(n - 1) : Contents(c)[i] = Contents(b)[i + 1]
  <2>. TAKE i \in 1..(n - 1)
  <2>1. i + 1 \in 1..n /\ i \in 1..Capacity
    BY <1>1, CBufAssumption
  <2>2. Place(Succ(b.tail), i) = Place(b.tail, i + 1)
    BY <1>1, <2>1, Places
  <2>. QED BY <1>5, <1>6, <2>1, <2>2
<1>8. Contents(c) = Tail(Contents(b))
  BY <1>1, <1>5, <1>6, <1>7
<1>9. CbufItem(b) = Contents(b)[1] /\ Contents(b) # <<>>
  <2>1. 1 \in 1..n /\ Place(b.tail, 1) = b.tail
    BY <1>1, Places
  <2>. QED BY <1>1, <1>5, <2>1 DEF CbufItem
<1>. QED BY <1>3, <1>5, <1>8, <1>9 DEF c

\* A buffer whose indices are equal has no contents.
LEMMA Nothing ==
  ASSUME NEW b \in CBufs
  PROVE  CbufIsEmpty(b) <=> Contents(b) = <<>>
<1>1. Contents(b) \in Seq(Values) /\ Len(Contents(b)) = CbufCount(b)
  BY ContentsType
<1>2. Contents(b) = <<>> <=> Len(Contents(b)) = 0
  BY <1>1, EmptySeq
<1>. QED BY <1>1, <1>2, Counting

\* A new buffer is empty, and so is one that cbuf_init resets or that is emptied by
\* taking all its items.
LEMMA Emptiness ==
  /\ EmptyCBuf \in CBufs /\ CbufInit(EmptyCBuf) = EmptyCBuf /\ Contents(EmptyCBuf) = <<>>
  /\ \A b \in CBufs : CbufInit(b) \in CBufs /\ Contents(CbufInit(b)) = <<>>
  /\ \A b \in CBufs : /\ [b EXCEPT !.tail = b.head] \in CBufs
                      /\ Contents([b EXCEPT !.tail = b.head]) = <<>>
<1>1. EmptyCBuf \in CBufs /\ EmptyCBuf = [data |-> EmptyCBuf.data, head |-> 0, tail |-> 0]
  BY CBufAssumption DEF EmptyCBuf, CBufs
<1>2. ASSUME NEW b \in CBufs
      PROVE  /\ CbufInit(b) \in CBufs /\ CbufIsEmpty(CbufInit(b))
             /\ CbufInit(b) = [data |-> b.data, head |-> 0, tail |-> 0]
  <2>. DEFINE c == [data |-> b.data, head |-> 0, tail |-> 0]
  <2>1. CbufInit(b) = c
    BY DEF CbufInit
  <2>2. b.data \in [0..Capacity -> Items \cup {NoItem}] /\ 0 \in 0..Capacity
    BY CBufAssumption DEF CBufs
  <2>3. c \in CBufs /\ c.head = c.tail
    BY <2>2 DEF CBufs
  <2>. QED BY <2>1, <2>3 DEF CbufIsEmpty
<1>3. CbufInit(EmptyCBuf) = EmptyCBuf
  BY <1>1, <1>2
<1>4. ASSUME NEW b \in CBufs
      PROVE  LET c == [b EXCEPT !.tail = b.head] IN c \in CBufs /\ CbufIsEmpty(c)
  BY DEF CBufs, CbufIsEmpty
<1>. QED BY <1>1, <1>2, <1>3, <1>4, Nothing

----------------------------------------------------------------------------
(* Sequences without repetition, as the contents of a queue are when an item  *)
(* is pushed once.                                                            *)

Distinct(s) == \A i, j \in 1..Len(s) : s[i] = s[j] => i = j

\* A new item is one more element.
LEMMA Appending ==
  ASSUME NEW S, NEW s \in Seq(S), NEW x \in S
  PROVE  /\ Range(Append(s, x)) = Range(s) \cup {x}
         /\ Distinct(s) /\ x \notin Range(s) => Distinct(Append(s, x))
<1>. DEFINE a == Append(s, x)
<1>1. /\ Len(s) \in Nat /\ Len(a) = Len(s) + 1 /\ a[Len(s) + 1] = x
      /\ \A i \in 1..Len(s) : a[i] = s[i]
      /\ DOMAIN s = 1..Len(s) /\ DOMAIN a = 1..Len(a)
  OBVIOUS
<1>. HIDE DEF a
<1>2. /\ \A i \in 1..Len(a) : i \in 1..Len(s) \/ i = Len(s) + 1
      /\ \A i \in 1..Len(s) : i \in 1..Len(a)
      /\ Len(s) + 1 \in 1..Len(a)
  BY <1>1
<1>3. Range(a) = Range(s) \cup {x}
  BY <1>1, <1>2 DEF Range
<1>4. Distinct(s) /\ x \notin Range(s) => Distinct(a)
  BY <1>1, <1>2 DEF Range, Distinct
<1>. QED BY <1>3, <1>4 DEF a

\* Without its first item a sequence has one element less, if it had it once.
LEMMA Removing ==
  ASSUME NEW S, NEW s \in Seq(S), s # <<>>
  PROVE  /\ Head(s) \in S
         /\ Range(s) = Range(Tail(s)) \cup {Head(s)}
         /\ Distinct(s) => Distinct(Tail(s)) /\ Head(s) \notin Range(Tail(s))
<1>. DEFINE t == Tail(s)
<1>1. /\ Len(s) \in Nat /\ Len(s) > 0 /\ Len(t) = Len(s) - 1 /\ Head(s) = s[1]
      /\ \A i \in 1..Len(t) : t[i] = s[i + 1]
      /\ DOMAIN s = 1..Len(s) /\ DOMAIN t = 1..Len(t)
      /\ Head(s) \in S
  OBVIOUS
<1>. HIDE DEF t
<1>2. \A i \in 1..Len(t) : i + 1 \in 1..Len(s) /\ i + 1 # 1
  BY <1>1
<1>3. \A i \in 1..Len(s) : i # 1 => i - 1 \in 1..Len(t) /\ t[i - 1] = s[i]
  <2>. TAKE i \in 1..Len(s)
  <2>. HAVE i # 1
  <2>1. i - 1 \in 1..Len(t) /\ (i - 1) + 1 = i
    BY <1>1
  <2>. QED BY <1>1, <2>1
<1>4. 1 \in 1..Len(s)
  BY <1>1
<1>5. Range(s) = Range(t) \cup {Head(s)}
  <2>1. ASSUME NEW i \in 1..Len(s)
        PROVE  s[i] \in Range(t) \cup {Head(s)}
    BY <1>1, <1>3 DEF Range
  <2>2. ASSUME NEW i \in 1..Len(t)
        PROVE  t[i] \in Range(s)
    BY <1>1, <1>2 DEF Range
  <2>3. Head(s) \in Range(s)
    BY <1>1, <1>4 DEF Range
  <2>. QED BY <1>1, <2>1, <2>2, <2>3 DEF Range
<1>6. ASSUME Distinct(s)
      PROVE  Distinct(t) /\ Head(s) \notin Range(t)
  <2>1. ASSUME NEW i \in 1..Len(t), NEW j \in 1..Len(t), t[i] = t[j]
        PROVE  i = j
    <3>1. i + 1 = j + 1
      BY <1>1, <1>2, <1>6, <2>1 DEF Distinct
    <3>. QED BY <3>1
  <2>2. ASSUME NEW i \in 1..Len(t), t[i] = Head(s)
        PROVE  FALSE
    BY <1>1, <1>2, <1>4, <1>6, <2>2 DEF Distinct
  <2>. QED BY <1>1, <2>1, <2>2 DEF Distinct, Range
<1>. QED BY <1>1, <1>5, <1>6 DEF t
=============================================================================
