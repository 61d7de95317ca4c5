---------------------------- MODULE RecorderProofs ----------------------------
(***************************************************************************)
(* The recording for every number of packets, whether or not an allocation *)
(* may fail.                                                               *)
(*                                                                         *)
(* The argument: packets are pushed in the order of their numbers, and     *)
(* cut in three at any moment: those handled are in the file, but for the  *)
(* configurations (FileInv); the one or two in hand are the previous       *)
(* packet and the one about to be written (WritingInv); the others are     *)
(* linked in the queue (QueueInv).  What is in hand or in the queue is     *)
(* what is allocated (LiveInv).                                            *)
(***************************************************************************)
EXTENDS Recorder, SequenceTheorems, TLAPS

\* The queue links the packets number m to n.
Linked(q, m, n) ==
  IF m > n THEN q.first = Null
  ELSE /\ q.first = m
       /\ q.last = n
       /\ q.next[n] = Null
       /\ \A i \in m..(n - 1) : q.next[i] = i + 1

\* queue_push links one packet more.
LEMMA Pushing ==
  ASSUME NEW q \in Queues, NEW m \in Nat \ {0}, NEW n \in Nat, m <= n + 1, n + 1 \in Items,
         Linked(q, m, n)
  PROVE  QueuePush(q, n + 1) \in Queues /\ Linked(QueuePush(q, n + 1), m, n + 1)
<1>. DEFINE x == n + 1  r == QueuePush(q, x)
<1>1. Null \notin Items /\ Items = 1..MaxPackets /\ MaxPackets \in Nat
  BY QueueAssumption, RecorderAssumption
<1>2. q.next \in [Items -> Links] /\ q.first \in Links /\ q.last \in Links /\ x \in Links
  BY DEF Queues, Links
<1>3. CASE m > n
  <2>1. r = [first |-> x, last |-> x, next |-> [q.next EXCEPT ![x] = Null]]
    BY <1>3 DEF QueuePush, QueueIsEmpty, Linked
  <2>2. [q.next EXCEPT ![x] = Null] \in [Items -> Links] /\ [q.next EXCEPT ![x] = Null][x] = Null
    BY <1>2 DEF Links
  <2>3. r \in Queues
    BY <1>2, <2>1, <2>2 DEF Queues
  <2>4. r.first = x /\ r.last = x /\ r.next[x] = Null
    BY <2>1, <2>2
  <2>. QED BY <1>3, <2>3, <2>4 DEF Linked
<1>4. CASE m <= n
  <2>. DEFINE f == [q.next EXCEPT ![x] = Null, ![n] = x]
  <2>1. m \in Items /\ n \in Items
    BY <1>1, <1>4
  <2>2. q.first = m /\ q.last = n /\ \A i \in m..(n - 1) : q.next[i] = i + 1
    BY <1>4 DEF Linked
  <2>3. r = [first |-> m, last |-> x, next |-> f]
    BY <1>1, <2>1, <2>2 DEF QueuePush, QueueIsEmpty
  <2>4. f \in [Items -> Links] /\ f[x] = Null /\ f[n] = x
    BY <1>2, <2>1 DEF Links
  <2>5. \A i \in Items : i # x /\ i # n => f[i] = q.next[i]
    BY <1>2
  <2>6. \A i \in m..(x - 1) : f[i] = i + 1
    <3>. SUFFICES ASSUME NEW i \in m..(x - 1) PROVE f[i] = i + 1
      OBVIOUS
    <3>1. i \in Items /\ i # x /\ (i = n \/ i \in m..(n - 1))
      BY <1>1
    <3>. QED BY <2>2, <2>4, <2>5, <3>1
  <2>7. r \in Queues
    BY <1>2, <2>1, <2>3, <2>4 DEF Queues, Links
  <2>8. r.first = m /\ r.last = x /\ r.next = f
    BY <2>3
  <2>. HIDE DEF f, r
  <2>. QED BY <1>4, <2>4, <2>6, <2>7, <2>8 DEF Linked, r
<1>. QED BY <1>3, <1>4

\* queue_take gives the first packet, and leaves the others linked.
LEMMA Taking ==
  ASSUME NEW q \in Queues, NEW m \in Nat \ {0}, NEW n \in Nat, n <= MaxPackets,
         Linked(q, m, n), ~QueueIsEmpty(q)
  PROVE  /\ m <= n /\ m \in Items /\ QueueItem(q) = m
         /\ QueueTake(q) \in Queues /\ Linked(QueueTake(q), m + 1, n)
<1>. DEFINE r == QueueTake(q)
<1>1. Null \notin Items /\ Items = 1..MaxPackets /\ MaxPackets \in Nat
  BY QueueAssumption, RecorderAssumption
<1>2. m <= n /\ q.first = m /\ m \in Items
  BY <1>1 DEF Linked, QueueIsEmpty
<1>3. q.next \in [Items -> Links] /\ q.next[m] \in Links
  BY <1>2 DEF Queues
<1>4. /\ r = [q EXCEPT !.first = q.next[m]]
      /\ r.first = q.next[m] /\ r.last = q.last /\ r.next = q.next
  BY <1>2 DEF QueueTake, Queues
<1>5. r \in Queues
  BY <1>3, <1>4 DEF Queues
<1>6. Linked(r, m + 1, n)
  BY <1>2, <1>4 DEF Linked
<1>. QED BY <1>2, <1>5, <1>6 DEF QueueItem

\* An empty list is what is linked after the last packet.
LEMMA EmptyIffAll ==
  ASSUME NEW q, NEW m \in Nat \ {0}, NEW n \in Nat, m <= n + 1, n <= MaxPackets, Linked(q, m, n)
  PROVE  QueueIsEmpty(q) <=> m = n + 1
<1>1. Null \notin Items /\ Items = 1..MaxPackets /\ MaxPackets \in Nat
  BY QueueAssumption, RecorderAssumption
<1>. QED BY <1>1 DEF Linked, QueueIsEmpty
----------------------------------------------------------------------------
(* Sequences in the order of arrival. *)

\* What Range is, for a sequence of packets.
LEMMA Members ==
  ASSUME NEW s \in Seq(Items)
  PROVE  /\ \A i \in DOMAIN s : s[i] \in Range(s)
         /\ \A x \in Range(s) : \E i \in DOMAIN s : x = s[i]
         /\ DOMAIN s = 1..Len(s)
BY DEF Range

LEMMA InOrderEmpty == InOrder(<<>>, {})
BY DEF InOrder, Range

\* A later packet goes to the end.
LEMMA InOrderAppend ==
  ASSUME NEW s \in Seq(Items), NEW S, InOrder(s, S), NEW x \in Items, \A y \in S : y < x
  PROVE  InOrder(Append(s, x), S \cup {x}) /\ Append(s, x) \in Seq(Items)
<1>. DEFINE t == Append(s, x)
<1>1. t \in Seq(Items) /\ Len(t) = Len(s) + 1 /\ Len(s) \in Nat
  BY AppendProperties, LenProperties
<1>2. t[Len(s) + 1] = x /\ \A i \in 1..Len(s) : t[i] = s[i]
  BY AppendProperties
<1>3. DOMAIN s = 1..Len(s) /\ DOMAIN t = 1..(Len(s) + 1)
  BY <1>1, LenProperties
<1>4. Range(s) = S /\ \A i, j \in 1..Len(s) : i < j => s[i] < s[j]
  BY <1>3 DEF InOrder
<1>5. \A i \in 1..Len(s) : s[i] \in S
  BY <1>3, <1>4 DEF Range
<1>. HIDE DEF t
<1>6. Range(t) = S \cup {x}
  <2>1. ASSUME NEW y \in Range(t) PROVE y \in S \cup {x}
    <3>1. PICK i \in 1..(Len(s) + 1) : y = t[i]
      BY <1>3, <2>1 DEF Range
    <3>. QED BY <1>1, <1>2, <1>5, <3>1
  <2>2. ASSUME NEW y \in S \cup {x} PROVE y \in Range(t)
    <3>1. CASE y = x
      BY <1>1, <1>2, <1>3, <3>1 DEF Range
    <3>2. CASE y \in S
      <4>1. PICK i \in 1..Len(s) : y = s[i]
        BY <1>3, <1>4, <3>2 DEF Range
      <4>. QED BY <1>1, <1>2, <1>3, <4>1 DEF Range
    <3>. QED BY <2>2, <3>1, <3>2
  <2>. QED BY <2>1, <2>2
<1>7. \A i, j \in DOMAIN t : i < j => t[i] < t[j]
  BY <1>1, <1>2, <1>3, <1>4, <1>5
<1>. QED BY <1>1, <1>6, <1>7 DEF InOrder, t
----------------------------------------------------------------------------
(* The invariant. *)

HeaderRecords == [header : Items]
FrameRecords == [frame : Items, duration : Int]

TypeInv ==
  /\ streamPc \in StreamPcs /\ recorderPc \in RecorderPcs
  /\ packets \in Seq({"config", "frame"}) /\ Len(packets) <= MaxPackets
  /\ pending \in Seq(Items)
  /\ decoded \in Seq(Seq(Items))
  /\ queue \in Queues
  /\ previous \in Links
  /\ file \in Seq(HeaderRecords \cup FrameRecords)
  /\ \A i \in 2..Len(file) : file[i] \in FrameRecords
  /\ pushed \in Seq(Items)
  /\ live \in SUBSET Items

\* The last packet that was taken from the queue.
Taken == IF previous = Null THEN 0 ELSE previous

\* The stream thread pushes every packet it receives, or stops; the recorder thread lives
\* from StartRecorder on, and fails, or ends when stopped.
OrderInv ==
  /\ \A i \in 1..Len(pushed) : pushed[i] = i
  /\ Len(pushed) <= Len(packets)
  /\ streamPc \in {"start", "startRecorder"} => Len(packets) = 0
  /\ streamPc = "receive" => Len(pushed) = Len(packets)
  /\ streamPc \in {"push", "decode", "record"} => Len(pushed) + 1 = Len(packets)
  /\ Taken <= Len(pushed)
  /\ recorderPc = "unborn" =>
       Len(pushed) = 0 /\ streamPc \in {"start", "startRecorder", "close", "ended"}
  /\ streamPc \in {"start", "startRecorder"} => recorderPc = "unborn"
  /\ streamPc \in {"close", "ended"} => recorderPc \in {"unborn", "ended"}
  /\ stopped => streamPc \in {"join", "close", "ended"}
  /\ failed => recorderPc = "ended" \/ streamPc = "ended"
  /\ recorderPc = "ended" => failed \/ (stopped /\ Taken = Len(pushed))

\* As long as nothing failed, the packets not yet taken are linked in the queue.
QueueInv == failed \/ Linked(queue, Taken + 1, Len(pushed))

\* The duration of the packet number n when the next one is known.
DurationOf(n) == IF IsConfig(n + 1) THEN NoDuration ELSE Pts(n + 1) - Pts(n)

\* The packet that is about to be written, and its duration.
WritingInv ==
  /\ recorderPc \in {"write", "writeLast", "fail"} => previous # Null
  /\ recorderPc = "write" =>
       /\ Taken >= 2
       /\ writing.packet = Taken - 1
       /\ IsConfig(Taken - 1) \/ writing.duration = DurationOf(Taken - 1)
  /\ recorderPc = "writeLast" =>
       /\ stopped /\ Taken = Len(pushed)
       /\ writing.packet = Taken
       /\ writing.duration = LastDuration

\* The frames among the packets number 2 to m.
FramesIn(kinds, m) == {n \in 2..m : kinds[n] # "config"}

\* How many packets the recorder thread has written.
Written == IF recorderPc = "write" THEN Taken - 2 ELSE Taken - 1

\* The file holds the first m packets.
Holds(m) == header_written /\ InOrder(FileFrames, FramesIn(packets, m))

\* The file is a header, and the first packets.
FileBegins ==
  /\ header_written <=> file # <<>>
  /\ header_written =>
       /\ file[1] = HeaderOf(1) /\ Len(pushed) >= 1 /\ IsConfig(1)
       /\ \E m \in 1..Len(pushed) : Holds(m)

\* As long as nothing failed, it holds those that were written; and all, in the end.
FileHoldsWritten ==
  recorderPc \in {"check", "wait", "write", "writeLast"} =>
    IF Written >= 1 THEN Holds(Written) ELSE ~header_written

FileIsWhole ==
  recorderPc = "ended" /\ ~failed /\ Len(pushed) >= 1 =>
    \/ header_written /\ FramesIn(packets, Len(pushed) - 1) \subseteq Range(FileFrames)
    \/ ~header_written /\ Len(pushed) = 1

FileInv == FileBegins /\ FileHoldsWritten /\ FileIsWhole

\* A frame in the file is followed by another packet, or is the last one.
DurationInv ==
  \A i \in 2..Len(file) :
    LET n == file[i].frame IN
    IF n = Len(pushed) THEN stopped /\ file[i].duration = LastDuration
    ELSE file[i].duration = DurationOf(n)

\* The packets that are not deleted are those in hand and in the queue.
LiveInv ==
  /\ recorderPc = "unborn" => live = {}
  /\ recorderPc \in {"check", "wait", "writeLast", "fail"} =>
       live = {n \in 1..Len(pushed) : n >= Taken}
  /\ recorderPc = "write" => live = {n \in 1..Len(pushed) : n >= Taken - 1}
  /\ recorderPc = "ended" => live = {} \/ (failed /\ live = {previous})

\* The last packet of a sequence, and the last frame the decoder got.
EndOf(q) == q[Len(q)]
LastDecoded == IF decoded = <<>> THEN 0 ELSE EndOf(EndOf(decoded))

\* The configurations after the packet number m, up to n.
ConfigsIn(kinds, m, n) == {i \in (m + 1)..n : kinds[i] = "config"}

\* The configurations that wait for the next frame are those since the last one; the
\* packet in hand is one of them once it was prepared.
Prepared == IF streamPc = "push" THEN Len(packets) - 1 ELSE Len(packets)
Waits == InOrder(pending, ConfigsIn(packets, LastDecoded, Prepared))

PendingInv ==
  /\ \A i \in 1..Len(decoded) : Len(decoded[i]) >= 1 /\ EndOf(decoded[i]) <= Len(packets)
  /\ streamPc \in {"push", "decode"} => LastDecoded < Packet
  /\ streamPc = "decode" => packets[Packet] # "config"
  /\ streamPc \in {"start", "startRecorder", "receive", "push", "decode"} => Waits
  /\ streamPc = "record" => IF packets[Packet] = "config" THEN Waits ELSE LastDecoded = Packet
----------------------------------------------------------------------------
(* The steps. *)

FlagsKept ==
  (stopped' <=> stopped) /\ (failed' <=> failed) /\ (header_written' <=> header_written)

\* What the steps of the stream thread leave alone, and those of the recorder thread.
RecordingKept == UNCHANGED <<queue, previous, writing, file, pushed, live>>
StreamKept == UNCHANGED <<streamPc, packets, pending, decoded>>

\* The stream thread stops for the end of the stream, or for a failure.
GiveUp == EndOfStream \/ PrepareFails \/ DecodeFails \/ PushFails

\* The recorder thread waits for a packet.
WaitStep == Sleep \/ WakeUp \/ SpuriousWakeUp

LEMMA Steps ==
  ASSUME [Next]_vars
  PROVE  \/ OpenRecorder \/ StartRecorder \/ ReceivePacket \/ GiveUp \/ PreparePacket \/ Decode
         \/ Push \/ StopRecorder \/ JoinRecorder \/ CloseRecorder
         \/ WaitStep \/ TakePacket \/ Finish \/ WritePacket \/ WriteLastPacket \/ Fail
         \/ UNCHANGED vars
BY Zenon DEF Next, StreamStep, RecorderStep, GiveUp, WaitStep

LEMMA Stuttering ==
  ASSUME UNCHANGED vars
  PROVE  StreamKept /\ RecordingKept /\ FlagsKept /\ recorderPc' = recorderPc
BY Zenon DEF vars, streamVars, threadVars, sharedVars, historyVars, StreamKept, RecordingKept,
       FlagsKept

LEMMA Opening ==
  ASSUME OpenRecorder
  PROVE  /\ streamPc = "start" /\ streamPc' \in {"startRecorder", "ended"}
         /\ UNCHANGED <<packets, pending, decoded, recorderPc>>
         /\ RecordingKept /\ FlagsKept
BY Zenon DEF OpenRecorder, StreamGoto, threadVars, sharedVars, historyVars, RecordingKept, FlagsKept

LEMMA Starting ==
  ASSUME StartRecorder
  PROVE  /\ streamPc = "startRecorder"
         /\ \/ streamPc' \in {"receive", "stop"} /\ recorderPc' = "check"
            \/ streamPc' = "close" /\ recorderPc' = recorderPc
         /\ UNCHANGED <<packets, pending, decoded>>
         /\ RecordingKept /\ FlagsKept
BY Zenon DEF StartRecorder, StreamGoto, sharedVars, historyVars, RecordingKept, FlagsKept

LEMMA Receiving ==
  ASSUME ReceivePacket
  PROVE  /\ streamPc = "receive" /\ streamPc' = "push"
         /\ Len(packets) < MaxPackets
         /\ \E kind \in {"config", "frame"} : packets' = Append(packets, kind)
         /\ UNCHANGED <<pending, decoded, recorderPc>>
         /\ RecordingKept /\ FlagsKept
BY Zenon DEF ReceivePacket, StreamGoto, threadVars, sharedVars, historyVars, RecordingKept, FlagsKept

LEMMA GivingUp ==
  ASSUME GiveUp
  PROVE  /\ streamPc \in {"receive", "push", "decode", "record"} /\ streamPc' = "stop"
         /\ pending' \in {pending, <<>>}
         /\ UNCHANGED <<packets, decoded, recorderPc>>
         /\ RecordingKept /\ FlagsKept
<1>1. CASE EndOfStream
  BY <1>1, Zenon DEF EndOfStream, StreamGoto, threadVars, sharedVars, historyVars, RecordingKept,
         FlagsKept
<1>2. CASE PrepareFails
  BY <1>2, Zenon DEF PrepareFails, StreamGoto, threadVars, sharedVars, historyVars, RecordingKept,
         FlagsKept
<1>3. CASE DecodeFails
  BY <1>3, Zenon DEF DecodeFails, StreamGoto, threadVars, sharedVars, historyVars, RecordingKept,
         FlagsKept
<1>4. CASE PushFails
  <2>1. pending' \in {pending, <<>>}
    BY <1>4, Zenon DEF PushFails, DiscardPending
  <2>. QED
    BY <1>4, <2>1, Zenon DEF PushFails, StreamGoto, threadVars, historyVars, RecordingKept, FlagsKept
<1>. QED BY <1>1, <1>2, <1>3, <1>4, Zenon DEF GiveUp

LEMMA Preparing ==
  ASSUME PreparePacket
  PROVE  /\ streamPc = "push" /\ streamPc' = IF IsConfig(Packet) THEN "record" ELSE "decode"
         /\ pending' = IF IsConfig(Packet) THEN Append(pending, Packet) ELSE pending
         /\ UNCHANGED <<packets, decoded, recorderPc>>
         /\ RecordingKept /\ FlagsKept
BY Zenon DEF PreparePacket, StreamGoto, threadVars, sharedVars, historyVars, RecordingKept, FlagsKept

LEMMA Decoding ==
  ASSUME Decode
  PROVE  /\ streamPc = "decode" /\ streamPc' = "record"
         /\ decoded' = Append(decoded, Append(pending, Packet))
         /\ UNCHANGED <<packets, pending, recorderPc>>
         /\ RecordingKept /\ FlagsKept
BY Zenon DEF Decode, StreamGoto, threadVars, sharedVars, historyVars, RecordingKept, FlagsKept

LEMMA PushingPacket ==
  ASSUME Push
  PROVE  /\ streamPc = "record" /\ streamPc' = "receive"
         /\ ~failed
         /\ queue' = QueuePush(queue, Packet)
         /\ pushed' = Append(pushed, Packet)
         /\ live' = live \cup {Packet}
         /\ pending' = IF IsConfig(Packet) THEN pending ELSE <<>>
         /\ UNCHANGED <<packets, decoded, recorderPc, previous, writing, file>>
         /\ FlagsKept
BY Zenon DEF Push, StreamGoto, DiscardPending, threadVars, FlagsKept

LEMMA Stopping ==
  ASSUME StopRecorder
  PROVE  /\ streamPc = "stop" /\ streamPc' = "join"
         /\ stopped' /\ (failed' <=> failed) /\ (header_written' <=> header_written)
         /\ UNCHANGED <<packets, decoded, recorderPc>> /\ pending' = <<>>
         /\ RecordingKept
BY Zenon DEF StopRecorder, StreamGoto, threadVars, historyVars, RecordingKept

LEMMA Joining ==
  ASSUME JoinRecorder
  PROVE  /\ streamPc = "join" /\ streamPc' = "close" /\ recorderPc = "ended"
         /\ UNCHANGED <<packets, pending, decoded, recorderPc>>
         /\ RecordingKept /\ FlagsKept
BY Zenon DEF JoinRecorder, StreamGoto, threadVars, sharedVars, historyVars, RecordingKept, FlagsKept

LEMMA Closing ==
  ASSUME CloseRecorder
  PROVE  /\ streamPc = "close" /\ streamPc' = "ended"
         /\ failed => failed'
         /\ (stopped' <=> stopped) /\ (header_written' <=> header_written)
         /\ UNCHANGED <<packets, pending, decoded, recorderPc>>
         /\ RecordingKept
<1>1. /\ streamPc = "close" /\ streamPc' = "ended"
      /\ UNCHANGED <<packets, pending, decoded, threadVars, queue, stopped, historyVars>>
      /\ failed' = TRUE \/ failed' = failed
  BY Zenon DEF CloseRecorder, StreamGoto
<1>2. failed => failed'
  BY <1>1, Zenon
<1>. QED BY <1>1, <1>2, Zenon DEF threadVars, historyVars, RecordingKept

LEMMA Waiting ==
  ASSUME WaitStep
  PROVE  /\ \/ recorderPc' = recorderPc
            \/ recorderPc \in {"check", "wait"} /\ recorderPc' \in {"check", "wait"}
         /\ StreamKept /\ RecordingKept /\ FlagsKept
<1>1. CASE Sleep
  BY <1>1, Zenon DEF Sleep, RecorderGoto, streamVars, historyVars, StreamKept, RecordingKept,
         FlagsKept
<1>2. CASE WakeUp
  BY <1>2, Zenon DEF WakeUp, RecorderGoto, streamVars, sharedVars, historyVars, StreamKept,
         RecordingKept, FlagsKept
<1>3. CASE SpuriousWakeUp
  BY <1>3, Zenon DEF SpuriousWakeUp, streamVars, threadVars, historyVars, StreamKept,
         RecordingKept, FlagsKept
<1>. QED BY <1>1, <1>2, <1>3, Zenon DEF WaitStep

LEMMA TakingPacket ==
  ASSUME TakePacket
  PROVE  /\ recorderPc = "check" /\ recorderPc' = IF previous = Null THEN "check" ELSE "write"
         /\ ~QueueIsEmpty(queue)
         /\ queue' = QueueTake(queue)
         /\ previous' = QueueItem(queue)
         /\ writing' = [packet |-> previous, duration |-> DurationBefore(QueueItem(queue))]
         /\ UNCHANGED <<file, pushed, live>>
         /\ StreamKept /\ FlagsKept
BY Zenon DEF TakePacket, RecorderGoto, streamVars, historyVars, StreamKept, FlagsKept

LEMMA Finishing ==
  ASSUME Finish
  PROVE  /\ recorderPc = "check" /\ recorderPc' = IF previous = Null THEN "ended" ELSE "writeLast"
         /\ stopped /\ QueueIsEmpty(queue)
         /\ writing' = [packet |-> previous, duration |-> LastDuration]
         /\ UNCHANGED <<queue, previous, file, pushed, live>>
         /\ StreamKept /\ FlagsKept
BY Zenon DEF Finish, RecorderGoto, streamVars, sharedVars, historyVars, StreamKept, FlagsKept

\* What the recorder thread did with the packet it was to write.
Failed == file' = file /\ (header_written' <=> header_written)
Ignored == header_written /\ header_written' /\ IsConfig(writing.packet) /\ file' = file
HeaderAdded ==
  /\ ~header_written /\ header_written'
  /\ IsConfig(writing.packet)
  /\ file' = <<HeaderOf(writing.packet)>>
FrameAdded ==
  /\ header_written /\ header_written'
  /\ ~IsConfig(writing.packet)
  /\ file' = Append(file, FrameOf(writing.packet, writing.duration))

LEMMA Writings ==
  /\ WriteSucceeds => Ignored \/ HeaderAdded \/ FrameAdded
  /\ WriteFails => Failed
<1>1. ASSUME WriteFails PROVE Failed
  <2>1. file' = file /\ header_written' = header_written
    BY <1>1, Zenon DEF WriteFails
  <2>. QED BY <2>1, Zenon DEF Failed
<1>2. ASSUME WriteSucceeds, ~header_written PROVE HeaderAdded
  BY <1>2, Zenon DEF WriteSucceeds, HeaderAdded
<1>3. ASSUME WriteSucceeds, header_written, IsConfig(writing.packet) PROVE Ignored
  BY <1>3, Zenon DEF WriteSucceeds, Ignored
<1>4. ASSUME WriteSucceeds, header_written, ~IsConfig(writing.packet) PROVE FrameAdded
  BY <1>4, Zenon DEF WriteSucceeds, FrameAdded
<1>. QED BY <1>1, <1>2, <1>3, <1>4, Zenon

LEMMA WritingPacket ==
  ASSUME WritePacket
  PROVE  /\ recorderPc = "write"
         /\ \/ recorderPc' = "check" /\ (Ignored \/ HeaderAdded \/ FrameAdded)
            \/ recorderPc' = "fail" /\ Failed
         /\ live' = live \ {writing.packet}
         /\ (stopped' <=> stopped) /\ (failed' <=> failed)
         /\ UNCHANGED <<queue, previous, pushed>>
         /\ StreamKept
BY Writings, Zenon DEF WritePacket, DeleteWritten, RecorderGoto, streamVars, sharedVars, StreamKept

LEMMA WritingLast ==
  ASSUME WriteLastPacket
  PROVE  /\ recorderPc = "writeLast" /\ recorderPc' = "ended"
         /\ Ignored \/ HeaderAdded \/ FrameAdded \/ Failed
         /\ live' = live \ {writing.packet}
         /\ (stopped' <=> stopped) /\ (failed' <=> failed)
         /\ UNCHANGED <<queue, previous, pushed>>
         /\ StreamKept
BY Writings, Zenon DEF WriteLastPacket, DeleteWritten, RecorderGoto, streamVars, sharedVars,
       StreamKept

LEMMA Failing ==
  ASSUME Fail
  PROVE  /\ recorderPc = "fail" /\ recorderPc' = "ended"
         /\ failed' /\ (stopped' <=> stopped) /\ (header_written' <=> header_written)
         /\ queue' = [queue EXCEPT !.first = Null]
         /\ live' = live \ Range(Queued)
         /\ UNCHANGED <<previous, writing, file, pushed>>
         /\ StreamKept
BY Zenon DEF Fail, RecorderGoto, streamVars, StreamKept
----------------------------------------------------------------------------
(* What the steps do, in numbers of packets. *)

LEMMA Numbers ==
  ASSUME TypeInv, OrderInv
  PROVE  /\ Items = 1..MaxPackets /\ MaxPackets \in Nat /\ Null \notin Items
         /\ Len(packets) \in 0..MaxPackets /\ Len(pushed) \in 0..MaxPackets
         /\ Len(pushed) <= Len(packets)
         /\ Taken \in 0..Len(pushed)
         /\ previous = Null <=> Taken = 0
         /\ previous # Null => Taken = previous
<1>1. Items = 1..MaxPackets /\ MaxPackets \in Nat /\ Null \notin Items
  BY RecorderAssumption, QueueAssumption
<1>2. Len(packets) \in Nat /\ Len(pushed) \in Nat
  BY LenProperties DEF TypeInv
<1>3. previous \in Items \cup {Null}
  BY DEF TypeInv, Links
<1>4. Len(packets) <= MaxPackets /\ Len(pushed) <= Len(packets) /\ Taken <= Len(pushed)
  BY DEF TypeInv, OrderInv
<1>. QED BY <1>1, <1>2, <1>3, <1>4 DEF Taken

\* The kinds of the packets received do not change.
LEMMA KindsKept ==
  ASSUME TypeInv, [Next]_vars
  PROVE  /\ packets' \in Seq({"config", "frame"}) /\ Len(packets') <= MaxPackets
         /\ Len(packets) \in Nat /\ Len(packets') \in Nat /\ Len(packets) <= Len(packets')
         /\ \A n \in 1..Len(packets) : packets'[n] = packets[n]
<1>1. packets \in Seq({"config", "frame"}) /\ Len(packets) <= MaxPackets /\ Len(packets) \in Nat
  BY LenProperties DEF TypeInv
<1>2. CASE ReceivePacket
  <2>1. PICK kind \in {"config", "frame"} : packets' = Append(packets, kind)
    BY <1>2, Receiving, Zenon
  <2>2. /\ packets' \in Seq({"config", "frame"}) /\ Len(packets') = Len(packets) + 1
        /\ \A n \in 1..Len(packets) : packets'[n] = packets[n]
    BY <1>1, <2>1, AppendProperties
  <2>3. Len(packets) < MaxPackets /\ MaxPackets \in Nat
    BY <1>2, Receiving, RecorderAssumption, Zenon
  <2>. QED BY <1>1, <2>2, <2>3
<1>3. CASE ~ReceivePacket
  <2>1. packets' = packets
    BY <1>3, Steps, Stuttering, Opening, Starting, GivingUp, Preparing, Decoding, PushingPacket,
       Stopping, Joining, Closing, Waiting, TakingPacket, Finishing, WritingPacket, WritingLast,
       Failing, Zenon DEF StreamKept
  <2>. QED BY <1>1, <2>1
<1>. QED BY <1>2, <1>3

\* Only ReceivePacket changes them.
LEMMA PacketsKept ==
  ASSUME [Next]_vars, ~ReceivePacket
  PROVE  packets' = packets
BY Steps, Stuttering, Opening, Starting, GivingUp, Preparing, Decoding, PushingPacket,
   Stopping, Joining, Closing, Waiting, TakingPacket, Finishing, WritingPacket, WritingLast,
   Failing, Zenon DEF StreamKept

\* The packet pushed is the next number.
LEMMA PushNumbers ==
  ASSUME Push, TypeInv, OrderInv
  PROVE  /\ Packet = Len(pushed) + 1 /\ Packet \in Items
         /\ Len(pushed') = Len(pushed) + 1
         /\ pushed' \in Seq(Items)
         /\ \A i \in 1..Len(pushed') : pushed'[i] = i
         /\ Taken' = Taken
<1>1. streamPc = "record" /\ pushed' = Append(pushed, Packet) /\ previous' = previous
  BY PushingPacket
<1>2. Packet = Len(pushed) + 1 /\ Packet \in Items
  BY <1>1, Numbers DEF OrderInv, Packet
<1>3. pushed \in Seq(Items) /\ \A i \in 1..Len(pushed) : pushed[i] = i
  BY DEF TypeInv, OrderInv
<1>4. /\ pushed' \in Seq(Items) /\ Len(pushed') = Len(pushed) + 1
      /\ pushed'[Len(pushed) + 1] = Packet
      /\ \A i \in 1..Len(pushed) : pushed'[i] = pushed[i]
  BY <1>1, <1>2, <1>3, AppendProperties
<1>5. ASSUME NEW i \in 1..Len(pushed') PROVE pushed'[i] = i
  <2>1. Len(pushed) \in Nat
    BY Numbers
  <2>. QED BY <1>2, <1>3, <1>4, <2>1
<1>. QED BY <1>1, <1>2, <1>4, <1>5 DEF Taken

\* The packet taken is the next one, and the one before it can be written.
LEMMA TakeNumbers ==
  ASSUME TakePacket, TypeInv, OrderInv, QueueInv
  PROVE  /\ Taken' = Taken + 1 /\ Taken + 1 <= Len(pushed)
         /\ previous' = Taken + 1 /\ previous' \in Items
         /\ ~failed
         /\ queue' \in Queues /\ Linked(queue', Taken + 2, Len(pushed))
         /\ Taken >= 1 => /\ recorderPc' = "write"
                          /\ writing'.packet = Taken
                          /\ IsConfig(Taken) \/ writing'.duration = DurationOf(Taken)
         /\ Taken = 0 => recorderPc' = "check"
<1>1. /\ recorderPc = "check" /\ recorderPc' = IF previous = Null THEN "check" ELSE "write"
      /\ ~QueueIsEmpty(queue) /\ queue' = QueueTake(queue) /\ previous' = QueueItem(queue)
      /\ writing' = [packet |-> previous, duration |-> DurationBefore(QueueItem(queue))]
  BY TakingPacket
<1>2. ~failed /\ Linked(queue, Taken + 1, Len(pushed))
  BY <1>1 DEF OrderInv, QueueInv
<1>3. /\ Taken + 1 \in Nat \ {0} /\ Len(pushed) \in Nat /\ Len(pushed) <= MaxPackets
      /\ queue \in Queues
  BY Numbers DEF TypeInv
<1>4. /\ Taken + 1 <= Len(pushed) /\ Taken + 1 \in Items /\ QueueItem(queue) = Taken + 1
      /\ QueueTake(queue) \in Queues /\ Linked(QueueTake(queue), Taken + 1 + 1, Len(pushed))
  BY <1>1, <1>2, <1>3, Taking
<1>5. Taken' = Taken + 1
  BY <1>1, <1>4, Numbers DEF Taken
<1>6. Taken + 1 + 1 = Taken + 2
  BY Numbers
<1>7. ASSUME Taken >= 1
      PROVE  /\ recorderPc' = "write" /\ writing'.packet = Taken
             /\ IsConfig(Taken) \/ writing'.duration = DurationOf(Taken)
  <2>1. previous # Null /\ previous = Taken
    BY <1>7, Numbers
  <2>2. writing'.packet = Taken /\ writing'.duration = DurationBefore(Taken + 1)
    BY <1>1, <1>4, <2>1
  <2>3. IsConfig(Taken) \/ DurationBefore(Taken + 1) = DurationOf(Taken)
    BY <2>1, Zenon DEF DurationBefore, DurationOf
  <2>. QED BY <1>1, <2>1, <2>2, <2>3
<1>8. Taken = 0 => recorderPc' = "check"
  BY <1>1, Numbers
<1>. QED BY <1>1, <1>2, <1>4, <1>5, <1>6, <1>7, <1>8

LEMMA DurationType ==
  ASSUME NEW n \in Nat
  PROVE  DurationOf(n) \in Int
<1>1. \A m \in Nat : Pts(m) \in Int
  <2>. TAKE m \in Nat
  <2>1. m * (m + 1) \in Int
    OBVIOUS
  <2>. QED BY <2>1 DEF Pts
<1>. QED BY <1>1 DEF DurationOf, NoDuration
----------------------------------------------------------------------------
(* Each part of the invariant is inductive relative to the others. *)

LEMMA TypeStep ==
  ASSUME TypeInv, OrderInv, QueueInv, WritingInv, FileInv, [Next]_vars
  PROVE  TypeInv'
<1>. USE DEF TypeInv
<1>1. streamPc' \in StreamPcs
  BY Steps, Stuttering, Opening, Starting, Receiving, GivingUp, Preparing, Decoding, PushingPacket,
     Stopping, Joining, Closing, Waiting, TakingPacket, Finishing, WritingPacket, WritingLast,
     Failing DEF StreamKept, StreamPcs
<1>2. recorderPc' \in RecorderPcs
  BY Steps, Stuttering, Opening, Starting, Receiving, GivingUp, Preparing, Decoding, PushingPacket,
     Stopping, Joining, Closing, Waiting, TakingPacket, Finishing, WritingPacket, WritingLast,
     Failing DEF RecorderPcs
<1>3. packets' \in Seq({"config", "frame"}) /\ Len(packets') <= MaxPackets
  BY KindsKept
<1>4. streamPc = "push" \/ streamPc = "decode" => Packet \in Items
  BY Numbers DEF OrderInv, Packet
<1>5. pending' \in Seq(Items)
  <2>. HIDE DEF TypeInv
  <2>0. pending \in Seq(Items) /\ <<>> \in Seq(Items)
    BY DEF TypeInv
  <2>1. CASE PreparePacket
    <3>1. Packet \in Items /\ pending' \in {pending, Append(pending, Packet)}
      BY <1>4, <2>1, Preparing
    <3>2. Append(pending, Packet) \in Seq(Items)
      BY <2>0, <3>1
    <3>. QED BY <2>0, <3>1, <3>2, Zenon
  <2>2. CASE Push
    BY <2>0, <2>2, PushingPacket, Zenon
  <2>3. CASE GiveUp
    BY <2>0, <2>3, GivingUp, Zenon
  <2>4. CASE StopRecorder
    BY <2>0, <2>4, Stopping, Zenon
  <2>5. CASE ~(PreparePacket \/ Push \/ GiveUp \/ StopRecorder)
    <3>1. pending' = pending
      BY <2>5, Steps, Stuttering, Opening, Starting, Receiving, Decoding, Joining, Closing, Waiting,
         TakingPacket, Finishing, WritingPacket, WritingLast, Failing, Zenon DEF StreamKept
    <3>. QED BY <2>0, <3>1
  <2>. QED BY <2>1, <2>2, <2>3, <2>4, <2>5
<1>6. decoded' \in Seq(Seq(Items))
  <2>1. CASE Decode
    <3>. DEFINE d == Append(pending, Packet)
    <3>1. d \in Seq(Items) /\ decoded' = Append(decoded, d)
      BY <1>4, <2>1, Decoding
    <3>. HIDE DEF d
    <3>. QED BY <3>1
  <2>2. CASE ~Decode
    <3>1. decoded' = decoded
      BY <2>2, Steps, Stuttering, Opening, Starting, Receiving, GivingUp, Preparing, PushingPacket,
         Stopping, Joining, Closing, Waiting, TakingPacket, Finishing, WritingPacket, WritingLast,
         Failing, Zenon DEF StreamKept
    <3>. QED BY <3>1
  <2>. QED BY <2>1, <2>2
<1>7. queue' \in Queues
  <2>1. CASE Push
    <3>1. /\ Packet = Len(pushed) + 1 /\ Packet \in Items /\ Taken \in 0..Len(pushed)
          /\ Len(pushed) \in Nat
      BY <2>1, PushNumbers, Numbers
    <3>2. queue' = QueuePush(queue, Len(pushed) + 1) /\ Linked(queue, Taken + 1, Len(pushed))
      BY <2>1, <3>1, PushingPacket DEF QueueInv
    <3>. QED BY <3>1, <3>2, Pushing
  <2>2. CASE TakePacket
    BY <2>2, TakeNumbers
  <2>3. CASE Fail
    BY <2>3, Failing DEF Queues, Links
  <2>4. CASE ~(Push \/ TakePacket \/ Fail)
    <3>1. queue' = queue
      BY <2>4, Steps, Stuttering, Opening, Starting, Receiving, GivingUp, Preparing, Decoding,
         Stopping, Joining, Closing, Waiting, Finishing, WritingPacket, WritingLast,
         Zenon DEF RecordingKept
    <3>. QED BY <3>1
  <2>. QED BY <2>1, <2>2, <2>3, <2>4
<1>8. previous' \in Links
  <2>1. CASE TakePacket
    BY <2>1, TakeNumbers DEF Links
  <2>2. CASE ~TakePacket
    <3>1. previous' = previous
      BY <2>2, Steps, Stuttering, Opening, Starting, Receiving, GivingUp, Preparing, Decoding,
         PushingPacket, Stopping, Joining, Closing, Waiting, Finishing, WritingPacket, WritingLast,
         Failing, Zenon DEF RecordingKept
    <3>. QED BY <3>1
  <2>. QED BY <2>1, <2>2
<1>9. pushed' \in Seq(Items)
  <2>1. CASE Push
    BY <2>1, PushNumbers
  <2>2. CASE ~Push
    <3>1. pushed' = pushed
      BY <2>2, Steps, Stuttering, Opening, Starting, Receiving, GivingUp, Preparing, Decoding,
         Stopping, Joining, Closing, Waiting, TakingPacket, Finishing, WritingPacket, WritingLast,
         Failing, Zenon DEF RecordingKept
    <3>. QED BY <3>1
  <2>. QED BY <2>1, <2>2
<1>10. live' \in SUBSET Items
  <2>1. CASE Push
    BY <2>1, PushingPacket, PushNumbers
  <2>2. CASE WritePacket \/ WriteLastPacket \/ Fail
    BY <2>2, WritingPacket, WritingLast, Failing
  <2>3. CASE ~(Push \/ WritePacket \/ WriteLastPacket \/ Fail)
    <3>1. live' = live
      BY <2>3, Steps, Stuttering, Opening, Starting, Receiving, GivingUp, Preparing, Decoding,
         Stopping, Joining, Closing, Waiting, TakingPacket, Finishing, Zenon DEF RecordingKept
    <3>. QED BY <3>1
  <2>. QED BY <2>1, <2>2, <2>3
<1>11. /\ file' \in Seq(HeaderRecords \cup FrameRecords)
       /\ \A i \in 2..Len(file') : file'[i] \in FrameRecords
  <2>1. CASE file' = file
    BY <2>1
  <2>2. ASSUME WritePacket \/ WriteLastPacket
        PROVE  writing.packet \in Items /\ (IsConfig(writing.packet) \/ writing.duration \in Int)
    <3>1. recorderPc = "write" \/ recorderPc = "writeLast"
      BY <2>2, WritingPacket, WritingLast
    <3>2. CASE recorderPc = "write"
      <4>1. Taken - 1 \in Items
        BY <3>2, Numbers DEF WritingInv
      <4>2. DurationOf(Taken - 1) \in Int
        BY <4>1, Numbers, DurationType
      <4>. QED BY <3>2, <4>1, <4>2, Zenon DEF WritingInv
    <3>3. CASE recorderPc = "writeLast"
      BY <3>3, Numbers DEF WritingInv, LastDuration
    <3>. QED BY <3>1, <3>2, <3>3
  <2>3. CASE (WritePacket \/ WriteLastPacket) /\ HeaderAdded
    <3>1. HeaderOf(writing.packet) \in HeaderRecords
      BY <2>2, <2>3 DEF HeaderOf, HeaderRecords
    <3>2. file' = <<HeaderOf(writing.packet)>>
      BY <2>3 DEF HeaderAdded
    <3>. QED BY <3>1, <3>2
  <2>4. CASE (WritePacket \/ WriteLastPacket) /\ FrameAdded
    <3>. DEFINE r == FrameOf(writing.packet, writing.duration)
    <3>1. r \in FrameRecords /\ file' = Append(file, r)
      BY <2>2, <2>4 DEF FrameAdded, FrameOf, FrameRecords
    <3>. HIDE DEF r
    <3>2. file \in Seq(HeaderRecords \cup FrameRecords) /\ \A i \in 2..Len(file) : file[i] \in FrameRecords
      OBVIOUS
    <3>3. /\ file' \in Seq(HeaderRecords \cup FrameRecords)
          /\ Len(file') = Len(file) + 1 /\ Len(file) \in Nat
          /\ file'[Len(file) + 1] = r
          /\ \A i \in 1..Len(file) : file'[i] = file[i]
      BY <3>1, <3>2, AppendProperties, LenProperties
    <3>. QED BY <3>1, <3>2, <3>3
  <2>5. \/ file' = file
        \/ (WritePacket \/ WriteLastPacket) /\ (HeaderAdded \/ FrameAdded)
    BY Steps, Stuttering, Opening, Starting, Receiving, GivingUp, Preparing, Decoding,
       PushingPacket, Stopping, Joining, Closing, Waiting, TakingPacket, Finishing, WritingPacket,
       WritingLast, Failing, Zenon DEF RecordingKept, Ignored, Failed
  <2>. QED BY <2>1, <2>3, <2>4, <2>5
<1>. QED BY <1>1, <1>2, <1>3, <1>5, <1>6, <1>7, <1>8, <1>9, <1>10, <1>11

\* What a step that pushes and takes nothing keeps.
LEMMA PlacesKept ==
  ASSUME [Next]_vars, ~Push, ~TakePacket
  PROVE  pushed' = pushed /\ previous' = previous /\ Taken' = Taken
<1>1. pushed' = pushed /\ previous' = previous
  BY Steps, Stuttering, Opening, Starting, Receiving, GivingUp, Preparing, Decoding, Stopping,
     Joining, Closing, Waiting, Finishing, WritingPacket, WritingLast, Failing, Zenon
     DEF RecordingKept
<1>. QED BY <1>1 DEF Taken

\* The recorder thread finishes when it has taken all packets.
LEMMA FinishNumbers ==
  ASSUME Finish, TypeInv, OrderInv, QueueInv
  PROVE  Taken = Len(pushed)
<1>1. recorderPc = "check" /\ QueueIsEmpty(queue)
  BY Finishing
<1>2. Linked(queue, Taken + 1, Len(pushed))
  BY <1>1 DEF OrderInv, QueueInv
<1>3. Len(pushed) \in Nat /\ Taken \in 0..Len(pushed) /\ Len(pushed) <= MaxPackets
  BY Numbers
<1>4. Taken + 1 = Len(pushed) + 1
  BY <1>1, <1>2, <1>3, EmptyIffAll
<1>. QED BY <1>3, <1>4

LEMMA OrderStep ==
  ASSUME TypeInv, OrderInv, QueueInv, WritingInv, [Next]_vars
  PROVE  OrderInv'
<1>1. /\ Len(packets) \in Nat /\ Len(packets') \in Nat /\ Len(packets) <= Len(packets')
      /\ Len(pushed) \in Nat /\ Taken \in 0..Len(pushed)
      /\ previous = Null <=> Taken = 0
  BY KindsKept, Numbers
<1>2. CASE Push
  <2>1. /\ Packet = Len(pushed) + 1 /\ Len(pushed') = Len(pushed) + 1 /\ Taken' = Taken
        /\ \A i \in 1..Len(pushed') : pushed'[i] = i
    BY <1>2, PushNumbers
  <2>2. packets' = packets /\ recorderPc' = recorderPc /\ streamPc = "record" /\ streamPc' = "receive"
        /\ ~failed /\ FlagsKept
    BY <1>2, PushingPacket
  <2>3. ~stopped /\ recorderPc # "unborn" /\ recorderPc # "ended"
    BY <2>2 DEF OrderInv
  <2>. QED BY <1>1, <2>1, <2>2, <2>3 DEF OrderInv, Packet, FlagsKept
<1>3. CASE TakePacket
  <2>1. Taken' = Taken + 1 /\ Taken + 1 <= Len(pushed)
    BY <1>3, TakeNumbers
  <2>2. /\ packets' = packets /\ pushed' = pushed /\ streamPc' = streamPc /\ recorderPc = "check"
        /\ recorderPc' \in {"check", "write"}
        /\ FlagsKept
    BY <1>3, TakingPacket DEF StreamKept
  <2>. QED BY <1>1, <2>1, <2>2 DEF OrderInv, FlagsKept
<1>4. CASE ReceivePacket
  <2>1. Len(packets') = Len(packets) + 1
    <3>1. PICK kind \in {"config", "frame"} : packets' = Append(packets, kind)
      BY <1>4, Receiving, Zenon
    <3>2. packets \in Seq({"config", "frame"})
      BY DEF TypeInv
    <3>. QED BY <3>1, <3>2, AppendProperties
  <2>2. /\ streamPc = "receive" /\ streamPc' = "push" /\ recorderPc' = recorderPc
        /\ pushed' = pushed /\ previous' = previous /\ FlagsKept
    BY <1>4, Receiving DEF RecordingKept
  <2>. QED BY <1>1, <2>1, <2>2 DEF OrderInv, FlagsKept, Taken
<1>. DEFINE Same == pushed' = pushed /\ Taken' = Taken /\ packets' = packets
<1>5. Same \/ Push \/ TakePacket \/ ReceivePacket
  BY PlacesKept, PacketsKept, Zenon
<1>6. CASE Same /\ GiveUp
  BY <1>1, <1>6, GivingUp DEF OrderInv, FlagsKept
<1>7. CASE Same /\ (OpenRecorder \/ StartRecorder)
  BY <1>1, <1>7, Opening, Starting DEF OrderInv, FlagsKept
<1>8. CASE Same /\ (PreparePacket \/ Decode)
  BY <1>1, <1>8, Preparing, Decoding DEF OrderInv, FlagsKept
<1>9. CASE Same /\ (StopRecorder \/ JoinRecorder \/ CloseRecorder)
  BY <1>1, <1>9, Stopping, Joining, Closing DEF OrderInv, FlagsKept
<1>10. CASE Same /\ (WaitStep \/ UNCHANGED vars)
  BY <1>1, <1>10, Waiting, Stuttering DEF OrderInv, FlagsKept, StreamKept
<1>11. CASE Same /\ Finish
  BY <1>1, <1>11, Finishing, FinishNumbers DEF OrderInv, FlagsKept, StreamKept
<1>12. CASE Same /\ WritePacket
  BY <1>1, <1>12, WritingPacket DEF OrderInv, StreamKept
<1>13. CASE Same /\ WriteLastPacket
  BY <1>1, <1>13, WritingLast DEF OrderInv, WritingInv, StreamKept
<1>14. CASE Same /\ Fail
  BY <1>1, <1>14, Failing DEF OrderInv, StreamKept
<1>. QED
  BY <1>2, <1>3, <1>4, <1>5, <1>6, <1>7, <1>8, <1>9, <1>10, <1>11, <1>12, <1>13, <1>14, Steps, Zenon

LEMMA QueueStep ==
  ASSUME TypeInv, OrderInv, QueueInv, [Next]_vars
  PROVE  QueueInv'
<1>1. Len(pushed) \in Nat /\ Taken \in 0..Len(pushed) /\ queue \in Queues
  BY Numbers DEF TypeInv
<1>2. CASE Push
  <2>1. /\ Packet = Len(pushed) + 1 /\ Packet \in Items
        /\ Len(pushed') = Len(pushed) + 1 /\ Taken' = Taken
    BY <1>2, PushNumbers
  <2>2. queue' = QueuePush(queue, Packet) /\ Linked(queue, Taken + 1, Len(pushed))
    BY <1>2, PushingPacket DEF QueueInv
  <2>3. Linked(queue', Taken + 1, Len(pushed) + 1)
    BY <1>1, <2>1, <2>2, Pushing
  <2>. QED BY <2>1, <2>3 DEF QueueInv
<1>3. CASE TakePacket
  <2>1. Linked(queue', Taken + 2, Len(pushed)) /\ Taken' = Taken + 1
    BY <1>3, TakeNumbers
  <2>2. pushed' = pushed
    BY <1>3, TakingPacket
  <2>3. Taken + 2 = Taken' + 1
    BY <1>1, <2>1
  <2>. QED BY <2>1, <2>2, <2>3 DEF QueueInv
<1>4. CASE Fail
  BY <1>4, Failing DEF QueueInv
<1>5. CASE ~(Push \/ TakePacket \/ Fail)
  <2>1. queue' = queue /\ (failed => failed')
    BY <1>5, Steps, Stuttering, Opening, Starting, Receiving, GivingUp, Preparing, Decoding,
       Stopping, Joining, Closing, Waiting, Finishing, WritingPacket, WritingLast, Zenon
       DEF RecordingKept, FlagsKept
  <2>2. pushed' = pushed /\ Taken' = Taken
    BY <1>5, PlacesKept
  <2>. QED BY <2>1, <2>2 DEF QueueInv
<1>. QED BY <1>2, <1>3, <1>4, <1>5

\* The durations of packets that are followed by others do not change.
LEMMA DurationsKept ==
  ASSUME TypeInv, OrderInv, [Next]_vars
  PROVE  /\ \A n \in 1..Len(packets) : IsConfig(n)' <=> IsConfig(n)
         /\ \A n \in 1..(Len(packets) - 1) : DurationOf(n)' = DurationOf(n)
<1>1. Len(packets) \in Nat /\ \A n \in 1..Len(packets) : packets'[n] = packets[n]
  BY KindsKept
<1>2. \A n \in 1..(Len(packets) - 1) : packets'[n + 1] = packets[n + 1]
  BY <1>1
<1>3. \A n \in 1..Len(packets) : IsConfig(n)' <=> IsConfig(n)
  BY <1>1, Zenon DEF IsConfig
<1>4. \A n \in 1..(Len(packets) - 1) : DurationOf(n)' = DurationOf(n)
  BY <1>2, Zenon DEF DurationOf, IsConfig
<1>. QED BY <1>3, <1>4

LEMMA WritingStep ==
  ASSUME TypeInv, OrderInv, QueueInv, WritingInv, [Next]_vars
  PROVE  WritingInv'
<1>1. /\ Len(packets) \in Nat /\ Len(pushed) \in Nat /\ Len(pushed) <= Len(packets)
      /\ Taken \in 0..Len(pushed)
      /\ previous = Null <=> Taken = 0
      /\ previous # Null => Taken = previous
      /\ \A n \in 1..Len(packets) : packets'[n] = packets[n]
  BY KindsKept, Numbers
<1>2. CASE TakePacket
  <2>1. /\ Taken' = Taken + 1 /\ Taken + 1 <= Len(pushed) /\ previous' = Taken + 1
        /\ previous' \in Items
        /\ Taken >= 1 => /\ recorderPc' = "write"
                         /\ writing'.packet = Taken
                         /\ IsConfig(Taken) \/ writing'.duration = DurationOf(Taken)
        /\ Taken = 0 => recorderPc' = "check"
    BY <1>2, TakeNumbers
  <2>2. Null \notin Items
    BY QueueAssumption
  <2>3. CASE Taken = 0
    BY <2>1, <2>2, <2>3 DEF WritingInv
  <2>4. CASE Taken >= 1
    <3>1. Taken' - 1 = Taken /\ recorderPc' = "write" /\ previous' # Null /\ Taken' >= 2
      BY <1>1, <2>1, <2>2, <2>4
    <3>2. packets' = packets
      BY <1>2, TakingPacket DEF StreamKept
    <3>. QED BY <2>1, <2>4, <3>1, <3>2 DEF WritingInv, DurationOf, IsConfig
  <2>. QED BY <1>1, <2>3, <2>4
<1>3. CASE Finish
  BY <1>1, <1>3, Finishing, FinishNumbers DEF WritingInv, FlagsKept, Taken
<1>4. CASE WritePacket
  BY <1>4, WritingPacket DEF WritingInv
<1>5. CASE WriteLastPacket \/ Fail \/ StartRecorder
  BY <1>5, WritingLast, Failing, Starting DEF WritingInv, OrderInv
<1>6. CASE ~(TakePacket \/ Finish \/ WritePacket \/ WriteLastPacket \/ Fail \/ StartRecorder)
  <2>1. /\ \/ recorderPc' = recorderPc
           \/ recorderPc \in {"check", "wait"} /\ recorderPc' \in {"check", "wait"}
        /\ writing' = writing /\ previous' = previous /\ (stopped => stopped')
    BY <1>6, Steps, Stuttering, Opening, Receiving, GivingUp, Preparing, Decoding, PushingPacket,
       Stopping, Joining, Closing, Waiting, Zenon DEF RecordingKept, FlagsKept
  <2>2. stopped => pushed' = pushed
    <3>1. stopped => ~Push
      BY PushingPacket DEF OrderInv
    <3>. QED BY <1>6, <3>1, PlacesKept
  <2>3. Taken' = Taken
    BY <2>1 DEF Taken
  <2>4. CASE recorderPc' = "write"
    <3>1. recorderPc = "write" /\ Taken >= 2 /\ Taken - 1 \in 1..Len(packets) /\ Taken \in 1..Len(packets)
      BY <1>1, <2>1, <2>4 DEF WritingInv
    <3>2. Taken - 1 + 1 = Taken /\ packets'[Taken - 1] = packets[Taken - 1]
          /\ packets'[Taken] = packets[Taken]
      BY <1>1, <3>1
    <3>. QED BY <2>1, <2>3, <3>1, <3>2 DEF WritingInv, DurationOf, IsConfig
  <2>5. CASE recorderPc' # "write"
    BY <2>1, <2>2, <2>3, <2>5 DEF WritingInv
  <2>. QED BY <2>4, <2>5
<1>. QED BY <1>2, <1>3, <1>4, <1>5, <1>6

\* The packets not yet taken, in numbers.
LEMMA QueuedIs ==
  ASSUME TypeInv, OrderInv
  PROVE  /\ Len(Queued) = Len(pushed) - Taken
         /\ DOMAIN Queued = 1..(Len(pushed) - Taken)
         /\ Queued = <<>> <=> Taken = Len(pushed)
         /\ \A i \in 1..(Len(pushed) - Taken) : Queued[i] = i + Taken
<1>. DEFINE n == Len(pushed)  s == SubSeq(pushed, Taken + 1, n)
<1>1. pushed \in Seq(Items) /\ n \in Nat /\ Taken \in 0..n /\ \A i \in 1..n : pushed[i] = i
  BY Numbers DEF TypeInv, OrderInv
<1>2. Queued = s
  <2>1. (IF previous = Null THEN 1 ELSE previous + 1) = Taken + 1
    BY DEF Taken
  <2>. QED BY <2>1, Zenon DEF Queued
<1>3. /\ s \in Seq(Items) /\ Len(s) = n - Taken /\ DOMAIN s = 1..(n - Taken)
      /\ \A i \in 1..(n - Taken) : s[i] = i + Taken
  BY <1>1
<1>. HIDE DEF s
<1>4. s = <<>> <=> Taken = n
  BY <1>1, <1>3, EmptySeq
<1>. QED BY <1>2, <1>3, <1>4

\* The packets that Fail deletes are those not yet taken.
LEMMA QueuedNumbers ==
  ASSUME TypeInv, OrderInv
  PROVE  Range(Queued) = (Taken + 1)..Len(pushed)
<1>. DEFINE m == Taken + 1  n == Len(pushed)
<1>1. n \in Nat /\ Taken \in 0..n
  BY Numbers
<1>2. DOMAIN Queued = 1..(n - Taken) /\ \A i \in 1..(n - Taken) : Queued[i] = i + Taken
  BY QueuedIs
<1>3. \A x \in m..n : x - Taken \in 1..(n - Taken) /\ Queued[x - Taken] = x
  BY <1>1, <1>2
<1>4. \A i \in 1..(n - Taken) : Queued[i] \in m..n
  BY <1>1, <1>2
<1>. HIDE DEF m, n
<1>5. Range(Queued) = m..n
  BY <1>2, <1>3, <1>4 DEF Range
<1>. QED BY <1>5 DEF m, n

LEMMA LiveStep ==
  ASSUME TypeInv, OrderInv, QueueInv, WritingInv, LiveInv, [Next]_vars
  PROVE  LiveInv'
<1>1. /\ Len(pushed) \in Nat /\ Taken \in 0..Len(pushed)
      /\ previous = Null <=> Taken = 0
      /\ previous # Null => Taken = previous
  BY Numbers
<1>2. CASE Push
  <2>1. /\ Packet = Len(pushed) + 1 /\ Len(pushed') = Len(pushed) + 1 /\ Taken' = Taken
    BY <1>2, PushNumbers
  <2>2. live' = live \cup {Packet} /\ recorderPc' = recorderPc
    BY <1>2, PushingPacket
  <2>3. recorderPc # "unborn" /\ recorderPc # "ended"
    BY <1>2, PushingPacket DEF OrderInv
  <2>. QED BY <1>1, <2>1, <2>2, <2>3 DEF LiveInv
<1>3. CASE TakePacket
  <2>1. Taken' = Taken + 1 /\ recorderPc' = IF Taken = 0 THEN "check" ELSE "write"
    BY <1>1, <1>3, TakeNumbers
  <2>2. recorderPc = "check" /\ live' = live /\ pushed' = pushed
    BY <1>3, TakingPacket
  <2>. QED BY <1>1, <2>1, <2>2 DEF LiveInv
<1>4. CASE WritePacket
  <2>1. /\ recorderPc = "write" /\ recorderPc' \in {"check", "fail"}
        /\ live' = live \ {Taken - 1} /\ pushed' = pushed /\ Taken' = Taken
    BY <1>4, WritingPacket DEF WritingInv, Taken
  <2>. QED BY <1>1, <2>1 DEF LiveInv
<1>5. CASE Finish
  <2>1. Taken = Len(pushed) /\ recorderPc = "check" /\ live' = live /\ pushed' = pushed
        /\ recorderPc' = (IF Taken = 0 THEN "ended" ELSE "writeLast") /\ Taken' = Taken
    BY <1>1, <1>5, Finishing, FinishNumbers DEF Taken
  <2>. QED BY <1>1, <2>1 DEF LiveInv
<1>6. CASE WriteLastPacket
  <2>1. /\ recorderPc = "writeLast" /\ recorderPc' = "ended" /\ live' = live \ {Taken}
        /\ Taken = Len(pushed)
    BY <1>6, WritingLast DEF WritingInv
  <2>. QED BY <1>1, <2>1 DEF LiveInv
<1>7. CASE Fail
  <2>1. /\ recorderPc = "fail" /\ recorderPc' = "ended" /\ failed' /\ previous' = previous
        /\ live' = live \ ((Taken + 1)..Len(pushed))
        /\ previous = Taken /\ Taken >= 1
    BY <1>1, <1>7, Failing, QueuedNumbers DEF WritingInv
  <2>2. live' = {Taken}
    BY <1>1, <2>1 DEF LiveInv
  <2>. QED BY <2>1, <2>2 DEF LiveInv
<1>8. CASE StartRecorder
  <2>1. /\ recorderPc = "unborn" /\ recorderPc' \in {"unborn", "check"} /\ live' = live
        /\ pushed' = pushed
    BY <1>8, Starting DEF OrderInv, RecordingKept
  <2>2. Len(pushed) = 0 /\ live = {}
    BY <2>1 DEF OrderInv, LiveInv
  <2>. QED BY <2>1, <2>2 DEF LiveInv
<1>9. CASE ~(Push \/ TakePacket \/ WritePacket \/ Finish \/ WriteLastPacket \/ Fail \/ StartRecorder)
  <2>1. /\ \/ recorderPc' = recorderPc
           \/ recorderPc \in {"check", "wait"} /\ recorderPc' \in {"check", "wait"}
        /\ live' = live /\ previous' = previous /\ pushed' = pushed /\ (failed => failed')
    BY <1>9, Steps, Stuttering, Opening, Receiving, GivingUp, Preparing, Decoding, Stopping,
       Joining, Closing, Waiting, Zenon DEF RecordingKept, FlagsKept
  <2>2. Taken' = Taken
    BY <2>1 DEF Taken
  <2>. QED BY <2>1, <2>2 DEF LiveInv
<1>. QED BY <1>2, <1>3, <1>4, <1>5, <1>6, <1>7, <1>8, <1>9

\* The frames of the file are a sequence of packets.
LEMMA FramesOfFile ==
  ASSUME TypeInv
  PROVE  /\ FileFrames \in Seq(Items)
         /\ Len(file) \in Nat
         /\ file # <<>> => Len(FileFrames) = Len(file) - 1
         /\ \A i \in 2..Len(file) : FileFrames[i - 1] = file[i].frame /\ file[i].frame \in Items
<1>1. /\ Len(file) \in Nat /\ \A i \in 2..Len(file) : file[i] \in FrameRecords
      /\ file # <<>> => Len(file) >= 1
  BY LenProperties, EmptySeq DEF TypeInv
<1>2. \A i \in 2..Len(file) : file[i].frame \in Items
  BY <1>1 DEF FrameRecords
<1>3. FileFrames \in Seq(Items) /\ (file # <<>> => Len(FileFrames) = Len(file) - 1)
  BY <1>1, <1>2 DEF FileFrames
<1>4. \A i \in 2..Len(file) : FileFrames[i - 1] = file[i].frame
  BY <1>1 DEF FileFrames
<1>. QED BY <1>1, <1>2, <1>3, <1>4

\* The packets 2 to m + 1, when packet m + 1 is a frame, and when it is none.
LEMMA FramesGrow ==
  ASSUME NEW kinds, NEW m \in Nat, m >= 1
  PROVE  /\ kinds[m + 1] # "config" => FramesIn(kinds, m + 1) = FramesIn(kinds, m) \cup {m + 1}
         /\ kinds[m + 1] = "config" => FramesIn(kinds, m + 1) = FramesIn(kinds, m)
BY DEF FramesIn

\* A packet was written: the file holds one packet more.
LEMMA WriteResult ==
  ASSUME TypeInv, OrderInv, WritingInv, FileInv, recorderPc \in {"write", "writeLast"},
         Ignored \/ HeaderAdded \/ FrameAdded
  PROVE  /\ Written + 1 \in 1..Len(pushed) /\ writing.packet = Written + 1
         /\ header_written' /\ file' # <<>> /\ file'[1] = HeaderOf(1) /\ IsConfig(1)
         /\ InOrder(FileFrames', FramesIn(packets, Written + 1))
<1>1. /\ Len(pushed) \in Nat /\ Len(pushed) <= MaxPackets
      /\ Items = 1..MaxPackets /\ MaxPackets \in Nat
      /\ Taken \in 0..Len(pushed) /\ (previous = Null <=> Taken = 0)
  BY Numbers
<1>2. Written \in Nat /\ Written + 1 \in 1..Len(pushed) /\ writing.packet = Written + 1
  BY <1>1 DEF WritingInv, Written
<1>3. FileFrames \in Seq(Items) /\ file \in Seq(HeaderRecords \cup FrameRecords)
  BY FramesOfFile DEF TypeInv
<1>4. CASE HeaderAdded
  <2>1. Written + 1 = 1
    BY <1>2, <1>4 DEF FileInv, FileHoldsWritten, Holds, HeaderAdded
  <2>2. header_written' /\ IsConfig(1) /\ file' = <<HeaderOf(1)>>
    BY <1>2, <1>4, <2>1 DEF HeaderAdded
  <2>3. file' # <<>> /\ file'[1] = HeaderOf(1)
    BY <2>2
  <2>4. FileFrames' = <<>>
    BY <2>2 DEF FileFrames
  <2>5. FramesIn(packets, 1) = {}
    BY DEF FramesIn
  <2>. QED BY <1>2, <2>1, <2>2, <2>3, <2>4, <2>5, InOrderEmpty
<1>5. ASSUME header_written
      PROVE  /\ Written >= 1 /\ InOrder(FileFrames, FramesIn(packets, Written))
             /\ file # <<>> /\ file[1] = HeaderOf(1) /\ IsConfig(1)
             /\ Len(file) \in Nat /\ Len(file) >= 1
  <2>1. Written >= 1 /\ Holds(Written)
    BY <1>2, <1>5 DEF FileInv, FileHoldsWritten
  <2>2. file # <<>> /\ file[1] = HeaderOf(1) /\ IsConfig(1)
    BY <1>5, Zenon DEF FileInv, FileBegins
  <2>3. Len(file) \in Nat /\ Len(file) >= 1
    BY <1>3, <2>2, LenProperties, EmptySeq
  <2>. QED BY <2>1, <2>2, <2>3 DEF Holds
<1>6. CASE Ignored
  <2>1. /\ header_written /\ header_written' /\ IsConfig(Written + 1) /\ file' = file
    BY <1>2, <1>6 DEF Ignored
  <2>2. FileFrames' = FileFrames
    BY <2>1 DEF FileFrames
  <2>3. Written >= 1
    BY <1>5, <2>1
  <2>4. FramesIn(packets, Written + 1) = FramesIn(packets, Written)
    BY <1>2, <2>1, <2>3, FramesGrow DEF IsConfig
  <2>. QED BY <1>2, <1>5, <2>1, <2>2, <2>4
<1>7. CASE FrameAdded
  <2>. DEFINE x == Written + 1  d == writing.duration
  <2>1. header_written /\ header_written' /\ ~IsConfig(x) /\ file' = Append(file, FrameOf(x, d))
    BY <1>2, <1>7 DEF FrameAdded
  <2>2. Written >= 1 /\ Len(file) \in Nat /\ Len(file) >= 1 /\ file[1] = HeaderOf(1) /\ IsConfig(1)
        /\ InOrder(FileFrames, FramesIn(packets, Written))
    BY <1>5, <2>1
  <2>3. FramesIn(packets, x) = FramesIn(packets, Written) \cup {x}
    BY <1>2, <2>1, <2>2, FramesGrow DEF IsConfig
  <2>4. x \in Items /\ \A y \in FramesIn(packets, Written) : y < x
    <3>1. x \in Items /\ \A y \in 2..Written : y < x
      BY <1>1, <1>2
    <3>. QED BY <3>1, Zenon DEF FramesIn
  <2>. HIDE DEF x, d
  <2>5. /\ Len(file') = Len(file) + 1 /\ file'[Len(file) + 1] = FrameOf(x, d)
        /\ \A i \in 1..Len(file) : file'[i] = file[i]
    BY <1>3, <2>1, AppendProperties
  <2>6. FileFrames' = Append(FileFrames, x)
    <3>1. FileFrames' = [i \in 1..Len(file) |-> file'[i + 1].frame]
      BY <2>2, <2>5 DEF FileFrames
    <3>2. FileFrames = [i \in 1..(Len(file) - 1) |-> file[i + 1].frame]
      BY DEF FileFrames
    <3>3. FrameOf(x, d).frame = x
      BY DEF FrameOf
    <3>4. Len(FileFrames) = Len(file) - 1
      BY <2>2, <3>2
    <3>. DEFINE s == FileFrames'  t == Append(FileFrames, x)
    <3>5. /\ t \in Seq(Items) /\ Len(t) = Len(file) /\ t[Len(file)] = x
          /\ \A i \in 1..(Len(file) - 1) : t[i] = FileFrames[i]
      BY <1>3, <2>2, <2>4, <3>4, AppendProperties
    <3>6. \A i \in 1..Len(file) : s[i] = t[i]
      <4>. TAKE i \in 1..Len(file)
      <4>1. CASE i = Len(file)
        BY <2>2, <2>5, <3>1, <3>3, <3>5, <4>1
      <4>2. CASE i \in 1..(Len(file) - 1)
        <5>1. s[i] = file'[i + 1].frame /\ t[i] = file[i + 1].frame
          BY <2>2, <3>1, <3>2, <3>5, <4>2
        <5>2. file'[i + 1] = file[i + 1]
          BY <2>2, <2>5, <4>2
        <5>. QED BY <5>1, <5>2
      <4>3. i = Len(file) \/ i \in 1..(Len(file) - 1)
        BY <2>2
      <4>. QED BY <4>1, <4>2, <4>3, Zenon
    <3>7. DOMAIN s = 1..Len(file) /\ DOMAIN t = 1..Len(file)
      BY <2>2, <3>1, <3>5, LenProperties
    <3>8. \A i \in 1..Len(file) : s[i] \in Items
      BY <2>2, <3>5, <3>6, ElementOfSeq
    <3>9. s \in Seq(Items) /\ Len(s) = Len(file)
      BY <2>2, <3>1, <3>8
    <3>. HIDE DEF s, t
    <3>10. s = t
      BY <3>5, <3>6, <3>9, SeqEqual
    <3>. QED BY <3>10 DEF s, t
  <2>7. InOrder(FileFrames', FramesIn(packets, x))
    BY <1>3, <2>2, <2>3, <2>4, <2>6, InOrderAppend
  <2>8. file' # <<>> /\ file'[1] = HeaderOf(1)
    BY <2>2, <2>5
  <2>. QED BY <1>2, <2>1, <2>2, <2>7, <2>8 DEF x
<1>. QED BY <1>4, <1>6, <1>7

\* Packets that are received later are not among the first m.
LEMMA FramesStay ==
  ASSUME TypeInv, OrderInv, [Next]_vars, NEW m \in Int, m <= Len(pushed)
  PROVE  FramesIn(packets', m) = FramesIn(packets, m)
<1>1. \A n \in 2..m : n \in 1..Len(packets)
  BY Numbers
<1>2. \A n \in 1..Len(packets) : packets'[n] = packets[n]
  BY KindsKept
<1>. QED BY <1>1, <1>2 DEF FramesIn

\* All but the recorder thread's writes leave the file alone.
LEMMA FileKept ==
  ASSUME [Next]_vars, ~WritePacket, ~WriteLastPacket
  PROVE  file' = file /\ FileFrames' = FileFrames /\ (header_written' <=> header_written)
<1>1. file' = file /\ (header_written' <=> header_written)
  BY Steps, Stuttering, Opening, Starting, Receiving, GivingUp, Preparing, Decoding, PushingPacket,
     Stopping, Joining, Closing, Waiting, TakingPacket, Finishing, Failing, Zenon
     DEF RecordingKept, FlagsKept
<1>. QED BY <1>1 DEF FileFrames

\* A file that holds the first m packets holds them after any other step.
LEMMA HoldsStays ==
  ASSUME TypeInv, OrderInv, [Next]_vars, ~WritePacket, ~WriteLastPacket,
         NEW m \in Int, m <= Len(pushed)
  PROVE  Holds(m) <=> header_written' /\ InOrder(FileFrames', FramesIn(packets', m))
<1>1. FramesIn(packets', m) = FramesIn(packets, m)
  BY FramesStay
<1>. QED BY <1>1, FileKept, Zenon DEF Holds

\* What a write changes: the file holds one packet more, or is as it was.
LEMMA WriteStep ==
  ASSUME WritePacket \/ WriteLastPacket, TypeInv, OrderInv, WritingInv, FileInv
  PROVE  /\ recorderPc \in {"write", "writeLast"}
         /\ packets' = packets /\ pushed' = pushed /\ previous' = previous /\ Taken' = Taken
         /\ Written + 1 \in 1..Len(pushed)
         /\ \/ /\ header_written' /\ file' # <<>> /\ file'[1] = HeaderOf(1) /\ IsConfig(1)
               /\ InOrder(FileFrames', FramesIn(packets, Written + 1))
            \/ /\ file' = file /\ FileFrames' = FileFrames /\ (header_written' <=> header_written)
               /\ recorderPc' \in {"fail", "ended"}
<1>1. /\ recorderPc \in {"write", "writeLast"}
      /\ packets' = packets /\ pushed' = pushed /\ previous' = previous
      /\ \/ Ignored \/ HeaderAdded \/ FrameAdded
         \/ Failed /\ recorderPc' \in {"fail", "ended"}
  BY WritingPacket, WritingLast, Zenon DEF StreamKept
<1>2. Taken' = Taken
  BY <1>1 DEF Taken
<1>3. Written + 1 \in 1..Len(pushed)
  <2>1. Taken \in 0..Len(pushed) /\ Len(pushed) \in Nat /\ (previous = Null <=> Taken = 0)
    BY Numbers
  <2>. QED BY <1>1, <2>1 DEF WritingInv, Written
<1>4. CASE Ignored \/ HeaderAdded \/ FrameAdded
  BY <1>1, <1>2, <1>3, <1>4, WriteResult, Zenon
<1>5. CASE Failed /\ recorderPc' \in {"fail", "ended"}
  <2>1. file' = file /\ FileFrames' = FileFrames /\ (header_written' <=> header_written)
    BY <1>5 DEF Failed, FileFrames
  <2>. QED BY <1>1, <1>2, <1>3, <1>5, <2>1, Zenon
<1>. QED BY <1>1, <1>4, <1>5, Zenon

LEMMA FileBeginsStep ==
  ASSUME TypeInv, OrderInv, QueueInv, WritingInv, FileInv, [Next]_vars
  PROVE  FileBegins'
<1>1. Len(pushed) \in Nat /\ Len(pushed') \in Nat /\ Len(pushed) <= Len(pushed')
  <2>1. Len(pushed) \in Nat
    BY Numbers
  <2>. QED BY <2>1, PushNumbers, PlacesKept, TakingPacket
<1>2. Len(pushed) >= 1 /\ IsConfig(1) => IsConfig(1)'
  BY <1>1, DurationsKept, Numbers
<1>. DEFINE Kept == file' = file /\ FileFrames' = FileFrames /\ (header_written' <=> header_written)
            Longer == /\ header_written' /\ file' # <<>> /\ file'[1] = HeaderOf(1) /\ IsConfig(1)
                      /\ Written + 1 \in 1..Len(pushed)
                      /\ InOrder(FileFrames', FramesIn(packets, Written + 1))
<1>3. Kept \/ Longer
  BY FileKept, WriteStep, Zenon
<1>4. CASE Kept
  <2>1. (header_written <=> file # <<>>)' <=> (header_written <=> file # <<>>)
    BY <1>4, Zenon
  <2>2. ASSUME header_written
        PROVE  /\ file'[1] = HeaderOf(1) /\ Len(pushed') >= 1 /\ IsConfig(1)'
               /\ \E m \in 1..Len(pushed') : Holds(m)'
    <3>1. file[1] = HeaderOf(1) /\ Len(pushed) >= 1 /\ IsConfig(1)
      BY <2>2, Zenon DEF FileInv, FileBegins
    <3>2. PICK m \in 1..Len(pushed) : Holds(m)
      BY <2>2, Zenon DEF FileInv, FileBegins
    <3>3. m \in 1..Len(pushed') /\ m \in Int /\ m <= Len(pushed)
      BY <1>1, <3>2
    <3>4. FramesIn(packets', m) = FramesIn(packets, m)
      BY <3>3, FramesStay
    <3>5. Holds(m)'
      BY <1>4, <2>2, <3>2, <3>4, Zenon DEF Holds
    <3>. QED BY <1>1, <1>2, <1>4, <3>1, <3>3, <3>5
  <2>. QED BY <1>4, <2>1, <2>2, Zenon DEF FileInv, FileBegins
<1>5. CASE Longer
  <2>1. Written + 1 \in Int /\ Written + 1 <= Len(pushed) /\ Len(pushed) >= 1
        /\ Written + 1 \in 1..Len(pushed')
    BY <1>1, <1>5
  <2>. DEFINE m == Written + 1
  <2>2. FramesIn(packets', m) = FramesIn(packets, m)
    BY <2>1, FramesStay
  <2>. HIDE DEF m
  <2>3. PICK k \in 1..Len(pushed') : k = m /\ InOrder(FileFrames', FramesIn(packets', k))
    BY <1>5, <2>1, <2>2, Zenon DEF m
  <2>4. \E k1 \in 1..Len(pushed') : Holds(k1)'
    BY <1>5, <2>3, Zenon DEF Holds
  <2>5. Len(pushed') >= 1 /\ IsConfig(1)'
    BY <1>1, <1>2, <1>5, <2>1
  <2>. QED BY <1>5, <2>4, <2>5, Zenon DEF FileBegins
<1>. QED BY <1>3, <1>4, <1>5, Zenon

\* How the number of packets written goes on when nothing is written.
LEMMA WrittenKept ==
  ASSUME TypeInv, OrderInv, QueueInv, FileInv, [Next]_vars, ~WritePacket, ~WriteLastPacket,
         recorderPc' \in {"check", "wait", "write", "writeLast"}
  PROVE  \/ Written' = Written /\ recorderPc \in {"check", "wait", "write", "writeLast"}
         \/ Written' < 1 /\ ~header_written
<1>1. /\ Len(pushed) \in Nat /\ Taken \in 0..Len(pushed)
      /\ previous = Null <=> Taken = 0
  BY Numbers
<1>2. CASE TakePacket
  <2>1. recorderPc = "check" /\ Taken' = Taken + 1
        /\ recorderPc' = IF Taken = 0 THEN "check" ELSE "write"
    BY <1>1, <1>2, TakingPacket, TakeNumbers
  <2>2. CASE Taken = 0
    BY <2>1, <2>2 DEF Written, FileInv, FileHoldsWritten
  <2>3. CASE Taken # 0
    BY <1>1, <2>1, <2>3 DEF Written
  <2>. QED BY <2>2, <2>3
<1>3. CASE Finish
  BY <1>3, Finishing DEF Written, Taken
<1>4. CASE StartRecorder
  <2>1. recorderPc = "unborn" /\ recorderPc' # "write" /\ previous' = previous
    BY <1>4, Starting DEF OrderInv, RecordingKept
  <2>2. Len(pushed) = 0 /\ Taken' = Taken
    BY <2>1 DEF OrderInv, Taken
  <2>3. ~header_written
    BY <1>1, <2>2 DEF FileInv, FileBegins
  <2>. QED BY <1>1, <2>1, <2>2, <2>3 DEF Written
<1>5. CASE Fail
  BY <1>5, Failing
<1>6. CASE ~(TakePacket \/ Finish \/ StartRecorder \/ Fail)
  <2>1. /\ \/ recorderPc' = recorderPc
           \/ recorderPc \in {"check", "wait"} /\ recorderPc' \in {"check", "wait"}
        /\ previous' = previous
    BY <1>6, Steps, Stuttering, Opening, Receiving, GivingUp, Preparing, Decoding, PushingPacket,
       Stopping, Joining, Closing, Waiting, Zenon DEF RecordingKept
  <2>2. Taken' = Taken
    BY <2>1 DEF Taken
  <2>. QED BY <2>1, <2>2 DEF Written
<1>. QED BY <1>2, <1>3, <1>4, <1>5, <1>6

LEMMA FileHoldsStep ==
  ASSUME TypeInv, OrderInv, QueueInv, WritingInv, FileInv, [Next]_vars
  PROVE  FileHoldsWritten'
<1>. SUFFICES ASSUME recorderPc' \in {"check", "wait", "write", "writeLast"}
              PROVE  IF Written' >= 1 THEN Holds(Written)' ELSE ~header_written'
  BY Zenon DEF FileHoldsWritten
<1>1. /\ Len(pushed) \in Nat /\ Taken \in 0..Len(pushed) /\ Written \in Int
      /\ Written <= Len(pushed)
  BY Numbers DEF Written
<1>2. CASE WritePacket \/ WriteLastPacket
  <2>1. /\ header_written' /\ Written + 1 \in 1..Len(pushed)
        /\ InOrder(FileFrames', FramesIn(packets, Written + 1))
        /\ packets' = packets /\ Taken' = Taken
    BY <1>2, WriteStep
  <2>2. recorderPc = "write" /\ recorderPc' = "check"
    BY <1>2, WritingPacket, WritingLast
  <2>3. Written' = Written + 1
    BY <1>1, <2>1, <2>2 DEF Written
  <2>4. Holds(Written)'
    BY <2>1, <2>3, Zenon DEF Holds
  <2>. QED BY <1>1, <2>1, <2>3, <2>4
<1>3. CASE ~(WritePacket \/ WriteLastPacket)
  <2>1. \/ Written' = Written /\ recorderPc \in {"check", "wait", "write", "writeLast"}
        \/ Written' < 1 /\ ~header_written
    BY <1>3, WrittenKept
  <2>2. header_written' <=> header_written
    BY <1>3, FileKept
  <2>3. CASE Written' = Written /\ recorderPc \in {"check", "wait", "write", "writeLast"}
    <3>1. CASE Written >= 1
      <4>1. Holds(Written)
        BY <2>3, <3>1 DEF FileInv, FileHoldsWritten
      <4>2. header_written' /\ InOrder(FileFrames', FramesIn(packets', Written))
        BY <1>1, <1>3, <4>1, HoldsStays
      <4>3. Holds(Written)'
        BY <2>3, <4>2, Zenon DEF Holds
      <4>. QED BY <2>3, <3>1, <4>3
    <3>2. CASE ~(Written >= 1)
      BY <2>2, <2>3, <3>2 DEF FileInv, FileHoldsWritten
    <3>. QED BY <3>1, <3>2
  <2>4. CASE Written' < 1 /\ ~header_written
    <3>1. Written' \in Int
      <4>1. Taken' \in Int
        <5>1. CASE TakePacket
          BY <1>1, <5>1, TakeNumbers
        <5>2. CASE Push
          BY <1>1, <5>2, PushNumbers
        <5>3. CASE ~TakePacket /\ ~Push
          BY <1>1, <5>3, PlacesKept
        <5>. QED BY <5>1, <5>2, <5>3
      <4>. QED BY <4>1 DEF Written
    <3>. QED BY <2>2, <2>4, <3>1
  <2>. QED BY <2>1, <2>3, <2>4
<1>. QED BY <1>2, <1>3

LEMMA FileWholeStep ==
  ASSUME TypeInv, OrderInv, QueueInv, WritingInv, FileInv, [Next]_vars
  PROVE  FileIsWhole'
<1>. SUFFICES ASSUME recorderPc' = "ended", ~failed', Len(pushed') >= 1
              PROVE  \/ /\ header_written'
                        /\ FramesIn(packets', Len(pushed') - 1) \subseteq Range(FileFrames')
                     \/ ~header_written' /\ Len(pushed') = 1
  BY Zenon DEF FileIsWhole
<1>1. /\ Len(pushed) \in Nat /\ Taken \in 0..Len(pushed)
      /\ previous = Null <=> Taken = 0
  BY Numbers
<1>2. CASE WritePacket \/ WriteLastPacket
  <2>1. recorderPc = "writeLast"
    BY <1>2, WritingPacket, WritingLast
  <2>2. Taken = Len(pushed) /\ Written = Len(pushed) - 1
    BY <2>1 DEF WritingInv, Written
  <2>3. /\ packets' = packets /\ pushed' = pushed
        /\ Written + 1 \in 1..Len(pushed)
        /\ \/ header_written' /\ InOrder(FileFrames', FramesIn(packets, Written + 1))
           \/ FileFrames' = FileFrames /\ (header_written' <=> header_written)
    BY <1>2, WriteStep, Zenon
  <2>4. CASE header_written' /\ InOrder(FileFrames', FramesIn(packets, Written + 1))
    <3>1. FramesIn(packets, Len(pushed) - 1) \subseteq FramesIn(packets, Written + 1)
      BY <1>1, <2>2 DEF FramesIn
    <3>. QED BY <2>3, <2>4, <3>1, Zenon DEF InOrder
  <2>5. CASE FileFrames' = FileFrames /\ (header_written' <=> header_written)
    <3>1. CASE Written >= 1
      <4>1. header_written /\ FramesIn(packets, Written) = Range(FileFrames)
        BY <2>1, <3>1 DEF FileInv, FileHoldsWritten, Holds, InOrder
      <4>. QED BY <2>2, <2>3, <2>5, <4>1
    <3>2. CASE ~(Written >= 1)
      <4>1. ~header_written
        BY <2>1, <3>2 DEF FileInv, FileHoldsWritten
      <4>. QED BY <1>1, <2>2, <2>3, <2>5, <3>2, <4>1
    <3>. QED BY <3>1, <3>2
  <2>. QED BY <2>3, <2>4, <2>5
<1>3. CASE ~(WritePacket \/ WriteLastPacket)
  <2>1. ~Fail
    BY Failing
  <2>2. ~TakePacket
    BY TakeNumbers, TakingPacket
  <2>3. ~Push
    BY PushingPacket DEF OrderInv
  <2>4. pushed' = pushed
    BY <2>2, <2>3, PlacesKept
  <2>5. ~Finish
    BY <1>1, <2>4, Finishing, FinishNumbers
  <2>6. recorderPc = "ended" /\ ~failed
    BY <1>3, <2>1, <2>2, <2>3, <2>5, Steps, Stuttering, Opening, Starting, Receiving, GivingUp,
       Preparing, Decoding, Stopping, Joining, Closing, Waiting DEF FlagsKept
  <2>7. FramesIn(packets', Len(pushed) - 1) = FramesIn(packets, Len(pushed) - 1)
    BY <1>1, FramesStay
  <2>. QED BY <1>3, <2>4, <2>6, <2>7, FileKept, Zenon DEF FileInv, FileIsWhole
<1>. QED BY <1>2, <1>3

LEMMA FileStep ==
  ASSUME TypeInv, OrderInv, QueueInv, WritingInv, FileInv, [Next]_vars
  PROVE  FileInv'
BY FileBeginsStep, FileHoldsStep, FileWholeStep, Zenon DEF FileInv

\* The frames of the file have been pushed.
LEMMA FramesWerePushed ==
  ASSUME TypeInv, OrderInv, FileInv, NEW i \in 2..Len(file)
  PROVE  file[i].frame \in 1..Len(pushed)
<1>1. Len(file) \in Nat /\ FileFrames[i - 1] = file[i].frame /\ FileFrames \in Seq(Items)
      /\ (file # <<>> => Len(FileFrames) = Len(file) - 1)
  BY FramesOfFile
<1>2. file # <<>> /\ i - 1 \in DOMAIN FileFrames
  <2>1. file # <<>>
    BY <1>1, EmptySeq
  <2>. QED BY <1>1, <2>1, LenProperties
<1>3. PICK m \in 1..Len(pushed) : Range(FileFrames) = FramesIn(packets, m)
  BY <1>2, Zenon DEF FileInv, FileBegins, Holds, InOrder
<1>4. file[i].frame \in 2..m
  BY <1>1, <1>2, <1>3 DEF FramesIn, Range
<1>. QED BY <1>4, Numbers

LEMMA DurationStep ==
  ASSUME TypeInv, OrderInv, QueueInv, WritingInv, FileInv, DurationInv, [Next]_vars
  PROVE  DurationInv'
<1>1. /\ Len(pushed) \in Nat /\ Len(packets) \in Nat /\ Len(pushed) <= Len(packets)
      /\ Len(pushed) <= MaxPackets /\ MaxPackets \in Nat /\ Items = 1..MaxPackets
      /\ Taken \in 0..Len(pushed)
      /\ Len(file) \in Nat
  BY Numbers, FramesOfFile
<1>2. \A n \in 1..(Len(pushed) - 1) : DurationOf(n)' = DurationOf(n)
  BY <1>1, DurationsKept
<1>. DEFINE Timed(n, d) == IF n = Len(pushed) THEN stopped /\ d = LastDuration
                           ELSE d = DurationOf(n)
            After(n, d) == IF n = Len(pushed') THEN stopped' /\ d = LastDuration
                           ELSE d = IF packets'[n + 1] = "config" THEN NoDuration
                                    ELSE Pts(n + 1) - Pts(n)
<1>3. \A i \in 2..Len(file) : /\ file[i].frame \in 1..Len(pushed)
                              /\ Timed(file[i].frame, file[i].duration)
  BY FramesWerePushed, Zenon DEF DurationInv
<1>4. ASSUME NEW n \in 1..Len(pushed), NEW d, Timed(n, d) PROVE After(n, d)
  <2>1. stopped => stopped'
    BY Steps, Stuttering, Opening, Starting, Receiving, GivingUp, Preparing, Decoding,
       PushingPacket, Stopping, Joining, Closing, Waiting, TakingPacket, Finishing, WritingPacket,
       WritingLast, Failing, Zenon DEF FlagsKept
  <2>2. CASE n = Len(pushed)
    <3>1. stopped /\ d = LastDuration
      BY <1>4, <2>2
    <3>2. pushed' = pushed
      BY <3>1, PushingPacket, PlacesKept, TakingPacket DEF OrderInv
    <3>. QED BY <2>1, <2>2, <3>1, <3>2
  <2>3. CASE n # Len(pushed)
    <3>1. d = DurationOf(n) /\ n \in 1..(Len(pushed) - 1) /\ DurationOf(n)' = DurationOf(n)
      BY <1>1, <1>2, <1>4, <2>3
    <3>2. Len(pushed') # n
      BY <1>1, <3>1, PushNumbers, PlacesKept, TakingPacket
    <3>3. DurationOf(n)' = IF packets'[n + 1] = "config" THEN NoDuration ELSE Pts(n + 1) - Pts(n)
      BY Zenon DEF DurationOf, IsConfig
    <3>. QED BY <3>1, <3>2, <3>3
  <2>. QED BY <2>2, <2>3
<1>. HIDE DEF Timed, After
<1>. SUFFICES \A i \in 2..Len(file') : After(file'[i].frame, file'[i].duration)
  BY Zenon DEF DurationInv, DurationOf, IsConfig, After
<1>5. CASE file' = file
  BY <1>3, <1>4, <1>5
<1>6. CASE (WritePacket \/ WriteLastPacket) /\ HeaderAdded
  <2>1. file' = <<HeaderOf(writing.packet)>>
    BY <1>6 DEF HeaderAdded
  <2>2. Len(file') = 1
    BY <2>1
  <2>. QED BY <2>2
<1>7. CASE (WritePacket \/ WriteLastPacket) /\ FrameAdded
  <2>1. /\ writing.packet \in 1..Len(pushed) /\ writing.duration \in Int
        /\ Timed(writing.packet, writing.duration)
    <3>1. CASE recorderPc = "write"
      <4>1. Taken >= 2 /\ writing.packet = Taken - 1 /\ writing.duration = DurationOf(Taken - 1)
        BY <1>7, <3>1 DEF WritingInv, FrameAdded
      <4>2. Taken - 1 \in 1..(Len(pushed) - 1) /\ DurationOf(Taken - 1) \in Int
        BY <1>1, <4>1, DurationType
      <4>. QED BY <1>1, <4>1, <4>2 DEF Timed
    <3>2. CASE recorderPc = "writeLast"
      <4>1. /\ Taken = Len(pushed) /\ stopped /\ previous # Null
            /\ writing.packet = Taken /\ writing.duration = LastDuration
        BY <3>2 DEF WritingInv
      <4>2. Taken # 0
        BY <4>1, Numbers
      <4>. QED BY <1>1, <4>1, <4>2 DEF Timed, LastDuration
    <3>. QED BY <1>7, <3>1, <3>2, WriteStep
  <2>2. PICK n \in 1..Len(pushed), d \in Int : n = writing.packet /\ d = writing.duration
    BY <2>1, Zenon
  <2>3. After(n, d)
    BY <1>4, <2>1, <2>2
  <2>. DEFINE r == FrameOf(n, d)
  <2>4. r.frame = n /\ r.duration = d /\ r \in HeaderRecords \cup FrameRecords
    BY <1>1 DEF FrameOf, FrameRecords
  <2>5. file' = Append(file, r) /\ file \in Seq(HeaderRecords \cup FrameRecords)
    BY <1>7, <2>2 DEF FrameAdded, TypeInv
  <2>. HIDE DEF r
  <2>6. /\ Len(file') = Len(file) + 1 /\ file'[Len(file) + 1] = r
        /\ \A i \in 1..Len(file) : file'[i] = file[i]
    BY <2>4, <2>5, AppendProperties
  <2>. TAKE i \in 2..Len(file')
  <2>7. CASE i = Len(file) + 1
    BY <2>3, <2>4, <2>6, <2>7
  <2>8. CASE i \in 2..Len(file)
    <3>1. file'[i] = file[i]
      BY <1>1, <2>6, <2>8
    <3>. QED BY <1>3, <1>4, <2>8, <3>1
  <2>. QED BY <1>1, <2>6, <2>7, <2>8
<1>8. \/ file' = file
      \/ (WritePacket \/ WriteLastPacket) /\ (HeaderAdded \/ FrameAdded)
  BY FileKept, WritingPacket, WritingLast, Zenon DEF Ignored, Failed
<1>. QED BY <1>5, <1>6, <1>7, <1>8, Zenon
----------------------------------------------------------------------------
(* What the decoder gets. *)

\* The i-th decoded frame has the configurations since the one before.
CompleteAt(d, kinds, i) ==
  InOrder(d[i], ConfigsIn(kinds, IF i = 1 THEN 0 ELSE EndOf(d[i - 1]), EndOf(d[i]))
                  \cup {EndOf(d[i])})

LEMMA Completeness ==
  ASSUME TypeInv
  PROVE  DecodedWithConfig <=> \A i \in 1..Len(decoded) : CompleteAt(decoded, packets, i)
<1>1. DOMAIN decoded = 1..Len(decoded)
  BY LenProperties DEF TypeInv
<1>. QED BY <1>1, Zenon DEF DecodedWithConfig, CompleteAt, ConfigsIn, EndOf, IsConfig

LEMMA DecodedNumbers ==
  ASSUME TypeInv, OrderInv, PendingInv
  PROVE  /\ \A i \in 1..Len(decoded) : EndOf(decoded[i]) \in 1..Len(packets)
         /\ LastDecoded \in 0..Len(packets)
         /\ Len(decoded) \in Nat
<1>1. decoded \in Seq(Seq(Items)) /\ Len(decoded) \in Nat /\ Items = 1..MaxPackets
      /\ Len(packets) \in Nat
  BY Numbers, LenProperties DEF TypeInv
<1>2. ASSUME NEW i \in 1..Len(decoded) PROVE EndOf(decoded[i]) \in 1..Len(packets)
  <2>1. decoded[i] \in Seq(Items) /\ Len(decoded[i]) >= 1 /\ EndOf(decoded[i]) <= Len(packets)
    BY <1>1, ElementOfSeq DEF PendingInv
  <2>2. EndOf(decoded[i]) \in Items
    BY <2>1, LenProperties, ElementOfSeq DEF EndOf
  <2>. QED BY <1>1, <2>1, <2>2
<1>3. decoded # <<>> => Len(decoded) \in 1..Len(decoded)
  BY <1>1, EmptySeq
<1>4. LastDecoded \in 0..Len(packets)
  <2>1. CASE decoded = <<>>
    BY <1>1, <2>1 DEF LastDecoded
  <2>2. CASE decoded # <<>>
    BY <1>1, <1>2, <1>3, <2>2 DEF LastDecoded, EndOf
  <2>. QED BY <2>1, <2>2
<1>. QED BY <1>1, <1>2, <1>4

\* Only Decode changes what the decoder got.
LEMMA DecodedKept ==
  ASSUME [Next]_vars, ~Decode
  PROVE  decoded' = decoded /\ LastDecoded' = LastDecoded
<1>1. decoded' = decoded
  BY Steps, Stuttering, Opening, Starting, Receiving, GivingUp, Preparing, PushingPacket,
     Stopping, Joining, Closing, Waiting, TakingPacket, Finishing, WritingPacket, WritingLast,
     Failing, Zenon DEF StreamKept
<1>. QED BY <1>1 DEF LastDecoded

\* The frame is decoded with the configurations that wait.
LEMMA DecodeNumbers ==
  ASSUME Decode, TypeInv, OrderInv, PendingInv
  PROVE  /\ streamPc = "decode" /\ streamPc' = "record" /\ packets' = packets
         /\ Packet = Len(packets) /\ Packet \in Items
         /\ packets[Packet] # "config"
         /\ Len(decoded') = Len(decoded) + 1
         /\ \A i \in 1..Len(decoded) : decoded'[i] = decoded[i]
         /\ Len(decoded'[Len(decoded) + 1]) >= 1
         /\ EndOf(decoded'[Len(decoded) + 1]) = Packet
         /\ InOrder(decoded'[Len(decoded) + 1],
                    ConfigsIn(packets, LastDecoded, Packet) \cup {Packet})
         /\ LastDecoded' = Packet
<1>. DEFINE d == Append(pending, Packet)  k == Len(decoded)
<1>1. streamPc = "decode" /\ streamPc' = "record" /\ decoded' = Append(decoded, d)
      /\ packets' = packets
  BY Decoding
<1>2. /\ pending \in Seq(Items) /\ decoded \in Seq(Seq(Items)) /\ k \in Nat
      /\ Packet = Len(packets) /\ Packet \in Items /\ Packet \in Nat
  BY <1>1, Numbers, LenProperties DEF TypeInv, OrderInv, Packet
<1>3. packets[Packet] # "config" /\ InOrder(pending, ConfigsIn(packets, LastDecoded, Packet))
  BY <1>1, <1>2 DEF PendingInv, Waits, Prepared, Packet
<1>4. \A y \in ConfigsIn(packets, LastDecoded, Packet) : y < Packet
  BY <1>2, <1>3, DecodedNumbers DEF ConfigsIn
<1>5. /\ InOrder(d, ConfigsIn(packets, LastDecoded, Packet) \cup {Packet})
      /\ d \in Seq(Items)
  BY <1>2, <1>3, <1>4, InOrderAppend
<1>6. EndOf(d) = Packet /\ Len(d) >= 1
  BY <1>2, AppendProperties, LenProperties DEF EndOf
<1>. HIDE DEF d
<1>7. /\ Len(decoded') = k + 1 /\ decoded'[k + 1] = d /\ decoded' # <<>>
      /\ \A i \in 1..k : decoded'[i] = decoded[i]
  BY <1>1, <1>2, <1>5, AppendProperties
<1>8. EndOf(decoded') = d
  BY <1>7 DEF EndOf
<1>9. LastDecoded' = Packet
  BY <1>6, <1>7, <1>8 DEF LastDecoded
<1>. QED BY <1>1, <1>2, <1>3, <1>5, <1>6, <1>7, <1>9

\* The configurations among the packets received stay the same.
LEMMA ConfigsStay ==
  ASSUME TypeInv, [Next]_vars, NEW m \in Nat, NEW n \in Int, n <= Len(packets)
  PROVE  ConfigsIn(packets', m, n) = ConfigsIn(packets, m, n)
<1>1. \A i \in (m + 1)..n : i \in 1..Len(packets)
  BY KindsKept
<1>2. \A i \in 1..Len(packets) : packets'[i] = packets[i]
  BY KindsKept
<1>. QED BY <1>1, <1>2 DEF ConfigsIn

LEMMA DecodedStep ==
  ASSUME TypeInv, OrderInv, PendingInv, DecodedWithConfig, TypeInv', [Next]_vars
  PROVE  DecodedWithConfig'
<1>. DEFINE k == Len(decoded)
<1>1. /\ k \in Nat /\ Len(packets) \in Nat
      /\ \A i \in 1..k : EndOf(decoded[i]) \in 1..Len(packets)
      /\ LastDecoded \in 0..Len(packets)
  BY DecodedNumbers, Numbers
<1>2. \A i \in 1..k : CompleteAt(decoded, packets, i)
  BY Completeness
<1>3. ASSUME NEW i \in 1..k PROVE CompleteAt(decoded, packets', i)
  <2>. DEFINE m == IF i = 1 THEN 0 ELSE EndOf(decoded[i - 1])  n == EndOf(decoded[i])
  <2>1. m \in Nat /\ n \in Int /\ n <= Len(packets)
    BY <1>1, <1>3
  <2>. HIDE DEF m, n
  <2>2. ConfigsIn(packets', m, n) = ConfigsIn(packets, m, n)
    BY <2>1, ConfigsStay
  <2>. QED BY <1>2, <2>2, Zenon DEF CompleteAt, m, n
<1>4. SUFFICES \A i \in 1..Len(decoded') : CompleteAt(decoded', packets', i)
  <2>1. DOMAIN decoded' = 1..Len(decoded')
    BY LenProperties DEF TypeInv
  <2>. QED BY <1>4, <2>1, Zenon DEF DecodedWithConfig, CompleteAt, ConfigsIn, EndOf, IsConfig
<1>5. CASE Decode
  <2>1. /\ packets' = packets /\ Len(decoded') = k + 1 /\ Packet \in Items
        /\ \A i \in 1..k : decoded'[i] = decoded[i]
        /\ EndOf(decoded'[k + 1]) = Packet
        /\ InOrder(decoded'[k + 1], ConfigsIn(packets, LastDecoded, Packet) \cup {Packet})
    BY <1>5, DecodeNumbers
  <2>2. CompleteAt(decoded', packets', k + 1)
    <3>1. LastDecoded = IF k + 1 = 1 THEN 0 ELSE EndOf(decoded'[k + 1 - 1])
      <4>1. CASE k = 0
        <5>1. decoded = <<>>
          BY <4>1, LenProperties, EmptySeq DEF TypeInv
        <5>. QED BY <4>1, <5>1 DEF LastDecoded
      <4>2. CASE k # 0
        <5>1. decoded # <<>> /\ decoded'[k + 1 - 1] = EndOf(decoded)
          BY <1>1, <2>1, <4>2, EmptySeq DEF EndOf
        <5>. QED BY <1>1, <4>2, <5>1 DEF LastDecoded
      <4>. QED BY <4>1, <4>2
    <3>. QED BY <2>1, <3>1 DEF CompleteAt
  <2>3. ASSUME NEW i \in 1..k PROVE CompleteAt(decoded', packets', i)
    <3>1. decoded'[i] = decoded[i] /\ (i # 1 => decoded'[i - 1] = decoded[i - 1])
      BY <1>1, <2>1
    <3>. QED BY <1>3, <3>1, Zenon DEF CompleteAt
  <2>. QED BY <1>1, <2>1, <2>2, <2>3
<1>6. CASE ~Decode
  BY <1>3, <1>6, DecodedKept
<1>. QED BY <1>5, <1>6

LEMMA PendingStep ==
  ASSUME TypeInv, OrderInv, PendingInv, [Next]_vars
  PROVE  PendingInv'
<1>1. /\ Len(packets) \in Nat /\ Len(packets') \in Nat /\ Len(packets) <= Len(packets')
      /\ LastDecoded \in 0..Len(packets) /\ Len(decoded) \in Nat
      /\ \A i \in 1..Len(decoded) : EndOf(decoded[i]) \in 1..Len(packets)
      /\ \A i \in 1..Len(decoded) : Len(decoded[i]) >= 1
      /\ pending \in Seq(Items) /\ Items = 1..MaxPackets
  BY KindsKept, DecodedNumbers, Numbers DEF PendingInv, TypeInv
<1>2. ASSUME NEW i \in 1..Len(decoded')
      PROVE  Len(decoded'[i]) >= 1 /\ EndOf(decoded'[i]) <= Len(packets')
  <2>1. CASE Decode
    <3>1. CASE i = Len(decoded) + 1
      BY <1>1, <2>1, <3>1, DecodeNumbers
    <3>2. CASE i # Len(decoded) + 1
      <4>1. i \in 1..Len(decoded) /\ decoded'[i] = decoded[i]
        BY <1>1, <2>1, <3>2, DecodeNumbers
      <4>. QED BY <1>1, <4>1
    <3>. QED BY <3>1, <3>2
  <2>2. CASE ~Decode
    BY <1>1, <2>2, DecodedKept
  <2>. QED BY <2>1, <2>2
<1>3. SUFFICES /\ streamPc' \in {"push", "decode"} => LastDecoded' < Packet'
               /\ streamPc' = "decode" => packets'[Packet'] # "config"
               /\ streamPc' \in {"start", "startRecorder", "receive", "push", "decode"} => Waits'
               /\ streamPc' = "record" => IF packets'[Packet'] = "config" THEN Waits'
                                          ELSE LastDecoded' = Packet'
  BY <1>2, Zenon DEF PendingInv
<1>4. CASE Decode
  <2>1. Packet' = Packet
    BY <1>4, DecodeNumbers DEF Packet
  <2>. QED BY <1>4, <2>1, DecodeNumbers
<1>5. CASE PreparePacket
  <2>1. /\ streamPc = "push" /\ packets' = packets /\ LastDecoded' = LastDecoded
        /\ streamPc' = (IF IsConfig(Packet) THEN "record" ELSE "decode")
        /\ pending' = IF IsConfig(Packet) THEN Append(pending, Packet) ELSE pending
    BY <1>5, Preparing, DecodedKept, Decoding
  <2>2. Packet = Len(packets) /\ Packet \in Items /\ Packet \in Nat /\ Packet' = Packet
    BY <2>1, Numbers DEF OrderInv, Packet
  <2>3. InOrder(pending, ConfigsIn(packets, LastDecoded, Packet - 1))
    BY <2>1, <2>2 DEF PendingInv, Waits, Prepared
  <2>4. Prepared' = Packet
    BY <2>1, <2>2 DEF Prepared
  <2>5. CASE packets[Packet] = "config"
    <3>1. ConfigsIn(packets, LastDecoded, Packet)
            = ConfigsIn(packets, LastDecoded, Packet - 1) \cup {Packet}
      BY <1>1, <2>1, <2>2, <2>5 DEF ConfigsIn, PendingInv
    <3>2. \A y \in ConfigsIn(packets, LastDecoded, Packet - 1) : y < Packet
      BY <1>1, <2>2 DEF ConfigsIn
    <3>3. InOrder(Append(pending, Packet), ConfigsIn(packets, LastDecoded, Packet))
      BY <1>1, <2>2, <2>3, <3>1, <3>2, InOrderAppend
    <3>4. Waits'
      BY <2>1, <2>4, <2>5, <3>3 DEF Waits, IsConfig
    <3>. QED BY <2>1, <2>2, <2>5, <3>4 DEF IsConfig
  <2>6. CASE packets[Packet] # "config"
    <3>1. ConfigsIn(packets, LastDecoded, Packet) = ConfigsIn(packets, LastDecoded, Packet - 1)
      BY <1>1, <2>2, <2>6 DEF ConfigsIn
    <3>2. Waits'
      BY <2>1, <2>3, <2>4, <2>6, <3>1 DEF Waits, IsConfig
    <3>3. streamPc' = "decode" /\ LastDecoded' < Packet'
      BY <2>1, <2>2, <2>6 DEF IsConfig, PendingInv
    <3>. QED BY <2>1, <2>2, <2>6, <3>2, <3>3
  <2>. QED BY <2>5, <2>6
<1>6. CASE ReceivePacket
  <2>1. /\ streamPc = "receive" /\ streamPc' = "push" /\ pending' = pending
        /\ LastDecoded' = LastDecoded
    BY <1>6, Receiving, DecodedKept, Decoding
  <2>2. Len(packets') = Len(packets) + 1
    <3>1. PICK kind \in {"config", "frame"} : packets' = Append(packets, kind)
      BY <1>6, Receiving, Zenon
    <3>. QED BY <3>1, AppendProperties DEF TypeInv
  <2>3. Prepared = Len(packets) /\ Prepared' = Len(packets) /\ Packet' = Len(packets) + 1
    BY <1>1, <2>1, <2>2 DEF Prepared, Packet
  <2>4. InOrder(pending, ConfigsIn(packets, LastDecoded, Len(packets)))
    BY <2>1, <2>3 DEF PendingInv, Waits
  <2>5. ConfigsIn(packets', LastDecoded, Len(packets)) = ConfigsIn(packets, LastDecoded, Len(packets))
    BY <1>1, ConfigsStay
  <2>6. Waits'
    BY <2>1, <2>3, <2>4, <2>5, Zenon DEF Waits
  <2>. QED BY <1>1, <2>1, <2>3, <2>6
<1>7. CASE Push
  <2>1. /\ streamPc = "record" /\ streamPc' = "receive" /\ packets' = packets
        /\ pending' = (IF IsConfig(Packet) THEN pending ELSE <<>>)
        /\ LastDecoded' = LastDecoded
    BY <1>7, PushingPacket, DecodedKept, Decoding
  <2>2. Packet = Len(packets) /\ Prepared = Len(packets) /\ Prepared' = Len(packets)
    BY <2>1 DEF Packet, Prepared
  <2>3. CASE packets[Packet] = "config"
    <3>1. Waits /\ pending' = pending
      BY <2>1, <2>3 DEF PendingInv, IsConfig
    <3>2. Waits'
      BY <2>1, <2>2, <3>1, Zenon DEF Waits
    <3>. QED BY <2>1, <3>2
  <2>4. CASE packets[Packet] # "config"
    <3>1. LastDecoded = Len(packets) /\ pending' = <<>>
      BY <2>1, <2>2, <2>4 DEF PendingInv, IsConfig
    <3>2. ConfigsIn(packets, LastDecoded, Len(packets)) = {}
      BY <1>1, <3>1 DEF ConfigsIn
    <3>3. Waits'
      BY <2>1, <2>2, <3>1, <3>2, InOrderEmpty, Zenon DEF Waits
    <3>. QED BY <2>1, <3>3
  <2>. QED BY <2>3, <2>4
<1>8. CASE GiveUp \/ StopRecorder \/ JoinRecorder \/ CloseRecorder
  BY <1>8, GivingUp, Stopping, Joining, Closing
<1>9. CASE ~(Decode \/ PreparePacket \/ ReceivePacket \/ Push \/ GiveUp \/ StopRecorder
            \/ JoinRecorder \/ CloseRecorder)
  <2>1. packets' = packets /\ LastDecoded' = LastDecoded
    BY <1>9, PacketsKept, DecodedKept
  <2>2. pending' = pending
    BY <1>9, Steps, Stuttering, Opening, Starting, Waiting, TakingPacket, Finishing, WritingPacket,
       WritingLast, Failing, Zenon DEF StreamKept
  <2>3. \/ streamPc' = streamPc
        \/ streamPc \in {"start", "startRecorder"} /\ streamPc' \in {"startRecorder", "receive"}
        \/ streamPc' \in {"stop", "close", "ended"}
    <3>1. OpenRecorder \/ StartRecorder \/ streamPc' = streamPc
      BY <1>9, Steps, Stuttering, Waiting, TakingPacket, Finishing, WritingPacket, WritingLast,
         Failing, Zenon DEF StreamKept
    <3>. QED BY <3>1, Opening, Starting
  <2>4. CASE streamPc' = streamPc
    <3>1. Waits' <=> Waits
      BY <2>1, <2>2, <2>4, Zenon DEF Waits, Prepared
    <3>2. Packet' = Packet
      BY <2>1 DEF Packet
    <3>. QED BY <2>1, <2>4, <3>1, <3>2 DEF PendingInv
  <2>5. CASE streamPc \in {"start", "startRecorder"} /\ streamPc' \in {"startRecorder", "receive"}
    <3>1. Prepared' = Len(packets) /\ Prepared = Len(packets)
      BY <2>1, <2>5 DEF Prepared
    <3>2. Waits
      BY <2>5 DEF PendingInv
    <3>3. Waits'
      BY <2>1, <2>2, <3>1, <3>2, Zenon DEF Waits
    <3>. QED BY <2>5, <3>3
  <2>. QED BY <2>3, <2>4, <2>5
<1>. QED BY <1>4, <1>5, <1>6, <1>7, <1>8, <1>9
----------------------------------------------------------------------------
(* The theorems. *)

RecordingInv ==
  TypeInv /\ OrderInv /\ QueueInv /\ WritingInv /\ FileInv /\ DurationInv /\ LiveInv

LEMMA InitialState ==
  ASSUME RecorderInit
  PROVE  RecordingInv /\ PendingInv /\ DecodedWithConfig
<1>1. /\ streamPc = "start" /\ recorderPc = "unborn" /\ packets = <<>> /\ pending = <<>>
      /\ decoded = <<>> /\ queue = EmptyQueue /\ previous = Null /\ file = <<>> /\ pushed = <<>>
      /\ live = {} /\ ~stopped /\ ~failed /\ ~header_written
  BY Zenon DEF RecorderInit
<1>2. Len(packets) = 0 /\ Len(pushed) = 0 /\ Len(file) = 0 /\ Len(decoded) = 0 /\ Taken = 0
  BY <1>1 DEF Taken
<1>3. MaxPackets \in Nat /\ EmptyQueue \in Queues /\ previous \in Links
  BY <1>1, RecorderAssumption DEF EmptyQueue, Queues, Links
<1>4. TypeInv
  BY <1>1, <1>2, <1>3 DEF TypeInv, StreamPcs, RecorderPcs
<1>5. OrderInv
  BY <1>1, <1>2 DEF OrderInv
<1>6. QueueInv
  BY <1>1, <1>2 DEF QueueInv, Linked, EmptyQueue
<1>7. WritingInv /\ LiveInv
  BY <1>1 DEF WritingInv, LiveInv
<1>8. FileInv
  BY <1>1 DEF FileInv, FileBegins, FileHoldsWritten, FileIsWhole
<1>9. DurationInv
  BY <1>2 DEF DurationInv
<1>10. PendingInv
  <2>1. LastDecoded = 0 /\ Prepared = 0
    BY <1>1, <1>2 DEF LastDecoded, Prepared
  <2>2. ConfigsIn(packets, 0, 0) = {}
    BY DEF ConfigsIn
  <2>3. Waits
    BY <1>1, <2>1, <2>2, InOrderEmpty DEF Waits
  <2>. QED BY <1>1, <1>2, <2>3 DEF PendingInv
<1>11. DecodedWithConfig
  BY <1>1 DEF DecodedWithConfig
<1>. QED BY <1>4, <1>5, <1>6, <1>7, <1>8, <1>9, <1>10, <1>11 DEF RecordingInv

\* At every moment the packets pushed are, in this order: those written, the one or two in
\* hand, and those linked in the queue (recorder.cpp:249-355).
THEOREM RecordingIsInOrder == Spec => []RecordingInv
<1>1. RecorderInit => RecordingInv
  BY InitialState
<1>2. RecordingInv /\ [Next]_vars => RecordingInv'
  <2>. SUFFICES ASSUME RecordingInv, [Next]_vars PROVE RecordingInv'
    OBVIOUS
  <2>1. TypeInv /\ OrderInv /\ QueueInv /\ WritingInv /\ FileInv /\ DurationInv /\ LiveInv
    BY DEF RecordingInv
  <2>2. TypeInv' /\ OrderInv' /\ QueueInv' /\ WritingInv'
    BY <2>1, TypeStep, OrderStep, QueueStep, WritingStep
  <2>3. FileInv' /\ DurationInv' /\ LiveInv'
    BY <2>1, FileStep, DurationStep, LiveStep
  <2>. QED BY <2>2, <2>3 DEF RecordingInv
<1>. QED BY <1>1, <1>2, PTL DEF Spec

\* Every configuration packet reaches the decoder, once, in front of the first frame that
\* follows it (stream.cpp:118-119).
THEOREM ConfigsAreDecoded == Spec => []DecodedWithConfig
<1>1. RecorderInit => PendingInv /\ DecodedWithConfig
  BY InitialState
<1>2. RecordingInv /\ RecordingInv' /\ PendingInv /\ DecodedWithConfig /\ [Next]_vars
        => PendingInv' /\ DecodedWithConfig'
  BY PendingStep, DecodedStep DEF RecordingInv
<1>. QED BY <1>1, <1>2, RecordingIsInOrder, PTL DEF Spec

\* Frames, when the packets have their numbers.
LEMMA FramesAre ==
  ASSUME TypeInv, OrderInv, NEW m \in Int, m <= Len(pushed)
  PROVE  Frames(m) = FramesIn(packets, m)
<1>1. \A i \in 2..m : pushed[i] = i
  BY Numbers DEF OrderInv
<1>2. {pushed[i] : i \in 2..m} = 2..m
  BY <1>1
<1>. QED BY <1>2, Zenon DEF Frames, FramesIn, IsConfig

\* At every moment the file is a beginning of what was pushed, with the right durations,
\* the queue holds the rest, and in the end the file is all of it (recorder.cpp:249-319).
THEOREM RecordingIsComplete == Spec => []RecordingComplete
<1>1. ASSUME RecordingInv PROVE RecordingComplete
  <2>1. /\ Len(pushed) \in Nat /\ Taken \in 0..Len(pushed)
        /\ \A i \in 1..Len(pushed) : pushed[i] = i
        /\ pushed \in Seq(Items)
    BY <1>1, Numbers DEF RecordingInv, OrderInv, TypeInv
  <2>2. QueueHoldsTheRest
    <3>. SUFFICES ASSUME ~failed PROVE IsQueueOf(queue, Queued)
      BY Zenon DEF QueueHoldsTheRest
    <3>1. Linked(queue, Taken + 1, Len(pushed))
      BY <1>1 DEF RecordingInv, QueueInv
    <3>2. /\ Len(Queued) = Len(pushed) - Taken
          /\ Queued = <<>> <=> Taken = Len(pushed)
          /\ \A i \in 1..(Len(pushed) - Taken) : Queued[i] = i + Taken
      BY <1>1, QueuedIs DEF RecordingInv
    <3>3. CASE Taken = Len(pushed)
      BY <2>1, <3>1, <3>2, <3>3 DEF IsQueueOf, Linked
    <3>4. CASE Taken # Len(pushed)
      <4>1. Queued[1] = Taken + 1 /\ Queued[Len(Queued)] = Len(pushed) /\ Queued # <<>>
        BY <2>1, <3>2, <3>4
      <4>2. \A i \in 1..(Len(Queued) - 1) :
              Queued[i] = i + Taken /\ Queued[i + 1] = i + Taken + 1
              /\ i + Taken \in (Taken + 1)..(Len(pushed) - 1)
        BY <2>1, <3>2
      <4>3. /\ queue.first = Taken + 1 /\ queue.last = Len(pushed)
            /\ queue.next[Len(pushed)] = Null
            /\ \A i \in (Taken + 1)..(Len(pushed) - 1) : queue.next[i] = i + 1
        BY <2>1, <3>1, <3>4 DEF Linked
      <4>4. Chain(queue, Queued)
        BY <4>2, <4>3 DEF Chain
      <4>. QED BY <4>1, <4>3, <4>4 DEF IsQueueOf
    <3>. QED BY <3>3, <3>4
  <2>3. FileIsPrefix
    <3>. SUFFICES ASSUME file # <<>>
                  PROVE  /\ file[1] = HeaderOf(pushed[1]) /\ IsConfig(pushed[1])
                         /\ \E m \in DOMAIN pushed : InOrder(FileFrames, Frames(m))
      BY Zenon DEF FileIsPrefix
    <3>1. /\ file[1] = HeaderOf(1) /\ Len(pushed) >= 1 /\ IsConfig(1)
          /\ \E m \in 1..Len(pushed) : Holds(m)
      BY <1>1, Zenon DEF RecordingInv, FileInv, FileBegins
    <3>2. PICK m \in 1..Len(pushed) : InOrder(FileFrames, FramesIn(packets, m))
      BY <3>1, Zenon DEF Holds
    <3>3. Frames(m) = FramesIn(packets, m)
      BY <1>1, <2>1, FramesAre DEF RecordingInv
    <3>4. pushed[1] = 1 /\ DOMAIN pushed = 1..Len(pushed)
      BY <2>1, <3>1, LenProperties
    <3>. QED BY <3>1, <3>2, <3>3, <3>4
  <2>4. DurationsKnown
    <3>. SUFFICES ASSUME NEW i \in 2..Len(file)
                  PROVE  LET n == file[i].frame IN
                         IF n = pushed[Len(pushed)]
                         THEN stopped /\ file[i].duration = LastDuration
                         ELSE file[i].duration = IF IsConfig(n + 1) THEN NoDuration
                                                 ELSE Pts(n + 1) - Pts(n)
      BY Zenon DEF DurationsKnown
    <3>1. file[i].frame \in 1..Len(pushed)
      BY <1>1, FramesWerePushed DEF RecordingInv
    <3>2. pushed[Len(pushed)] = Len(pushed)
      BY <2>1, <3>1
    <3>. QED BY <1>1, <3>2, Zenon DEF RecordingInv, DurationInv, DurationOf
  <2>5. RecordingFinished
    <3>. SUFFICES ASSUME recorderPc = "ended", ~failed, pushed # <<>>
                  PROVE  \/ /\ header_written
                            /\ Frames(Len(pushed) - 1) \subseteq Range(FileFrames)
                         \/ ~header_written /\ Len(pushed) = 1
      BY Zenon DEF RecordingFinished
    <3>1. Len(pushed) >= 1
      BY <2>1, EmptySeq
    <3>2. Frames(Len(pushed) - 1) = FramesIn(packets, Len(pushed) - 1)
      BY <1>1, <2>1, FramesAre DEF RecordingInv
    <3>. QED BY <1>1, <3>1, <3>2, Zenon DEF RecordingInv, FileInv, FileIsWhole
  <2>. QED BY <2>2, <2>3, <2>4, <2>5 DEF RecordingComplete, RecordingCorrect
<1>. QED BY <1>1, RecordingIsInOrder, PTL

\* In the end every packet was deleted, except the one that was the previous packet when
\* another could not be written.
THEOREM PacketsAreDeleted == Spec => []PacketsDeleted
<1>1. ASSUME RecordingInv PROVE PacketsDeleted
  BY <1>1, Zenon DEF RecordingInv, LiveInv, PacketsDeleted, Over
<1>. QED BY <1>1, RecordingIsInOrder, PTL
=============================================================================
