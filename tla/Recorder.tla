------------------------------- MODULE Recorder -------------------------------
(***************************************************************************)
(* Recording the video: src/video/recorder.cpp, and the stream thread of   *)
(* src/video/stream.cpp that feeds it (what that thread does with the      *)
(* decoder is in VideoPipeline).                                           *)
(*                                                                         *)
(* A packet is the number of its arrival: the n-th packet received.  It is *)
(* a configuration packet, without a time stamp, or a frame, whose time    *)
(* stamp is Pts(n).  The gaps between time stamps all differ, so that a    *)
(* duration tells which two packets it was computed from.                  *)
(*                                                                         *)
(* Critical sections of the recorder's mutex are single steps, except that *)
(* Push returns without unlocking when it fails.  SDL's mutexes are        *)
(* recursive: the stream thread itself does not notice.                    *)
(***************************************************************************)
EXTENDS Queue, Functions

CONSTANTS
  MaxPackets,    \* bound: packets received
  AllocMayFail   \* SDL_malloc and av_packet_ref may fail in Push

ASSUME RecorderAssumption ==
  /\ MaxPackets \in Nat
  /\ Items = 1..MaxPackets
  /\ AllocMayFail \in BOOLEAN

VARIABLES
  streamPc,      \* where the stream thread is
  packets,       \* the kinds of the packets received so far
  pending,       \* the configuration packets kept for the next frame
  decoded,       \* history: what the decoder got, a frame with its configuration
  mutex,         \* who keeps the recorder's mutex beyond a step
  queue,         \* the recorder's queue
  stopped, failed, header_written,
  sleeping,      \* the recorder thread sleeps in cond_wait, not signalled
  recorderPc,    \* where the recorder thread is
  previous,      \* recorder->previous
  writing,       \* the packet to be written, and its duration
  file,          \* the muxed file: the header and the frames with their durations
  pushed,        \* history: the packets Push has accepted
  live           \* the RecordPackets that are allocated

streamVars == <<streamPc, packets, pending, decoded>>
threadVars == <<recorderPc, previous, writing, file, header_written>>
sharedVars == <<mutex, queue, stopped, failed, sleeping>>
historyVars == <<pushed, live>>
vars == <<streamVars, threadVars, sharedVars, historyVars>>

Pts(n) == (n * (n + 1)) \div 2

IsConfig(n) == packets[n] = "config"

Packet == Len(packets)   \* the packet the stream thread is working on

\* Durations: none was computed; the arbitrary one of the last packet (100000 us).
NoDuration == 0
LastDuration == 100000

\* writing, when there is nothing to write.
Nothing == [packet |-> Null, duration |-> NoDuration]

HeaderOf(n) == [header |-> n]
FrameOf(n, d) == [frame |-> n, duration |-> d]

\* Recorder::Init and VideoStream::Init
RecorderInit ==
  /\ streamPc = "start"
  /\ packets = <<>>
  /\ pending = <<>>
  /\ decoded = <<>>
  /\ mutex = "free"
  /\ queue = EmptyQueue
  /\ stopped = FALSE
  /\ failed = FALSE
  /\ header_written = FALSE
  /\ sleeping = FALSE
  /\ recorderPc = "unborn"
  /\ previous = Null
  /\ writing = Nothing
  /\ file = <<>>
  /\ pushed = <<>>
  /\ live = {}
----------------------------------------------------------------------------
(* The stream thread: VideoStream::RunStream. *)

StreamGoto(from, to) == streamPc = from /\ streamPc' = to

\* recorder->Open(): without an output file the thread goes to its end.
OpenRecorder ==
  /\ StreamGoto("start", "startRecorder") \/ StreamGoto("start", "ended")
  /\ UNCHANGED <<packets, pending, decoded, threadVars, sharedVars, historyVars>>

\* recorder->Start(), and av_parser_init(); both can fail.
StartRecorder ==
  /\ \/ StreamGoto("startRecorder", "receive") /\ recorderPc' = "check"
     \/ StreamGoto("startRecorder", "stop") /\ recorderPc' = "check"
     \/ StreamGoto("startRecorder", "close") /\ UNCHANGED recorderPc
  /\ UNCHANGED <<packets, pending, decoded, previous, writing, file, header_written, sharedVars,
                 historyVars>>

\* ReceivePacket
ReceivePacket ==
  /\ StreamGoto("receive", "push")
  /\ Len(packets) < MaxPackets
  /\ \E kind \in {"config", "frame"} : packets' = Append(packets, kind)
  /\ UNCHANGED <<pending, decoded, threadVars, sharedVars, historyVars>>

EndOfStream ==
  /\ StreamGoto("receive", "stop")
  /\ UNCHANGED <<packets, pending, decoded, threadVars, sharedVars, historyVars>>

BugDropConfig ==   \* a bug: a second configuration packet replaces the first
  /\ streamPc = "push"
  /\ StreamGoto("push", IF IsConfig(Packet) THEN "record" ELSE "decode")
  /\ pending' = IF IsConfig(Packet) THEN <<Packet>> ELSE pending
  /\ UNCHANGED <<packets, decoded, threadVars, sharedVars, historyVars>>

\* PushPacket: a configuration packet is appended to the pending one.
PreparePacket ==
  /\ streamPc = "push"
  /\ StreamGoto("push", IF IsConfig(Packet) THEN "record" ELSE "decode")
  /\ pending' = IF IsConfig(Packet) THEN Append(pending, Packet) ELSE pending
  /\ UNCHANGED <<packets, decoded, threadVars, sharedVars, historyVars>>

\* av_new_packet() or av_grow_packet() fails.
PrepareFails ==
  /\ StreamGoto("push", "stop")
  /\ IsConfig(Packet) \/ pending # <<>>
  /\ UNCHANGED <<packets, pending, decoded, threadVars, sharedVars, historyVars>>

\* Parse and ProcessFrame: the decoder gets the frame after its configuration.
Decode ==
  /\ StreamGoto("decode", "record")
  /\ decoded' = Append(decoded, Append(pending, Packet))
  /\ UNCHANGED <<packets, pending, threadVars, sharedVars, historyVars>>

DecodeFails ==
  /\ StreamGoto("decode", "stop")
  /\ pending' = <<>>
  /\ UNCHANGED <<packets, decoded, threadVars, sharedVars, historyVars>>

\* The pending packet is discarded once the frame was processed, or was not.
DiscardPending == pending' = IF IsConfig(Packet) THEN pending ELSE <<>>

\* Recorder::Push: the packet is queued, and the recorder thread signalled.
Push ==
  /\ mutex = "free"
  /\ ~failed
  /\ StreamGoto("record", "receive")
  /\ queue' = QueuePush(queue, Packet)
  /\ sleeping' = FALSE
  /\ pushed' = Append(pushed, Packet)
  /\ live' = live \cup {Packet}
  /\ DiscardPending
  /\ UNCHANGED <<packets, decoded, threadVars, mutex, stopped, failed>>

\* Recorder::Push fails; it returns with the mutex locked, and stops the stream.
PushFails ==
  /\ mutex = "free"
  /\ failed \/ AllocMayFail
  /\ StreamGoto("record", "stop")
  /\ mutex' = "stream"
  /\ DiscardPending
  /\ UNCHANGED <<packets, decoded, threadVars, queue, stopped, failed, sleeping, historyVars>>

BugStopSilently ==   \* a bug: Stop does not signal
  /\ mutex \in {"free", "stream"}
  /\ StreamGoto("stop", "join")
  /\ stopped' = TRUE
  /\ pending' = <<>>
  /\ UNCHANGED <<packets, decoded, threadVars, mutex, queue, failed, sleeping, historyVars>>

\* Actor::Stop
StopRecorder ==
  /\ mutex \in {"free", "stream"}
  /\ StreamGoto("stop", "join")
  /\ stopped' = TRUE
  /\ sleeping' = FALSE
  /\ pending' = <<>>
  /\ UNCHANGED <<packets, decoded, threadVars, mutex, queue, failed, historyVars>>

JoinRecorder ==
  /\ recorderPc = "ended"
  /\ StreamGoto("join", "close")
  /\ UNCHANGED <<packets, pending, decoded, threadVars, sharedVars, historyVars>>

\* Recorder::Close: the trailer is written, if there is a header, or cannot be.
CloseRecorder ==
  /\ StreamGoto("close", "ended")
  /\ \/ header_written /\ UNCHANGED failed
     \/ failed' = TRUE
  /\ UNCHANGED <<packets, pending, decoded, threadVars, mutex, queue, stopped, sleeping,
                 historyVars>>
----------------------------------------------------------------------------
(* The recorder thread: Recorder::RunRecorder. *)

RecorderGoto(from, to) == recorderPc = from /\ recorderPc' = to /\ UNCHANGED streamVars

Sleep ==
  /\ mutex = "free"
  /\ ~stopped
  /\ QueueIsEmpty(queue)
  /\ RecorderGoto("check", "wait")
  /\ sleeping' = TRUE
  /\ UNCHANGED <<previous, writing, file, header_written, mutex, queue, stopped, failed,
                 historyVars>>

\* cond_wait returns once it has locked the mutex again.
WakeUp ==
  /\ mutex = "free"
  /\ ~sleeping
  /\ RecorderGoto("wait", "check")
  /\ UNCHANGED <<previous, writing, file, header_written, sharedVars, historyVars>>

SpuriousWakeUp ==
  /\ sleeping
  /\ sleeping' = FALSE
  /\ UNCHANGED <<streamVars, threadVars, mutex, queue, stopped, failed, historyVars>>

\* The duration of the packet before n, when both are frames.
DurationBefore(n) ==
  IF previous # Null /\ ~IsConfig(n) /\ ~IsConfig(previous) THEN Pts(n) - Pts(previous)
  ELSE NoDuration

\* The packet taken becomes the previous one, which can be written now.
TakePacket ==
  /\ mutex = "free"
  /\ ~QueueIsEmpty(queue)
  /\ RecorderGoto("check", IF previous = Null THEN "check" ELSE "write")
  /\ queue' = QueueTake(queue)
  /\ previous' = QueueItem(queue)
  /\ writing' = [packet |-> previous, duration |-> DurationBefore(QueueItem(queue))]
  /\ UNCHANGED <<file, header_written, mutex, stopped, failed, sleeping, historyVars>>

BugQuitEarly ==   \* a bug: the remaining packets are not processed
  /\ mutex = "free"
  /\ stopped
  /\ RecorderGoto("check", IF previous = Null THEN "ended" ELSE "writeLast")
  /\ writing' = [packet |-> previous, duration |-> LastDuration]
  /\ UNCHANGED <<previous, file, header_written, sharedVars, historyVars>>

\* Stopped, and nothing left in the queue: the last packet gets a duration.
Finish ==
  /\ mutex = "free"
  /\ stopped
  /\ QueueIsEmpty(queue)
  /\ RecorderGoto("check", IF previous = Null THEN "ended" ELSE "writeLast")
  /\ writing' = [packet |-> previous, duration |-> LastDuration]
  /\ UNCHANGED <<previous, file, header_written, sharedVars, historyVars>>

\* Recorder::Write, when it succeeds: the first packet is the header of the file,
\* the other configuration packets are ignored.
WriteSucceeds ==
  LET n == writing.packet IN
  /\ ~header_written => IsConfig(n)
  /\ header_written' = TRUE
  /\ file' = IF ~header_written THEN <<HeaderOf(n)>>
             ELSE IF IsConfig(n) THEN file
             ELSE Append(file, FrameOf(n, writing.duration))

\* It fails when the first packet is no configuration, or on the file.
WriteFails ==
  /\ ~(header_written /\ IsConfig(writing.packet))
  /\ UNCHANGED <<file, header_written>>

\* The packet written is deleted.
DeleteWritten ==
  /\ writing' = Nothing
  /\ live' = live \ {writing.packet}
  /\ UNCHANGED pushed

WritePacket ==
  /\ \/ RecorderGoto("write", "check") /\ WriteSucceeds
     \/ RecorderGoto("write", "fail") /\ WriteFails
  /\ DeleteWritten
  /\ UNCHANGED <<previous, sharedVars>>

\* A failure to write the last one is not serious.
WriteLastPacket ==
  /\ RecorderGoto("writeLast", "ended")
  /\ WriteSucceeds \/ WriteFails
  /\ DeleteWritten
  /\ UNCHANGED <<previous, sharedVars>>

BugFailAndLeave ==   \* a bug: the pending packets are not discarded
  /\ mutex = "free"
  /\ RecorderGoto("fail", "ended")
  /\ failed' = TRUE
  /\ UNCHANGED <<queue, live, previous, writing, file, header_written, mutex, stopped, sleeping,
                 pushed>>

\* The packets in the queue: those pushed after the one that is previous.
Queued == SubSeq(pushed, IF previous = Null THEN 1 ELSE previous + 1, Len(pushed))

\* The pending packets are discarded, and Push will reject new ones.
Fail ==
  /\ mutex = "free"
  /\ RecorderGoto("fail", "ended")
  /\ failed' = TRUE
  /\ queue' = [queue EXCEPT !.first = Null]
  /\ live' = live \ Range(Queued)
  /\ UNCHANGED <<previous, writing, file, header_written, mutex, stopped, sleeping, pushed>>
----------------------------------------------------------------------------
StreamStep ==
  \/ OpenRecorder \/ StartRecorder \/ PreparePacket \/ PrepareFails \/ Decode \/ DecodeFails
  \/ Push \/ PushFails \/ StopRecorder \/ JoinRecorder \/ CloseRecorder

RecorderStep ==
  \/ Sleep \/ WakeUp \/ TakePacket \/ Finish \/ WritePacket \/ WriteLastPacket \/ Fail

Over == streamPc = "ended" /\ recorderPc \in {"unborn", "ended"}

Next ==
  \/ StreamStep \/ RecorderStep
  \/ ReceivePacket \/ EndOfStream \/ SpuriousWakeUp
  \/ Over /\ UNCHANGED vars

Spec == RecorderInit /\ [][Next]_vars

\* Both threads run when they can; no packet has to come, and no stream to end.
Fairness == WF_vars(StreamStep) /\ WF_vars(RecorderStep)

FairSpec == Spec /\ Fairness
----------------------------------------------------------------------------
StreamPcs == {"start", "startRecorder", "receive", "push", "decode", "record", "stop", "join",
              "close", "ended"}
RecorderPcs == {"unborn", "check", "wait", "write", "writeLast", "fail", "ended"}

TypeOK ==
  /\ streamPc \in StreamPcs
  /\ packets \in Seq({"config", "frame"}) /\ Len(packets) <= MaxPackets
  /\ pending \in Seq(Items)
  /\ decoded \in Seq(Seq(Items))
  /\ mutex \in {"free", "stream"}
  /\ queue \in Queues
  /\ stopped \in BOOLEAN /\ failed \in BOOLEAN /\ header_written \in BOOLEAN
  /\ sleeping \in BOOLEAN
  /\ recorderPc \in RecorderPcs
  /\ previous \in Links
  /\ writing \in [packet : Links, duration : Nat]
  /\ file \in Seq([header : Items] \cup [frame : Items, duration : Nat])
  /\ pushed \in Seq(Items)
  /\ live \subseteq Items

\* The linked list is the packets pushed and not yet taken, in order.
QueueHoldsTheRest == failed \/ IsQueueOf(queue, Queued)

\* The sequence s holds the packets of the set S, each once, in the order of arrival.
InOrder(s, S) ==
  /\ Range(s) = S
  /\ \A i, j \in DOMAIN s : i < j => s[i] < s[j]

\* stream.cpp:118-119: every configuration packet reaches the decoder, once, in
\* front of the first frame that follows it.
DecodedWithConfig ==
  \A i \in DOMAIN decoded :
    LET last == decoded[i][Len(decoded[i])]
        before == IF i = 1 THEN 0 ELSE decoded[i - 1][Len(decoded[i - 1])]
    IN InOrder(decoded[i], {n \in (before + 1)..last : IsConfig(n)} \cup {last})

\* The frames among the first m packets pushed; the first one is for the header.
Frames(m) == {n \in {pushed[i] : i \in 2..m} : ~IsConfig(n)}

\* The frames of the file, as packets.
FileFrames == [i \in 1..(Len(file) - 1) |-> file[i + 1].frame]

\* The file is a header, of the first packet, and the first frames, without a gap.
FileIsPrefix ==
  file # <<>> => /\ file[1] = HeaderOf(pushed[1])
                 /\ IsConfig(pushed[1])
                 /\ \E m \in DOMAIN pushed : InOrder(FileFrames, Frames(m))

\* The duration of a frame is the time to the next packet, if that is a frame;
\* only the last packet has the arbitrary one.
DurationsKnown ==
  \A i \in 2..Len(file) :
    LET n == file[i].frame IN
    IF n = pushed[Len(pushed)] THEN stopped /\ file[i].duration = LastDuration
    ELSE file[i].duration = IF IsConfig(n + 1) THEN NoDuration ELSE Pts(n + 1) - Pts(n)

\* What has been pushed is in the file, in hand or in the queue, complete and in
\* order, as long as nothing failed.
RecordingCorrect == QueueHoldsTheRest /\ FileIsPrefix /\ DurationsKnown

\* recorder.cpp:259-260: the recording is finished before the thread stops: when
\* nothing failed, all frames but perhaps the last one are in the file.
RecordingFinished ==
  recorderPc = "ended" /\ ~failed /\ pushed # <<>> =>
    \/ header_written /\ Frames(Len(pushed) - 1) \subseteq Range(FileFrames)
    \/ ~header_written /\ Len(pushed) = 1

\* At every moment the file is a beginning of what was pushed, with the right
\* durations, and at the end it is all of it (recorder.cpp:249-319).
RecordingComplete == RecordingCorrect /\ RecordingFinished

\* In the end every packet was deleted, except the one that was the previous packet
\* when another could not be written.
PacketsDeleted == Over => live = {} \/ (failed /\ live = {previous})

\* recorder.cpp:341: a packet rejected by a recorder that has failed stops the stream,
\* and the recorder thread, which has ended or is about to, can be joined.  Not so when
\* Push finds no memory (line 344): it keeps the mutex, for which the thread waits.
RecordingEnds == streamPc = "stop" /\ (mutex = "stream" => failed) ~> streamPc = "ended"

=============================================================================
