--------------------------- MODULE VideoPipeline ---------------------------
(***************************************************************************)
(* The path of a frame from the socket to the screen: the stream thread    *)
(* (RunStream, Decoder::Push, Decoder::PushFrame), the VideoBuffer, SDL's  *)
(* event queue, and the main thread's event loop up to the destruction of  *)
(* the video buffer (IRobotCore::Start).                                   *)
(*                                                                         *)
(* Every step is what a thread does between two points where another       *)
(* thread can interfere: a lock, an unlock, a write that needs no lock,    *)
(* an access to the event queue.                                           *)
(***************************************************************************)
EXTENDS VideoBuffer, Sequences

CONSTANTS
  MaxFrames,        \* bound: frames the device sends
  MaxEvents,        \* capacity of SDL's event queue (65535 in SDL)
  MaxConnections    \* bound: agent clients that connect

ASSUME PipelineAssumption ==
  /\ MaxFrames \in Nat
  /\ MaxEvents \in Nat
  /\ MaxConnections \in Nat

VARIABLES
  headless,      \* no window: IRobotCore::Start polls the events itself
  streamPc,      \* where the stream thread is
  mainPc,        \* where the main thread is
  frame,         \* the AVFrame the main thread reads, local to UpdateFrame
  skipped,       \* previous_frame_skipped, local to PushFrame
  rgb,           \* number of the frame in rgb_frame, 0 for none
  events,        \* SDL's event queue
  quit,          \* the event loop has seen a reason to quit
  userQuit,      \* the user has asked to quit
  shutDown,      \* server.Stop() has shut the sockets down
  connections,   \* agent clients that have connected
  lost           \* history: the announcement of the pending frame was dropped

streamLocals == <<skipped, rgb, lost>>
streamVars == <<streamPc, streamLocals>>
mainLocals == <<frame, quit, shutDown>>
mainVars == <<mainPc, mainLocals>>
envVars == <<userQuit, connections, headless>>
vars == <<bufferVars, streamVars, mainVars, envVars, events>>

NewFrame == "EVENT_NEW_FRAME"
NewOpenCVFrame == "EVENT_NEW_OPENCV_FRAME"
StreamStopped == "EVENT_STREAM_STOPPED"
UserQuits == "SDL_QUIT"
EventTypes == {NewFrame, NewOpenCVFrame, StreamStopped, UserQuits}

\* Decoder::Close has freed the memory behind rgb_frame.
RgbFreed == streamPc \in {"notify", "ended"}

PipelineInit ==
  /\ Init
  /\ headless \in BOOLEAN
  /\ streamPc = "receive"
  /\ mainPc = "poll"
  /\ frame = "B"
  /\ skipped = FALSE
  /\ rgb = 0
  /\ events = <<>>
  /\ quit = FALSE
  /\ userQuit = FALSE
  /\ shutDown = FALSE
  /\ connections = 0
  /\ lost = FALSE

\* SDL_PushEvent fails on a full queue, and nobody looks at its result.
PushEvent(e) == events' = IF Len(events) < MaxEvents THEN Append(events, e) ELSE events

----------------------------------------------------------------------------
(* The stream thread. *)

\* The stream thread moves; the main thread and the outside do not.
StreamGoto(from, to) ==
  /\ streamPc = from
  /\ streamPc' = to
  /\ UNCHANGED <<mainVars, envVars>>

\* ReceivePacket and avcodec_receive_frame: a frame comes out of the decoder.
\* (A packet that yields none, EAGAIN, changes nothing here.)
ReceiveFrame ==
  /\ offered < MaxFrames
  /\ StreamGoto("receive", "scale")
  /\ FillDecodingFrame
  /\ UNCHANGED <<streamLocals, events>>

\* The socket is closed, or the decoder refuses the packet.
EndOfStream ==
  /\ StreamGoto("receive", "close")
  /\ UNCHANGED <<bufferVars, streamLocals, events>>

BugScaleOnce ==   \* a bug: only the first frame is converted
  /\ StreamGoto("scale", "offer")
  /\ rgb' = IF rgb = 0 THEN Current ELSE rgb
  /\ UNCHANGED <<bufferVars, skipped, lost, events>>

\* sws_scale converts the frame into rgb_frame; the mutex is not taken.
ScaleFrame ==
  /\ StreamGoto("scale", "offer")
  /\ rgb' = Current
  /\ UNCHANGED <<bufferVars, skipped, lost, events>>

\* sws_getContext fails, which it is only asked for the first frame.
ScalerFails ==
  /\ rgb = 0
  /\ StreamGoto("scale", "close")
  /\ UNCHANGED <<bufferVars, streamLocals, events>>

LockToOffer ==
  /\ StreamGoto("offer", "check")
  /\ Lock("stream")
  /\ UNCHANGED <<streamLocals, events>>

WaitForConsumer ==
  /\ StreamGoto("check", "wait")
  /\ SleepUntilConsumed
  /\ UNCHANGED <<streamLocals, events>>

ResumeOffer ==
  /\ StreamGoto("wait", "check")
  /\ WakeUp
  /\ UNCHANGED <<streamLocals, events>>

BugSkipAlways ==   \* a bug: previous_frame_skipped is set after the reset
  /\ StreamGoto("check", "offered")
  /\ SwapFrames
  /\ skipped' = TRUE
  /\ UNCHANGED <<rgb, lost, events>>

OfferDecodedFrame ==
  /\ StreamGoto("check", "offered")
  /\ SwapFrames
  /\ skipped' = ~rendering_frame_consumed
  /\ UNCHANGED <<rgb, lost, events>>

\* PushFrame: the previous EVENT_NEW_FRAME will consume this frame.
SkipAnnouncement ==
  /\ skipped
  /\ StreamGoto("offered", "receive")
  /\ UNCHANGED <<bufferVars, streamLocals, events>>

AnnounceFrame ==
  /\ ~skipped
  /\ StreamGoto("offered", "announce")
  /\ PushEvent(NewFrame)
  /\ lost' = (lost \/ Len(events) >= MaxEvents)
  /\ UNCHANGED <<bufferVars, skipped, rgb>>

AnnounceOpenCVFrame ==
  /\ StreamGoto("announce", "receive")
  /\ PushEvent(NewOpenCVFrame)
  /\ UNCHANGED <<bufferVars, streamLocals>>

\* Decoder::Close frees the memory behind rgb_frame (see RgbFreed).
CloseDecoder ==
  /\ StreamGoto("close", "notify")
  /\ UNCHANGED <<bufferVars, streamLocals, events>>

NotifyStopped ==
  /\ StreamGoto("notify", "ended")
  /\ PushEvent(StreamStopped)
  /\ UNCHANGED <<bufferVars, streamLocals>>

----------------------------------------------------------------------------
(* The main thread. *)

\* The main thread moves; the stream thread and the outside do not.
MainGoto(from, to) ==
  /\ mainPc = from
  /\ mainPc' = to
  /\ UNCHANGED <<streamPc, streamLocals, envVars>>

\* SDL_WaitEvent or SDL_PollEvent returns the oldest event.
TakeEvent(e) ==
  /\ events # <<>>
  /\ Head(events) = e
  /\ events' = Tail(events)

HandleNewFrame ==
  /\ TakeEvent(NewFrame)
  /\ MainGoto("poll", "newFrame")
  /\ UNCHANGED <<bufferVars, mainLocals>>

\* Screen::UpdateFrame, or AgentManager::HandleEvent when there is no screen.
LockToConsume ==
  /\ MainGoto("newFrame", "consume")
  /\ Lock("main")
  /\ UNCHANGED <<mainLocals, events>>

Consume ==
  /\ MainGoto("consume", "render")
  /\ ConsumeRenderedFrame
  /\ frame' = rendering_frame
  /\ UNCHANGED <<quit, shutDown, events>>

\* UpdateTexture reads the frame, then the mutex is released.  (It is released
\* as well when PrepareForFrame fails.)
RenderFrame ==
  /\ MainGoto("render", "poll")
  /\ Unlock
  /\ UNCHANGED <<mainLocals, events>>

HandleOpenCVFrame ==
  /\ TakeEvent(NewOpenCVFrame)
  /\ MainGoto("poll", "openCV")
  /\ UNCHANGED <<bufferVars, mainLocals>>

LockToConvert ==
  /\ MainGoto("openCV", "convert")
  /\ Lock("main")
  /\ UNCHANGED <<mainLocals, events>>

\* SendOpenCVImage converts rgb_frame if an agent is connected.
ConvertToMat ==
  /\ connections = 0 \/ rgb # 0
  /\ MainGoto("convert", "poll")
  /\ Unlock
  /\ UNCHANGED <<mainLocals, events>>

\* cv::resize throws on an empty image, and reading freed memory may crash:
\* nothing catches either, the process dies.
ConversionAborts ==
  /\ connections > 0
  /\ rgb = 0 \/ RgbFreed
  /\ MainGoto("convert", "aborted")
  /\ UNCHANGED <<bufferVars, mainLocals, events>>

\* With a window the loop returns at once.  Without one, the break only leaves
\* the switch: the queue is emptied first.
HandleStop ==
  /\ TakeEvent(StreamStopped) \/ TakeEvent(UserQuits)
  /\ MainGoto("poll", IF headless THEN "poll" ELSE "interrupt")
  /\ quit' = TRUE
  /\ UNCHANGED <<bufferVars, frame, shutDown>>

LeaveHeadlessLoop ==
  /\ headless
  /\ quit
  /\ events = <<>>
  /\ MainGoto("poll", "interrupt")
  /\ UNCHANGED <<bufferVars, mainLocals, events>>

\* stream.Stop() -> decoder->Interrupt() -> video_buffer->Interrupt().
Interrupt ==
  /\ IF render_expired_frames
     THEN MainGoto("interrupt", "signal") /\ SetInterrupted
     ELSE MainGoto("interrupt", "stopServer") /\ UNCHANGED bufferVars
  /\ UNCHANGED <<mainLocals, events>>

Signal ==
  /\ MainGoto("signal", "stopServer")
  /\ SignalInterrupt
  /\ UNCHANGED <<mainLocals, events>>

\* server.Stop() shuts the sockets down: the stream thread will see it.
StopServer ==
  /\ MainGoto("stopServer", "join")
  /\ shutDown' = TRUE
  /\ UNCHANGED <<bufferVars, frame, quit, events>>

\* stream.Join(), later video_buffer.Destroy().
JoinStream ==
  /\ streamPc = "ended"
  /\ MainGoto("join", "destroyed")
  /\ UNCHANGED <<bufferVars, mainLocals, events>>

----------------------------------------------------------------------------
(* The user, the agents' clients and the C library. *)

UserAsksToQuit ==
  /\ ~userQuit
  /\ Len(events) < MaxEvents
  /\ userQuit' = TRUE
  /\ PushEvent(UserQuits)
  /\ UNCHANGED <<bufferVars, streamVars, mainVars, connections, headless>>

\* AgentStream::WaitForClientConnection accepts a client and asks for an image.
AgentConnects ==
  /\ connections < MaxConnections
  /\ connections' = connections + 1
  /\ PushEvent(NewOpenCVFrame)
  /\ UNCHANGED <<bufferVars, streamVars, mainVars, userQuit, headless>>

WakeSpuriously ==
  /\ SpuriousWakeUp
  /\ UNCHANGED <<streamVars, mainVars, envVars, events>>

----------------------------------------------------------------------------
StreamStep ==
  \/ ScaleFrame \/ ScalerFails \/ LockToOffer \/ WaitForConsumer \/ ResumeOffer
  \/ OfferDecodedFrame \/ SkipAnnouncement \/ AnnounceFrame \/ AnnounceOpenCVFrame
  \/ CloseDecoder \/ NotifyStopped

MainStep ==
  \/ HandleNewFrame \/ LockToConsume \/ Consume \/ RenderFrame
  \/ HandleOpenCVFrame \/ LockToConvert \/ ConvertToMat \/ ConversionAborts
  \/ HandleStop \/ LeaveHeadlessLoop \/ Interrupt \/ Signal \/ StopServer \/ JoinStream

\* What the program does not decide: what arrives and when.
Environment ==
  \/ ReceiveFrame \/ EndOfStream \/ UserAsksToQuit \/ AgentConnects \/ WakeSpuriously

Over == mainPc \in {"destroyed", "aborted"}

Finished == Over /\ UNCHANGED vars

Next ==
  \/ ~Over /\ (StreamStep \/ MainStep \/ Environment)
  \/ Finished

Spec == PipelineInit /\ [][Next]_vars

\* Each thread runs when it can (the mutex is held for a bounded time, so weak
\* fairness on "some step of the thread" would let a thread starve at a lock:
\* taking a lock is strongly fair).  Once the sockets are shut down the stream
\* thread's read returns; before that nothing obliges the device to end the
\* stream, nor to send a frame.
Fairness ==
  /\ WF_vars(~Over /\ StreamStep)
  /\ WF_vars(~Over /\ MainStep)
  /\ WF_vars(~Over /\ shutDown /\ EndOfStream)
  /\ SF_vars(~Over /\ LockToOffer)
  /\ SF_vars(~Over /\ ResumeOffer)
  /\ SF_vars(~Over /\ (LockToConsume \/ LockToConvert))
  /\ SF_vars(~Over /\ Interrupt)

FairSpec == Spec /\ Fairness
----------------------------------------------------------------------------
StreamPcs == {"receive", "scale", "offer", "check", "wait", "offered", "announce",
              "close", "notify", "ended"}
MainPcs == {"poll", "newFrame", "consume", "render", "openCV", "convert", "interrupt",
            "signal", "stopServer", "join", "destroyed", "aborted"}

TypeOK ==
  /\ BufferTypeOK
  /\ headless \in BOOLEAN
  /\ streamPc \in StreamPcs
  /\ mainPc \in MainPcs
  /\ frame \in Frames
  /\ skipped \in BOOLEAN
  /\ rgb \in Nat
  /\ events \in Seq(EventTypes) /\ Len(events) <= MaxEvents
  /\ quit \in BOOLEAN
  /\ userQuit \in BOOLEAN
  /\ shutDown \in BOOLEAN
  /\ connections \in Nat
  /\ lost \in BOOLEAN

\* The announcement of the pending frame is about to be queued, is queued, or
\* is being handled.
Announced ==
  \/ streamPc = "offered" /\ ~skipped
  \/ \E i \in DOMAIN events : events[i] = NewFrame
  \/ mainPc \in {"newFrame", "consume"}

\* The assertion of ConsumeRenderedFrame (video_buffer.cpp:97) never fails:
\* an EVENT_NEW_FRAME is never handled twice for the same frame, whatever the
\* order in which the decoder skips announcements and the main thread takes them.
AssertionHolds == mainPc = "consume" => ~rendering_frame_consumed

\* PushFrame skips the event because "the previous EVENT_NEW_FRAME will consume
\* this frame" (decoder.cpp:19).  A frame that is not consumed is announced,
\* unless SDL refused the announcement.
PendingFrameAnnounced == ~rendering_frame_consumed => Announced \/ lost

\* What the main thread reads with the mutex held is the frame that was offered
\* last, whole: the decoder is never writing into it.
RendersLatestFrame ==
  mainPc = "render" => frame # decoding_frame /\ pixels[frame] = offered

\* Every offered frame is rendered, counted as skipped, or still pending; with
\* --render-expired-frames nothing is counted, and nothing is skipped before
\* the interruption.
FramesAccountedFor ==
  ~interrupted =>
    offered = nr_rendered + nr_skipped + (IF rendering_frame_consumed THEN 0 ELSE 1)

\* The image an agent gets is never older than the picture on the screen, as
\* long as the decoder is open: rgb_frame is written before the frame is offered.
ImageNotOlderThanScreen ==
  mainPc = "convert" => RgbFreed \/ rgb >= taken

\* A conversion kills the process only before any frame was displayed, or
\* after the decoder is closed.
AbortsOnlyAtTheEdges == mainPc = "aborted" => taken = 0 \/ RgbFreed

\* Frames are consumed in order, none twice; with --render-expired-frames none
\* is left out until the interruption.
ConsumedInOrder ==
  [][Consume => /\ taken' > taken
                /\ render_expired_frames /\ ~interrupted => taken' = taken + 1]_vars

\* A pending frame is consumed, unless its announcement was lost or the
\* program is quitting: the decoder and the main thread do not wait for each
\* other.
PendingFrameConsumed ==
  ~rendering_frame_consumed ~> rendering_frame_consumed \/ lost \/ quit \/ Over

\* Quitting ends: the stream thread never stays asleep in OfferDecodedFrame
\* once it is interrupted, so it can be joined and the buffer destroyed.
QuitTerminates == quit ~> Over

\* The pipeline implements the abstract mailbox: the pending frame is what the
\* rendering AVFrame holds while it is not consumed.
Mailbox == INSTANCE FrameMailbox WITH
  blocking <- render_expired_frames,
  pending <- IF rendering_frame_consumed THEN 0 ELSE pixels[rendering_frame],
  closed <- interrupted

\* Each step of the two threads is an Offer, a Take, a Close or a stutter of
\* the mailbox (video_buffer.cpp:76-115).
ImplementsMailbox == Mailbox!MailboxSpec
============================================================================
