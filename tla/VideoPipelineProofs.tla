------------------------ MODULE VideoPipelineProofs ------------------------
(***************************************************************************)
(* The safety of VideoPipeline for every mode, every capacity of the event *)
(* queue and any number of frames and clients.                             *)
(*                                                                         *)
(* The argument rests on three facts.  The mutex serialises the offer and  *)
(* the consumption (MutexInv).  There is at most one announcement of a     *)
(* frame anywhere - about to be queued, queued, or being handled - and     *)
(* none when the frame is consumed (AnnouncementInv).  The rendering frame *)
(* always holds the frame that was offered last (ContentInv).              *)
(***************************************************************************)
EXTENDS VideoPipeline, TLAPS

InQueue == \E i \in 1..Len(events) : events[i] = NewFrame

OneInQueue ==
  \A i, j \in 1..Len(events) : events[i] = NewFrame /\ events[j] = NewFrame => i = j

InStream == streamPc = "offered" /\ ~skipped

InMain == mainPc \in {"newFrame", "consume"}

MutexInv ==
  /\ mutex = "stream" <=> streamPc = "check"
  /\ mutex = "main" <=> mainPc \in {"consume", "render", "convert", "aborted"}

AnnouncementInv ==
  /\ OneInQueue
  /\ ~(InQueue /\ InStream)
  /\ ~(InQueue /\ InMain)
  /\ ~(InStream /\ InMain)
  /\ rendering_frame_consumed => ~InQueue /\ ~InStream /\ ~InMain
  /\ ~rendering_frame_consumed => InQueue \/ InStream \/ InMain \/ lost

ContentInv ==
  /\ decoding_frame # rendering_frame
  /\ pixels[rendering_frame] = offered
  /\ streamPc \in {"scale", "offer", "check", "wait"} => pixels[decoding_frame] = Current
  /\ mainPc = "render" => frame = rendering_frame

\* What the numbers say: of the frames taken, and of the image for the agents.
NumberInv ==
  /\ rendering_frame_consumed => taken = offered
  /\ ~rendering_frame_consumed => taken < offered
  /\ ~rendering_frame_consumed /\ render_expired_frames /\ ~interrupted => offered = taken + 1
  /\ rgb >= offered
  /\ streamPc \in {"offer", "check", "wait"} => rgb = Current
  /\ FramesAccountedFor
  /\ AbortsOnlyAtTheEdges

----------------------------------------------------------------------------
(* The event queue. *)

\* Pushing an event adds at most that event.
LEMMA Pushing ==
  ASSUME TypeOK, NEW e \in EventTypes, PushEvent(e)
  PROVE  /\ events' \in Seq(EventTypes) /\ Len(events') <= MaxEvents
         /\ InQueue => InQueue'
         /\ e # NewFrame => (InQueue' => InQueue) /\ (OneInQueue => OneInQueue')
         /\ e = NewFrame /\ ~InQueue => OneInQueue'
         /\ e = NewFrame => InQueue' \/ Len(events) >= MaxEvents
<1>0. events \in Seq(EventTypes) /\ Len(events) <= MaxEvents
  BY DEF TypeOK
<1>1. CASE Len(events) < MaxEvents
  <2>1. events' = Append(events, e)
    BY <1>1 DEF PushEvent
  <2>2. /\ events' \in Seq(EventTypes)
        /\ Len(events') = Len(events) + 1
        /\ Len(events) \in Nat
        /\ events'[Len(events) + 1] = e
        /\ \A i \in 1..Len(events) : events'[i] = events[i]
    BY <1>0, <2>1
  <2>. QED BY <1>0, <1>1, <2>2, PipelineAssumption DEF InQueue, OneInQueue
<1>2. CASE ~(Len(events) < MaxEvents)
  <2>1. events' = events /\ Len(events) \in Nat
    BY <1>0, <1>2 DEF PushEvent
  <2>. QED BY <1>0, <1>2, <2>1, PipelineAssumption DEF InQueue, OneInQueue
<1>. QED BY <1>1, <1>2

\* Taking the head removes that event and no other.
LEMMA Taking ==
  ASSUME TypeOK, NEW e \in EventTypes, TakeEvent(e)
  PROVE  /\ events' \in Seq(EventTypes) /\ Len(events') <= MaxEvents
         /\ InQueue' => InQueue
         /\ e # NewFrame => (InQueue => InQueue')
         /\ OneInQueue => OneInQueue'
         /\ e = NewFrame => InQueue /\ (OneInQueue => ~InQueue')
<1>1. /\ events \in Seq(EventTypes) /\ Len(events) <= MaxEvents
      /\ events # <<>> /\ events' = Tail(events) /\ events[1] = e
  BY DEF TypeOK, TakeEvent
<1>2. /\ events' \in Seq(EventTypes)
      /\ Len(events) \in Nat /\ Len(events) > 0 /\ Len(events') = Len(events) - 1
      /\ \A i \in 1..Len(events') : events'[i] = events[i + 1]
  BY <1>1
<1>3. InQueue' => InQueue
  BY <1>2 DEF InQueue
<1>4. e # NewFrame => (InQueue => InQueue')
  <2>. SUFFICES ASSUME e # NewFrame, NEW i \in 1..Len(events), events[i] = NewFrame
                PROVE  InQueue'
    BY DEF InQueue
  <2>1. i - 1 \in 1..Len(events') /\ (i - 1) + 1 = i
    BY <1>1, <1>2
  <2>. QED BY <1>2, <2>1 DEF InQueue
<1>5. OneInQueue => OneInQueue'
  <2>. SUFFICES ASSUME OneInQueue,
                       NEW i \in 1..Len(events'), NEW j \in 1..Len(events'),
                       events'[i] = NewFrame, events'[j] = NewFrame
                PROVE  i = j
    BY DEF OneInQueue
  <2>1. /\ i + 1 \in 1..Len(events) /\ j + 1 \in 1..Len(events)
        /\ events[i + 1] = NewFrame /\ events[j + 1] = NewFrame
    BY <1>2
  <2>2. i + 1 = j + 1
    BY <2>1 DEF OneInQueue
  <2>. QED BY <1>2, <2>2
<1>6. e = NewFrame => InQueue /\ (OneInQueue => ~InQueue')
  <2>1. e = NewFrame => InQueue
    BY <1>1, <1>2 DEF InQueue
  <2>. SUFFICES ASSUME e = NewFrame, OneInQueue,
                       NEW i \in 1..Len(events'), events'[i] = NewFrame
                PROVE  FALSE
    BY <2>1 DEF InQueue
  <2>2. i + 1 \in 1..Len(events) /\ events[i + 1] = NewFrame /\ 1 \in 1..Len(events)
    BY <1>2
  <2>3. i + 1 = 1
    BY <1>1, <2>2 DEF OneInQueue
  <2>. QED BY <1>2, <2>3
<1>. QED BY <1>1, <1>2, <1>3, <1>4, <1>5, <1>6, PipelineAssumption

----------------------------------------------------------------------------
(* Every variable keeps its type, and the queue its capacity. *)
THEOREM Typing == Spec => []TypeOK
<1>. USE PipelineAssumption
     DEF bufferVars, streamLocals, streamVars, mainLocals, mainVars, envVars
<1>1. PipelineInit => TypeOK
  <2>. SUFFICES ASSUME PipelineInit
                PROVE  TypeOK
    OBVIOUS
  <2>1. /\ rendering_frame_consumed \in BOOLEAN /\ interrupted \in BOOLEAN
        /\ waiting \in BOOLEAN /\ skipped \in BOOLEAN /\ quit \in BOOLEAN
        /\ userQuit \in BOOLEAN /\ shutDown \in BOOLEAN /\ lost \in BOOLEAN
    BY Zenon DEF PipelineInit, Init
  <2>. QED
    BY <2>1 DEF PipelineInit, Init, TypeOK, BufferTypeOK, Frames, Threads, Free, StreamPcs, MainPcs
<1>2. TypeOK /\ [Next]_vars => TypeOK'
  <2>. SUFFICES ASSUME TypeOK, [Next]_vars
                PROVE  TypeOK'
    OBVIOUS
  <2>. USE DEF TypeOK, BufferTypeOK, Frames, Threads, Free, StreamPcs, MainPcs, Current
  <2>1. CASE ScaleFrame
    BY <2>1 DEF ScaleFrame, StreamGoto
  <2>2. CASE ScalerFails
    BY <2>2 DEF ScalerFails, StreamGoto
  <2>3. CASE LockToOffer
    BY <2>3 DEF LockToOffer, Lock, StreamGoto
  <2>4. CASE WaitForConsumer
    BY <2>4 DEF WaitForConsumer, SleepUntilConsumed, MustWait, StreamGoto
  <2>5. CASE ResumeOffer
    BY <2>5 DEF ResumeOffer, WakeUp, Lock, StreamGoto
  <2>6. CASE OfferDecodedFrame
    <3>1. rendering_frame_consumed' \in BOOLEAN /\ skipped' \in BOOLEAN
      BY <2>6, Zenon DEF OfferDecodedFrame, SwapFrames, MustWait, StreamGoto
    <3>. QED BY <2>6, <3>1 DEF OfferDecodedFrame, SwapFrames, MustWait, StreamGoto
  <2>7. CASE SkipAnnouncement
    BY <2>7 DEF SkipAnnouncement, StreamGoto
  <2>8. CASE AnnounceFrame
    BY <2>8, Pushing DEF AnnounceFrame, StreamGoto, EventTypes, NewFrame, NewOpenCVFrame, StreamStopped, UserQuits
  <2>9. CASE AnnounceOpenCVFrame
    BY <2>9, Pushing DEF AnnounceOpenCVFrame, StreamGoto, EventTypes, NewFrame, NewOpenCVFrame, StreamStopped, UserQuits
  <2>10. CASE CloseDecoder
    BY <2>10 DEF CloseDecoder, StreamGoto
  <2>11. CASE NotifyStopped
    BY <2>11, Pushing DEF NotifyStopped, StreamGoto, EventTypes, NewFrame, NewOpenCVFrame, StreamStopped, UserQuits
  <2>12. CASE HandleNewFrame
    BY <2>12, Taking DEF HandleNewFrame, MainGoto, EventTypes, NewFrame, NewOpenCVFrame, StreamStopped, UserQuits
  <2>13. CASE LockToConsume
    BY <2>13 DEF LockToConsume, Lock, MainGoto
  <2>14. CASE Consume
    <3>1. rendering_frame_consumed' \in BOOLEAN /\ waiting' \in BOOLEAN
      BY <2>14, Zenon DEF Consume, ConsumeRenderedFrame
    <3>. QED BY <2>14, <3>1 DEF Consume, ConsumeRenderedFrame, MainGoto
  <2>15. CASE RenderFrame
    BY <2>15 DEF RenderFrame, Unlock, MainGoto
  <2>16. CASE HandleOpenCVFrame
    BY <2>16, Taking DEF HandleOpenCVFrame, MainGoto, EventTypes, NewFrame, NewOpenCVFrame, StreamStopped, UserQuits
  <2>17. CASE LockToConvert
    BY <2>17 DEF LockToConvert, Lock, MainGoto
  <2>18. CASE ConvertToMat
    BY <2>18 DEF ConvertToMat, Unlock, MainGoto
  <2>19. CASE ConversionAborts
    BY <2>19 DEF ConversionAborts, MainGoto
  <2>20. CASE HandleStop
    BY <2>20, Taking DEF HandleStop, MainGoto, EventTypes, NewFrame, NewOpenCVFrame, StreamStopped, UserQuits
  <2>21. CASE LeaveHeadlessLoop
    BY <2>21 DEF LeaveHeadlessLoop, MainGoto
  <2>22. CASE Interrupt
    <3>1. interrupted' \in BOOLEAN
      BY <2>22, Zenon DEF Interrupt, SetInterrupted, MainGoto
    <3>. QED BY <2>22, <3>1 DEF Interrupt, SetInterrupted, MainGoto
  <2>23. CASE Signal
    <3>1. waiting' \in BOOLEAN
      BY <2>23, Zenon DEF Signal, SignalInterrupt, MainGoto
    <3>. QED BY <2>23, <3>1 DEF Signal, SignalInterrupt, MainGoto
  <2>24. CASE StopServer
    BY <2>24 DEF StopServer, MainGoto
  <2>25. CASE JoinStream
    BY <2>25 DEF JoinStream, MainGoto
  <2>26. CASE ReceiveFrame
    BY <2>26 DEF ReceiveFrame, FillDecodingFrame, StreamGoto
  <2>27. CASE EndOfStream
    BY <2>27 DEF EndOfStream, StreamGoto
  <2>28. CASE UserAsksToQuit
    BY <2>28, Pushing DEF UserAsksToQuit, EventTypes, NewFrame, NewOpenCVFrame, StreamStopped, UserQuits
  <2>29. CASE AgentConnects
    BY <2>29, Pushing DEF AgentConnects, EventTypes, NewFrame, NewOpenCVFrame, StreamStopped, UserQuits
  <2>30. CASE WakeSpuriously
    <3>1. waiting' \in BOOLEAN
      BY <2>30, Zenon DEF WakeSpuriously, SpuriousWakeUp
    <3>. QED BY <2>30, <3>1 DEF WakeSpuriously, SpuriousWakeUp
  <2>31. CASE UNCHANGED vars
    BY <2>31 DEF vars
  <2>. QED
    BY <2>1, <2>2, <2>3, <2>4, <2>5, <2>6, <2>7, <2>8, <2>9, <2>10, <2>11, <2>12, <2>13, <2>14, <2>15, <2>16, <2>17, <2>18, <2>19, <2>20, <2>21, <2>22, <2>23, <2>24, <2>25, <2>26, <2>27, <2>28, <2>29, <2>30, <2>31
    DEF Next, StreamStep, MainStep, Environment, Finished
<1>. QED BY <1>1, <1>2, PTL DEF Spec

----------------------------------------------------------------------------
(* The owner of the mutex is the thread that is inside a critical section. *)
LEMMA MutexInvariance == Spec => []MutexInv
<1>. USE PipelineAssumption
     DEF bufferVars, streamLocals, streamVars, mainLocals, mainVars, envVars
<1>1. PipelineInit => MutexInv
  BY DEF PipelineInit, Init, MutexInv, Free
<1>2. TypeOK /\ MutexInv /\ [Next]_vars => MutexInv'
  <2>. SUFFICES ASSUME TypeOK, MutexInv, [Next]_vars
                PROVE  MutexInv'
    OBVIOUS
  <2>. USE DEF MutexInv, Free
  <2>1. CASE ScaleFrame
    BY <2>1 DEF ScaleFrame, StreamGoto
  <2>2. CASE ScalerFails
    BY <2>2 DEF ScalerFails, StreamGoto
  <2>3. CASE LockToOffer
    BY <2>3 DEF LockToOffer, Lock, StreamGoto
  <2>4. CASE WaitForConsumer
    BY <2>4 DEF WaitForConsumer, SleepUntilConsumed, MustWait, StreamGoto
  <2>5. CASE ResumeOffer
    BY <2>5 DEF ResumeOffer, WakeUp, Lock, StreamGoto
  <2>6. CASE OfferDecodedFrame
    BY <2>6 DEF OfferDecodedFrame, SwapFrames, MustWait, StreamGoto
  <2>7. CASE SkipAnnouncement
    BY <2>7 DEF SkipAnnouncement, StreamGoto
  <2>8. CASE AnnounceFrame
    BY <2>8 DEF AnnounceFrame, StreamGoto
  <2>9. CASE AnnounceOpenCVFrame
    BY <2>9 DEF AnnounceOpenCVFrame, StreamGoto
  <2>10. CASE CloseDecoder
    BY <2>10 DEF CloseDecoder, StreamGoto
  <2>11. CASE NotifyStopped
    BY <2>11 DEF NotifyStopped, StreamGoto
  <2>12. CASE HandleNewFrame
    BY <2>12 DEF HandleNewFrame, MainGoto
  <2>13. CASE LockToConsume
    BY <2>13 DEF LockToConsume, Lock, MainGoto
  <2>14. CASE Consume
    BY <2>14 DEF Consume, ConsumeRenderedFrame, MainGoto
  <2>15. CASE RenderFrame
    BY <2>15 DEF RenderFrame, Unlock, MainGoto
  <2>16. CASE HandleOpenCVFrame
    BY <2>16 DEF HandleOpenCVFrame, MainGoto
  <2>17. CASE LockToConvert
    BY <2>17 DEF LockToConvert, Lock, MainGoto
  <2>18. CASE ConvertToMat
    BY <2>18 DEF ConvertToMat, Unlock, MainGoto
  <2>19. CASE ConversionAborts
    BY <2>19 DEF ConversionAborts, MainGoto
  <2>20. CASE HandleStop
    BY <2>20 DEF HandleStop, MainGoto
  <2>21. CASE LeaveHeadlessLoop
    BY <2>21 DEF LeaveHeadlessLoop, MainGoto
  <2>22. CASE Interrupt
    BY <2>22 DEF Interrupt, SetInterrupted, MainGoto
  <2>23. CASE Signal
    BY <2>23 DEF Signal, SignalInterrupt, MainGoto
  <2>24. CASE StopServer
    BY <2>24 DEF StopServer, MainGoto
  <2>25. CASE JoinStream
    BY <2>25 DEF JoinStream, MainGoto
  <2>26. CASE ReceiveFrame
    BY <2>26 DEF ReceiveFrame, FillDecodingFrame, StreamGoto
  <2>27. CASE EndOfStream
    BY <2>27 DEF EndOfStream, StreamGoto
  <2>28. CASE UserAsksToQuit
    BY <2>28 DEF UserAsksToQuit
  <2>29. CASE AgentConnects
    BY <2>29 DEF AgentConnects
  <2>30. CASE WakeSpuriously
    BY <2>30 DEF WakeSpuriously, SpuriousWakeUp
  <2>31. CASE UNCHANGED vars
    BY <2>31 DEF vars
  <2>. QED
    BY <2>1, <2>2, <2>3, <2>4, <2>5, <2>6, <2>7, <2>8, <2>9, <2>10, <2>11, <2>12, <2>13, <2>14, <2>15, <2>16, <2>17, <2>18, <2>19, <2>20, <2>21, <2>22, <2>23, <2>24, <2>25, <2>26, <2>27, <2>28, <2>29, <2>30, <2>31
    DEF Next, StreamStep, MainStep, Environment, Finished
<1>. QED BY <1>1, <1>2, Typing, PTL DEF Spec

----------------------------------------------------------------------------
(* The rendering frame is the one offered last, the decoding frame the one in progress. *)
LEMMA ContentInvariance == Spec => []ContentInv
<1>. USE PipelineAssumption
     DEF bufferVars, streamLocals, streamVars, mainLocals, mainVars, envVars
<1>1. PipelineInit => ContentInv
  BY DEF PipelineInit, Init, ContentInv, Frames
<1>2. TypeOK /\ MutexInv /\ ContentInv /\ [Next]_vars => ContentInv'
  <2>. SUFFICES ASSUME TypeOK, MutexInv, ContentInv, [Next]_vars
                PROVE  ContentInv'
    OBVIOUS
  <2>. USE DEF TypeOK, BufferTypeOK, MutexInv, ContentInv, Frames, Free, Current
  <2>1. CASE ScaleFrame
    BY <2>1 DEF ScaleFrame, StreamGoto
  <2>2. CASE ScalerFails
    BY <2>2 DEF ScalerFails, StreamGoto
  <2>3. CASE LockToOffer
    BY <2>3 DEF LockToOffer, Lock, StreamGoto
  <2>4. CASE WaitForConsumer
    BY <2>4 DEF WaitForConsumer, SleepUntilConsumed, MustWait, StreamGoto
  <2>5. CASE ResumeOffer
    BY <2>5 DEF ResumeOffer, WakeUp, Lock, StreamGoto
  <2>6. CASE OfferDecodedFrame
    BY <2>6 DEF OfferDecodedFrame, SwapFrames, MustWait, StreamGoto
  <2>7. CASE SkipAnnouncement
    BY <2>7 DEF SkipAnnouncement, StreamGoto
  <2>8. CASE AnnounceFrame
    BY <2>8 DEF AnnounceFrame, StreamGoto
  <2>9. CASE AnnounceOpenCVFrame
    BY <2>9 DEF AnnounceOpenCVFrame, StreamGoto
  <2>10. CASE CloseDecoder
    BY <2>10 DEF CloseDecoder, StreamGoto
  <2>11. CASE NotifyStopped
    BY <2>11 DEF NotifyStopped, StreamGoto
  <2>12. CASE HandleNewFrame
    BY <2>12 DEF HandleNewFrame, MainGoto
  <2>13. CASE LockToConsume
    BY <2>13 DEF LockToConsume, Lock, MainGoto
  <2>14. CASE Consume
    BY <2>14 DEF Consume, ConsumeRenderedFrame, MainGoto
  <2>15. CASE RenderFrame
    BY <2>15 DEF RenderFrame, Unlock, MainGoto
  <2>16. CASE HandleOpenCVFrame
    BY <2>16 DEF HandleOpenCVFrame, MainGoto
  <2>17. CASE LockToConvert
    BY <2>17 DEF LockToConvert, Lock, MainGoto
  <2>18. CASE ConvertToMat
    BY <2>18 DEF ConvertToMat, Unlock, MainGoto
  <2>19. CASE ConversionAborts
    BY <2>19 DEF ConversionAborts, MainGoto
  <2>20. CASE HandleStop
    BY <2>20 DEF HandleStop, MainGoto
  <2>21. CASE LeaveHeadlessLoop
    BY <2>21 DEF LeaveHeadlessLoop, MainGoto
  <2>22. CASE Interrupt
    BY <2>22 DEF Interrupt, SetInterrupted, MainGoto
  <2>23. CASE Signal
    BY <2>23 DEF Signal, SignalInterrupt, MainGoto
  <2>24. CASE StopServer
    BY <2>24 DEF StopServer, MainGoto
  <2>25. CASE JoinStream
    BY <2>25 DEF JoinStream, MainGoto
  <2>26. CASE ReceiveFrame
    BY <2>26 DEF ReceiveFrame, FillDecodingFrame, StreamGoto
  <2>27. CASE EndOfStream
    BY <2>27 DEF EndOfStream, StreamGoto
  <2>28. CASE UserAsksToQuit
    BY <2>28 DEF UserAsksToQuit
  <2>29. CASE AgentConnects
    BY <2>29 DEF AgentConnects
  <2>30. CASE WakeSpuriously
    BY <2>30 DEF WakeSpuriously, SpuriousWakeUp
  <2>31. CASE UNCHANGED vars
    BY <2>31 DEF vars
  <2>. QED
    BY <2>1, <2>2, <2>3, <2>4, <2>5, <2>6, <2>7, <2>8, <2>9, <2>10, <2>11, <2>12, <2>13, <2>14, <2>15, <2>16, <2>17, <2>18, <2>19, <2>20, <2>21, <2>22, <2>23, <2>24, <2>25, <2>26, <2>27, <2>28, <2>29, <2>30, <2>31
    DEF Next, StreamStep, MainStep, Environment, Finished
<1>. QED BY <1>1, <1>2, Typing, MutexInvariance, PTL DEF Spec

----------------------------------------------------------------------------
(* There is one announcement of a pending frame, and none of a consumed one. *)
LEMMA AnnouncementInvariance == Spec => []AnnouncementInv
<1>. USE PipelineAssumption
     DEF bufferVars, streamLocals, streamVars, mainLocals, mainVars, envVars
<1>1. PipelineInit => AnnouncementInv
  BY DEF PipelineInit, Init, AnnouncementInv, InQueue, OneInQueue, InStream, InMain
<1>2. TypeOK /\ AnnouncementInv /\ [Next]_vars => AnnouncementInv'
  <2>. SUFFICES ASSUME TypeOK, AnnouncementInv, [Next]_vars
                PROVE  AnnouncementInv'
    OBVIOUS
  <2>. USE DEF AnnouncementInv, InStream, InMain
  <2>0. events' = events => (InQueue' <=> InQueue) /\ (OneInQueue' <=> OneInQueue)
    BY DEF InQueue, OneInQueue
  <2>1. CASE ScaleFrame
    BY <2>1, <2>0 DEF ScaleFrame, StreamGoto
  <2>2. CASE ScalerFails
    BY <2>2, <2>0 DEF ScalerFails, StreamGoto
  <2>3. CASE LockToOffer
    BY <2>3, <2>0 DEF LockToOffer, Lock, StreamGoto
  <2>4. CASE WaitForConsumer
    BY <2>4, <2>0 DEF WaitForConsumer, SleepUntilConsumed, MustWait, StreamGoto
  <2>5. CASE ResumeOffer
    BY <2>5, <2>0 DEF ResumeOffer, WakeUp, Lock, StreamGoto
  <2>6. CASE OfferDecodedFrame
    BY <2>6, <2>0 DEF OfferDecodedFrame, SwapFrames, MustWait, StreamGoto
  <2>7. CASE SkipAnnouncement
    BY <2>7, <2>0 DEF SkipAnnouncement, StreamGoto
  <2>8. CASE AnnounceFrame
    BY <2>8, Pushing DEF AnnounceFrame, StreamGoto, EventTypes, NewFrame, NewOpenCVFrame, StreamStopped, UserQuits
  <2>9. CASE AnnounceOpenCVFrame
    BY <2>9, Pushing DEF AnnounceOpenCVFrame, StreamGoto, EventTypes, NewFrame, NewOpenCVFrame, StreamStopped, UserQuits
  <2>10. CASE CloseDecoder
    BY <2>10, <2>0 DEF CloseDecoder, StreamGoto
  <2>11. CASE NotifyStopped
    BY <2>11, Pushing DEF NotifyStopped, StreamGoto, EventTypes, NewFrame, NewOpenCVFrame, StreamStopped, UserQuits
  <2>12. CASE HandleNewFrame
    BY <2>12, Taking DEF HandleNewFrame, MainGoto, EventTypes, NewFrame, NewOpenCVFrame, StreamStopped, UserQuits
  <2>13. CASE LockToConsume
    BY <2>13, <2>0 DEF LockToConsume, Lock, MainGoto
  <2>14. CASE Consume
    BY <2>14, <2>0 DEF Consume, ConsumeRenderedFrame, MainGoto
  <2>15. CASE RenderFrame
    BY <2>15, <2>0 DEF RenderFrame, Unlock, MainGoto
  <2>16. CASE HandleOpenCVFrame
    BY <2>16, Taking DEF HandleOpenCVFrame, MainGoto, EventTypes, NewFrame, NewOpenCVFrame, StreamStopped, UserQuits
  <2>17. CASE LockToConvert
    BY <2>17, <2>0 DEF LockToConvert, Lock, MainGoto
  <2>18. CASE ConvertToMat
    BY <2>18, <2>0 DEF ConvertToMat, Unlock, MainGoto
  <2>19. CASE ConversionAborts
    BY <2>19, <2>0 DEF ConversionAborts, MainGoto
  <2>20. CASE HandleStop
    BY <2>20, Taking DEF HandleStop, MainGoto, EventTypes, NewFrame, NewOpenCVFrame, StreamStopped, UserQuits
  <2>21. CASE LeaveHeadlessLoop
    BY <2>21, <2>0 DEF LeaveHeadlessLoop, MainGoto
  <2>22. CASE Interrupt
    BY <2>22, <2>0 DEF Interrupt, SetInterrupted, MainGoto
  <2>23. CASE Signal
    BY <2>23, <2>0 DEF Signal, SignalInterrupt, MainGoto
  <2>24. CASE StopServer
    BY <2>24, <2>0 DEF StopServer, MainGoto
  <2>25. CASE JoinStream
    BY <2>25, <2>0 DEF JoinStream, MainGoto
  <2>26. CASE ReceiveFrame
    BY <2>26, <2>0 DEF ReceiveFrame, FillDecodingFrame, StreamGoto
  <2>27. CASE EndOfStream
    BY <2>27, <2>0 DEF EndOfStream, StreamGoto
  <2>28. CASE UserAsksToQuit
    BY <2>28, Pushing DEF UserAsksToQuit, EventTypes, NewFrame, NewOpenCVFrame, StreamStopped, UserQuits
  <2>29. CASE AgentConnects
    BY <2>29, Pushing DEF AgentConnects, EventTypes, NewFrame, NewOpenCVFrame, StreamStopped, UserQuits
  <2>30. CASE WakeSpuriously
    BY <2>30, <2>0 DEF WakeSpuriously, SpuriousWakeUp
  <2>31. CASE UNCHANGED vars
    BY <2>31, <2>0 DEF vars
  <2>. QED
    BY <2>1, <2>2, <2>3, <2>4, <2>5, <2>6, <2>7, <2>8, <2>9, <2>10, <2>11, <2>12, <2>13, <2>14, <2>15, <2>16, <2>17, <2>18, <2>19, <2>20, <2>21, <2>22, <2>23, <2>24, <2>25, <2>26, <2>27, <2>28, <2>29, <2>30, <2>31
    DEF Next, StreamStep, MainStep, Environment, Finished
<1>. QED BY <1>1, <1>2, Typing, PTL DEF Spec

----------------------------------------------------------------------------
(* The frames taken, skipped and rendered, and the image for the agents. *)
LEMMA NumberInvariance == Spec => []NumberInv
<1>. USE PipelineAssumption
     DEF bufferVars, streamLocals, streamVars, mainLocals, mainVars, envVars
<1>1. PipelineInit => NumberInv
  BY DEF PipelineInit, Init, NumberInv, FramesAccountedFor, AbortsOnlyAtTheEdges, RgbFreed
<1>2. TypeOK /\ ContentInv /\ AnnouncementInv /\ NumberInv /\ [Next]_vars => NumberInv'
  <2>. SUFFICES ASSUME TypeOK, ContentInv, AnnouncementInv, NumberInv, [Next]_vars
                PROVE  NumberInv'
    OBVIOUS
  <2>. USE DEF TypeOK, BufferTypeOK, ContentInv, AnnouncementInv, NumberInv, InMain, Frames, Free, Current,
              FramesAccountedFor, AbortsOnlyAtTheEdges, RgbFreed
  <2>1. CASE ScaleFrame
    BY <2>1 DEF ScaleFrame, StreamGoto
  <2>2. CASE ScalerFails
    BY <2>2 DEF ScalerFails, StreamGoto
  <2>3. CASE LockToOffer
    BY <2>3 DEF LockToOffer, Lock, StreamGoto
  <2>4. CASE WaitForConsumer
    BY <2>4 DEF WaitForConsumer, SleepUntilConsumed, MustWait, StreamGoto
  <2>5. CASE ResumeOffer
    BY <2>5 DEF ResumeOffer, WakeUp, Lock, StreamGoto
  <2>6. CASE OfferDecodedFrame
    BY <2>6 DEF OfferDecodedFrame, SwapFrames, MustWait, StreamGoto
  <2>7. CASE SkipAnnouncement
    BY <2>7 DEF SkipAnnouncement, StreamGoto
  <2>8. CASE AnnounceFrame
    BY <2>8 DEF AnnounceFrame, StreamGoto
  <2>9. CASE AnnounceOpenCVFrame
    BY <2>9 DEF AnnounceOpenCVFrame, StreamGoto
  <2>10. CASE CloseDecoder
    BY <2>10 DEF CloseDecoder, StreamGoto
  <2>11. CASE NotifyStopped
    BY <2>11 DEF NotifyStopped, StreamGoto
  <2>12. CASE HandleNewFrame
    BY <2>12 DEF HandleNewFrame, MainGoto
  <2>13. CASE LockToConsume
    BY <2>13 DEF LockToConsume, Lock, MainGoto
  <2>14. CASE Consume
    BY <2>14 DEF Consume, ConsumeRenderedFrame, MainGoto
  <2>15. CASE RenderFrame
    BY <2>15 DEF RenderFrame, Unlock, MainGoto
  <2>16. CASE HandleOpenCVFrame
    BY <2>16 DEF HandleOpenCVFrame, MainGoto
  <2>17. CASE LockToConvert
    BY <2>17 DEF LockToConvert, Lock, MainGoto
  <2>18. CASE ConvertToMat
    BY <2>18 DEF ConvertToMat, Unlock, MainGoto
  <2>19. CASE ConversionAborts
    BY <2>19 DEF ConversionAborts, MainGoto
  <2>20. CASE HandleStop
    BY <2>20 DEF HandleStop, MainGoto
  <2>21. CASE LeaveHeadlessLoop
    BY <2>21 DEF LeaveHeadlessLoop, MainGoto
  <2>22. CASE Interrupt
    BY <2>22 DEF Interrupt, SetInterrupted, MainGoto
  <2>23. CASE Signal
    BY <2>23 DEF Signal, SignalInterrupt, MainGoto
  <2>24. CASE StopServer
    BY <2>24 DEF StopServer, MainGoto
  <2>25. CASE JoinStream
    BY <2>25 DEF JoinStream, MainGoto
  <2>26. CASE ReceiveFrame
    BY <2>26 DEF ReceiveFrame, FillDecodingFrame, StreamGoto
  <2>27. CASE EndOfStream
    BY <2>27 DEF EndOfStream, StreamGoto
  <2>28. CASE UserAsksToQuit
    BY <2>28 DEF UserAsksToQuit
  <2>29. CASE AgentConnects
    BY <2>29 DEF AgentConnects
  <2>30. CASE WakeSpuriously
    BY <2>30 DEF WakeSpuriously, SpuriousWakeUp
  <2>31. CASE UNCHANGED vars
    BY <2>31 DEF vars
  <2>. QED
    BY <2>1, <2>2, <2>3, <2>4, <2>5, <2>6, <2>7, <2>8, <2>9, <2>10, <2>11, <2>12, <2>13, <2>14, <2>15, <2>16, <2>17, <2>18, <2>19, <2>20, <2>21, <2>22, <2>23, <2>24, <2>25, <2>26, <2>27, <2>28, <2>29, <2>30, <2>31
    DEF Next, StreamStep, MainStep, Environment, Finished
<1>. QED BY <1>1, <1>2, Typing, ContentInvariance, AnnouncementInvariance, PTL DEF Spec

----------------------------------------------------------------------------
(* The properties the runs check. *)

\* assert(!rendering_frame_consumed) at video_buffer.cpp:97 never fails.
THEOREM AssertionNeverFails == Spec => []AssertionHolds
<1>1. AnnouncementInv => AssertionHolds
  BY DEF AnnouncementInv, AssertionHolds, InMain
<1>. QED BY <1>1, AnnouncementInvariance, PTL

\* A frame that waits for the main thread is announced, or SDL refused to.
THEOREM PendingIsAnnounced == Spec => []PendingFrameAnnounced
<1>1. TypeOK /\ AnnouncementInv => PendingFrameAnnounced
  BY DEF TypeOK, AnnouncementInv, PendingFrameAnnounced, Announced, InMain, InStream, InQueue
<1>. QED BY <1>1, Typing, AnnouncementInvariance, PTL

\* While it is rendered, a frame is the latest one and the decoder leaves it alone.
THEOREM RenderingIsSafe == Spec => []RendersLatestFrame
<1>1. ContentInv => RendersLatestFrame
  BY DEF ContentInv, RendersLatestFrame
<1>. QED BY <1>1, ContentInvariance, PTL

\* Frames are rendered, counted as skipped, or pending.
THEOREM NoFrameUncounted == Spec => []FramesAccountedFor
<1>1. NumberInv => FramesAccountedFor
  BY DEF NumberInv
<1>. QED BY <1>1, NumberInvariance, PTL

\* An agent's image is at least as recent as the picture on the screen.
THEOREM ImageIsRecent == Spec => []ImageNotOlderThanScreen
<1>1. TypeOK /\ NumberInv => ImageNotOlderThanScreen
  BY DEF TypeOK, BufferTypeOK, NumberInv, ImageNotOlderThanScreen
<1>. QED BY <1>1, Typing, NumberInvariance, PTL

\* A conversion kills the process only before the first frame is displayed or
\* after the decoder is closed.
THEOREM AbortsAtTheEdges == Spec => []AbortsOnlyAtTheEdges
<1>1. NumberInv => AbortsOnlyAtTheEdges
  BY DEF NumberInv
<1>. QED BY <1>1, NumberInvariance, PTL

\* Frames are consumed in order and once; while offers block, none is left out.
THEOREM InOrder == Spec => ConsumedInOrder
<1>1. /\ TypeOK /\ ContentInv /\ AnnouncementInv /\ NumberInv
      /\ Consume
      => /\ taken' > taken
         /\ render_expired_frames /\ ~interrupted => taken' = taken + 1
  BY DEF TypeOK, BufferTypeOK, ContentInv, AnnouncementInv, InMain, NumberInv, Consume,
         MainGoto, ConsumeRenderedFrame
<1>. QED
  BY <1>1, Typing, ContentInvariance, AnnouncementInvariance, NumberInvariance, PTL
  DEF Spec, ConsumedInOrder

\* The pipeline implements the one-frame mailbox.
THEOREM MailboxImplemented == Spec => ImplementsMailbox
<1>. USE DEF Mailbox!mailboxVars, bufferVars, streamLocals, streamVars, mainLocals,
             mainVars, envVars
<1>1. PipelineInit => Mailbox!MailboxInit
  BY DEF PipelineInit, Init, Mailbox!MailboxInit
<1>2. TypeOK /\ ContentInv /\ AnnouncementInv /\ NumberInv /\ [Next]_vars
      => [Mailbox!MailboxNext]_Mailbox!mailboxVars
  <2>. SUFFICES ASSUME TypeOK, ContentInv, AnnouncementInv, NumberInv, [Next]_vars
                PROVE  [Mailbox!MailboxNext]_Mailbox!mailboxVars
    OBVIOUS
  <2>. USE DEF TypeOK, BufferTypeOK, ContentInv, Frames, Current
  <2>1. CASE ScaleFrame
    BY <2>1 DEF ScaleFrame, StreamGoto
  <2>2. CASE ScalerFails
    BY <2>2 DEF ScalerFails, StreamGoto
  <2>3. CASE LockToOffer
    BY <2>3 DEF LockToOffer, Lock, StreamGoto
  <2>4. CASE WaitForConsumer
    BY <2>4 DEF WaitForConsumer, SleepUntilConsumed, MustWait, StreamGoto
  <2>5. CASE ResumeOffer
    BY <2>5 DEF ResumeOffer, WakeUp, Lock, StreamGoto
  <2>6. CASE OfferDecodedFrame
    <3>1. Mailbox!Offer
      BY <2>6 DEF OfferDecodedFrame, SwapFrames, MustWait, StreamGoto, Mailbox!Offer
    <3>. QED BY <3>1 DEF Mailbox!MailboxNext
  <2>7. CASE SkipAnnouncement
    BY <2>7 DEF SkipAnnouncement, StreamGoto
  <2>8. CASE AnnounceFrame
    BY <2>8 DEF AnnounceFrame, StreamGoto
  <2>9. CASE AnnounceOpenCVFrame
    BY <2>9 DEF AnnounceOpenCVFrame, StreamGoto
  <2>10. CASE CloseDecoder
    BY <2>10 DEF CloseDecoder, StreamGoto
  <2>11. CASE NotifyStopped
    BY <2>11 DEF NotifyStopped, StreamGoto
  <2>12. CASE HandleNewFrame
    BY <2>12 DEF HandleNewFrame, MainGoto
  <2>13. CASE LockToConsume
    BY <2>13 DEF LockToConsume, Lock, MainGoto
  <2>14. CASE Consume
    <3>1. Mailbox!Take
      BY <2>14 DEF Consume, ConsumeRenderedFrame, MainGoto, AnnouncementInv, InMain, NumberInv,
               Mailbox!Take
    <3>. QED BY <3>1 DEF Mailbox!MailboxNext
  <2>15. CASE RenderFrame
    BY <2>15 DEF RenderFrame, Unlock, MainGoto
  <2>16. CASE HandleOpenCVFrame
    BY <2>16 DEF HandleOpenCVFrame, MainGoto
  <2>17. CASE LockToConvert
    BY <2>17 DEF LockToConvert, Lock, MainGoto
  <2>18. CASE ConvertToMat
    BY <2>18 DEF ConvertToMat, Unlock, MainGoto
  <2>19. CASE ConversionAborts
    BY <2>19 DEF ConversionAborts, MainGoto
  <2>20. CASE HandleStop
    BY <2>20 DEF HandleStop, MainGoto
  <2>21. CASE LeaveHeadlessLoop
    BY <2>21 DEF LeaveHeadlessLoop, MainGoto
  <2>22. CASE Interrupt
    <3>1. CASE render_expired_frames
      <4>1. Mailbox!Close
        BY <2>22, <3>1 DEF Interrupt, SetInterrupted, MainGoto, Mailbox!Close
      <4>. QED BY <4>1 DEF Mailbox!MailboxNext
    <3>2. CASE ~render_expired_frames
      BY <2>22, <3>2 DEF Interrupt, MainGoto
    <3>. QED BY <3>1, <3>2
  <2>23. CASE Signal
    BY <2>23 DEF Signal, SignalInterrupt, MainGoto
  <2>24. CASE StopServer
    BY <2>24 DEF StopServer, MainGoto
  <2>25. CASE JoinStream
    BY <2>25 DEF JoinStream, MainGoto
  <2>26. CASE ReceiveFrame
    BY <2>26 DEF ReceiveFrame, FillDecodingFrame, StreamGoto
  <2>27. CASE EndOfStream
    BY <2>27 DEF EndOfStream, StreamGoto
  <2>28. CASE UserAsksToQuit
    BY <2>28 DEF UserAsksToQuit
  <2>29. CASE AgentConnects
    BY <2>29 DEF AgentConnects
  <2>30. CASE WakeSpuriously
    BY <2>30 DEF WakeSpuriously, SpuriousWakeUp
  <2>31. CASE UNCHANGED vars
    BY <2>31 DEF vars
  <2>. QED
    BY <2>1, <2>2, <2>3, <2>4, <2>5, <2>6, <2>7, <2>8, <2>9, <2>10, <2>11, <2>12, <2>13, <2>14, <2>15, <2>16, <2>17, <2>18, <2>19, <2>20, <2>21, <2>22, <2>23, <2>24, <2>25, <2>26, <2>27, <2>28, <2>29, <2>30, <2>31
    DEF Next, StreamStep, MainStep, Environment, Finished
<1>. QED
  BY <1>1, <1>2, Typing, ContentInvariance, AnnouncementInvariance, NumberInvariance, PTL
  DEF Spec, ImplementsMailbox, Mailbox!MailboxSpec
============================================================================
