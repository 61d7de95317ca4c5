---------------------------- MODULE VideoBuffer ----------------------------
(***************************************************************************)
(* The one-frame mailbox between the decoder, which runs on the stream     *)
(* thread, and the main thread, which renders: src/video/video_buffer.cpp. *)
(*                                                                         *)
(* The two AVFrames are swapped, never copied: decoding_frame is written   *)
(* by the decoder with no lock held, rendering_frame is read by the main   *)
(* thread under the mutex.  With render_expired_frames the decoder waits   *)
(* until the previous frame is consumed; without it the previous frame is  *)
(* overwritten and counted as skipped.                                     *)
(*                                                                         *)
(* This module is the state of a VideoBuffer and the critical sections of  *)
(* its operations; VideoPipeline puts the two threads around them.         *)
(***************************************************************************)
EXTENDS Naturals

VARIABLES
  render_expired_frames,     \* the option --render-expired-frames
  decoding_frame,            \* which of the two AVFrames the decoder writes
  rendering_frame,           \* which one the renderer reads
  pixels,                    \* the number of the frame each AVFrame holds, 0 for none
  rendering_frame_consumed,
  interrupted,
  mutex,                     \* the thread that owns vb->mutex, or Free
  waiting,                   \* the stream thread sleeps on rendering_frame_consumed_cond
  nr_skipped,                \* calls of fps_counter->AddSkippedFrame()
  nr_rendered,               \* calls of fps_counter->AddRenderedFrame()
  offered,                   \* history: frames offered so far
  taken                      \* history: number of the frame consumed last

bufferVars == <<render_expired_frames, decoding_frame, rendering_frame, pixels,
                rendering_frame_consumed, interrupted, mutex, waiting, nr_skipped,
                nr_rendered, offered, taken>>

Frames == {"A", "B"}         \* the two av_frame_alloc()s
Threads == {"stream", "main"}
Free == "free"

\* The frame the decoder works on: the successor of the one offered last.
Current == offered + 1

Init ==
  /\ render_expired_frames \in BOOLEAN
  /\ decoding_frame = "A"
  /\ rendering_frame = "B"
  /\ pixels = [f \in Frames |-> 0]
  /\ rendering_frame_consumed = TRUE   \* there is initially no rendering frame
  /\ interrupted = FALSE
  /\ mutex = Free
  /\ waiting = FALSE
  /\ nr_skipped = 0
  /\ nr_rendered = 0
  /\ offered = 0
  /\ taken = 0

\* The mutex alone: a thread that takes it or leaves it.  SDL mutexes are
\* recursive, so the second lock of ConvertToMat changes nothing.
Lock(t) ==
  /\ mutex = Free
  /\ mutex' = t
  /\ UNCHANGED <<render_expired_frames, decoding_frame, rendering_frame, pixels,
                 rendering_frame_consumed, interrupted, waiting, nr_skipped,
                 nr_rendered, offered, taken>>

Unlock ==
  /\ mutex' = Free
  /\ UNCHANGED <<render_expired_frames, decoding_frame, rendering_frame, pixels,
                 rendering_frame_consumed, interrupted, waiting, nr_skipped,
                 nr_rendered, offered, taken>>

\* avcodec_receive_frame() fills decoding_frame; no lock is held.
FillDecodingFrame ==
  /\ pixels' = [pixels EXCEPT ![decoding_frame] = Current]
  /\ UNCHANGED <<render_expired_frames, decoding_frame, rendering_frame,
                 rendering_frame_consumed, interrupted, mutex, waiting, nr_skipped,
                 nr_rendered, offered, taken>>

----------------------------------------------------------------------------
(* OfferDecodedFrame, called by the stream thread. *)

\* A bug: the wait is forgotten.
BugMustWait == FALSE

\* The condition of the while loop.
MustWait == render_expired_frames /\ ~rendering_frame_consumed /\ ~interrupted

\* cond_wait: releases the mutex and sleeps in one step.
SleepUntilConsumed ==
  /\ MustWait
  /\ waiting' = TRUE
  /\ mutex' = Free
  /\ UNCHANGED <<render_expired_frames, decoding_frame, rendering_frame, pixels,
                 rendering_frame_consumed, interrupted, nr_skipped, nr_rendered,
                 offered, taken>>

\* cond_wait returns: the sleeper was signalled, and owns the mutex again.
WakeUp ==
  /\ ~waiting
  /\ Lock("stream")

\* A condition variable may wake a sleeper that nobody signalled.
SpuriousWakeUp ==
  /\ waiting
  /\ waiting' = FALSE
  /\ UNCHANGED <<render_expired_frames, decoding_frame, rendering_frame, pixels,
                 rendering_frame_consumed, interrupted, mutex, nr_skipped,
                 nr_rendered, offered, taken>>

\* A bug: the two frames are not swapped.
BugNoSwap ==
  /\ ~MustWait
  /\ rendering_frame_consumed' = FALSE
  /\ offered' = offered + 1
  /\ mutex' = Free
  /\ UNCHANGED <<render_expired_frames, decoding_frame, rendering_frame, pixels,
                 interrupted, waiting, nr_skipped, nr_rendered, taken>>

\* The rest of the critical section: swap, hand the frame over and unlock.
\* *previous_frame_skipped is ~rendering_frame_consumed at this step.
SwapFrames ==
  /\ ~MustWait
  /\ nr_skipped' = IF ~render_expired_frames /\ ~rendering_frame_consumed
                   THEN nr_skipped + 1 ELSE nr_skipped
  /\ decoding_frame' = rendering_frame
  /\ rendering_frame' = decoding_frame
  /\ rendering_frame_consumed' = FALSE
  /\ offered' = offered + 1
  /\ mutex' = Free
  /\ UNCHANGED <<render_expired_frames, pixels, interrupted, waiting, nr_rendered,
                 taken>>

----------------------------------------------------------------------------
(* ConsumeRenderedFrame and Interrupt, called by the main thread. *)

\* Called with the mutex held; the caller renders the frame before unlocking.
ConsumeRenderedFrame ==
  /\ rendering_frame_consumed' = TRUE
  /\ nr_rendered' = nr_rendered + 1
  /\ waiting' = (waiting /\ ~render_expired_frames)   \* cond_signal
  /\ taken' = pixels[rendering_frame]
  /\ UNCHANGED <<render_expired_frames, decoding_frame, rendering_frame, pixels,
                 interrupted, mutex, nr_skipped, offered>>

\* Interrupt, first half: the flag is set between a lock and an unlock that
\* nothing separates, so the critical section is one step.
SetInterrupted ==
  /\ render_expired_frames
  /\ mutex = Free
  /\ interrupted' = TRUE
  /\ UNCHANGED <<render_expired_frames, decoding_frame, rendering_frame, pixels,
                 rendering_frame_consumed, mutex, waiting, nr_skipped, nr_rendered,
                 offered, taken>>

\* A bug: the sleeper is not woken.
BugNoSignal == UNCHANGED bufferVars

\* Interrupt, second half: the signal is sent after the unlock.
SignalInterrupt ==
  /\ waiting' = FALSE
  /\ UNCHANGED <<render_expired_frames, decoding_frame, rendering_frame, pixels,
                 rendering_frame_consumed, interrupted, mutex, nr_skipped,
                 nr_rendered, offered, taken>>

BufferTypeOK ==
  /\ render_expired_frames \in BOOLEAN
  /\ decoding_frame \in Frames
  /\ rendering_frame \in Frames
  /\ pixels \in [Frames -> Nat]
  /\ rendering_frame_consumed \in BOOLEAN
  /\ interrupted \in BOOLEAN
  /\ mutex \in Threads \cup {Free}
  /\ waiting \in BOOLEAN
  /\ nr_skipped \in Nat
  /\ nr_rendered \in Nat
  /\ offered \in Nat
  /\ taken \in Nat
============================================================================
