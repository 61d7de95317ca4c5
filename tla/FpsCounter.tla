----------------------------- MODULE FpsCounter -----------------------------
(***************************************************************************)
(* The frame rate counter: src/video/fps_counter.cpp.  A thread of its own *)
(* prints the rate once per interval; the main thread counts the rendered  *)
(* frames and the stream thread the skipped ones.                          *)
(*                                                                         *)
(* The counts and next_timestamp are written under the mutex, started is   *)
(* an atomic that Start and Stop write without it.  This module is the     *)
(* state, the counter's thread, and the steps of its operations, each as   *)
(* long as no other thread can interfere; UserInterface puts the threads   *)
(* that call them around it.                                               *)
(***************************************************************************)
EXTENDS Naturals

CONSTANTS
  Interval,       \* FPS_COUNTER_INTERVAL_MS, in ticks of the model
  TicksModulus,   \* SDL_GetTicks and next_timestamp wrap here (2^32)
  MaxTicks        \* bound: how long the program runs

\* The program does not run into the last interval before the wrap.
ASSUME TicksAssumption ==
  /\ Interval \in Nat \ {0}
  /\ MaxTicks \in Nat
  /\ TicksModulus \in Nat
  /\ MaxTicks + Interval < TicksModulus

VARIABLES
  fpsPc,             \* where the counter's thread is, "none" before it is created
  fpsMutexFree,      \* the thread does not hold the mutex
  started,           \* the atomic
  fps_interrupted,   \* the field interrupted
  nr_rendered,
  nr_skipped,
  next_timestamp,
  ticks,             \* what SDL_GetTicks returns
  countedAt          \* history: when the frames of the two counts were counted

countVars == <<nr_rendered, nr_skipped, next_timestamp, countedAt>>
fpsVars == <<fpsPc, fpsMutexFree, started, fps_interrupted, countVars, ticks>>

FpsInit ==
  /\ fpsPc = "none"
  /\ fpsMutexFree = TRUE
  /\ started = FALSE
  /\ fps_interrupted = FALSE
  /\ nr_rendered = 0
  /\ nr_skipped = 0
  /\ next_timestamp = 0
  /\ ticks = 0
  /\ countedAt = {}

----------------------------------------------------------------------------
(* CheckIntervalExpired, with now read under the mutex. *)

IntervalExpired == ticks >= next_timestamp

ElapsedSlices == (ticks - next_timestamp) \div Interval + 1

NextTimestamp ==
  IF IntervalExpired
  THEN (next_timestamp + Interval * ElapsedSlices) % TicksModulus
  ELSE next_timestamp

Kept(n) == IF IntervalExpired THEN 0 ELSE n

KeptTimes == IF IntervalExpired THEN {} ELSE countedAt

CheckIntervalExpired ==
  /\ next_timestamp' = NextTimestamp
  /\ nr_rendered' = Kept(nr_rendered)
  /\ nr_skipped' = Kept(nr_skipped)
  /\ countedAt' = KeptTimes

\* AddRenderedFrame and AddSkippedFrame after the test of started: one critical
\* section.
AddRenderedFrame ==
  /\ fpsMutexFree
  /\ next_timestamp' = NextTimestamp
  /\ nr_rendered' = Kept(nr_rendered) + 1
  /\ nr_skipped' = Kept(nr_skipped)
  /\ countedAt' = KeptTimes \cup {ticks}
  /\ UNCHANGED <<fpsPc, fpsMutexFree, started, fps_interrupted, ticks>>

BugAddSkippedFrame ==   \* a bug: the interval is not checked
  /\ fpsMutexFree
  /\ nr_skipped' = nr_skipped + 1
  /\ countedAt' = countedAt \cup {ticks}
  /\ UNCHANGED <<fpsPc, fpsMutexFree, started, fps_interrupted, ticks, next_timestamp,
                 nr_rendered>>

AddSkippedFrame ==
  /\ fpsMutexFree
  /\ next_timestamp' = NextTimestamp
  /\ nr_rendered' = Kept(nr_rendered)
  /\ nr_skipped' = Kept(nr_skipped) + 1
  /\ countedAt' = KeptTimes \cup {ticks}
  /\ UNCHANGED <<fpsPc, fpsMutexFree, started, fps_interrupted, ticks>>

----------------------------------------------------------------------------
(* RunFpsCounter. *)

FpsLock ==
  /\ fpsPc = "lock"
  /\ fpsMutexFree
  /\ fpsPc' = "check"
  /\ fpsMutexFree' = FALSE
  /\ UNCHANGED <<started, fps_interrupted, countVars, ticks>>

\* The conditions of the three loops, read with the mutex held.  What the
\* thread saw of started may be stale when it goes to sleep.
DecideToSleep ==
  /\ fpsPc = "check"
  /\ ~fps_interrupted
  /\ ~started
  /\ fpsPc' = "sleep"
  /\ UNCHANGED <<fpsMutexFree, started, fps_interrupted, countVars, ticks>>

CountInterval ==
  /\ fpsPc = "check"
  /\ ~fps_interrupted
  /\ started
  /\ CheckIntervalExpired
  /\ fpsPc' = IF NextTimestamp > ticks THEN "doze" ELSE "aborted"   \* the assertion
  /\ UNCHANGED <<fpsMutexFree, started, fps_interrupted, ticks>>

EndFps ==
  /\ fpsPc = "check"
  /\ fps_interrupted
  /\ fpsPc' = "ended"
  /\ fpsMutexFree' = TRUE
  /\ UNCHANGED <<started, fps_interrupted, countVars, ticks>>

\* cond_wait and cond_wait_timeout: the mutex is released.
FpsWait ==
  /\ fpsPc \in {"sleep", "doze"}
  /\ fpsPc' = IF fpsPc = "sleep" THEN "asleep" ELSE "dozing"
  /\ fpsMutexFree' = TRUE
  /\ UNCHANGED <<started, fps_interrupted, countVars, ticks>>

\* The wait for the rest of the interval runs out.
TimeOut ==
  /\ fpsPc = "dozing"
  /\ IntervalExpired
  /\ fpsPc' = "lock"
  /\ UNCHANGED <<fpsMutexFree, started, fps_interrupted, countVars, ticks>>

SpuriousWakeUp ==
  /\ fpsPc \in {"asleep", "dozing"}
  /\ fpsPc' = "lock"
  /\ UNCHANGED <<fpsMutexFree, started, fps_interrupted, countVars, ticks>>

FpsStep == FpsLock \/ DecideToSleep \/ CountInterval \/ EndFps \/ FpsWait \/ TimeOut

\* The milliseconds that pass; the model's clock is as coarse as Interval allows.
Tick ==
  /\ ticks < MaxTicks
  /\ ticks' = ticks + 1
  /\ UNCHANGED <<fpsPc, fpsMutexFree, started, fps_interrupted, countVars>>

----------------------------------------------------------------------------
(* Start, Stop and Interrupt, called by the main thread. *)

HasThread == fpsPc # "none"

\* cond_signal: only the counter's thread waits on the condition.
Signalled == IF fpsPc \in {"asleep", "dozing"} THEN "lock" ELSE fpsPc

\* Start, under the mutex.
StartReset ==
  /\ fpsMutexFree
  /\ next_timestamp' = (ticks + Interval) % TicksModulus
  /\ nr_rendered' = 0
  /\ nr_skipped' = 0
  /\ countedAt' = {}
  /\ UNCHANGED <<fpsPc, fpsMutexFree, started, fps_interrupted, ticks>>

\* Start, without the mutex: the atomic, then the signal.
SetStarted(b) ==
  /\ started' = b
  /\ UNCHANGED <<fpsPc, fpsMutexFree, fps_interrupted, countVars, ticks>>

SignalFps ==
  /\ fpsPc' = Signalled
  /\ UNCHANGED <<fpsMutexFree, started, fps_interrupted, countVars, ticks>>

\* SDL_CreateThread, which may fail; then started stays set.
CreateFpsThread ==
  /\ fpsPc' \in {"none", "lock"}
  /\ UNCHANGED <<fpsMutexFree, started, fps_interrupted, countVars, ticks>>

\* Actor::Stop signals under the mutex.  (Nothing reads the counter's stopped.)
SignalUnderMutex ==
  /\ fpsMutexFree
  /\ SignalFps

BugInterrupt == UNCHANGED fpsVars   \* a bug: the flag is not set

SetFpsInterrupted ==
  /\ fpsMutexFree
  /\ fps_interrupted' = TRUE
  /\ UNCHANGED <<fpsPc, fpsMutexFree, started, countVars, ticks>>

FpsPcs == {"none", "lock", "check", "sleep", "asleep", "doze", "dozing", "ended", "aborted"}

FpsTypeOK ==
  /\ fpsPc \in FpsPcs
  /\ fpsMutexFree = (fpsPc \notin {"check", "sleep", "doze", "aborted"})
  /\ started \in BOOLEAN
  /\ fps_interrupted \in BOOLEAN
  /\ nr_rendered \in Nat
  /\ nr_skipped \in Nat
  /\ ticks \in 0..MaxTicks
  /\ next_timestamp \in 0..(MaxTicks + Interval)
  /\ countedAt \subseteq 0..MaxTicks

\* A rate that is printed is the rate of one interval: every frame in the two
\* counts was counted in the interval that ends at next_timestamp, whichever
\* of the three threads closed the one before (fps_counter.cpp:41-53).
CountsOneInterval ==
  \A t \in countedAt : t < next_timestamp /\ next_timestamp <= t + Interval
============================================================================
