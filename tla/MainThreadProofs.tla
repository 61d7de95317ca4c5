-------------------------- MODULE MainThreadProofs --------------------------
(***************************************************************************)
(* The main thread, for every value of the constants.                      *)
(*                                                                         *)
(* The life of the program (IRobotCore), for every width of a long, with   *)
(* and without NDEBUG: the numbers of the command line arrive as they were *)
(* written; nothing is destroyed while a thread uses it; no step uses what *)
(* an option or a failure left out; nothing stays on the device.           *)
(*                                                                         *)
(* Its event loop (UserInterface), for every size of the frames, of the    *)
(* display and of the window: the Screen remembers its window, each input  *)
(* is sent once and in its turn, a printed rate is the rate of one         *)
(* interval, and an assertion fails at the edges only.                     *)
(***************************************************************************)
EXTENDS IRobotCore, UserInterface, TLAPS

(***************************************************************************)
(* The life of the program.                                                *)
(***************************************************************************)


\* What strtol may return.
Longs == LongMin..LongMax

\* More of the same is more.
LEMMA Monotone ==
  ASSUME NEW x \in Int, NEW y \in Int, NEW b \in Nat, x <= y
  PROVE  x * b <= y * b
<1>1. (y - x) * b >= 0
  <2>1. y - x \in Nat
    OBVIOUS
  <2>. QED BY <2>1
<1>2. (y - x) * b = y * b - x * b
  OBVIOUS
<1>. QED BY <1>1, <1>2

\* Division in C by a positive number: it never leaves the side of zero.
LEMMA Truncates ==
  ASSUME NEW a \in Int, NEW b \in Nat \ {0}
  PROVE  /\ Quotient(a, b) \in Int
         /\ a >= 0 => Quotient(a, b) * b <= a /\ a < (Quotient(a, b) + 1) * b
         /\ a < 0  => a <= Quotient(a, b) * b /\ (Quotient(a, b) - 1) * b < a
<1>. DEFINE q == a \div b
            r == a % b
<1>1. q \in Int /\ r \in 0..(b - 1) /\ a = q * b + r
  OBVIOUS
<1>2. Quotient(a, b) = IF a >= 0 \/ r = 0 THEN q ELSE q + 1
  BY DEF Quotient
<1>. HIDE DEF q, r
<1>3. (q + 1) * b = q * b + b /\ (q - 1) * b = q * b - b /\ (q + 1 - 1) * b = q * b
  BY <1>1
<1>. QED BY <1>1, <1>2, <1>3

\* str_util.cpp:115-118: the test before the multiplication refuses a value
\* exactly when the product does not fit a long, whatever the width of a long.
THEOREM SuffixNeverOverflows ==
  ASSUME NEW value \in Longs, NEW mul \in Nat \ {0}
  PROVE  Refused(value, mul) <=> value * mul \notin Longs
<1>1. LongMax \in Nat /\ LongMin \in Int /\ LongMin < 0 /\ Longs = LongMin..LongMax
  BY LongAssumption DEF LongMin, Longs
<1>. DEFINE low == Quotient(LongMin, mul)
            high == Quotient(LongMax, mul)
<1>2. /\ high \in Int /\ high * mul <= LongMax /\ LongMax < (high + 1) * mul
      /\ low \in Int /\ LongMin <= low * mul /\ (low - 1) * mul < LongMin
  BY <1>1, Truncates
<1>3. Refused(value, mul) <=> (value < 0 /\ low > value) \/ (value > 0 /\ high < value)
  BY DEF Refused
<1>4. value \in Int /\ value * mul \in Int
  BY <1>1
<1>. HIDE DEF low, high
<1>5. CASE value > 0
  <2>1. value * mul > 0
    BY <1>4, <1>5
  <2>2. CASE high < value
    BY <1>1, <1>2, <1>3, <1>4, <1>5, <2>2, Monotone, high + 1 <= value
  <2>3. CASE ~(high < value)
    BY <1>1, <1>2, <1>3, <1>4, <1>5, <2>1, <2>3, Monotone, value <= high
  <2>. QED BY <2>2, <2>3
<1>6. CASE value < 0
  <2>1. value * mul < 0
    BY <1>4, <1>6
  <2>2. CASE low > value
    BY <1>1, <1>2, <1>3, <1>4, <1>6, <2>2, Monotone, value <= low - 1
  <2>3. CASE ~(low > value)
    BY <1>1, <1>2, <1>3, <1>4, <1>6, <2>1, <2>3, Monotone, low <= value
  <2>. QED BY <2>2, <2>3
<1>7. CASE value = 0
  BY <1>1, <1>3, <1>4, <1>7
<1>. QED BY <1>4, <1>5, <1>6, <1>7

----------------------------------------------------------------------------
\* A number below the modulus is its own remainder.
LEMMA InRange ==
  ASSUME NEW m \in Nat \ {0}, NEW n \in Int, 0 <= n, n < m
  PROVE  n % m = n
OBVIOUS

\* A number between the limits of a field is stored as it is.
LEMMA StoredAsIs ==
  ASSUME NEW field \in Fields, NEW n \in Least(field)..Greatest(field)
  PROVE  Stored(field, n) = n
<1>1. CASE field \in Position
  <2>1. field \notin Dimension /\ field \notin {"max_fps", "bit_rate", "max_size", "port"}
    BY <1>1 DEF Position, Dimension
  <2>2. Greatest(field) = 32767
    BY <1>1, <2>1, SMT DEF Greatest
  <2>3. n \in Int /\ -1 <= n /\ n <= 32767
    BY <1>1, <2>2, SMT DEF Least
  <2>4. 0 <= n + 32768 /\ n + 32768 < 65536
    BY <2>3, SMT
  <2>5. (n + 32768) % 65536 = n + 32768
    BY <2>3, <2>4, InRange, SMT
  <2>. QED BY <1>1, <2>1, <2>3, <2>5, SMT DEF Stored
<1>2. CASE field = "bit_rate"
  BY <1>2, SMT DEF Position, Stored
<1>3. CASE field \notin Position /\ field # "bit_rate"
  <2>1. Greatest(field) \in {1000, 65535}
    BY <1>3, SMT DEF Fields, Greatest
  <2>2. n \in Int /\ 0 <= n /\ n < 65536
    BY <1>3, <2>1, SMT DEF Least
  <2>3. n % 65536 = n
    BY <2>2, InRange, SMT
  <2>. QED BY <1>3, <2>3, SMT DEF Stored
<1>. QED BY <1>1, <1>2, <1>3

\* The numbers of an accepted argument arrive, for every text.
LEMMA AcceptedIsStored ==
  ASSUME NEW field \in Fields, NEW text, Parses(field, text)
  PROVE  Stored(field, text.value * Multiplier(text.suffix)) = text.value * Multiplier(text.suffix)
BY StoredAsIs DEF Parses

\* Everything but the handling of the arguments leaves the options alone.
LEMMA OtherSteps ==
  ASSUME Next, ~ParseArgs, ~RunMain
  PROVE  UNCHANGED commandVars
<1>. USE DEF coreVars, coreLocals
<1>1. CASE ServerStart \/ FinishConnection \/ TurnScreenOff \/ LeaveLoop \/ StopServer
  BY <1>1 DEF ServerStart, FinishConnection, TurnScreenOff, LeaveLoop, StopServer
<1>2. CASE EnableShowTouches \/ WaitShowTouches \/ RestoreTouches
  BY <1>2 DEF EnableShowTouches, WaitShowTouches, RestoreTouches
<1>3. CASE InitAgents \/ InitSDL \/ ReadInfo \/ InitDisplay \/ InitRecorder \/ InitController
  BY <1>3 DEF InitAgents, InitSDL, ReadInfo, InitDisplay, InitRecorder, InitController
<1>4. CASE StartStream \/ StartAgents \/ StartController \/ OpenWindow \/ StartHeadless
  BY <1>4 DEF StartStream, StartAgents, StartController, OpenWindow, StartHeadless
<1>5. CASE StopControl \/ StopOthers
  BY <1>5 DEF StopControl, StopOthers
<1>6. CASE JoinStream \/ JoinController \/ JoinAgents \/ JoinFileHandler \/ JoinFpsCounter
  BY <1>6 DEF JoinStream, JoinController, JoinAgents, JoinFileHandler, JoinFpsCounter, Join
<1>7. CASE DestroyControl \/ DestroyFileHandler \/ DestroyFpsCounter
  BY <1>7 DEF DestroyControl, DestroyFileHandler, DestroyFpsCounter
<1>8. CASE ThreadStep
  BY <1>8 DEF ThreadStep, StreamEnds, StreamCrashes, ControllerEnds, ToldThreadEnds
<1>9. CASE Environment /\ ~ParseArgs
  BY <1>9 DEF Environment, ConnectTo, UserStartsFpsCounter, UserDropsFile, UserTouches, HandleOpenCVFrame,
       UserQuits, ClientConnects, ClientLeaves, ClientEndsProgram
<1>10. CASE Finished
  BY <1>10 DEF Finished, vars
<1>. QED
  BY <1>1, <1>2, <1>3, <1>4, <1>5, <1>6, <1>7, <1>8, <1>9, <1>10 DEF Next, MainStep

\* Start reads the numbers that were written (irobot_core.cpp:614-707,
\* str_util.cpp:74-123).
THEOREM NumbersAreKept == Spec => []NumbersKept
<1>1. Init => NumbersKept
  BY DEF Init, CommandInit, NumbersKept
<1>2. NumbersKept /\ [Next]_vars => NumbersKept'
  <2>. SUFFICES ASSUME NumbersKept, [Next]_vars
                PROVE  NumbersKept'
    OBVIOUS
  <2>1. CASE ParseArgs
    <3>1. CASE TakeFlag
      BY <3>1 DEF TakeFlag, NumbersKept
    <3>2. ASSUME NEW field \in Fields, NEW text \in Texts, TakeNumber(field, text)
          PROVE  NumbersKept'
      <4>1. options'.number = text.value * Multiplier(text.suffix) /\ written'.text = text
        BY <3>2, AcceptedIsStored DEF TakeNumber, Defaults
      <4>. QED BY <4>1 DEF NumbersKept
    <3>3. CASE UNCHANGED commandVars
      BY <3>3 DEF commandVars, NumbersKept
    <3>. QED BY <2>1, <3>1, <3>2, <3>3 DEF ParseArgs, RefuseNumber, RefuseOption
  <2>2. CASE RunMain
    BY <2>2 DEF RunMain, NumbersKept
  <2>3. CASE UNCHANGED commandVars
    BY <2>3 DEF commandVars, NumbersKept
  <2>4. CASE UNCHANGED vars
    BY <2>3, <2>4 DEF vars, coreVars, coreLocals
  <2>. QED BY <2>1, <2>2, <2>3, <2>4, OtherSteps
<1>. QED BY <1>1, <1>2, PTL DEF Spec

----------------------------------------------------------------------------
(* The phases of Start, and the types. *)

Starting == {"args", "push", "reverse", "forward", "listen"}
Preparing == {"showTouches", "initAgents", "initSDL", "connect"}
Connecting == {"connectControl", "connected", "readInfo", "initDisplay"}
Initialising == {"initRecorder", "startStream", "startAgents", "initController"}
Opening == {"openWindow", "turnScreenOff", "waitTouches", "headless", "loop"}
Stopping == {"stop", "stopFiles", "stopServer"}
Joining == {"joinStream", "joinController", "joinAgents"}
Destroying == {"destroyControl", "joinFiles", "destroyFiles", "joinFps", "destroyFps",
               "restoreTouches"}
Ended == {"exited", "returned", "crashed"}

\* Up to the initialisation of the controller.
Before == Starting \cup {"execute"} \cup Preparing \cup Connecting \cup Initialising

\* The types of what is not a Boolean.
TypeInv ==
  /\ process \in {"none", "running", "exited", "reaped"}
  /\ server_socket \in {Invalid, Stdin, "server"}
  /\ video_socket \in {Invalid, Stdin, "video"}
  /\ control_socket \in {Invalid, Stdin, "control"}
  /\ tunnel \in {"none", "reverse", "forward"}
  /\ open \subseteq OwnSockets
  /\ flags \subseteq Components \cup {"controllerStarted"}
  /\ state \in [Components -> {"unset", "ready", "failed", "undone", "destroyed"}]
  /\ running \subseteq Threads /\ told \subseteq Threads
  /\ touches \in 0..1

\* A step is one of these.
LEMMA Steps ==
  ASSUME [Next]_vars
  PROVE  \/ ParseArgs \/ RunMain \/ EnableShowTouches \/ InitAgents \/ InitSDL
         \/ ServerStart \/ ConnectTo \/ FinishConnection \/ StopServer \/ (ServerDies /\ UNCHANGED coreVars)
         \/ ReadInfo \/ InitDisplay \/ InitRecorder \/ StartStream \/ StartAgents
         \/ InitController \/ StartController \/ OpenWindow \/ TurnScreenOff \/ WaitShowTouches
         \/ StartHeadless \/ UserStartsFpsCounter \/ UserDropsFile \/ UserTouches
         \/ HandleOpenCVFrame \/ UserQuits \/ LeaveLoop \/ StopControl \/ StopOthers
         \/ JoinStream \/ JoinController \/ JoinAgents \/ JoinFileHandler \/ JoinFpsCounter
         \/ DestroyControl \/ DestroyFileHandler \/ DestroyFpsCounter \/ RestoreTouches
         \/ StreamEnds \/ StreamCrashes \/ ControllerEnds \/ ToldThreadEnds
         \/ ClientConnects \/ ClientLeaves \/ ClientEndsProgram \/ UNCHANGED vars
BY DEF Next, MainStep, ThreadStep, Environment, Finished

\* The steps of the device's server leave the components alone.
LEMMA CoreUnchanged ==
  /\ ServerStart \/ FinishConnection \/ StopServer => UNCHANGED coreVars
  /\ ConnectTo => UNCHANGED <<commandVars, flags, state, sdl, agentVars, touchVars, threadVars>>
BY DEF ServerStart, FinishConnection, StopServer, ConnectTo

\* The others leave the device's server alone.
LEMMA ServerUnchanged ==
  ASSUME [Next]_vars,
         ~(ServerStart \/ ConnectTo \/ FinishConnection \/ StopServer \/ (ServerDies /\ UNCHANGED coreVars))
  PROVE  UNCHANGED serverVars
<1>1. CASE ParseArgs \/ RunMain \/ EnableShowTouches \/ InitAgents \/ InitSDL \/ ReadInfo
  BY <1>1, Zenon DEF ParseArgs, RunMain, EnableShowTouches, InitAgents, InitSDL, ReadInfo
<1>2. CASE InitDisplay \/ InitRecorder \/ StartStream \/ StartAgents \/ InitController \/ StartController
  BY <1>2, Zenon DEF InitDisplay, InitRecorder, StartStream, StartAgents, InitController, StartController
<1>3. CASE OpenWindow \/ TurnScreenOff \/ WaitShowTouches \/ StartHeadless \/ UserStartsFpsCounter
  BY <1>3, Zenon DEF OpenWindow, TurnScreenOff, WaitShowTouches, StartHeadless, UserStartsFpsCounter
<1>4. CASE UserDropsFile \/ UserTouches \/ HandleOpenCVFrame \/ UserQuits \/ LeaveLoop \/ StopControl \/ StopOthers
  BY <1>4, Zenon DEF UserDropsFile, UserTouches, HandleOpenCVFrame, UserQuits, LeaveLoop, StopControl, StopOthers
<1>5. CASE JoinStream \/ JoinController \/ JoinAgents \/ JoinFileHandler \/ JoinFpsCounter
  BY <1>5, Zenon DEF JoinStream, JoinController, JoinAgents, JoinFileHandler, JoinFpsCounter, Join
<1>6. CASE DestroyControl \/ DestroyFileHandler \/ DestroyFpsCounter \/ RestoreTouches
  BY <1>6, Zenon DEF DestroyControl, DestroyFileHandler, DestroyFpsCounter, RestoreTouches
<1>7. CASE StreamEnds \/ StreamCrashes \/ ControllerEnds \/ ToldThreadEnds
  BY <1>7, Zenon DEF StreamEnds, StreamCrashes, ControllerEnds, ToldThreadEnds
<1>8. CASE ClientConnects \/ ClientLeaves \/ ClientEndsProgram \/ UNCHANGED vars
  BY <1>8, Zenon DEF ClientConnects, ClientLeaves, ClientEndsProgram, vars
<1>. QED BY <1>1, <1>2, <1>3, <1>4, <1>5, <1>6, <1>7, <1>8, Steps, Zenon

----------------------------------------------------------------------------
(* What the steps do to the components, the flags and the threads. *)

\* No component is destroyed by this step.
NoneDestroyed == \A c \in Components : state'[c] = "destroyed" => state[c] = "destroyed"

LEMMA BeforeSteps ==
  /\ ParseArgs => pc = "args" /\ pc' \in {"args", "exited"} /\ UNCHANGED <<state, flags, running>>
  /\ RunMain => pc = "args" /\ pc' \in {"push", "exited"} /\ UNCHANGED <<state, flags, running>>
  /\ EnableShowTouches \/ InitSDL \/ ReadInfo \/ ServerStart \/ ConnectTo \/ FinishConnection =>
       /\ pc \in Before \ {"args"} /\ pc' \in (Before \ ({"args"} \cup Initialising)) \cup Ended
       /\ UNCHANGED <<state, flags, running>>
  /\ StartStream \/ StartAgents =>
       pc \in Initialising /\ pc' \in Initialising /\ UNCHANGED <<state, flags>>
<1>. USE DEF Goto
<1>1. ParseArgs => pc = "args" /\ pc' \in {"args", "exited"} /\ UNCHANGED <<state, flags, running>>
  BY Zenon DEF ParseArgs, ExitNow, threadVars
<1>2. RunMain => pc = "args" /\ pc' \in {"push", "exited"} /\ UNCHANGED <<state, flags, running>>
  BY Zenon DEF RunMain, ExitNow, threadVars
<1>3. EnableShowTouches => pc = "showTouches" /\ pc' = "initAgents" /\ UNCHANGED <<state, flags, running>>
  BY Zenon DEF EnableShowTouches, threadVars, coreLocals
<1>4. InitSDL => pc = "initSDL" /\ pc' = "connect" /\ UNCHANGED <<state, flags, running>>
  BY Zenon DEF InitSDL, threadVars
<1>5. ReadInfo => pc = "readInfo" /\ pc' = "initDisplay" /\ UNCHANGED <<state, flags, running>>
  BY Zenon DEF ReadInfo, threadVars
<1>6. ServerStart => UNCHANGED <<state, flags, running>>
  BY Zenon DEF ServerStart, coreVars, coreLocals, threadVars
<1>7. ServerStart =>
        /\ pc \in {"push", "reverse", "forward", "listen", "execute"}
        /\ pc' \in {"reverse", "forward", "listen", "execute", "showTouches", "returned"}
  BY DEF ServerStart, PushServer, EnableTunnelReverse, EnableTunnelForward, ListenOnPort,
     ExecuteServer, ExecuteServerFails
<1>8. ConnectTo => UNCHANGED <<state, flags, running>>
  BY Zenon DEF ConnectTo, threadVars
<1>9. ConnectTo => pc \in {"connect", "connectControl"} /\ pc' \in {"connectControl", "connected", "readInfo"}
  BY DEF ConnectTo, OpenVideoSocket, OpenControlSocket
<1>10. FinishConnection =>
         pc = "connected" /\ pc' = "readInfo" /\ UNCHANGED <<state, flags, running>>
  BY Zenon DEF FinishConnection, Connected, coreVars, coreLocals, threadVars
<1>11. StartStream => pc = "startStream" /\ pc' = "startAgents" /\ UNCHANGED <<state, flags>>
  BY Zenon DEF StartStream
<1>12. StartAgents => pc = "startAgents" /\ pc' = "initController" /\ UNCHANGED <<state, flags>>
  BY Zenon DEF StartAgents
<1>. QED
  BY <1>1, <1>2, <1>3, <1>4, <1>5, <1>6, <1>7, <1>8, <1>9, <1>10, <1>11, <1>12
     DEF Before, Starting, Preparing, Connecting, Initialising, Ended

LEMMA InitSteps ==
  ASSUME TypeInv
  PROVE  /\ InitAgents \/ InitDisplay \/ InitRecorder =>
              /\ UNCHANGED running
              /\ NoneDestroyed /\ ("controller" \in flags' => "controller" \in flags)
         /\ InitAgents => pc = "initAgents" /\ pc' \in {"initSDL", "returned"} /\ UNCHANGED flags
         /\ InitDisplay => pc = "initDisplay" /\ pc' = "initRecorder"
         /\ InitRecorder => pc = "initRecorder" /\ pc' = "startStream"
         /\ InitController =>
              /\ pc = "initController" /\ UNCHANGED running /\ NoneDestroyed
              /\ \/ pc' = "startController"
                 \/ pc' \in Opening /\ UNCHANGED flags
         /\ StartController =>
              /\ pc = "startController" /\ pc' \in {"openWindow", "crashed"} /\ NoneDestroyed
              /\ flags' = flags \cup {"controllerStarted"}
<1>. USE DEF Goto
<1>1. \A c \in Components : state' \in InitTo(c) => NoneDestroyed
  BY DEF TypeInv, InitTo, NoneDestroyed
<1>2. UNCHANGED state => NoneDestroyed
  BY DEF NoneDestroyed
<1>3. InitAgents => /\ pc = "initAgents" /\ pc' \in {"initSDL", "returned"}
                    /\ UNCHANGED <<flags, running>> /\ NoneDestroyed
  <2>1. InitAgents => state' \in InitTo("agentManager")
    BY DEF InitAgents, InitTo
  <2>2. InitAgents => pc = "initAgents" /\ pc' \in {"initSDL", "returned"} /\ UNCHANGED <<flags, running>>
    BY Zenon DEF InitAgents, threadVars
  <2>. QED BY <1>1, <2>1, <2>2 DEF Components
<1>4. InitDisplay => /\ pc = "initDisplay" /\ pc' = "initRecorder" /\ UNCHANGED running /\ NoneDestroyed
                     /\ flags' \subseteq flags \cup {"fpsCounter", "videoBuffer", "fileHandler"}
  <2>1. InitDisplay => pc = "initDisplay" /\ pc' = "initRecorder" /\ UNCHANGED running
    BY Zenon DEF InitDisplay, threadVars
  <2>2. InitDisplay =>
          /\ flags' \subseteq flags \cup {"fpsCounter", "videoBuffer", "fileHandler"}
          /\ \A c \in Components : state'[c] \in {state[c], "ready", "failed"}
    BY DEF InitDisplay, TypeInv, Components
  <2>. QED BY <2>1, <2>2 DEF NoneDestroyed
<1>5. InitRecorder => /\ pc = "initRecorder" /\ pc' = "startStream" /\ UNCHANGED running /\ NoneDestroyed
                      /\ flags' \subseteq flags \cup {"recorder"}
  <2>1. InitRecorder => pc = "initRecorder" /\ pc' = "startStream" /\ UNCHANGED running
    BY Zenon DEF InitRecorder, threadVars
  <2>2. InitRecorder => /\ flags' \subseteq flags \cup {"recorder"}
                        /\ state' \in InitTo("recorder") \/ UNCHANGED state
    BY DEF InitRecorder
  <2>. QED BY <1>1, <1>2, <2>1, <2>2 DEF Components
<1>6. InitController =>
        /\ pc = "initController" /\ UNCHANGED running /\ NoneDestroyed
        /\ pc' = "startController" \/ (pc' \in {"openWindow", "waitTouches"} /\ UNCHANGED flags)
  <2>1. InitController => pc = "initController" /\ UNCHANGED running
    BY Zenon DEF InitController, threadVars
  <2>2. InitController => \/ pc' = "startController" /\ state' \in InitTo("controller")
                          \/ pc' \in {"openWindow", "waitTouches"} /\ UNCHANGED <<flags, state>>
    BY Zenon DEF InitController
  <2>. QED BY <1>1, <1>2, <2>1, <2>2 DEF Components
<1>7. StartController =>
        /\ pc = "startController" /\ pc' \in {"openWindow", "crashed"} /\ NoneDestroyed
        /\ flags' = flags \cup {"controllerStarted"}
  <2>1. StartController => /\ pc = "startController" /\ pc' \in {"openWindow", "crashed"}
                           /\ flags' = flags \cup {"controllerStarted"}
                           /\ state' \in {state, [state EXCEPT !["controller"] = "undone"]}
    BY DEF StartController
  <2>. QED BY <2>1 DEF NoneDestroyed, TypeInv
<1>. QED
  BY <1>3, <1>4, <1>5, <1>6, <1>7
     DEF Opening

LEMMA OpeningSteps ==
  ASSUME TypeInv
  PROVE  OpenWindow \/ TurnScreenOff \/ WaitShowTouches \/ StartHeadless \/ UserStartsFpsCounter
           \/ UserDropsFile \/ UserTouches \/ HandleOpenCVFrame \/ UserQuits \/ LeaveLoop =>
           /\ pc \in Opening /\ pc' \in Opening \cup {"stop"} \cup Ended
           /\ UNCHANGED flags /\ NoneDestroyed
<1>. USE DEF Goto
<1>1. OpenWindow => pc = "openWindow" /\ pc' = "turnScreenOff" /\ UNCHANGED flags /\ NoneDestroyed
  <2>1. OpenWindow => /\ pc = "openWindow" /\ pc' = "turnScreenOff" /\ UNCHANGED flags
                      /\ UNCHANGED state \/ state' \in InitTo("screen")
    BY Zenon DEF OpenWindow
  <2>. QED BY <2>1 DEF InitTo, NoneDestroyed, TypeInv
<1>2. TurnScreenOff => /\ pc = "turnScreenOff" /\ pc' \in {"crashed", "waitTouches"}
                       /\ UNCHANGED <<flags, state>>
  BY Zenon DEF TurnScreenOff, coreVars, coreLocals
<1>3. WaitShowTouches => pc = "waitTouches" /\ pc' \in {"headless", "loop"} /\ UNCHANGED <<flags, state>>
  BY Zenon DEF WaitShowTouches, coreLocals
<1>4. StartHeadless => pc = "headless" /\ pc' \in {"crashed", "loop"} /\ UNCHANGED <<flags, state>>
  BY Zenon DEF StartHeadless, StartFpsCounter, coreLocals
<1>5. UserStartsFpsCounter => pc = "loop" /\ pc' \in {"crashed", "loop"} /\ UNCHANGED <<flags, state>>
  BY Zenon DEF UserStartsFpsCounter, StartFpsCounter, coreLocals
<1>6. UserDropsFile => pc = "loop" /\ pc' \in {"crashed", "loop"} /\ UNCHANGED <<flags, state>>
  BY Zenon DEF UserDropsFile, HasWindow, coreLocals
<1>7. UserTouches \/ HandleOpenCVFrame => pc = "loop" /\ pc' = "crashed" /\ UNCHANGED <<flags, state>>
  BY Zenon DEF UserTouches, HasWindow, HandleOpenCVFrame, coreVars, coreLocals
<1>8. UserQuits \/ LeaveLoop => pc = "loop" /\ pc' = "stop" /\ UNCHANGED <<flags, state>>
  BY Zenon DEF UserQuits, LeaveLoop, coreVars, coreLocals
<1>. QED
  BY <1>1, <1>2, <1>3, <1>4, <1>5, <1>6, <1>7, <1>8 DEF Opening, Ended, NoneDestroyed

LEMMA StoppingSteps ==
  /\ StopControl \/ StopOthers \/ StopServer =>
       pc \in Stopping /\ pc' \in Stopping \cup {"joinStream", "crashed"} /\ UNCHANGED <<state, flags, running>>
  /\ StreamCrashes \/ ClientEndsProgram => pc' = "crashed" /\ UNCHANGED <<state, flags, running>>
<1>. USE DEF Goto
<1>1. StopControl => pc = "stop" /\ pc' = "stopFiles" /\ UNCHANGED <<state, flags, running>>
  BY Zenon DEF StopControl, coreLocals
<1>2. StopOthers => pc = "stopFiles" /\ pc' \in {"crashed", "stopServer"} /\ UNCHANGED <<state, flags, running>>
  BY Zenon DEF StopOthers, coreLocals
<1>3. StopServer => pc = "stopServer" /\ pc' = "joinStream" /\ UNCHANGED <<state, flags, running>>
  BY Zenon DEF StopServer, Stop, coreVars, coreLocals, threadVars
<1>4. StreamCrashes \/ ClientEndsProgram => pc' = "crashed" /\ UNCHANGED <<state, flags, running>>
  BY Zenon DEF StreamCrashes, ClientEndsProgram, coreVars, coreLocals, threadVars
<1>. QED BY <1>1, <1>2, <1>3, <1>4 DEF Stopping

LEMMA JoiningSteps ==
  ASSUME NEW from, NEW to, NEW threads, Join(from, to, threads)
  PROVE  /\ pc = from /\ pc' = to /\ UNCHANGED <<state, flags, running>>
         /\ threads \cap running = {}
BY Zenon DEF Join, Goto, coreVars, coreLocals, threadVars

LEMMA DestroyingSteps ==
  /\ DestroyControl =>
       /\ pc = "destroyControl" /\ pc' = "joinFiles" /\ UNCHANGED <<flags, running>>
       /\ DestroyAll((IF "controller" \in flags THEN {"controller", "agentManager"} ELSE {})
                       \cup (flags \cap {"recorder"}))
  /\ DestroyFileHandler =>
       /\ pc = "destroyFiles" /\ pc' = "joinFps" /\ UNCHANGED <<flags, running>>
       /\ DestroyAll(flags \cap {"fileHandler", "videoBuffer"})
  /\ DestroyFpsCounter =>
       /\ pc = "destroyFps" /\ pc' = "restoreTouches" /\ UNCHANGED <<flags, running>>
       /\ DestroyAll(flags \cap {"fpsCounter"})
  /\ RestoreTouches =>
       pc = "restoreTouches" /\ pc' = "returned" /\ UNCHANGED <<state, flags, running>>
<1>1. RestoreTouches => pc = "restoreTouches" /\ pc' = "returned" /\ UNCHANGED <<state, flags, running>>
  BY Zenon DEF RestoreTouches, Goto, coreLocals, threadVars
<1>. QED BY <1>1, Zenon DEF DestroyControl, DestroyFileHandler, DestroyFpsCounter, Goto, threadVars

LEMMA ThreadSteps ==
  StreamEnds \/ ControllerEnds \/ ToldThreadEnds \/ ClientConnects \/ ClientLeaves
    \/ (ServerDies /\ UNCHANGED coreVars) \/ UNCHANGED vars =>
    UNCHANGED <<pc, state, flags>> /\ running' \subseteq running
<1>1. StreamEnds \/ ControllerEnds \/ ToldThreadEnds => UNCHANGED <<pc, state, flags>>
  BY Zenon DEF StreamEnds, ControllerEnds, ToldThreadEnds, coreLocals
<1>2. StreamEnds \/ ControllerEnds \/ ToldThreadEnds => running' \subseteq running
  BY DEF StreamEnds, ControllerEnds, ToldThreadEnds, Ends
<1>3. ClientConnects \/ ClientLeaves \/ (ServerDies /\ UNCHANGED coreVars) \/ UNCHANGED vars =>
        UNCHANGED <<pc, state, flags, running>>
  BY Zenon DEF ClientConnects, ClientLeaves, ServerDies, vars, coreVars, coreLocals, threadVars
<1>. QED BY <1>1, <1>2, <1>3

----------------------------------------------------------------------------
(* The order of the shutdown. *)

\* The controller is initialised and then started, whether that succeeds or not.
FlagsInv ==
  /\ pc \in Before => "controller" \notin flags
  /\ pc \in Opening \cup Stopping \cup Joining \cup Destroying /\ "controller" \in flags =>
       "controllerStarted" \in flags

\* What has been waited for does not run any more.
JoinedInv ==
  /\ pc \in {"joinController", "joinAgents"} \cup Destroying => "stream" \notin running
  /\ "controllerStarted" \in flags =>
       /\ pc \in {"joinAgents"} \cup Destroying => running \cap {"controller", "receiver"} = {}
       /\ pc \in Destroying => "agentStream" \notin running
  /\ "fileHandler" \in flags /\ pc \in Destroying \ {"destroyControl", "joinFiles"} =>
       "fileHandler" \notin running
  /\ "fpsCounter" \in flags /\ pc \in {"destroyFps", "restoreTouches"} => "fpsCounter" \notin running

\* The threads are created while nothing is destroyed yet.
IntactInv ==
  pc \in Before \cup {"startController", "destroyControl"} \cup Opening \cup Stopping \cup Joining =>
    \A c \in Components : state[c] # "destroyed"

\* Who changes the locals of Start, the threads and the touches.
LEMMA LocalsUnchanged ==
  ASSUME [Next]_vars
  PROVE  \/ InitAgents \/ InitSDL \/ ReadInfo \/ InitDisplay \/ InitRecorder \/ InitController
         \/ StartStream \/ StartAgents \/ StartController \/ OpenWindow \/ ConnectTo
         \/ DestroyControl \/ DestroyFileHandler \/ DestroyFpsCounter
         \/ UNCHANGED <<cannot_cont, sdl, flags, state>>
<1>1. CASE ParseArgs \/ RunMain
  BY <1>1, Zenon DEF ParseArgs, RunMain
<1>2. CASE EnableShowTouches \/ WaitShowTouches \/ RestoreTouches \/ StartHeadless \/ UserStartsFpsCounter
            \/ UserDropsFile \/ UserTouches
  BY <1>2, Zenon DEF EnableShowTouches, WaitShowTouches, RestoreTouches, StartHeadless,
     UserStartsFpsCounter, UserDropsFile, UserTouches, coreLocals
<1>3. CASE ServerStart \/ FinishConnection \/ StopServer
  BY <1>3, CoreUnchanged, Zenon DEF coreVars, coreLocals
<1>4. CASE TurnScreenOff \/ HandleOpenCVFrame \/ UserQuits \/ LeaveLoop \/ StreamCrashes
            \/ (ServerDies /\ UNCHANGED coreVars)
  BY <1>4, Zenon DEF TurnScreenOff, HandleOpenCVFrame, UserQuits, LeaveLoop, StreamCrashes, coreVars, coreLocals
<1>5. CASE StopControl \/ StopOthers \/ StreamEnds \/ ControllerEnds \/ ToldThreadEnds
            \/ ClientConnects \/ ClientLeaves \/ ClientEndsProgram
  BY <1>5, Zenon DEF StopControl, StopOthers, StreamEnds, ControllerEnds, ToldThreadEnds,
     ClientConnects, ClientLeaves, ClientEndsProgram, coreLocals
<1>6. CASE JoinStream \/ JoinController \/ JoinAgents \/ JoinFileHandler \/ JoinFpsCounter
  BY <1>6, Zenon DEF JoinStream, JoinController, JoinAgents, JoinFileHandler, JoinFpsCounter, Join,
     coreVars, coreLocals
<1>7. CASE UNCHANGED vars
  BY <1>7, Zenon DEF vars, coreVars, coreLocals
<1>. QED BY <1>1, <1>2, <1>3, <1>4, <1>5, <1>6, <1>7, Steps, Zenon

LEMMA ThreadsUnchanged ==
  ASSUME [Next]_vars
  PROVE  \/ StartStream \/ StartAgents \/ StartController
         \/ StartHeadless \/ UserStartsFpsCounter \/ UserDropsFile
         \/ StopControl \/ StopOthers \/ StreamEnds \/ ControllerEnds \/ ToldThreadEnds
         \/ UNCHANGED <<running, told>>
<1>1. CASE ParseArgs \/ RunMain \/ EnableShowTouches \/ InitAgents \/ InitSDL \/ ReadInfo \/ ConnectTo
  BY <1>1, Zenon DEF ParseArgs, RunMain, EnableShowTouches, InitAgents, InitSDL, ReadInfo, ConnectTo,
     threadVars
<1>2. CASE InitDisplay \/ InitRecorder \/ InitController \/ OpenWindow \/ WaitShowTouches
            \/ RestoreTouches
  BY <1>2, Zenon DEF InitDisplay, InitRecorder, InitController, OpenWindow, WaitShowTouches,
     RestoreTouches, threadVars
<1>3. CASE ServerStart \/ FinishConnection \/ StopServer
  BY <1>3, CoreUnchanged, Zenon DEF coreVars, threadVars
<1>4. CASE TurnScreenOff \/ HandleOpenCVFrame \/ UserQuits \/ LeaveLoop \/ StreamCrashes
            \/ UserTouches \/ (ServerDies /\ UNCHANGED coreVars)
  BY <1>4, Zenon DEF TurnScreenOff, HandleOpenCVFrame, UserQuits, LeaveLoop, StreamCrashes, UserTouches,
     coreVars, threadVars
<1>5. CASE DestroyControl \/ DestroyFileHandler \/ DestroyFpsCounter
            \/ ClientConnects \/ ClientLeaves \/ ClientEndsProgram
  BY <1>5, Zenon DEF DestroyControl, DestroyFileHandler, DestroyFpsCounter,
     ClientConnects, ClientLeaves, ClientEndsProgram, threadVars
<1>6. CASE JoinStream \/ JoinController \/ JoinAgents \/ JoinFileHandler \/ JoinFpsCounter
  BY <1>6, Zenon DEF JoinStream, JoinController, JoinAgents, JoinFileHandler, JoinFpsCounter, Join,
     coreVars, threadVars
<1>7. CASE UNCHANGED vars
  BY <1>7, Zenon DEF vars, coreVars, threadVars
<1>. QED BY <1>1, <1>2, <1>3, <1>4, <1>5, <1>6, <1>7, Steps, Zenon

LEMMA TouchesUnchanged ==
  ASSUME [Next]_vars
  PROVE  EnableShowTouches \/ WaitShowTouches \/ RestoreTouches \/ UNCHANGED touchVars
<1>1. CASE ParseArgs \/ RunMain \/ InitAgents \/ InitSDL \/ ReadInfo \/ ConnectTo
  BY <1>1, Zenon DEF ParseArgs, RunMain, InitAgents, InitSDL, ReadInfo, ConnectTo
<1>2. CASE InitDisplay \/ InitRecorder \/ InitController \/ StartStream \/ StartAgents \/ StartController
  BY <1>2, Zenon DEF InitDisplay, InitRecorder, InitController, StartStream, StartAgents, StartController
<1>3. CASE ServerStart \/ FinishConnection \/ StopServer
  BY <1>3, CoreUnchanged, Zenon DEF coreVars
<1>4. CASE OpenWindow \/ TurnScreenOff \/ StartHeadless \/ UserStartsFpsCounter \/ UserDropsFile \/ UserTouches
            \/ HandleOpenCVFrame \/ UserQuits \/ LeaveLoop
  BY <1>4, Zenon DEF OpenWindow, TurnScreenOff, StartHeadless, UserStartsFpsCounter, UserDropsFile,
     UserTouches, HandleOpenCVFrame, UserQuits, LeaveLoop, coreVars
<1>5. CASE StopControl \/ StopOthers \/ DestroyControl \/ DestroyFileHandler \/ DestroyFpsCounter
            \/ (ServerDies /\ UNCHANGED coreVars)
  BY <1>5, Zenon DEF StopControl, StopOthers, DestroyControl, DestroyFileHandler, DestroyFpsCounter, coreVars
<1>6. CASE JoinStream \/ JoinController \/ JoinAgents \/ JoinFileHandler \/ JoinFpsCounter
  BY <1>6, Zenon DEF JoinStream, JoinController, JoinAgents, JoinFileHandler, JoinFpsCounter, Join, coreVars
<1>7. CASE StreamEnds \/ StreamCrashes \/ ControllerEnds \/ ToldThreadEnds
            \/ ClientConnects \/ ClientLeaves \/ ClientEndsProgram \/ UNCHANGED vars
  BY <1>7, Zenon DEF StreamEnds, StreamCrashes, ControllerEnds, ToldThreadEnds,
     ClientConnects, ClientLeaves, ClientEndsProgram, vars, coreVars
<1>. QED BY <1>1, <1>2, <1>3, <1>4, <1>5, <1>6, <1>7, Steps, Zenon

\* DisableTunnel, whose failure is remembered.
Removed == tunnel' = WithoutTunnel \/ (UNCHANGED tunnel /\ stuck')

LEMMA Removing ==
  ASSUME DisableTunnel
  PROVE  Removed /\ (stuck => stuck')
<1>1. PICK result \in Results : /\ tunnel' = IF result = "done" THEN WithoutTunnel ELSE tunnel
                              /\ stuck' = (stuck \/ result # "done")
  BY Zenon DEF DisableTunnel
<1>2. stuck' <=> stuck \/ result # "done"
  BY <1>1, Zenon
<1>. QED BY <1>1, <1>2, Zenon DEF Removed

LEMMA StuckStays ==
  ASSUME [Next]_vars
  PROVE  stuck => stuck'
<1>1. CASE PushServer \/ EnableTunnelReverse \/ EnableTunnelForward \/ ExecuteServer \/ ConnectTo
             \/ ServerDies
  <2>1. stuck' = stuck
    BY <1>1, Zenon DEF PushServer, EnableTunnelReverse, EnableTunnelForward, ExecuteServer, ConnectTo,
       OpenVideoSocket, OpenControlSocket, ServerDies, serverVars, tunnels
  <2>. QED BY <2>1, Zenon
<1>2. CASE ListenOnPort \/ ExecuteServerFails \/ FinishConnection \/ StopServer
  <2>1. DisableTunnel \/ stuck' = stuck
    BY <1>2, Zenon DEF ListenOnPort, ExecuteServerFails, FinishConnection, Connected, StopServer, Stop,
       tunnels
  <2>. QED BY <2>1, Removing, Zenon
<1>3. CASE UNCHANGED serverVars
  <2>1. stuck' = stuck
    BY <1>3, Zenon DEF serverVars, tunnels
  <2>. QED BY <2>1, Zenon
<1>. QED BY <1>1, <1>2, <1>3, ServerUnchanged, Zenon DEF ServerStart

\* What Start, ConnectTo and Stop do to the sockets and the tunnel.
LEMMA ServerStarts ==
  ASSUME ServerStart
  PROVE  /\ UNCHANGED <<video_socket, control_socket>>
         /\ \/ /\ pc = "push" /\ pc' \in {"reverse", "returned"}
               /\ UNCHANGED <<process, server_socket, open, tunnel>>
               /\ tunnel_forward' <=> tunnel_forward
            \/ /\ pc = "reverse" /\ UNCHANGED <<process, server_socket, open>>
               /\ \/ pc' = "listen" /\ ~tunnel_forward' /\ tunnel' \in {tunnel, "reverse"}
                  \/ pc' = "forward" /\ tunnel_forward' /\ UNCHANGED tunnel
            \/ /\ pc = "forward" /\ UNCHANGED <<process, server_socket, open>>
               /\ tunnel_forward' <=> tunnel_forward
               /\ \/ pc' = "execute" /\ tunnel' \in {tunnel, "forward"}
                  \/ pc' = "returned" /\ UNCHANGED tunnel
            \/ /\ pc = "listen" /\ pc' = "execute" /\ UNCHANGED <<process, tunnel>>
               /\ server_socket' = "server" /\ open' = open \cup {"server"}
               /\ tunnel_forward' <=> tunnel_forward
            \/ /\ pc = "listen" /\ pc' = "returned" /\ UNCHANGED <<process, open>>
               /\ server_socket' = Invalid /\ Removed
               /\ tunnel_forward' <=> tunnel_forward
            \/ /\ pc = "execute" /\ pc' = "showTouches" /\ UNCHANGED <<server_socket, open, tunnel>>
               /\ process' = "running" /\ tunnel_enabled'
               /\ tunnel_forward' <=> tunnel_forward
            \/ /\ pc = "execute" /\ pc' = "returned" /\ UNCHANGED process
               /\ Removed
               /\ tunnel_forward' <=> tunnel_forward
               /\ \/ tunnel_forward /\ UNCHANGED <<server_socket, open>>
                  \/ ~tunnel_forward /\ server_socket' = Invalid /\ open' = open \ {"server"}
<1>. USE DEF Goto, sockets, tunnels, serverVars
<1>1. CASE PushServer
  <2>1. tunnel_forward' <=> tunnel_forward
    <3>1. tunnel_forward' = tunnel_forward
      BY <1>1, Zenon DEF PushServer
    <3>. QED BY <3>1, Zenon
  <2>. QED BY <1>1, <2>1, Zenon DEF PushServer
<1>2. CASE EnableTunnelReverse
  <2>1. PICK result \in Results :
          /\ tunnel' = IF result = "done" THEN "reverse" ELSE tunnel
          /\ tunnel_forward' = ~CheckSuccess(result)
          /\ Goto("reverse", IF tunnel_forward' THEN "forward" ELSE "listen")
          /\ UNCHANGED <<process, sockets, tunnel_enabled, stuck>>
    BY <1>2, Zenon DEF EnableTunnelReverse
  <2>2. tunnel_forward' <=> ~CheckSuccess(result)
    BY <2>1, Zenon
  <2>3. CASE tunnel_forward'
    <3>1. result # "done"
      BY <2>2, <2>3, Zenon DEF CheckSuccess
    <3>. QED BY <2>1, <2>3, <3>1, Zenon
  <2>4. CASE ~tunnel_forward'
    BY <2>1, <2>4, Zenon
  <2>. QED BY <2>3, <2>4, Zenon
<1>3. CASE EnableTunnelForward
  <2>1. tunnel_forward' <=> tunnel_forward
    <3>1. tunnel_forward' = tunnel_forward
      BY <1>3, Zenon DEF EnableTunnelForward
    <3>. QED BY <3>1, Zenon
  <2>2. PICK result \in Results :
          /\ tunnel' = IF result = "done" THEN "forward" ELSE tunnel
          /\ Goto("forward", IF CheckSuccess(result) THEN "execute" ELSE "returned")
          /\ UNCHANGED <<process, sockets, tunnel_enabled, tunnel_forward, stuck>>
    BY <1>3, Zenon DEF EnableTunnelForward
  <2>3. CASE CheckSuccess(result)
    BY <2>1, <2>2, <2>3, Zenon
  <2>4. CASE ~CheckSuccess(result)
    <3>1. result # "done"
      BY <2>4, Zenon DEF CheckSuccess
    <3>. QED BY <2>1, <2>2, <2>4, <3>1, Zenon
  <2>. QED BY <2>3, <2>4, Zenon
<1>4. CASE ListenOnPort
  <2>1. tunnel_forward' <=> tunnel_forward
    <3>1. tunnel_forward' = tunnel_forward
      BY <1>4, Zenon DEF ListenOnPort
    <3>. QED BY <3>1, Zenon
  <2>. QED BY <1>4, <2>1, Removing, Zenon DEF ListenOnPort
<1>5. CASE ExecuteServer
  <2>1. tunnel_forward' <=> tunnel_forward
    <3>1. tunnel_forward' = tunnel_forward
      BY <1>5, Zenon DEF ExecuteServer
    <3>. QED BY <3>1, Zenon
  <2>. QED BY <1>5, <2>1, Zenon DEF ExecuteServer
<1>6. CASE ExecuteServerFails
  <2>1. tunnel_forward' <=> tunnel_forward
    <3>1. tunnel_forward' = tunnel_forward
      BY <1>6, Zenon DEF ExecuteServerFails
    <3>. QED BY <3>1, Zenon
  <2>2. CASE tunnel_forward
    BY <1>6, <2>1, <2>2, Removing, Zenon DEF ExecuteServerFails
  <2>3. CASE ~tunnel_forward
    BY <1>6, <2>1, <2>3, Removing, Zenon DEF ExecuteServerFails
  <2>. QED BY <2>2, <2>3, Zenon
<1>. QED BY <1>1, <1>2, <1>3, <1>4, <1>5, <1>6, Zenon DEF ServerStart

LEMMA ServerConnects ==
  /\ ConnectTo =>
       /\ UNCHANGED <<process, server_socket, tunnel>>
       /\ (tunnel_enabled' <=> tunnel_enabled) /\ (tunnel_forward' <=> tunnel_forward)
       /\ \/ /\ pc = "connect" /\ pc' = "connectControl" /\ UNCHANGED control_socket
             /\ video_socket' = "video" /\ open' = open \cup {"video"}
          \/ /\ pc = "connect" /\ pc' = "readInfo" /\ UNCHANGED <<control_socket, open>>
             /\ video_socket' = Invalid
          \/ /\ pc = "connectControl" /\ pc' = "connected" /\ UNCHANGED video_socket
             /\ control_socket' = "control" /\ open' = open \cup {"control"}
          \/ /\ pc = "connectControl" /\ pc' = "readInfo" /\ UNCHANGED <<video_socket, open>>
             /\ control_socket' = Invalid
  /\ FinishConnection =>
       /\ pc = "connected" /\ pc' = "readInfo"
       /\ UNCHANGED <<process, video_socket, control_socket>>
       /\ Removed /\ ~tunnel_enabled' /\ (tunnel_forward' <=> tunnel_forward)
       /\ \/ tunnel_forward /\ UNCHANGED <<server_socket, open>>
          \/ ~tunnel_forward /\ server_socket' = Invalid /\ open' = open \ {server_socket}
  /\ StopServer =>
       /\ pc = "stopServer" /\ pc' = "joinStream"
       /\ server_socket' = Invalid /\ video_socket' = Invalid /\ control_socket' = Invalid
       /\ open' = open \ {server_socket, video_socket, control_socket}
       /\ process' = "reaped"
       /\ \/ tunnel_enabled /\ Removed
          \/ ~tunnel_enabled /\ UNCHANGED tunnel
       /\ tunnel_forward' <=> tunnel_forward
  /\ ServerDies =>
       /\ process = "running" /\ process' = "exited"
       /\ UNCHANGED <<pc, server_socket, video_socket, control_socket, open, tunnel>>
       /\ (tunnel_enabled' <=> tunnel_enabled) /\ (tunnel_forward' <=> tunnel_forward)
<1>. USE DEF Goto, sockets, tunnels
<1>1. ASSUME ConnectTo
      PROVE  /\ UNCHANGED <<process, server_socket, tunnel>>
             /\ (tunnel_enabled' <=> tunnel_enabled) /\ (tunnel_forward' <=> tunnel_forward)
  <2>1. UNCHANGED <<process, server_socket, tunnel, tunnel_enabled, tunnel_forward>>
    BY <1>1, Zenon DEF ConnectTo, OpenVideoSocket, OpenControlSocket
  <2>2. (tunnel_enabled' <=> tunnel_enabled) /\ (tunnel_forward' <=> tunnel_forward)
    <3>1. tunnel_enabled' = tunnel_enabled /\ tunnel_forward' = tunnel_forward
      BY <2>1, Zenon
    <3>. QED BY <3>1, Zenon
  <2>. QED BY <2>1, <2>2, Zenon
<1>2. ASSUME ConnectTo
      PROVE  \/ /\ pc = "connect" /\ pc' = "connectControl" /\ UNCHANGED control_socket
                /\ video_socket' = "video" /\ open' = open \cup {"video"}
             \/ /\ pc = "connect" /\ pc' = "readInfo" /\ UNCHANGED <<control_socket, open>>
                /\ video_socket' = Invalid
             \/ /\ pc = "connectControl" /\ pc' = "connected" /\ UNCHANGED video_socket
                /\ control_socket' = "control" /\ open' = open \cup {"control"}
             \/ /\ pc = "connectControl" /\ pc' = "readInfo" /\ UNCHANGED <<video_socket, open>>
                /\ control_socket' = Invalid
  BY <1>2, Zenon DEF ConnectTo, OpenVideoSocket, OpenControlSocket
<1>3. ASSUME FinishConnection
      PROVE  /\ pc = "connected" /\ pc' = "readInfo"
             /\ UNCHANGED <<process, video_socket, control_socket>>
             /\ Removed /\ ~tunnel_enabled' /\ (tunnel_forward' <=> tunnel_forward)
             /\ \/ tunnel_forward /\ UNCHANGED <<server_socket, open>>
                \/ ~tunnel_forward /\ server_socket' = Invalid /\ open' = open \ {server_socket}
  <2>1. (tunnel_forward' <=> tunnel_forward) /\ ~tunnel_enabled'
    <3>1. tunnel_forward' = tunnel_forward /\ tunnel_enabled' = FALSE
      BY <1>3, Zenon DEF FinishConnection, Connected
    <3>. QED BY <3>1, Zenon
  <2>2. CASE tunnel_forward
    BY <1>3, <2>1, <2>2, Removing, Zenon DEF FinishConnection, Connected
  <2>3. CASE ~tunnel_forward
    BY <1>3, <2>1, <2>3, Removing, Zenon DEF FinishConnection, Connected
  <2>. QED BY <2>2, <2>3, Zenon
<1>4. ASSUME StopServer
      PROVE  /\ pc = "stopServer" /\ pc' = "joinStream"
             /\ server_socket' = Invalid /\ video_socket' = Invalid /\ control_socket' = Invalid
             /\ open' = open \ {server_socket, video_socket, control_socket}
             /\ process' = "reaped"
             /\ \/ tunnel_enabled /\ Removed
                \/ ~tunnel_enabled /\ UNCHANGED tunnel
             /\ tunnel_forward' <=> tunnel_forward
  <2>1. tunnel_forward' <=> tunnel_forward
    <3>1. tunnel_forward' = tunnel_forward
      BY <1>4, Zenon DEF StopServer, Stop
    <3>. QED BY <3>1, Zenon
  <2>2. CASE tunnel_enabled
    BY <1>4, <2>1, <2>2, Removing, Zenon DEF StopServer, Stop
  <2>3. CASE ~tunnel_enabled
    BY <1>4, <2>1, <2>3, Removing, Zenon DEF StopServer, Stop
  <2>. QED BY <2>2, <2>3, Zenon
<1>5. ASSUME ServerDies
      PROVE  /\ process = "running" /\ process' = "exited"
             /\ UNCHANGED <<pc, server_socket, video_socket, control_socket, open, tunnel>>
             /\ (tunnel_enabled' <=> tunnel_enabled) /\ (tunnel_forward' <=> tunnel_forward)
  <2>1. (tunnel_forward' <=> tunnel_forward) /\ (tunnel_enabled' <=> tunnel_enabled)
    <3>1. tunnel_forward' = tunnel_forward /\ tunnel_enabled' = tunnel_enabled
      BY <1>5, Zenon DEF ServerDies
    <3>. QED BY <3>1, Zenon
  <2>. QED BY <1>5, <2>1, Zenon DEF ServerDies
<1>. QED BY <1>1, <1>2, <1>3, <1>4, <1>5, Zenon

LEMMA Typing == Spec => []TypeInv
<1>1. Init => TypeInv
  BY DEF Init, ServerInit, TypeInv, Invalid, Stdin, OwnSockets
<1>2. TypeInv /\ [Next]_vars => TypeInv'
  <2>. SUFFICES ASSUME TypeInv, [Next]_vars
                PROVE  TypeInv'
    OBVIOUS
  <2>1. (/\ process \in {"none", "running", "exited", "reaped"}
         /\ server_socket \in {Invalid, Stdin, "server"}
         /\ video_socket \in {Invalid, Stdin, "video"}
         /\ control_socket \in {Invalid, Stdin, "control"}
         /\ tunnel \in {"none", "reverse", "forward"}
         /\ open \subseteq OwnSockets)'
    <3>. USE DEF TypeInv, Invalid, Stdin, OwnSockets
    <3>1. WithoutTunnel \in {"none", tunnel}
      BY Zenon DEF WithoutTunnel
    <3>2. CASE ServerStart
      BY <3>1, <3>2, ServerStarts DEF Removed
    <3>3. CASE ConnectTo
      BY <3>1, <3>3, ServerConnects
    <3>4. CASE FinishConnection \/ StopServer
      BY <3>1, <3>4, ServerConnects DEF Removed
    <3>5. CASE ServerDies
      BY <3>5, ServerConnects
    <3>6. CASE UNCHANGED serverVars
      BY <3>6 DEF serverVars, sockets, tunnels
    <3>. QED BY <3>2, <3>3, <3>4, <3>5, <3>6, ServerUnchanged
  <2>2. (/\ flags \subseteq Components \cup {"controllerStarted"}
         /\ state \in [Components -> {"unset", "ready", "failed", "undone", "destroyed"}])'
    <3>. USE DEF TypeInv
    <3>1. CASE InitAgents \/ InitSDL \/ ReadInfo
      BY <3>1 DEF InitAgents, InitSDL, ReadInfo, Failing
    <3>2. CASE InitDisplay
      <4>1. CASE ~cannot_cont /\ options.display
        <5>1. PICK fps \in {"ready", "failed"}, buffer \in {"ready", "failed"}, files \in {"ready", "failed"} :
                LET wanted == options.control /\ fps = "ready" /\ buffer = "ready" IN
                /\ state' = [state EXCEPT !["fpsCounter"] = fps, !["videoBuffer"] = buffer,
                               !["fileHandler"] = IF wanted THEN files ELSE @]
                /\ flags' = flags \cup {"fpsCounter", "videoBuffer"}
                              \cup (IF wanted THEN {"fileHandler"} ELSE {})
          BY <3>2, <4>1, Zenon DEF InitDisplay
        <5>. QED BY <5>1 DEF Components
      <4>2. CASE ~(~cannot_cont /\ options.display)
        BY <3>2, <4>2, Zenon DEF InitDisplay
      <4>. QED BY <4>1, <4>2
    <3>10. CASE InitRecorder \/ InitController
      <4>1. \E c \in {"recorder", "controller"} :
              \/ state' \in InitTo(c) /\ flags' = flags \cup {c}
              \/ UNCHANGED <<state, flags>>
        BY <3>10, Zenon DEF InitRecorder, InitController
      <4>. QED BY <4>1 DEF InitTo, Components
    <3>3. CASE StartStream \/ StartAgents
      BY <3>3 DEF StartStream, StartAgents, Failing
    <3>4. CASE StartController
      BY <3>4 DEF StartController
    <3>5. CASE OpenWindow
      BY <3>5 DEF OpenWindow, InitTo, Failing
    <3>6. CASE ConnectTo
      BY <3>6 DEF ConnectTo, Failing
    <3>7. CASE DestroyControl \/ DestroyFileHandler \/ DestroyFpsCounter
      <4>1. \A S : DestroyAll(S) =>
               state' \in [Components -> {"unset", "ready", "failed", "undone", "destroyed"}]
        BY DEF DestroyAll
      <4>. QED BY <3>7, <4>1 DEF DestroyControl, DestroyFileHandler, DestroyFpsCounter
    <3>8. CASE UNCHANGED <<cannot_cont, sdl, flags, state>>
      BY <3>8
    <3>9. \/ InitAgents \/ InitSDL \/ ReadInfo \/ InitDisplay \/ InitRecorder \/ InitController
          \/ StartStream \/ StartAgents \/ StartController \/ OpenWindow \/ ConnectTo
          \/ DestroyControl \/ DestroyFileHandler \/ DestroyFpsCounter
          \/ UNCHANGED <<cannot_cont, sdl, flags, state>>
      BY LocalsUnchanged, Zenon
    <3>. QED BY <3>1, <3>2, <3>3, <3>4, <3>5, <3>6, <3>7, <3>8, <3>9, <3>10
  <2>3. (running \subseteq Threads /\ told \subseteq Threads)'
    <3>. USE DEF TypeInv, Threads
    <3>1. CASE StartStream \/ StartAgents \/ StartController
      BY <3>1 DEF StartStream, StartAgents, StartController
    <3>2. CASE StartHeadless \/ UserStartsFpsCounter \/ UserDropsFile
      BY <3>2 DEF StartHeadless, UserStartsFpsCounter, UserDropsFile, StartFpsCounter
    <3>3. CASE StopControl \/ StopOthers
      BY <3>3 DEF StopControl, StopOthers
    <3>4. CASE StreamEnds \/ ControllerEnds \/ ToldThreadEnds
      BY <3>4 DEF StreamEnds, ControllerEnds, ToldThreadEnds, Ends
    <3>5. CASE UNCHANGED <<running, told>>
      BY <3>5
    <3>. QED BY <3>1, <3>2, <3>3, <3>4, <3>5, ThreadsUnchanged
  <2>4. (touches \in 0..1)'
    <3>1. CASE EnableShowTouches \/ WaitShowTouches \/ RestoreTouches
      <4>1. touches' \in {0, 1, touches}
        BY <3>1, Zenon DEF EnableShowTouches, WaitShowTouches, RestoreTouches
      <4>. QED BY <4>1 DEF TypeInv
    <3>2. CASE UNCHANGED touchVars
      BY <3>2 DEF TypeInv, touchVars
    <3>. QED BY <3>1, <3>2, TouchesUnchanged
  <2>. QED BY <2>1, <2>2, <2>3, <2>4 DEF TypeInv
<1>. QED BY <1>1, <1>2, PTL DEF Spec

LEMMA JoinSteps ==
  /\ JoinStream => /\ pc = "joinStream" /\ pc' = "joinController" /\ UNCHANGED <<state, flags, running>>
                   /\ "stream" \notin running
  /\ JoinController =>
       /\ pc = "joinController" /\ pc' \in {"joinAgents", "crashed"} /\ UNCHANGED <<state, flags, running>>
       /\ "controllerStarted" \in flags /\ pc' = "joinAgents" => running \cap {"controller", "receiver"} = {}
  /\ JoinAgents => /\ pc = "joinAgents" /\ pc' = "destroyControl" /\ UNCHANGED <<state, flags, running>>
                   /\ "controllerStarted" \in flags => "agentStream" \notin running
  /\ JoinFileHandler =>
       /\ pc = "joinFiles" /\ pc' = "destroyFiles" /\ UNCHANGED <<state, flags, running>>
       /\ "fileHandler" \in flags => "fileHandler" \notin running
  /\ JoinFpsCounter =>
       /\ pc = "joinFps" /\ pc' = "destroyFps" /\ UNCHANGED <<state, flags, running>>
       /\ "fpsCounter" \in flags => "fpsCounter" \notin running
<1>1. JoinController =>
        \/ Join("joinController", "joinAgents", WhenStarted({"controller", "receiver"}))
        \/ pc = "joinController" /\ pc' = "crashed" /\ UNCHANGED <<state, flags, running>>
  BY Zenon DEF JoinController, Goto, coreVars, coreLocals, threadVars
<1>. QED
  BY <1>1, JoiningSteps DEF JoinStream, JoinAgents, JoinFileHandler, JoinFpsCounter, WhenStarted

\* The steps before the joins, by where they lead, and the others.
LEMMA Moves ==
  ASSUME TypeInv, [Next]_vars
  PROVE  \/ pc' \in Before \cup Ended \cup {"startController"} \cup Opening \cup Stopping \cup {"joinStream"}
         \/ JoinStream \/ JoinController \/ JoinAgents \/ JoinFileHandler \/ JoinFpsCounter
         \/ DestroyControl \/ DestroyFileHandler \/ DestroyFpsCounter
         \/ StreamEnds \/ ControllerEnds \/ ToldThreadEnds \/ ClientConnects \/ ClientLeaves
         \/ (ServerDies /\ UNCHANGED coreVars) \/ UNCHANGED vars
<1>1. ParseArgs \/ RunMain \/ EnableShowTouches \/ InitSDL \/ ReadInfo \/ ServerStart \/ ConnectTo
        \/ FinishConnection \/ StartStream \/ StartAgents => pc' \in Before \cup Ended
  BY BeforeSteps DEF Before, Starting, Ended
<1>2. InitAgents \/ InitDisplay \/ InitRecorder => pc' \in Before \cup Ended
  BY InitSteps DEF Before, Preparing, Initialising, Ended
<1>3. InitController \/ StartController => pc' \in {"startController"} \cup Opening \cup Ended
  BY InitSteps DEF Opening, Ended
<1>4. OpenWindow \/ TurnScreenOff \/ WaitShowTouches \/ StartHeadless \/ UserStartsFpsCounter
        \/ UserDropsFile \/ UserTouches \/ HandleOpenCVFrame \/ UserQuits \/ LeaveLoop =>
        pc' \in Opening \cup {"stop"} \cup Ended
  BY OpeningSteps
<1>5. StopControl \/ StopOthers \/ StopServer => pc' \in Stopping \cup {"joinStream", "crashed"}
  BY StoppingSteps
<1>6. StreamCrashes \/ ClientEndsProgram \/ RestoreTouches => pc' \in Ended
  BY StoppingSteps, DestroyingSteps DEF Ended
<1>7. "stop" \in Stopping /\ "crashed" \in Ended
  BY DEF Stopping, Ended
<1>. QED BY <1>1, <1>2, <1>3, <1>4, <1>5, <1>6, <1>7, Steps

\* Only the calls of Destroy destroy something.
LEMMA KeepSteps ==
  ASSUME TypeInv, [Next]_vars, ~DestroyControl, ~DestroyFileHandler, ~DestroyFpsCounter
  PROVE  NoneDestroyed
<1>1. CASE InitAgents \/ InitDisplay \/ InitRecorder \/ InitController \/ StartController \/ OpenWindow
  BY <1>1, InitSteps, OpeningSteps
<1>2. CASE UNCHANGED state
  BY <1>2 DEF NoneDestroyed
<1>3. InitSDL \/ ReadInfo \/ StartStream \/ StartAgents \/ ConnectTo => UNCHANGED state
  BY BeforeSteps
<1>. QED BY <1>1, <1>2, <1>3, LocalsUnchanged

LEMMA Ordering == Spec => [](FlagsInv /\ IntactInv)
<1>. USE DEF FlagsInv, IntactInv
<1>1. Init => FlagsInv /\ IntactInv
  BY DEF Init, ServerInit, Before, Starting, Opening, Stopping, Joining, Destroying
<1>2. TypeInv /\ FlagsInv /\ IntactInv /\ [Next]_vars => (FlagsInv /\ IntactInv)'
  <2>. SUFFICES ASSUME TypeInv, FlagsInv, IntactInv, [Next]_vars
                PROVE  (FlagsInv /\ IntactInv)'
    OBVIOUS
  <2>. USE DEF Before, Starting, Preparing, Connecting, Initialising, Opening, Stopping, Joining,
               Destroying, Ended, NoneDestroyed
  <2>1. CASE ParseArgs \/ RunMain \/ EnableShowTouches \/ InitSDL \/ ReadInfo \/ ServerStart \/ ConnectTo
               \/ FinishConnection
    BY <2>1, BeforeSteps
  <2>2. CASE StartStream \/ StartAgents
    BY <2>2, BeforeSteps
  <2>3. CASE InitAgents \/ InitDisplay \/ InitRecorder
    BY <2>3, InitSteps
  <2>4. CASE InitController
    BY <2>4, InitSteps
  <2>5. CASE StartController
    BY <2>5, InitSteps
  <2>6. CASE OpenWindow \/ TurnScreenOff \/ WaitShowTouches \/ StartHeadless \/ UserStartsFpsCounter
               \/ UserDropsFile \/ UserTouches \/ HandleOpenCVFrame \/ UserQuits \/ LeaveLoop
    BY <2>6, OpeningSteps
  <2>7. CASE StopControl \/ StopOthers \/ StopServer
    BY <2>7, StoppingSteps
  <2>8. CASE StreamCrashes \/ ClientEndsProgram
    BY <2>8, StoppingSteps
  <2>9. CASE JoinStream \/ JoinController \/ JoinAgents
    BY <2>9, JoinSteps
  <2>10. CASE JoinFileHandler \/ JoinFpsCounter
    BY <2>10, JoinSteps
  <2>11. CASE DestroyControl \/ DestroyFileHandler \/ DestroyFpsCounter \/ RestoreTouches
    BY <2>11, DestroyingSteps
  <2>12. CASE StreamEnds \/ ControllerEnds \/ ToldThreadEnds \/ ClientConnects \/ ClientLeaves
                \/ (ServerDies /\ UNCHANGED coreVars) \/ UNCHANGED vars
    BY <2>12, ThreadSteps
  <2>. QED
    BY <2>1, <2>2, <2>3, <2>4, <2>5, <2>6, <2>7, <2>8, <2>9, <2>10, <2>11, <2>12, Steps, Zenon
<1>. QED BY <1>1, <1>2, Typing, PTL DEF Spec

LEMMA Waiting == Spec => []JoinedInv
<1>1. Init => JoinedInv
  BY DEF Init, JoinedInv
<1>2. JoinedInv /\ TypeInv /\ [Next]_vars => JoinedInv'
  <2>. SUFFICES ASSUME JoinedInv, TypeInv, [Next]_vars
                PROVE  JoinedInv'
    OBVIOUS
  <2>. USE DEF JoinedInv
  <2>1. CASE pc' \in Before \cup Ended \cup {"startController"} \cup Opening \cup Stopping \cup {"joinStream"}
    BY <2>1 DEF Before, Starting, Preparing, Connecting, Initialising, Opening, Stopping, Destroying, Ended
  <2>2. CASE JoinStream
    BY <2>2, JoinSteps DEF Destroying
  <2>3. CASE JoinController
    BY <2>3, JoinSteps DEF Destroying
  <2>4. CASE JoinAgents
    BY <2>4, JoinSteps DEF Destroying
  <2>5. CASE JoinFileHandler \/ JoinFpsCounter
    BY <2>5, JoinSteps DEF Destroying
  <2>6. CASE DestroyControl \/ DestroyFileHandler \/ DestroyFpsCounter
    BY <2>6, DestroyingSteps DEF Destroying
  <2>7. CASE StreamEnds \/ ControllerEnds \/ ToldThreadEnds \/ ClientConnects \/ ClientLeaves
               \/ (ServerDies /\ UNCHANGED coreVars) \/ UNCHANGED vars
    BY <2>7, ThreadSteps
  <2>8. \/ pc' \in Before \cup Ended \cup {"startController"} \cup Opening \cup Stopping \cup {"joinStream"}
        \/ JoinStream \/ JoinController \/ JoinAgents \/ JoinFileHandler \/ JoinFpsCounter
        \/ DestroyControl \/ DestroyFileHandler \/ DestroyFpsCounter
        \/ StreamEnds \/ ControllerEnds \/ ToldThreadEnds \/ ClientConnects \/ ClientLeaves
        \/ (ServerDies /\ UNCHANGED coreVars) \/ UNCHANGED vars
    BY Moves
  <2>. QED BY <2>1, <2>2, <2>3, <2>4, <2>5, <2>6, <2>7, <2>8, Zenon
<1>. QED BY <1>1, <1>2, Typing, PTL DEF Spec

\* Nothing is destroyed while a thread still uses it, whatever has failed and whenever the
\* threads end (irobot_core.cpp:303-346).
THEOREM UsersAreJoinedFirst == Spec => []UsersJoinedFirst
<1>1. Init => UsersJoinedFirst
  BY DEF Init, UsersJoinedFirst
<1>2. TypeInv /\ FlagsInv /\ IntactInv /\ IntactInv' /\ JoinedInv /\ UsersJoinedFirst /\ [Next]_vars
        => UsersJoinedFirst'
  <2>. SUFFICES ASSUME TypeInv, FlagsInv, IntactInv, IntactInv', JoinedInv, UsersJoinedFirst, [Next]_vars
                PROVE  UsersJoinedFirst'
    OBVIOUS
  <2>1. CASE \A c \in Components : state'[c] # "destroyed"
    BY <2>1 DEF UsersJoinedFirst
  <2>2. CASE running' \subseteq running /\ NoneDestroyed
    BY <2>2 DEF UsersJoinedFirst, NoneDestroyed
  <2>3. CASE DestroyControl
    <3>1. "stream" \notin running
      BY <2>3, DestroyingSteps DEF JoinedInv, Destroying
    <3>2. "controller" \in flags => running \cap {"controller", "receiver", "agentStream"} = {}
      BY <2>3, DestroyingSteps DEF JoinedInv, FlagsInv, Destroying
    <3>3. \A c \in Components : state'[c] = "destroyed" =>
            \/ c \in {"controller", "agentManager"} /\ "controller" \in flags
            \/ c = "recorder"
      BY <2>3, DestroyingSteps DEF DestroyAll, IntactInv
    <3>. QED
      BY <2>3, <3>1, <3>2, <3>3, DestroyingSteps DEF UsersJoinedFirst, Uses, TypeInv, Threads
  <2>4. CASE DestroyFileHandler
    <3>1. "stream" \notin running /\ ("fileHandler" \in flags => "fileHandler" \notin running)
      BY <2>4, DestroyingSteps DEF JoinedInv, Destroying
    <3>2. \A c \in Components : state'[c] = "destroyed" =>
            \/ state[c] = "destroyed"
            \/ c = "fileHandler" /\ "fileHandler" \in flags
            \/ c = "videoBuffer"
      BY <2>4, DestroyingSteps DEF DestroyAll
    <3>. QED
      BY <2>4, <3>1, <3>2, DestroyingSteps DEF UsersJoinedFirst, Uses, TypeInv, Threads
  <2>5. CASE DestroyFpsCounter
    <3>1. "stream" \notin running /\ ("fpsCounter" \in flags => "fpsCounter" \notin running)
      BY <2>5, DestroyingSteps DEF JoinedInv, Destroying
    <3>2. \A c \in Components : state'[c] = "destroyed" =>
            state[c] = "destroyed" \/ (c = "fpsCounter" /\ "fpsCounter" \in flags)
      BY <2>5, DestroyingSteps DEF DestroyAll
    <3>. QED
      BY <2>5, <3>1, <3>2, DestroyingSteps DEF UsersJoinedFirst, Uses, TypeInv, Threads
  <2>6. CASE StartStream \/ StartAgents \/ StartController \/ StartHeadless \/ UserStartsFpsCounter
               \/ UserDropsFile
    <3>1. \A c \in Components : state[c] # "destroyed"
      BY <2>6, BeforeSteps, InitSteps, OpeningSteps DEF IntactInv, Before
    <3>2. NoneDestroyed
      BY <2>6, BeforeSteps, InitSteps, OpeningSteps DEF NoneDestroyed
    <3>. QED BY <3>1, <3>2, <2>1 DEF NoneDestroyed
  <2>7. CASE ~(\/ DestroyControl \/ DestroyFileHandler \/ DestroyFpsCounter
               \/ StartStream \/ StartAgents \/ StartController \/ StartHeadless \/ UserStartsFpsCounter
               \/ UserDropsFile)
    <3>1. NoneDestroyed
      BY <2>7, KeepSteps
    <3>2. running' \subseteq running
      BY <2>7, ThreadSteps, ThreadsUnchanged, StoppingSteps
    <3>. QED BY <2>2, <3>1, <3>2
  <2>. QED BY <2>3, <2>4, <2>5, <2>6, <2>7
<1>. QED BY <1>1, <1>2, Typing, Ordering, Waiting, PTL DEF Spec

----------------------------------------------------------------------------
(* What the components need is there. *)

\* From the initialisation of the display on, what is used there.
Displaying == Initialising \cup {"startController"} \cup Opening

\* The screen is turned off through the controller.
OptionsInv ==
  pc \in (Before \ {"args"}) \cup {"startController", "openWindow", "turnScreenOff"} =>
    (options.turn_screen_off => options.control)

Broken == cannot_cont \/ ~options.display \/ "failed" \in {state["fpsCounter"], state["videoBuffer"]}

ReadyInv ==
  pc \in Displaying /\ ~Broken =>
    /\ state["fpsCounter"] = "ready"
    /\ state["videoBuffer"] = "ready"
    /\ options.control => state["fileHandler"] \in {"ready", "failed"}

ControllerInv ==
  /\ pc = "startController" => state["controller"] \in {"ready", "failed"}
  /\ pc \in {"openWindow", "turnScreenOff"} /\ options.control =>
       state["controller"] \in {"ready", "failed", "undone"}
  /\ pc \in {"waitTouches", "headless", "loop"} /\ options.control =>
       cannot_cont \/ ~options.display \/ state["controller"] \in {"ready", "failed", "undone"}

\* The options are fixed once the arguments are read.
LEMMA OptionsKept ==
  ASSUME [Next]_vars, pc # "args"
  PROVE  UNCHANGED options
<1>1. ~ParseArgs /\ ~RunMain
  BY DEF ParseArgs, RunMain
<1>2. CASE UNCHANGED vars
  BY <1>2 DEF vars, coreVars, coreLocals, commandVars
<1>. QED BY <1>1, <1>2, OtherSteps DEF commandVars

LEMMA OpeningMoves ==
  /\ OpenWindow => pc = "openWindow" /\ pc' = "turnScreenOff"
  /\ TurnScreenOff => pc = "turnScreenOff" /\ pc' \in {"crashed", "waitTouches"}
  /\ WaitShowTouches => pc = "waitTouches" /\ pc' \in {"headless", "loop"}
  /\ StartHeadless => pc = "headless" /\ pc' \in {"crashed", "loop"}
  /\ UserStartsFpsCounter \/ UserDropsFile \/ UserTouches \/ HandleOpenCVFrame \/ UserQuits \/ LeaveLoop =>
       pc = "loop" /\ pc' \in {"crashed", "loop", "stop"}
<1>. USE DEF Goto
<1>1. OpenWindow => pc = "openWindow" /\ pc' = "turnScreenOff"
  BY Zenon DEF OpenWindow
<1>2. TurnScreenOff => pc = "turnScreenOff" /\ pc' \in {"crashed", "waitTouches"}
  BY Zenon DEF TurnScreenOff
<1>3. WaitShowTouches => pc = "waitTouches" /\ pc' \in {"headless", "loop"}
  BY Zenon DEF WaitShowTouches
<1>4. StartHeadless => pc = "headless" /\ pc' \in {"crashed", "loop"}
  BY Zenon DEF StartHeadless, StartFpsCounter
<1>5. UserStartsFpsCounter \/ UserDropsFile \/ UserTouches \/ HandleOpenCVFrame \/ UserQuits \/ LeaveLoop =>
        pc = "loop" /\ pc' \in {"crashed", "loop", "stop"}
  BY Zenon DEF UserStartsFpsCounter, StartFpsCounter, UserDropsFile, UserTouches, HasWindow,
     HandleOpenCVFrame, UserQuits, LeaveLoop
<1>. QED BY <1>1, <1>2, <1>3, <1>4, <1>5

\* A step that leads to the phases of the display comes from them, and so on.
LEMMA Comes ==
  ASSUME TypeInv, [Next]_vars
  PROVE  /\ pc' \in Displaying => pc \in Displaying \/ InitDisplay
         /\ pc' \in (Before \ {"args"}) \cup {"startController", "openWindow", "turnScreenOff"} =>
              pc \in (Before \ {"args"}) \cup {"startController", "openWindow", "turnScreenOff"} \/ RunMain
         /\ pc' = "startController" => pc = "startController" \/ InitController
         /\ pc' \in {"openWindow", "turnScreenOff"} =>
              \/ pc \in {"openWindow", "turnScreenOff"} /\ (pc' = pc \/ OpenWindow)
              \/ StartController \/ InitController
         /\ pc' \in {"waitTouches", "headless", "loop"} =>
              pc \in {"turnScreenOff", "waitTouches", "headless", "loop"} \/ InitController
<1>. USE DEF Displaying, Before, Starting, Preparing, Connecting, Initialising, Opening, Stopping,
             Joining, Destroying, Ended
<1>1. CASE ParseArgs \/ RunMain
  BY <1>1, BeforeSteps
<1>2. CASE EnableShowTouches \/ InitSDL \/ ReadInfo \/ ServerStart \/ ConnectTo \/ FinishConnection
             \/ StartStream \/ StartAgents
  BY <1>2, BeforeSteps
<1>3. CASE InitAgents \/ InitDisplay \/ InitRecorder
  BY <1>3, InitSteps
<1>4. CASE InitController \/ StartController
  BY <1>4, InitSteps
<1>5. CASE TurnScreenOff \/ WaitShowTouches \/ StartHeadless \/ UserStartsFpsCounter
             \/ UserDropsFile \/ UserTouches \/ HandleOpenCVFrame \/ UserQuits \/ LeaveLoop
  <2>1. pc \in Opening /\ pc' \in (Opening \ {"openWindow", "turnScreenOff"}) \cup {"stop"} \cup Ended
    BY <1>5, OpeningMoves
  <2>2. pc \in {"turnScreenOff", "waitTouches", "headless", "loop"}
    BY <1>5, OpeningMoves
  <2>. QED BY <2>1, <2>2
<1>6. CASE OpenWindow
  BY <1>6, OpeningMoves
<1>7. CASE StopControl \/ StopOthers \/ StopServer \/ StreamCrashes \/ ClientEndsProgram
  BY <1>7, StoppingSteps
<1>8. CASE JoinStream \/ JoinController \/ JoinAgents \/ JoinFileHandler \/ JoinFpsCounter
  BY <1>8, JoinSteps
<1>9. CASE DestroyControl \/ DestroyFileHandler \/ DestroyFpsCounter \/ RestoreTouches
  BY <1>9, DestroyingSteps
<1>10. CASE StreamEnds \/ ControllerEnds \/ ToldThreadEnds \/ ClientConnects \/ ClientLeaves
              \/ (ServerDies /\ UNCHANGED coreVars) \/ UNCHANGED vars
  BY <1>10, ThreadSteps
<1>. QED BY <1>1, <1>2, <1>3, <1>4, <1>5, <1>6, <1>7, <1>8, <1>9, <1>10, Steps, Zenon

\* Who changes the display and the files, and whether a failure is forgotten.
LEMMA DisplayKept ==
  ASSUME TypeInv, [Next]_vars, ~InitDisplay, ~DestroyControl, ~DestroyFileHandler, ~DestroyFpsCounter
  PROVE  /\ \A c \in {"fpsCounter", "videoBuffer", "fileHandler"} : state'[c] = state[c]
         /\ cannot_cont => cannot_cont'
<1>1. CASE InitAgents
  <2>1. UNCHANGED cannot_cont /\ state' \in InitTo("agentManager")
    BY <1>1 DEF InitAgents, InitTo
  <2>2. cannot_cont => cannot_cont'
    BY <2>1, Zenon
  <2>4. \A c \in {"fpsCounter", "videoBuffer", "fileHandler"} : state'[c] = state[c]
    BY <2>1 DEF InitTo, TypeInv, Components
  <2>. QED BY <2>2, <2>4, Zenon
<1>2. CASE InitSDL \/ ReadInfo \/ ConnectTo \/ StartStream \/ StartAgents
  <2>1. UNCHANGED state
    BY <1>2, BeforeSteps
  <2>2. cannot_cont => cannot_cont'
    BY <1>2, Zenon DEF InitSDL, ReadInfo, ConnectTo, StartStream, StartAgents, Failing
  <2>. QED BY <2>1, <2>2
<1>3. CASE InitRecorder \/ InitController
  <2>1. \E c \in {"recorder", "controller"} : state' \in InitTo(c) \/ UNCHANGED state
    BY <1>3, Zenon DEF InitRecorder, InitController
  <2>2. cannot_cont => UNCHANGED cannot_cont
    BY <1>3, Zenon DEF InitRecorder, InitController
  <2>3. cannot_cont => cannot_cont'
    BY <2>2, Zenon
  <2>4. \A c \in {"fpsCounter", "videoBuffer", "fileHandler"} : state'[c] = state[c]
    BY <2>1 DEF InitTo, TypeInv, Components
  <2>. QED BY <2>3, <2>4, Zenon
<1>4. CASE StartController
  <2>1. state' \in {state, [state EXCEPT !["controller"] = "undone"]}
    BY <1>4 DEF StartController
  <2>2. cannot_cont' = TRUE \/ UNCHANGED cannot_cont
    BY <1>4, Zenon DEF StartController
  <2>3. cannot_cont => cannot_cont'
    BY <2>2, Zenon
  <2>4. \A c \in {"fpsCounter", "videoBuffer", "fileHandler"} : state'[c] = state[c]
    BY <2>1 DEF TypeInv, Components
  <2>. QED BY <2>3, <2>4, Zenon
<1>5. CASE OpenWindow
  <2>1. UNCHANGED state \/ state' \in InitTo("screen")
    BY <1>5, Zenon DEF OpenWindow
  <2>2. cannot_cont' = cannot_cont \/ cannot_cont' = Failing(state'["screen"] = "ready")
    BY <1>5, Zenon DEF OpenWindow
  <2>3. cannot_cont => cannot_cont'
    BY <2>2, Zenon DEF Failing
  <2>4. \A c \in {"fpsCounter", "videoBuffer", "fileHandler"} : state'[c] = state[c]
    BY <2>1 DEF InitTo, TypeInv, Components
  <2>. QED BY <2>3, <2>4, Zenon
<1>6. CASE UNCHANGED <<cannot_cont, state>>
  <2>1. cannot_cont' = cannot_cont
    BY <1>6
  <2>2. cannot_cont => cannot_cont'
    BY <2>1, Zenon
  <2>. QED BY <1>6, <2>2
<1>. QED BY <1>1, <1>2, <1>3, <1>4, <1>5, <1>6, LocalsUnchanged, Zenon

LEMMA BeforeMoves ==
  /\ EnableShowTouches => pc' = "initAgents"
  /\ InitSDL => pc' = "connect"
  /\ ReadInfo => pc' = "initDisplay"
  /\ ConnectTo => pc' \in {"connectControl", "connected", "readInfo"}
  /\ FinishConnection => pc' = "readInfo"
  /\ StartStream => pc' = "startAgents"
  /\ StartAgents => pc' = "initController"
<1>1. ConnectTo \/ FinishConnection => pc' \in {"connectControl", "connected", "readInfo"}
  BY ServerConnects
<1>2. FinishConnection => pc' = "readInfo"
  BY ServerConnects
<1>. QED
  BY <1>1, <1>2, Zenon DEF EnableShowTouches, InitSDL, ReadInfo, StartStream, StartAgents, Goto

\* The phases that start the controller keep the others' states.
LEMMA StateKept ==
  ASSUME TypeInv, [Next]_vars, pc' = pc, pc \in {"startController", "openWindow", "turnScreenOff"}
  PROVE  UNCHANGED state
<1>1. ~InitAgents /\ ~InitDisplay /\ ~InitRecorder /\ ~InitController /\ ~StartController
  BY InitSteps
<1>2. ~OpenWindow /\ ~DestroyControl /\ ~DestroyFileHandler /\ ~DestroyFpsCounter
  BY OpeningMoves, DestroyingSteps
<1>3. InitSDL \/ ReadInfo \/ StartStream \/ StartAgents \/ ConnectTo => UNCHANGED state
  BY BeforeSteps
<1>. QED BY <1>1, <1>2, <1>3, LocalsUnchanged

\* So does the event loop.
LEMMA LoopKept ==
  ASSUME TypeInv, [Next]_vars, pc \in {"turnScreenOff", "waitTouches", "headless", "loop"}
  PROVE  UNCHANGED <<cannot_cont, state>>
<1>1. ~InitAgents /\ ~InitDisplay /\ ~InitRecorder /\ ~InitController /\ ~StartController
  BY InitSteps
<1>2. ~OpenWindow /\ ~DestroyControl /\ ~DestroyFileHandler /\ ~DestroyFpsCounter
  BY OpeningMoves, DestroyingSteps
<1>3. ~InitSDL /\ ~ReadInfo /\ ~StartStream /\ ~StartAgents /\ ~ConnectTo
  BY BeforeSteps DEF Before, Starting, Preparing, Connecting, Initialising
<1>. QED BY <1>1, <1>2, <1>3, LocalsUnchanged

\* The command line's test, which Start relies on.
LEMMA OptionsStep ==
  ASSUME TypeInv, OptionsInv, [Next]_vars
  PROVE  OptionsInv'
<1>1. CASE RunMain
  <2>1. CASE pc' = "exited"
    BY <2>1 DEF OptionsInv, Before, Starting, Preparing, Connecting, Initialising
  <2>2. CASE pc' # "exited"
    <3>1. Consistent /\ options' = Selected(options)
      BY <1>1, <2>2, Zenon DEF RunMain, ExitNow
    <3>2. /\ options'.turn_screen_off = options.turn_screen_off
          /\ options'.control = options.control
      BY <3>1 DEF Selected
    <3>3. options.turn_screen_off => options.control
      BY <3>1, Zenon DEF Consistent
    <3>4. options'.turn_screen_off => options'.control
      BY <3>2, <3>3, Zenon
    <3>. QED BY <3>4, Zenon DEF OptionsInv
  <2>. QED BY <2>1, <2>2
<1>2. CASE ~RunMain
  <2>1. CASE pc' \in (Before \ {"args"}) \cup {"startController", "openWindow", "turnScreenOff"}
    <3>1. pc \in (Before \ {"args"}) \cup {"startController", "openWindow", "turnScreenOff"}
      BY <1>2, <2>1, Comes
    <3>2. UNCHANGED options
      BY <3>1, OptionsKept
    <3>3. options.turn_screen_off => options.control
      BY <3>1, Zenon DEF OptionsInv
    <3>4. options'.turn_screen_off => options'.control
      BY <3>2, <3>3, Zenon
    <3>. QED BY <3>4, Zenon DEF OptionsInv
  <2>. QED BY <2>1, Zenon DEF OptionsInv
<1>. QED BY <1>1, <1>2

LEMMA ReadyStep ==
  ASSUME TypeInv, ReadyInv, [Next]_vars
  PROVE  ReadyInv'
<1>. SUFFICES ASSUME pc' \in Displaying, ~Broken'
              PROVE  /\ state'["fpsCounter"] = "ready"
                     /\ state'["videoBuffer"] = "ready"
                     /\ options'.control => state'["fileHandler"] \in {"ready", "failed"}
  BY Zenon DEF ReadyInv
<1>0. /\ ~cannot_cont' /\ options'.display
      /\ state'["fpsCounter"] # "failed" /\ state'["videoBuffer"] # "failed"
  BY Zenon DEF Broken
<1>1. CASE InitDisplay
  <2>0. pc = "initDisplay" /\ UNCHANGED options
    BY <1>1, InitSteps, OptionsKept
  <2>1. ~cannot_cont /\ options.display
    <3>1. CASE ~(~cannot_cont /\ options.display)
      <4>1. UNCHANGED cannot_cont
        BY <1>1, <3>1, Zenon DEF InitDisplay
      <4>. QED BY <1>0, <2>0, <3>1, <4>1, Zenon
    <3>. QED BY <3>1
  <2>2. PICK fps \in {"ready", "failed"}, buffer \in {"ready", "failed"}, files \in {"ready", "failed"} :
          LET wanted == options.control /\ fps = "ready" /\ buffer = "ready" IN
          state' = [state EXCEPT !["fpsCounter"] = fps, !["videoBuffer"] = buffer,
                      !["fileHandler"] = IF wanted THEN files ELSE @]
    BY <1>1, <2>1, Zenon DEF InitDisplay
  <2>3. state'["fpsCounter"] = fps /\ state'["videoBuffer"] = buffer
    BY <2>2 DEF TypeInv, Components
  <2>4. fps = "ready" /\ buffer = "ready"
    BY <1>0, <2>3
  <2>5. options.control => state'["fileHandler"] = files
    BY <2>2, <2>4 DEF TypeInv, Components
  <2>6. options'.control => options.control
    BY <2>0, Zenon
  <2>. QED BY <2>3, <2>4, <2>5, <2>6, Zenon
<1>2. CASE ~InitDisplay
  <2>1. pc \in Displaying
    BY <1>2, Comes
  <2>2. UNCHANGED options
    BY <2>1, OptionsKept
      DEF Displaying, Initialising, Opening
  <2>3. ~DestroyControl /\ ~DestroyFileHandler /\ ~DestroyFpsCounter
    BY <2>1, DestroyingSteps DEF Displaying, Initialising, Opening
  <2>4. /\ \A c \in {"fpsCounter", "videoBuffer", "fileHandler"} : state'[c] = state[c]
        /\ cannot_cont => cannot_cont'
    BY <1>2, <2>3, DisplayKept
  <2>5. ~cannot_cont /\ options.display
    BY <1>0, <2>2, <2>4, Zenon
  <2>6. /\ state'["fpsCounter"] = state["fpsCounter"]
        /\ state'["videoBuffer"] = state["videoBuffer"]
        /\ state'["fileHandler"] = state["fileHandler"]
    BY <2>4
  <2>7. ~Broken
    BY <1>0, <2>5, <2>6, Zenon DEF Broken
  <2>8. /\ state["fpsCounter"] = "ready" /\ state["videoBuffer"] = "ready"
        /\ options.control => state["fileHandler"] \in {"ready", "failed"}
    BY <2>1, <2>7, Zenon DEF ReadyInv
  <2>9. options'.control => options.control
    BY <2>2, Zenon
  <2>. QED BY <2>6, <2>8, <2>9, Zenon
<1>. QED BY <1>1, <1>2

LEMMA ControllerStep ==
  ASSUME TypeInv, ControllerInv, [Next]_vars
  PROVE  ControllerInv'
<1>1. ASSUME pc' = "startController"
      PROVE  state'["controller"] \in {"ready", "failed"}
  <2>1. CASE InitController
    <3>1. state' \in InitTo("controller")
      BY <1>1, <2>1, Zenon DEF InitController, Goto
    <3>. QED BY <3>1 DEF InitTo, TypeInv, Components
  <2>2. CASE ~InitController
    <3>1. pc = "startController"
      BY <1>1, <2>2, Comes
    <3>2. state'["controller"] = state["controller"]
      BY <1>1, <3>1, StateKept
    <3>. QED BY <3>1, <3>2 DEF ControllerInv
  <2>. QED BY <2>1, <2>2
<1>2. ASSUME pc' \in {"openWindow", "turnScreenOff"}, options'.control
      PROVE  state'["controller"] \in {"ready", "failed", "undone"}
  <2>1. \/ pc \in {"openWindow", "turnScreenOff"} /\ (pc' = pc \/ OpenWindow)
        \/ StartController \/ InitController
    BY <1>2, Comes
  <2>2. pc # "args"
    BY <2>1, InitSteps
  <2>3. UNCHANGED options
    BY <2>2, OptionsKept
  <2>4. options.control
    BY <1>2, <2>3, Zenon
  <2>5. CASE StartController
    <3>1. state' \in {state, [state EXCEPT !["controller"] = "undone"]}
      BY <2>5 DEF StartController
    <3>2. state["controller"] \in {"ready", "failed"}
      BY <2>5, InitSteps DEF ControllerInv
    <3>. QED BY <3>1, <3>2 DEF TypeInv, Components
  <2>6. CASE InitController
    <3>1. pc' = "startController" \/ pc' = "waitTouches"
      BY <2>4, <2>6, Zenon DEF InitController, Goto
    <3>. QED BY <1>2, <3>1
  <2>7. CASE pc \in {"openWindow", "turnScreenOff"} /\ (pc' = pc \/ OpenWindow)
    <3>1. state'["controller"] = state["controller"]
      <4>1. CASE OpenWindow
        <5>1. UNCHANGED state \/ state' \in InitTo("screen")
          BY <4>1, Zenon DEF OpenWindow
        <5>. QED BY <5>1 DEF InitTo, TypeInv, Components
      <4>2. CASE pc' = pc
        BY <2>7, <4>2, StateKept
      <4>. QED BY <2>7, <4>1, <4>2
    <3>2. state["controller"] \in {"ready", "failed", "undone"}
      BY <2>4, <2>7, Zenon DEF ControllerInv
    <3>. QED BY <3>1, <3>2
  <2>. QED BY <2>1, <2>5, <2>6, <2>7
<1>3. ASSUME pc' \in {"waitTouches", "headless", "loop"}, options'.control, ~cannot_cont', options'.display
      PROVE  state'["controller"] \in {"ready", "failed", "undone"}
  <2>1. pc \in {"turnScreenOff", "waitTouches", "headless", "loop"} \/ InitController
    BY <1>3, Comes
  <2>2. UNCHANGED options
    BY <2>1, InitSteps, OptionsKept
  <2>3. options.control /\ options.display
    BY <1>3, <2>2, Zenon
  <2>4. ~InitController
    <3>1. ASSUME InitController PROVE cannot_cont' = cannot_cont /\ cannot_cont
      BY <1>3, <2>3, <3>1, Zenon DEF InitController, Goto
    <3>. QED BY <1>3, <3>1, Zenon
  <2>5. pc \in {"turnScreenOff", "waitTouches", "headless", "loop"}
    BY <2>1, <2>4
  <2>6. UNCHANGED <<cannot_cont, state>>
    BY <2>5, LoopKept
  <2>7. ~cannot_cont
    BY <1>3, <2>6, Zenon
  <2>8. state["controller"] \in {"ready", "failed", "undone"}
    BY <2>3, <2>5, <2>7, Zenon DEF ControllerInv
  <2>. QED BY <2>6, <2>8
<1>. QED BY <1>1, <1>2, <1>3, Zenon DEF ControllerInv

LEMMA Readying == Spec => [](OptionsInv /\ ReadyInv /\ ControllerInv)
<1>1. Init => OptionsInv /\ ReadyInv /\ ControllerInv
  BY DEF Init, ServerInit, OptionsInv, ReadyInv, ControllerInv, Displaying, Before, Starting, Preparing,
     Connecting, Initialising, Opening
<1>2. TypeInv /\ OptionsInv /\ ReadyInv /\ ControllerInv /\ [Next]_vars =>
        (OptionsInv /\ ReadyInv /\ ControllerInv)'
  BY OptionsStep, ReadyStep, ControllerStep
<1>. QED BY <1>1, <1>2, Typing, PTL DEF Spec

\* The steps that may crash.
LEMMA CrashSteps ==
  ASSUME TypeInv, [Next]_vars, pc' = "crashed"
  PROVE  \/ StartController \/ TurnScreenOff \/ StartHeadless \/ UserStartsFpsCounter \/ UserDropsFile \/ UserTouches
         \/ HandleOpenCVFrame \/ StopOthers \/ JoinController \/ StreamCrashes \/ ClientEndsProgram
         \/ UNCHANGED vars
<1>. USE DEF Before, Starting, Preparing, Connecting, Initialising, Opening, Ended
<1>0. CASE UNCHANGED vars
  BY <1>0
<1>1. CASE ~UNCHANGED vars
  <2>1. Next /\ pc \notin {"exited", "returned", "crashed"}
    BY <1>1 DEF Next, Finished, Over
  <2>2. ~ParseArgs /\ ~RunMain
    BY BeforeSteps
  <2>3. ~(EnableShowTouches \/ InitSDL \/ ReadInfo \/ ConnectTo \/ FinishConnection
           \/ StartStream \/ StartAgents)
    BY BeforeMoves
  <2>4. ~ServerStart
    BY ServerStarts
  <2>5. ~InitAgents /\ ~InitDisplay /\ ~InitRecorder /\ ~InitController
    BY InitSteps
  <2>6. ~OpenWindow /\ ~WaitShowTouches /\ ~UserQuits /\ ~LeaveLoop
    <3>1. UserQuits \/ LeaveLoop => pc' = "stop"
      BY Zenon DEF UserQuits, LeaveLoop, Goto
    <3>. QED BY <3>1, OpeningMoves
  <2>7. ~StopServer /\ ~StopControl
    <3>1. StopControl => pc' = "stopFiles"
      BY Zenon DEF StopControl, Goto
    <3>. QED BY <3>1, ServerConnects
  <2>8. ~JoinStream /\ ~JoinAgents /\ ~JoinFileHandler /\ ~JoinFpsCounter
    BY JoinSteps
  <2>9. ~DestroyControl /\ ~DestroyFileHandler /\ ~DestroyFpsCounter /\ ~RestoreTouches
    BY DestroyingSteps
  <2>10. ~(StreamEnds \/ ControllerEnds \/ ToldThreadEnds \/ ClientConnects \/ ClientLeaves
            \/ (ServerDies /\ UNCHANGED coreVars))
    BY <2>1, ThreadSteps
  <2>. QED BY <2>2, <2>3, <2>4, <2>5, <2>6, <2>7, <2>8, <2>9, <2>10, Steps, Zenon
<1>. QED BY <1>0, <1>1

LEMMA BrokenReasons ==
  ASSUME Broken
  PROVE  cannot_cont \/ ~options.display \/ \E c \in Components : state[c] \in {"failed", "undone"}
<1>1. CASE "failed" \in {state["fpsCounter"], state["videoBuffer"]}
  <2>1. \E c \in Components : state[c] \in {"failed", "undone"}
    BY <1>1 DEF Components
  <2>. QED BY <2>1, Zenon
<1>2. CASE cannot_cont \/ ~options.display
  BY <1>2, Zenon
<1>. QED BY <1>1, <1>2, Zenon DEF Broken

\* A step that crashes changes no state.
LEMMA CrashKeeps ==
  ASSUME TypeInv, [Next]_vars, pc' = "crashed"
  PROVE  UNCHANGED state
<1>1. CASE StartController
  BY <1>1, Zenon DEF StartController, Goto
<1>2. CASE TurnScreenOff \/ StartHeadless \/ UserStartsFpsCounter \/ UserDropsFile \/ UserTouches \/ HandleOpenCVFrame
  BY <1>2, Zenon DEF TurnScreenOff, StartHeadless, UserStartsFpsCounter, UserDropsFile, UserTouches,
     HandleOpenCVFrame, coreVars, coreLocals
<1>3. CASE StopOthers \/ JoinController \/ StreamCrashes \/ ClientEndsProgram
  BY <1>3, StoppingSteps, JoinSteps
<1>4. CASE UNCHANGED vars
  BY <1>4, ThreadSteps
<1>. QED BY <1>1, <1>2, <1>3, <1>4, CrashSteps

\* What makes a step crash has happened before it.
LEMMA CrashReasons ==
  ASSUME TypeInv, OptionsInv, ReadyInv, ControllerInv, [Next]_vars, pc' = "crashed", ~UNCHANGED vars
  PROVE  \/ cannot_cont \/ ~options.display \/ ClientEndsProgram \/ (UserTouches /\ ~options.control)
         \/ \E c \in Components : state[c] \in {"failed", "undone"}
<1>1. CASE StartController
  <2>1. state["controller"] = "failed"
    BY <1>1, Zenon DEF StartController, Goto
  <2>. QED BY <2>1 DEF Components
<1>2. CASE TurnScreenOff
  <2>1. pc = "turnScreenOff" /\ options.turn_screen_off /\ state["controller"] # "ready"
    BY <1>2, Zenon DEF TurnScreenOff, Goto
  <2>2. options.control
    BY <2>1, Zenon DEF OptionsInv
  <2>3. state["controller"] \in {"ready", "failed", "undone"}
    BY <2>1, <2>2, Zenon DEF ControllerInv
  <2>. QED BY <2>1, <2>3 DEF Components
<1>3. CASE StartHeadless \/ UserStartsFpsCounter
  <2>1. pc \in {"headless", "loop"} /\ state["fpsCounter"] # "ready"
    BY <1>3, Zenon DEF StartHeadless, UserStartsFpsCounter, StartFpsCounter, Goto
  <2>2. Broken
    BY <2>1, Zenon DEF ReadyInv, Displaying, Opening
  <2>. QED BY <2>2, BrokenReasons
<1>4. CASE UserDropsFile
  <2>1. pc = "loop" /\ options.control /\ state["fileHandler"] # "ready"
    <3>1. pc = "loop" /\ options.control
      BY <1>4, Zenon DEF UserDropsFile, HasWindow
    <3>2. state["fileHandler"] = "ready" => UNCHANGED pc
      BY <1>4, Zenon DEF UserDropsFile
    <3>. QED BY <3>1, <3>2
  <2>2. CASE Broken
    BY <2>2, BrokenReasons
  <2>3. CASE ~Broken
    <3>1. state["fileHandler"] \in {"ready", "failed"}
      BY <2>1, <2>3, Zenon DEF ReadyInv, Displaying, Opening
    <3>. QED BY <2>1, <3>1 DEF Components
  <2>. QED BY <2>2, <2>3
<1>5. CASE HandleOpenCVFrame
  <2>1. pc = "loop" /\ state["videoBuffer"] # "ready"
    BY <1>5, Zenon DEF HandleOpenCVFrame
  <2>2. Broken
    BY <2>1, Zenon DEF ReadyInv, Displaying, Opening
  <2>. QED BY <2>2, BrokenReasons
<1>6. CASE StopOthers
  <2>1. state["fileHandler"] = "failed"
    BY <1>6, Zenon DEF StopOthers, Goto
  <2>. QED BY <2>1 DEF Components
<1>7. CASE JoinController
  <2>1. state["controller"] = "undone"
    BY <1>7, Zenon DEF JoinController, Join, Goto
  <2>. QED BY <2>1 DEF Components
<1>8. CASE StreamCrashes
  <2>1. "failed" \in {state["videoBuffer"], state["recorder"], state["fpsCounter"]}
    BY <1>8, Zenon DEF StreamCrashes
  <2>. QED BY <2>1 DEF Components
<1>9. CASE UserTouches
  <2>1. pc = "loop" /\ state["controller"] \in {"unset", "failed"}
    BY <1>9, Zenon DEF UserTouches, HasWindow
  <2>2. CASE state["controller"] = "failed"
    BY <2>2 DEF Components
  <2>3. CASE state["controller"] = "unset"
    BY <1>9, <2>1, <2>3 DEF ControllerInv
  <2>. QED BY <2>1, <2>2, <2>3
<1>. QED BY <1>1, <1>2, <1>3, <1>4, <1>5, <1>6, <1>7, <1>8, <1>9, CrashSteps, Zenon

\* With any command line that ParseArgs accepts, the program crashes only after a step of
\* Start has failed, or because of an agent's client; or without a display, or because of a
\* finger with --no-control (irobot_core.cpp:172-316, 904-939, input_manager.cpp:619-623).
THEOREM CrashesAfterFailure == Spec => []CrashesOnlyAfterFailure
<1>1. Init => CrashesOnlyAfterFailure
  BY DEF Init, CrashesOnlyAfterFailure
<1>2. TypeInv /\ OptionsInv /\ ReadyInv /\ ControllerInv /\ CrashesOnlyAfterFailure /\ [Next]_vars
        => CrashesOnlyAfterFailure'
  <2>. SUFFICES ASSUME TypeInv, OptionsInv, ReadyInv, ControllerInv, CrashesOnlyAfterFailure, [Next]_vars,
                       pc' = "crashed"
                PROVE  \/ cannot_cont' \/ {"failed", "undone"} \cap {state'[c] : c \in Components} # {}
                       \/ blame' = "client" \/ (blame' = "finger" /\ ~options'.control)
                       \/ ~options'.display
    BY Zenon DEF CrashesOnlyAfterFailure
  <2>1. CASE UNCHANGED vars
    <3>1. UNCHANGED <<pc, cannot_cont, state, blame, options>>
      BY <2>1, Zenon DEF vars, coreVars, coreLocals, threadVars, commandVars
    <3>. QED BY <3>1, Zenon DEF CrashesOnlyAfterFailure
  <2>2. CASE ClientEndsProgram
    <3>1. blame' = "client"
      BY <2>2, Zenon DEF ClientEndsProgram
    <3>. QED BY <3>1, Zenon
  <2>3. CASE ~UNCHANGED vars /\ ~ClientEndsProgram
    <3>1. \/ cannot_cont \/ ~options.display \/ (UserTouches /\ ~options.control)
          \/ \E c \in Components : state[c] \in {"failed", "undone"}
      BY <2>3, CrashReasons
    <3>2. (cannot_cont => cannot_cont') /\ UNCHANGED options
      <4>1. ~ParseArgs /\ ~RunMain
        BY BeforeSteps
      <4>2. UNCHANGED options
        BY <2>3, <4>1, OtherSteps DEF commandVars
      <4>3. ~InitDisplay /\ ~DestroyControl /\ ~DestroyFileHandler /\ ~DestroyFpsCounter
        BY InitSteps, DestroyingSteps
      <4>. QED BY <4>2, <4>3, DisplayKept
    <3>3. CASE cannot_cont
      BY <3>2, <3>3, Zenon
    <3>4. CASE ~options.display
      BY <3>2, <3>4, Zenon
    <3>5. ASSUME NEW c \in Components, state[c] \in {"failed", "undone"}
          PROVE  {"failed", "undone"} \cap {state'[d] : d \in Components} # {}
      <4>1. state'[c] \in {"failed", "undone"}
        BY <3>5, CrashKeeps
      <4>. QED BY <4>1
    <3>6. CASE UserTouches /\ ~options.control
      <4>1. blame' = "finger"
        BY <3>6, Zenon DEF UserTouches
      <4>. QED BY <3>2, <3>6, <4>1, Zenon
    <3>. QED BY <3>1, <3>3, <3>4, <3>5, <3>6, Zenon
  <2>. QED BY <2>1, <2>2, <2>3
<1>. QED BY <1>1, <1>2, Typing, Readying, PTL DEF Spec

----------------------------------------------------------------------------
(* What is left on the device. *)

\* From the execution of the server until it is stopped.
Started == Preparing \cup Connecting \cup Initialising \cup {"startController"} \cup Opening \cup Stopping

\* Every open socket is in its variable, and the listening one belongs to "adb reverse".
OpenInv ==
  /\ open \subseteq {server_socket, video_socket, control_socket}
  /\ "server" \in open => ~tunnel_forward
  /\ pc \in Starting => open = {}
  /\ pc \in Preparing \cup {"execute"} => open \subseteq {"server"}
  /\ pc = "connectControl" => "control" \notin open

\* The tunnel, if there is one, is the one that DisableTunnel would remove, and Stop will
\* remove it, unless adb has failed to.
TunnelInv ==
  /\ tunnel = "forward" => tunnel_forward
  /\ tunnel = "reverse" => ~tunnel_forward
  /\ pc = "forward" => tunnel_forward
  /\ pc = "listen" => ~tunnel_forward
  /\ pc \in Starting \ {"listen"} => tunnel = "none"
  /\ pc \in Started => tunnel_enabled \/ tunnel = "none" \/ stuck

LeftInv ==
  /\ pc \in Starting \cup {"execute"} => process = "none" /\ touches = 0 /\ ~touchesOn
  /\ pc \in Joining \cup Destroying =>
       process = "reaped" /\ (tunnel = "none" \/ stuck) /\ open = {}
  /\ touchesOn => options.show_touches

\* The steps of the others do not lead into the phases of the server.
LEMMA Stays ==
  ASSUME TypeInv, [Next]_vars, ~ServerStart, ~ConnectTo, ~FinishConnection, ~StopServer
  PROVE  /\ pc' \in Starting => pc \in Starting
         /\ pc' \in Starting \ {"listen"} => pc \in Starting \ {"listen"}
         /\ pc' \in {"forward", "listen", "execute", "connectControl"} => pc = pc'
         /\ pc' \in Preparing => pc \in Preparing
         /\ pc' \in Started => pc \in Started
         /\ pc' \in Joining \cup Destroying => pc \in Joining \cup Destroying
         /\ pc' = "returned" => pc = "returned" \/ InitAgents \/ RestoreTouches
<1>. USE DEF Started, Before, Starting, Preparing, Connecting, Initialising, Opening, Stopping,
             Joining, Destroying, Ended
<1>1. CASE ParseArgs \/ RunMain
  BY <1>1, BeforeSteps
<1>2. CASE EnableShowTouches \/ InitSDL \/ ReadInfo \/ StartStream \/ StartAgents
  <2>1. /\ EnableShowTouches => pc = "showTouches"
        /\ InitSDL => pc = "initSDL"
        /\ ReadInfo => pc = "readInfo"
        /\ StartStream => pc = "startStream"
        /\ StartAgents => pc = "startAgents"
    BY Zenon DEF EnableShowTouches, InitSDL, ReadInfo, StartStream, StartAgents, Goto
  <2>. QED BY <1>2, <2>1, BeforeMoves
<1>3. CASE InitAgents \/ InitDisplay \/ InitRecorder
  BY <1>3, InitSteps
<1>4. CASE InitController \/ StartController
  BY <1>4, InitSteps
<1>5. CASE TurnScreenOff \/ WaitShowTouches \/ StartHeadless \/ OpenWindow
  BY <1>5, OpeningMoves
<1>6. CASE UserStartsFpsCounter \/ UserDropsFile \/ UserTouches \/ HandleOpenCVFrame \/ UserQuits \/ LeaveLoop
  BY <1>6, OpeningMoves
<1>7. CASE StopControl \/ StopOthers \/ StreamCrashes \/ ClientEndsProgram
  <2>1. /\ StopControl => pc = "stop" /\ pc' = "stopFiles"
        /\ StopOthers => pc = "stopFiles" /\ pc' \in {"stopServer", "crashed"}
    BY Zenon DEF StopControl, StopOthers, Goto
  <2>. QED BY <1>7, <2>1, StoppingSteps
<1>8. CASE JoinStream \/ JoinController \/ JoinAgents \/ JoinFileHandler \/ JoinFpsCounter
  BY <1>8, JoinSteps
<1>9. CASE DestroyControl \/ DestroyFileHandler \/ DestroyFpsCounter \/ RestoreTouches
  BY <1>9, DestroyingSteps
<1>10. CASE StreamEnds \/ ControllerEnds \/ ToldThreadEnds \/ ClientConnects \/ ClientLeaves
              \/ (ServerDies /\ UNCHANGED coreVars) \/ UNCHANGED vars
  BY <1>10, ThreadSteps
<1>. QED BY <1>1, <1>2, <1>3, <1>4, <1>5, <1>6, <1>7, <1>8, <1>9, <1>10, Steps, Zenon

LEMMA TunnelRemoved ==
  ASSUME TypeInv, TunnelInv
  PROVE  WithoutTunnel = "none"
<1>1. CASE tunnel = "none"
  BY <1>1, Zenon DEF WithoutTunnel
<1>2. CASE tunnel = "forward"
  BY <1>2, Zenon DEF WithoutTunnel, TunnelInv
<1>3. CASE tunnel = "reverse"
  BY <1>3, Zenon DEF WithoutTunnel, TunnelInv
<1>. QED BY <1>1, <1>2, <1>3 DEF TypeInv

\* What the others leave alone.
LEMMA ServerKept ==
  ASSUME [Next]_vars, ~ServerStart, ~ConnectTo, ~FinishConnection, ~StopServer,
         ~(ServerDies /\ UNCHANGED coreVars)
  PROVE  /\ UNCHANGED <<process, server_socket, video_socket, control_socket, open, tunnel>>
         /\ (tunnel_enabled' <=> tunnel_enabled) /\ (tunnel_forward' <=> tunnel_forward)
<1>1. UNCHANGED serverVars
  BY ServerUnchanged
<1>2. UNCHANGED <<process, server_socket, video_socket, control_socket, open, tunnel>>
  BY <1>1, Zenon DEF serverVars, sockets, tunnels
<1>3. tunnel_enabled' = tunnel_enabled /\ tunnel_forward' = tunnel_forward
  BY <1>1, Zenon DEF serverVars, tunnels
<1>4. (tunnel_enabled' <=> tunnel_enabled) /\ (tunnel_forward' <=> tunnel_forward)
  BY <1>3, Zenon
<1>. QED BY <1>2, <1>4, Zenon

LEMMA OpenStep ==
  ASSUME TypeInv, OpenInv, TunnelInv, [Next]_vars
  PROVE  OpenInv'
<1>. USE DEF OpenInv
<1>1. CASE ServerStart
  BY <1>1, ServerStarts DEF Starting, Preparing, TypeInv, TunnelInv, Invalid, Stdin, OwnSockets
<1>2. CASE ConnectTo
  BY <1>2, ServerConnects DEF Starting, Preparing, TypeInv, Invalid, Stdin, OwnSockets
<1>3. CASE FinishConnection
  BY <1>3, ServerConnects DEF Starting, Preparing, TypeInv, Invalid, Stdin, OwnSockets
<1>4. CASE StopServer
  BY <1>4, ServerConnects DEF Starting, Preparing, TypeInv, Invalid, Stdin, OwnSockets
<1>5. CASE ServerDies
  BY <1>5, ServerConnects
<1>6. CASE ~(ServerStart \/ ConnectTo \/ FinishConnection \/ StopServer \/ (ServerDies /\ UNCHANGED coreVars))
  BY <1>6, ServerKept, Stays
<1>. QED BY <1>1, <1>2, <1>3, <1>4, <1>5, <1>6

LEMMA TunnelStep ==
  ASSUME TypeInv, TunnelInv, [Next]_vars
  PROVE  TunnelInv'
<1>. USE DEF TunnelInv
<1>0. WithoutTunnel = "none" /\ (stuck => stuck')
  BY TunnelRemoved, StuckStays
<1>1. CASE ServerStart
  BY <1>0, <1>1, ServerStarts
     DEF Removed, Started, Starting, Preparing, Connecting, Initialising, Opening, Stopping
<1>2. CASE ConnectTo
  BY <1>0, <1>2, ServerConnects DEF Started, Starting, Preparing, Connecting
<1>3. CASE FinishConnection
  BY <1>0, <1>3, ServerConnects DEF Removed, Starting
<1>4. CASE StopServer
  BY <1>0, <1>4, ServerConnects
     DEF Removed, Started, Starting, Preparing, Connecting, Initialising, Opening, Stopping
<1>5. CASE ServerDies
  BY <1>0, <1>5, ServerConnects
<1>6. CASE ~(ServerStart \/ ConnectTo \/ FinishConnection \/ StopServer \/ (ServerDies /\ UNCHANGED coreVars))
  BY <1>0, <1>6, ServerKept, Stays DEF Starting
<1>. QED BY <1>1, <1>2, <1>3, <1>4, <1>5, <1>6

LEMMA LeftStep ==
  ASSUME TypeInv, OpenInv, TunnelInv, LeftInv, [Next]_vars
  PROVE  LeftInv'
<1>. USE DEF LeftInv
<1>1. ASSUME pc' \in Starting \cup {"execute"}
      PROVE  (process = "none" /\ touches = 0 /\ ~touchesOn)'
  <2>1. /\ pc \in Starting \cup {"execute"} /\ process' = "none"
    <3>1. CASE ServerStart
      BY <1>1, <3>1, ServerStarts DEF Starting
    <3>2. CASE ~ServerStart
      <4>1. ~ConnectTo /\ ~FinishConnection /\ ~StopServer
        BY <1>1, ServerConnects DEF Starting
      <4>2. pc \in Starting \cup {"execute"}
        BY <1>1, <3>2, <4>1, Stays
      <4>3. process = "none"
        BY <4>2
      <4>. QED BY <3>2, <4>1, <4>2, <4>3, ServerKept, ServerConnects
    <3>. QED BY <3>1, <3>2
  <2>2. UNCHANGED touchVars
    <3>1. /\ EnableShowTouches => pc = "showTouches"
          /\ WaitShowTouches => pc = "waitTouches"
          /\ RestoreTouches => pc = "restoreTouches"
      BY Zenon DEF EnableShowTouches, WaitShowTouches, RestoreTouches, Goto
    <3>. QED BY <2>1, <3>1, TouchesUnchanged DEF Starting
  <2>3. UNCHANGED touches /\ (touchesOn' = touchesOn)
    BY <2>2, Zenon DEF touchVars
  <2>4. touches = 0 /\ ~touchesOn
    BY <2>1, Zenon
  <2>5. touches' = 0 /\ ~touchesOn'
    BY <2>3, <2>4, Zenon
  <2>. QED BY <2>1, <2>5
<1>2. ASSUME pc' \in Joining \cup Destroying
      PROVE  (process = "reaped" /\ (tunnel = "none" \/ stuck) /\ open = {})'
  <2>1. CASE StopServer
    <3>1. tunnel' = "none" \/ stuck'
      BY <2>1, TunnelRemoved, StuckStays, ServerConnects DEF TunnelInv, Removed, Started, Stopping
    <3>. QED BY <2>1, <3>1, ServerConnects DEF OpenInv
  <2>2. CASE ~StopServer
    <3>1. ~ServerStart /\ ~ConnectTo /\ ~FinishConnection
      BY <1>2, ServerStarts, ServerConnects DEF Joining, Destroying
    <3>2. pc \in Joining \cup Destroying
      BY <1>2, <2>2, <3>1, Stays
    <3>3. process = "reaped" /\ (tunnel = "none" \/ stuck) /\ open = {}
      BY <3>2
    <3>4. ~ServerDies
      BY <3>3 DEF ServerDies
    <3>. QED BY <2>2, <3>1, <3>3, <3>4, ServerKept, StuckStays
  <2>. QED BY <2>1, <2>2
<1>3. ASSUME touchesOn'
      PROVE  options'.show_touches
  <2>1. pc # "args" => UNCHANGED options
    BY OptionsKept
  <2>2. CASE EnableShowTouches
    <3>1. pc = "showTouches"
      BY <2>2, Zenon DEF EnableShowTouches, Goto
    <3>2. options.show_touches \/ touchesOn' = touchesOn
      BY <2>2, Zenon DEF EnableShowTouches
    <3>3. options.show_touches
      BY <1>3, <3>2, Zenon
    <3>. QED BY <2>1, <3>1, <3>3
  <2>3. CASE ~EnableShowTouches
    <3>1. touchesOn
      <4>1. WaitShowTouches => touchesOn' = touchesOn
        BY Zenon DEF WaitShowTouches
      <4>2. RestoreTouches => (touchesOn' => touchesOn)
        BY Zenon DEF RestoreTouches
      <4>3. UNCHANGED touchVars => touchesOn' = touchesOn
        BY Zenon DEF touchVars
      <4>. QED BY <1>3, <2>3, <4>1, <4>2, <4>3, TouchesUnchanged, Zenon
    <3>2. pc # "args"
      BY <3>1 DEF Starting
    <3>. QED BY <2>1, <3>1, <3>2
  <2>. QED BY <2>2, <2>3
<1>. QED BY <1>1, <1>2, <1>3, Zenon

\* Whatever failed on the way, when Start returns the server is killed and waited for, the
\* tunnel is removed, the sockets are closed and the touches are hidden, unless an agents'
\* port was taken, and but for what adb itself has failed to remove or to hide
\* (device_server.cpp:234-344, irobot_core.cpp:109-361).
THEOREM NothingIsLeftBehind == Spec => []NothingLeftBehind
<1>1. Init => OpenInv /\ TunnelInv /\ LeftInv /\ NothingLeftBehind
  <2>. SUFFICES ASSUME Init
                PROVE  OpenInv /\ TunnelInv /\ LeftInv /\ NothingLeftBehind
    OBVIOUS
  <2>1. /\ pc = "args" /\ open = {} /\ tunnel = "none" /\ process = "none" /\ touches = 0 /\ ~touchesOn
    BY Zenon DEF Init, ServerInit
  <2>. QED
    BY <2>1 DEF OpenInv, TunnelInv, LeftInv, NothingLeftBehind, Started, Starting, Preparing, Connecting,
       Initialising, Opening, Stopping, Joining, Destroying
<1>2. TypeInv /\ OpenInv /\ TunnelInv /\ LeftInv /\ NothingLeftBehind /\ [Next]_vars
        => (OpenInv /\ TunnelInv /\ LeftInv /\ NothingLeftBehind)'
  <2>. SUFFICES ASSUME TypeInv, OpenInv, TunnelInv, LeftInv, NothingLeftBehind, [Next]_vars
                PROVE  NothingLeftBehind'
    BY OpenStep, TunnelStep, LeftStep
  <2>. SUFFICES ASSUME pc' = "returned", state'["agentManager"] # "failed"
                PROVE  /\ process' \in {"none", "reaped"} /\ (tunnel' = "none" \/ stuck') /\ open' = {}
                       /\ touches' = 0 /\ (touchesOn' => kept')
    BY Zenon DEF NothingLeftBehind
  <2>1. CASE ServerStart
    <3>1. process' = "none" /\ (tunnel' = "none" \/ stuck') /\ open' = {}
      BY <2>1, ServerStarts, TunnelRemoved DEF OpenInv, TunnelInv, LeftInv, Removed, Starting
    <3>2. touches = 0 /\ ~touchesOn
      BY <2>1, ServerStarts, Zenon DEF LeftInv, Starting
    <3>3. UNCHANGED touches /\ touchesOn' = touchesOn
      BY <2>1, CoreUnchanged, Zenon DEF coreVars, touchVars
    <3>4. touches' = 0 /\ ~touchesOn'
      BY <3>2, <3>3, Zenon
    <3>. QED BY <3>1, <3>4
  <2>2. CASE RestoreTouches
    <3>1. /\ process = "reaped" /\ (tunnel = "none" \/ stuck) /\ open = {}
          /\ touchesOn => options.show_touches
      BY <2>2, DestroyingSteps DEF LeftInv, Destroying
    <3>2. UNCHANGED <<process, open, tunnel>> /\ (stuck => stuck')
      BY <2>2, StuckStays, Zenon DEF RestoreTouches, serverVars, sockets, tunnels
    <3>3. touches' = 0
      BY <2>2, Zenon DEF RestoreTouches
    <3>4. touchesOn' => kept'
      <4>1. CASE options.show_touches
        <5>1. PICK result \in Results : /\ touchesOn' = (touchesOn /\ result # "done")
                                       /\ kept' = (result # "done")
          BY <2>2, <4>1, Zenon DEF RestoreTouches
        <5>. QED BY <5>1, Zenon
      <4>2. CASE ~options.show_touches
        <5>1. touchesOn' = touchesOn
          BY <2>2, <4>2, Zenon DEF RestoreTouches
        <5>. QED BY <3>1, <4>2, <5>1, Zenon
      <4>. QED BY <4>1, <4>2, Zenon
    <3>. QED BY <3>1, <3>2, <3>3, <3>4
  <2>3. CASE InitAgents
    <3>1. state' = [state EXCEPT !["agentManager"] = "failed"]
      BY <2>3, Zenon DEF InitAgents, Goto
    <3>. QED BY <3>1 DEF TypeInv, Components
  <2>4. CASE ~ServerStart /\ ~RestoreTouches /\ ~InitAgents
    <3>1. ~ConnectTo /\ ~FinishConnection /\ ~StopServer
      BY ServerConnects
    <3>2. pc = "returned"
      BY <2>4, <3>1, Stays
    <3>3. UNCHANGED vars
      BY <3>2 DEF Next, Over, Finished
    <3>4. UNCHANGED <<process, open, tunnel, stuck, state, touches, touchesOn, kept>>
      BY <3>3, Zenon DEF vars, serverVars, sockets, tunnels, coreVars, coreLocals, touchVars
    <3>5. /\ process \in {"none", "reaped"} /\ (tunnel = "none" \/ stuck) /\ open = {}
          /\ touches = 0 /\ (touchesOn => kept)
      BY <3>2, <3>4, Zenon DEF NothingLeftBehind
    <3>. QED BY <3>4, <3>5, Zenon
  <2>. QED BY <2>1, <2>2, <2>3, <2>4
<1>. QED BY <1>1, <1>2, Typing, PTL DEF Spec

(***************************************************************************)
(* The event loop: the rate counter.                                       *)
(***************************************************************************)

\* The end of an interval never lies further ahead than one interval, and every
\* counted frame lies in the interval that ends there.
CountInv ==
  /\ ticks \in 0..MaxTicks
  /\ next_timestamp \in Nat
  /\ next_timestamp <= ticks + Interval
  /\ \A t \in countedAt : /\ t \in Nat /\ t <= ticks
                          /\ t < next_timestamp /\ next_timestamp <= t + Interval

\* The interval that contains now is found by one division, however many were missed.
LEMMA NextInterval ==
  ASSUME NEW now \in Nat, NEW last \in Nat, NEW length \in Nat \ {0}, now >= last
  PROVE  LET next == last + length * ((now - last) \div length + 1)
         IN  next \in Nat /\ now < next /\ next <= now + length
<1>. DEFINE d == now - last
            q == d \div length
            r == d % length
<1>1. d \in Nat /\ q \in Nat /\ r \in 0..(length - 1) /\ d = length * q + r
  OBVIOUS
<1>. HIDE DEF q, r
<1>2. length * (q + 1) = length * q + length
  BY <1>1
<1>3. length * q \in Nat
  BY <1>1
<1>. QED BY <1>1, <1>2, <1>3 DEF q

\* What a step may do to the clock and the counts.
CountStep ==
  \/ UNCHANGED <<ticks, next_timestamp, countedAt>>
  \/ /\ ticks' = ticks
     /\ next_timestamp' = NextTimestamp
     /\ countedAt' \in {KeptTimes, KeptTimes \cup {ticks}}
  \/ ticks' = ticks /\ next_timestamp' = (ticks + Interval) % TicksModulus /\ countedAt' = {}
  \/ /\ ticks < MaxTicks /\ ticks' = ticks + 1
     /\ UNCHANGED <<next_timestamp, countedAt>>

LEMMA CountSteps ==
  ASSUME [UserInterfaceNext]_userInterfaceVars
  PROVE  CountStep
<1>. USE DEF CountStep, fpsVars, countVars
<1>1. CASE UNCHANGED userInterfaceVars
  BY <1>1, Zenon DEF userInterfaceVars
<1>2. CASE HandleDeviceEvent
  BY <1>2, Zenon DEF HandleDeviceEvent, Drop, Send, Abort
<1>3. CASE HandleWindowEvent \/ ProcessWindowKey \/ PrepareForFrame
  BY <1>3, Zenon DEF HandleWindowEvent, ProcessWindowKey, PrepareForFrame
<1>4. CASE HandleNewFrame \/ SwitchFpsCounter \/ StopByEvent \/ JoinThreads
  BY <1>4, Zenon DEF HandleNewFrame, SwitchFpsCounter, StopByEvent, JoinThreads
<1>5. CASE CountRenderedFrame
  BY <1>5, Zenon DEF CountRenderedFrame, AddRenderedFrame
<1>6. CASE CountSkippedFrame
  BY <1>6, Zenon DEF CountSkippedFrame, AddSkippedFrame
<1>7. CASE StartCounter
  BY <1>7, Zenon DEF StartCounter, FpsCall, StartReset, SetStarted, SignalFps, CreateFpsThread
<1>8. CASE StopCounter \/ InterruptFpsCounter
  BY <1>8, Zenon DEF StopCounter, InterruptFpsCounter, FpsCall, SetStarted, SignalFps,
                     SignalUnderMutex, SetFpsInterrupted
<1>9. CASE FpsThread
  BY <1>9, Zenon DEF FpsThread, FpsStep, FpsLock, DecideToSleep, CountInterval, EndFps,
                     FpsWait, TimeOut, CheckIntervalExpired
<1>10. CASE Time
  BY <1>10, Zenon DEF Time, Tick, SpuriousWakeUp
<1>11. CASE OfferFrame \/ User
  BY <1>11, Zenon DEF OfferFrame, User, Type, PressDeviceKey, Click, Drag, TurnWheel, Touch,
                      PressWindowKey, DoubleClickOutside, ChangeWindow, PressCounterKey,
                      AskToStop, Queue, Gesture
<1>. QED BY <1>1, <1>2, <1>3, <1>4, <1>5, <1>6, <1>7, <1>8, <1>9, <1>10, <1>11, Zenon
         DEF UserInterfaceNext, LoopStep, LoopFinished

LEMMA Counts ==
  ASSUME CountInv, CountStep
  PROVE  CountInv'
<1>. USE TicksAssumption DEF CountInv
<1>1. CASE UNCHANGED <<ticks, next_timestamp, countedAt>>
  BY <1>1, Zenon
<1>2. CASE /\ ticks' = ticks
           /\ next_timestamp' = NextTimestamp
           /\ countedAt' \in {KeptTimes, KeptTimes \cup {ticks}}
  <2>1. CASE ~IntervalExpired
    <3>1. next_timestamp' = next_timestamp /\ KeptTimes = countedAt /\ ticks < next_timestamp
      BY <1>2, <2>1 DEF NextTimestamp, KeptTimes, IntervalExpired
    <3>. QED BY <1>2, <3>1
  <2>2. CASE IntervalExpired
    <3>. DEFINE next == next_timestamp + Interval * ElapsedSlices
    <3>1. next \in Nat /\ ticks < next /\ next <= ticks + Interval
      BY <2>2, NextInterval DEF IntervalExpired, ElapsedSlices
    <3>2. next_timestamp' = next % TicksModulus /\ KeptTimes = {}
      BY <1>2, <2>2 DEF NextTimestamp, KeptTimes
    <3>. HIDE DEF next
    <3>3. next % TicksModulus = next
      BY <3>1
    <3>. QED BY <1>2, <3>1, <3>2, <3>3
  <2>. QED BY <2>1, <2>2
<1>3. CASE /\ ticks' = ticks
           /\ next_timestamp' = (ticks + Interval) % TicksModulus
           /\ countedAt' = {}
  <2>1. (ticks + Interval) % TicksModulus = ticks + Interval
    OBVIOUS
  <2>. QED BY <1>3, <2>1
<1>4. CASE /\ ticks < MaxTicks /\ ticks' = ticks + 1
           /\ UNCHANGED <<next_timestamp, countedAt>>
  BY <1>4
<1>. QED BY <1>1, <1>2, <1>3, <1>4 DEF CountStep

\* Every frame in the two counts was counted in the interval that ends at
\* next_timestamp: a rate is the rate of one interval (fps_counter.cpp:41-53).
THEOREM RateOfOneInterval == UserInterfaceSpec => []CountsOneInterval
<1>1. UserInterfaceInit => CountInv
  BY TicksAssumption DEF UserInterfaceInit, FpsInit, CountInv
<1>2. CountInv /\ [UserInterfaceNext]_userInterfaceVars => CountInv'
  BY CountSteps, Counts
<1>3. CountInv => CountsOneInterval
  BY DEF CountInv, CountsOneInterval
<1>. QED BY <1>1, <1>2, <1>3, PTL DEF UserInterfaceSpec

(***************************************************************************)
(* The event loop: what a step does to SDL's queue.                        *)
(***************************************************************************)

EventTypes ==
  KeyEvents \cup ButtonEvents \cup FingerEvents \cup
    {"SDL_WINDOWEVENT", "EVENT_NEW_FRAME", "SDL_QUIT", "SDL_TEXTINPUT", "SDL_MOUSEMOTION",
     "SDL_MOUSEWHEEL"}

Inputs == Characters \cup DeviceKeys \cup {"click", "drag", "wheel", "touch"}

Contents ==
  Inputs \cup WindowKeys \cup {CounterKey, TouchMouse, Hover, Outside, "frame", "quit"}
    \cup {"SIZE_CHANGED", "MAXIMIZED", "RESTORED"}

EventSet == [type : EventTypes, what : Contents]

\* The events from which the Screen learns of its window.
WindowNews == {SizeChanged, Maximized, Restored}

LEMMA EventTyped ==
  ASSUME NEW type \in EventTypes, NEW what \in Contents
  PROVE  /\ Event(type, what) \in EventSet
         /\ Event(type, what).type = type
         /\ Event(type, what).what = what
BY DEF Event, EventSet

LEMMA WindowNewsDiffer ==
  /\ SizeChanged # Maximized /\ SizeChanged # Restored /\ Maximized # Restored
  /\ \A e \in WindowNews : e \in EventSet /\ e.type = "SDL_WINDOWEVENT"
<1>1. /\ SizeChanged = Event("SDL_WINDOWEVENT", "SIZE_CHANGED")
      /\ Maximized = Event("SDL_WINDOWEVENT", "MAXIMIZED")
      /\ Restored = Event("SDL_WINDOWEVENT", "RESTORED")
  BY Zenon DEF SizeChanged, Maximized, Restored, WindowEvent, Event
<1>2. /\ "SDL_WINDOWEVENT" \in EventTypes
      /\ {"SIZE_CHANGED", "MAXIMIZED", "RESTORED"} \subseteq Contents
  BY DEF EventTypes, Contents
<1>3. \A w \in {"SIZE_CHANGED", "MAXIMIZED", "RESTORED"} :
        /\ Event("SDL_WINDOWEVENT", w) \in EventSet
        /\ Event("SDL_WINDOWEVENT", w).type = "SDL_WINDOWEVENT"
        /\ Event("SDL_WINDOWEVENT", w).what = w
  BY <1>2, EventTyped
<1>4. /\ SizeChanged.what = "SIZE_CHANGED"
      /\ Maximized.what = "MAXIMIZED"
      /\ Restored.what = "RESTORED"
  BY <1>1, <1>3
<1>. QED BY <1>1, <1>3, <1>4 DEF WindowNews

LEMMA AppendedAt ==
  ASSUME NEW S, NEW q \in Seq(S), NEW e \in S
  PROVE  /\ Append(q, e) \in Seq(S)
         /\ Len(q) \in Nat
         /\ Len(Append(q, e)) = Len(q) + 1
         /\ \A i \in 1..Len(q) : Append(q, e)[i] = q[i]
         /\ Append(q, e)[Len(q) + 1] = e
OBVIOUS

LEMMA TailAt ==
  ASSUME NEW S, NEW q \in Seq(S), q # <<>>
  PROVE  /\ Tail(q) \in Seq(S)
         /\ Len(q) \in Nat \ {0}
         /\ Len(Tail(q)) = Len(q) - 1
         /\ \A i \in 1..(Len(q) - 1) : Tail(q)[i] = q[i + 1]
         /\ Head(q) = q[1]
         /\ Head(q) \in S
OBVIOUS

\* The queue and the flags.  Once its events are handled, the Screen's flag is
\* the window's: the last of the two events tells.
LastOf(q, e, f) ==
  \E i \in 1..Len(q) : q[i] = e /\ \A j \in (i + 1)..Len(q) : q[j] # f

Told(q, wm, max) ==
  /\ LastOf(q, Maximized, Restored) => wm
  /\ LastOf(q, Restored, Maximized) => ~wm
  /\ (\A i \in 1..Len(q) : q[i] \notin {Maximized, Restored}) => (wm <=> max)

\* A MAXIMIZED follows a SIZE_CHANGED, finds the Screen not maximized, and
\* between two of them there is a RESTORED.
Announced(q) ==
  \A i \in 2..Len(q) : q[i] = Maximized => q[i - 1] = SizeChanged

Alternate(q) ==
  \A i, j \in 1..Len(q) :
    i < j /\ q[i] = Maximized /\ q[j] = Maximized
      => \E k \in (i + 1)..(j - 1) : q[k] = Restored

FirstMaximized(q, max) ==
  \A i \in 1..Len(q) :
    q[i] = Maximized /\ (\A j \in 1..(i - 1) : q[j] # Restored) => ~max

TellsOfWindow(q, wm, max) ==
  Told(q, wm, max) /\ Announced(q) /\ Alternate(q) /\ FirstMaximized(q, max)

\* p is q with events of the set S appended.
Grows(q, p, S) ==
  /\ p \in Seq(EventSet)
  /\ Len(q) <= Len(p)
  /\ \A i \in 1..Len(q) : p[i] = q[i]
  /\ \A i \in (Len(q) + 1)..Len(p) : p[i] \in S

LEMMA GrowsBy ==
  ASSUME NEW q \in Seq(EventSet), NEW S \in SUBSET EventSet, NEW sent \in Seq(S)
  PROVE  Grows(q, q \o sent, S)
<1>1. sent \in Seq(EventSet)
  OBVIOUS
<1>2. /\ q \o sent \in Seq(EventSet)
      /\ Len(q) \in Nat /\ Len(sent) \in Nat
      /\ Len(q \o sent) = Len(q) + Len(sent)
      /\ \A i \in 1..(Len(q) + Len(sent)) :
           (q \o sent)[i] = IF i <= Len(q) THEN q[i] ELSE sent[i - Len(q)]
  BY <1>1
<1>3. \A i \in 1..Len(sent) : sent[i] \in S
  OBVIOUS
<1>4. ASSUME NEW i \in (Len(q) + 1)..(Len(q) + Len(sent))
      PROVE  (q \o sent)[i] \in S
  <2>1. i - Len(q) \in 1..Len(sent) /\ (q \o sent)[i] = sent[i - Len(q)]
    BY <1>2
  <2>. QED BY <1>3, <2>1
<1>. QED BY <1>2, <1>4 DEF Grows

LEMMA GrowsByOne ==
  ASSUME NEW q \in Seq(EventSet), NEW S, NEW e \in EventSet, e \in S
  PROVE  Grows(q, Append(q, e), S)
<1>. DEFINE p == Append(q, e)
<1>1. /\ p \in Seq(EventSet) /\ Len(q) \in Nat /\ Len(p) = Len(q) + 1
      /\ \A i \in 1..Len(q) : p[i] = q[i]
      /\ p[Len(q) + 1] = e
  BY AppendedAt
<1>. HIDE DEF p
<1>2. \A i \in (Len(q) + 1)..Len(p) : p[i] \in S
  BY <1>1
<1>3. Grows(q, p, S)
  BY <1>1, <1>2 DEF Grows
<1>. QED BY <1>3 DEF p

LEMMA GrowsByNothing ==
  ASSUME NEW q \in Seq(EventSet), NEW S
  PROVE  Grows(q, q, S)
BY DEF Grows

LEMMA OthersAppended ==
  ASSUME NEW q \in Seq(EventSet), NEW p, Grows(q, p, EventSet \ {Maximized, Restored}),
         NEW wm \in BOOLEAN, NEW max \in BOOLEAN, TellsOfWindow(q, wm, max)
  PROVE  TellsOfWindow(p, wm, max)
<1>. DEFINE n == Len(q)
            m == Len(p)
<1>1. /\ n \in Nat /\ m \in Nat /\ n <= m
      /\ \A i \in 1..n : p[i] = q[i]
      /\ \A i \in (n + 1)..m : p[i] \notin {Maximized, Restored}
  BY DEF Grows
<1>2. LastOf(p, Maximized, Restored) => LastOf(q, Maximized, Restored)
  BY <1>1 DEF LastOf
<1>3. LastOf(p, Restored, Maximized) => LastOf(q, Restored, Maximized)
  BY <1>1 DEF LastOf
<1>4. (\A i \in 1..m : p[i] \notin {Maximized, Restored})
        => \A i \in 1..n : q[i] \notin {Maximized, Restored}
  BY <1>1
<1>5. Told(p, wm, max)
  BY <1>2, <1>3, <1>4 DEF Told, TellsOfWindow
<1>6. Announced(p)
  <2>. SUFFICES ASSUME NEW i \in 2..m, p[i] = Maximized
                PROVE  p[i - 1] = SizeChanged
    BY DEF Announced
  <2>1. i \in 2..n /\ i - 1 \in 1..n
    <3>1. i \notin (n + 1)..m
      BY <1>1
    <3>. QED BY <1>1, <3>1
  <2>2. q[i] = Maximized /\ p[i - 1] = q[i - 1]
    BY <1>1, <2>1
  <2>. QED BY <2>1, <2>2 DEF Announced, TellsOfWindow
<1>7. Alternate(p)
  <2>. SUFFICES ASSUME NEW i \in 1..m, NEW j \in 1..m, i < j,
                       p[i] = Maximized, p[j] = Maximized
                PROVE  \E k \in (i + 1)..(j - 1) : p[k] = Restored
    BY DEF Alternate
  <2>1. i \in 1..n /\ j \in 1..n /\ q[i] = Maximized /\ q[j] = Maximized
    BY <1>1
  <2>2. PICK k \in (i + 1)..(j - 1) : q[k] = Restored
    BY <2>1 DEF Alternate, TellsOfWindow
  <2>3. p[k] = q[k]
    BY <1>1, <2>1
  <2>. QED BY <2>2, <2>3
<1>8. FirstMaximized(p, max)
  BY <1>1 DEF FirstMaximized, TellsOfWindow
<1>. QED BY <1>5, <1>6, <1>7, <1>8 DEF TellsOfWindow

LEMMA RestoredAppended ==
  ASSUME NEW q \in Seq(EventSet), NEW wm \in BOOLEAN, NEW max \in BOOLEAN,
         NEW newMax \in BOOLEAN, newMax => max, TellsOfWindow(q, wm, max)
  PROVE  TellsOfWindow(Append(q, Restored), FALSE, newMax)
<1>. DEFINE p == Append(q, Restored)
            n == Len(q)
<1>1. /\ n \in Nat /\ Len(p) = n + 1
      /\ \A i \in 1..n : p[i] = q[i]
      /\ p[n + 1] = Restored /\ Restored # Maximized
  BY AppendedAt, WindowNewsDiffer DEF WindowNews
<1>. HIDE DEF p
<1>2. ~LastOf(p, Maximized, Restored)
  BY <1>1 DEF LastOf
<1>3. ~(\A i \in 1..Len(p) : p[i] \notin {Maximized, Restored})
  BY <1>1
<1>5. Told(p, FALSE, newMax)
  BY <1>2, <1>3 DEF Told
<1>6. Announced(p)
  BY <1>1 DEF Announced, TellsOfWindow
<1>7. Alternate(p)
  BY <1>1 DEF Alternate, TellsOfWindow
<1>8. FirstMaximized(p, newMax)
  BY <1>1 DEF FirstMaximized, TellsOfWindow
<1>. QED BY <1>5, <1>6, <1>7, <1>8 DEF TellsOfWindow, p

LEMMA MaximizedAppended ==
  ASSUME NEW q \in Seq(EventSet), NEW max \in BOOLEAN, TellsOfWindow(q, FALSE, max),
         q # <<>>, q[Len(q)] = SizeChanged
  PROVE  TellsOfWindow(Append(q, Maximized), TRUE, max)
<1>. DEFINE p == Append(q, Maximized)
            n == Len(q)
<1>1. /\ n \in Nat /\ Len(p) = n + 1 /\ q[n] = SizeChanged
      /\ \A i \in 1..n : p[i] = q[i]
      /\ p[n + 1] = Maximized /\ Restored # Maximized
  BY AppendedAt, WindowNewsDiffer DEF WindowNews
<1>. HIDE DEF p
<1>2. ~LastOf(p, Restored, Maximized)
  BY <1>1 DEF LastOf
<1>3. ~(\A i \in 1..Len(p) : p[i] \notin {Maximized, Restored})
  BY <1>1
<1>4. \A i \in 1..n : q[i] = Maximized => \E j \in (i + 1)..n : q[j] = Restored
  BY DEF TellsOfWindow, Told, LastOf
<1>5. Told(p, TRUE, max)
  BY <1>2, <1>3 DEF Told
<1>6. Announced(p)
  BY <1>1 DEF Announced, TellsOfWindow
<1>7. Alternate(p)
  BY <1>1, <1>4 DEF Alternate, TellsOfWindow
<1>8. FirstMaximized(p, max)
  <2>1. (\A i \in 1..n : q[i] # Restored) => ~max
    BY <1>4 DEF TellsOfWindow, Told
  <2>. QED BY <1>1, <2>1 DEF FirstMaximized, TellsOfWindow
<1>. QED BY <1>5, <1>6, <1>7, <1>8 DEF TellsOfWindow, p

\* What the Screen's flag is once the oldest event is handled.
After(e, max) == (max \/ e = Maximized) /\ e # Restored

LEMMA EventTaken ==
  ASSUME NEW q \in Seq(EventSet), q # <<>>, NEW wm \in BOOLEAN, NEW max \in BOOLEAN,
         NEW newMax \in BOOLEAN, newMax <=> After(Head(q), max), TellsOfWindow(q, wm, max)
  PROVE  TellsOfWindow(Tail(q), wm, newMax)
<1>. DEFINE p == Tail(q)
            n == Len(q)
<1>1. /\ n \in Nat \ {0} /\ Len(p) = n - 1
      /\ \A i \in 1..(n - 1) : p[i] = q[i + 1]
      /\ Head(q) = q[1]
  BY TailAt
<1>. HIDE DEF p
<1>2. LastOf(p, Maximized, Restored) => LastOf(q, Maximized, Restored)
  <2>. SUFFICES ASSUME NEW i \in 1..Len(p), p[i] = Maximized,
                       \A j \in (i + 1)..Len(p) : p[j] # Restored
                PROVE  LastOf(q, Maximized, Restored)
    BY DEF LastOf
  <2>1. \A j \in (i + 2)..n : q[j] # Restored
    <3>. SUFFICES ASSUME NEW j \in (i + 2)..n PROVE q[j] # Restored
      OBVIOUS
    <3>1. j - 1 \in (i + 1)..Len(p) /\ p[j - 1] = q[j]
      BY <1>1
    <3>. QED BY <3>1
  <2>. QED BY <1>1, <2>1 DEF LastOf
<1>3. LastOf(p, Restored, Maximized) => LastOf(q, Restored, Maximized)
  <2>. SUFFICES ASSUME NEW i \in 1..Len(p), p[i] = Restored,
                       \A j \in (i + 1)..Len(p) : p[j] # Maximized
                PROVE  LastOf(q, Restored, Maximized)
    BY DEF LastOf
  <2>1. \A j \in (i + 2)..n : q[j] # Maximized
    <3>. SUFFICES ASSUME NEW j \in (i + 2)..n PROVE q[j] # Maximized
      OBVIOUS
    <3>1. j - 1 \in (i + 1)..Len(p) /\ p[j - 1] = q[j]
      BY <1>1
    <3>. QED BY <3>1
  <2>. QED BY <1>1, <2>1 DEF LastOf
<1>4. ASSUME \A i \in 1..Len(p) : p[i] \notin {Maximized, Restored}
      PROVE  wm <=> newMax
  <2>1. \A i \in 2..n : q[i] \notin {Maximized, Restored}
    <3>. SUFFICES ASSUME NEW i \in 2..n PROVE q[i] \notin {Maximized, Restored}
      OBVIOUS
    <3>1. i - 1 \in 1..Len(p) /\ p[i - 1] = q[i]
      BY <1>1
    <3>. QED BY <1>4, <3>1
  <2>2. CASE q[1] = Maximized
    <3>1. LastOf(q, Maximized, Restored)
      BY <1>1, <2>1, <2>2 DEF LastOf
    <3>. QED BY <1>1, <2>2, <3>1, WindowNewsDiffer DEF TellsOfWindow, Told, After
  <2>3. CASE q[1] = Restored
    <3>1. LastOf(q, Restored, Maximized)
      BY <1>1, <2>1, <2>3 DEF LastOf
    <3>. QED BY <1>1, <2>3, <3>1, WindowNewsDiffer DEF TellsOfWindow, Told, After
  <2>4. CASE q[1] \notin {Maximized, Restored}
    <3>1. \A i \in 1..n : q[i] \notin {Maximized, Restored}
      BY <1>1, <2>1, <2>4
    <3>. QED BY <1>1, <2>4, <3>1 DEF TellsOfWindow, Told, After
  <2>. QED BY <2>2, <2>3, <2>4
<1>5. Told(p, wm, newMax)
  BY <1>2, <1>3, <1>4 DEF Told, TellsOfWindow
<1>6. Announced(p)
  <2>. SUFFICES ASSUME NEW i \in 2..Len(p), p[i] = Maximized
                PROVE  p[i - 1] = SizeChanged
    BY DEF Announced
  <2>1. i + 1 \in 2..n /\ p[i] = q[i + 1] /\ p[i - 1] = q[i] /\ (i + 1) - 1 = i
    BY <1>1
  <2>2. q[i + 1] = Maximized => q[(i + 1) - 1] = SizeChanged
    BY <2>1 DEF Announced, TellsOfWindow
  <2>. QED BY <2>1, <2>2
<1>7. Alternate(p)
  <2>. SUFFICES ASSUME NEW i \in 1..Len(p), NEW j \in 1..Len(p), i < j,
                       p[i] = Maximized, p[j] = Maximized
                PROVE  \E k \in (i + 1)..(j - 1) : p[k] = Restored
    BY DEF Alternate
  <2>1. /\ i + 1 \in 1..n /\ j + 1 \in 1..n /\ i + 1 < j + 1
        /\ q[i + 1] = Maximized /\ q[j + 1] = Maximized
    BY <1>1
  <2>2. PICK k \in (i + 1 + 1)..(j + 1 - 1) : q[k] = Restored
    BY <2>1 DEF Alternate, TellsOfWindow
  <2>3. k - 1 \in (i + 1)..(j - 1) /\ p[k - 1] = q[k]
    BY <1>1
  <2>. QED BY <2>2, <2>3
<1>8. FirstMaximized(p, newMax)
  <2>. SUFFICES ASSUME NEW i \in 1..Len(p), p[i] = Maximized,
                       \A j \in 1..(i - 1) : p[j] # Restored, newMax
                PROVE  FALSE
    BY DEF FirstMaximized
  <2>1. i + 1 \in 1..n /\ q[i + 1] = Maximized
    BY <1>1
  <2>2. \A k \in 2..i : q[k] # Restored
    <3>. SUFFICES ASSUME NEW k \in 2..i PROVE q[k] # Restored
      OBVIOUS
    <3>1. k - 1 \in 1..(i - 1) /\ p[k - 1] = q[k]
      BY <1>1
    <3>. QED BY <3>1
  <2>3. q[1] # Restored /\ (max \/ q[1] = Maximized)
    BY <1>1 DEF After
  <2>4. CASE q[1] = Maximized
    <3>1. 1 \in 1..n /\ 1 < i + 1
      BY <1>1
    <3>2. PICK k \in 2..i : q[k] = Restored
      BY <2>1, <2>4, <3>1 DEF Alternate, TellsOfWindow
    <3>. QED BY <2>2, <3>2
  <2>5. CASE max
    <3>1. \A k \in 1..i : q[k] # Restored
      BY <2>2, <2>3
    <3>. QED BY <2>1, <2>5, <3>1 DEF FirstMaximized, TellsOfWindow
  <2>. QED BY <2>3, <2>4, <2>5
<1>. QED BY <1>5, <1>6, <1>7, <1>8 DEF TellsOfWindow, p

(***************************************************************************)
(* The event loop: the window.                                             *)
(***************************************************************************)

OtherEvents == EventSet \ WindowNews

LEMMA OtherTyped ==
  ASSUME NEW type \in EventTypes \ {"SDL_WINDOWEVENT"}, NEW what \in Contents
  PROVE  Event(type, what) \in OtherEvents
BY EventTyped, WindowNewsDiffer DEF OtherEvents

SentTypes ==
  KeyEvents \cup ButtonEvents \cup FingerEvents \cup
    {"SDL_TEXTINPUT", "SDL_MOUSEMOTION", "SDL_MOUSEWHEEL"}

LEMMA SentTyped ==
  ASSUME NEW e, IsSent(e) \/ TextAsserts(e)
  PROVE  e.type \in SentTypes /\ e \notin WindowNews
<1>1. e.type \in SentTypes
  BY DEF IsSent, TextAsserts, KeyIsSent, TextIsSent, MouseIsSent, TouchIsSent, SentTypes
<1>2. "SDL_WINDOWEVENT" \notin SentTypes
  BY DEF SentTypes, KeyEvents, ButtonEvents, FingerEvents
<1>. QED BY <1>1, <1>2, WindowNewsDiffer

\* The events the program makes, and the keys that change the window.
LEMMA OwnEvents ==
  /\ NewFrame \in OtherEvents /\ StopEvent \in OtherEvents
  /\ \A k \in DeviceKeys \cup Characters \cup WindowKeys \cup {CounterKey} :
       Key(k) \in OtherEvents
  /\ Event("SDL_MOUSEBUTTONDOWN", Outside) \in OtherEvents
  /\ Event("SDL_MOUSEBUTTONUP", Outside) \in OtherEvents
<1>1. /\ {"EVENT_NEW_FRAME", "SDL_QUIT", "SDL_KEYDOWN", "SDL_MOUSEBUTTONDOWN",
          "SDL_MOUSEBUTTONUP"} \subseteq EventTypes \ {"SDL_WINDOWEVENT"}
  BY DEF EventTypes, KeyEvents, ButtonEvents
<1>2. /\ DeviceKeys \cup Characters \cup WindowKeys \cup {CounterKey} \subseteq Contents
      /\ {"frame", "quit", Outside} \subseteq Contents
  BY DEF Contents, Inputs
<1>. QED BY <1>1, <1>2, OtherTyped DEF NewFrame, StopEvent, Key

Taken ==
  /\ events # <<>> /\ Head(events) \notin WindowNews
  /\ events' = Tail(events)
  /\ UNCHANGED screenVars

Queued ==
  /\ Grows(events, events', OtherEvents)
  /\ UNCHANGED screenVars

LEMMA TakingSteps ==
  ASSUME events \in Seq(EventSet),
         \/ Drop(Head(events)) \/ Send(Head(events))
         \/ HandleNewFrame \/ SwitchFpsCounter \/ StopByEvent
  PROVE  Taken
<1>1. CASE Drop(Head(events))
  <2>1. ~IsForWindow(Head(events)) /\ events # <<>>
    BY <1>1, Zenon DEF Drop, Handle
  <2>2. Head(events) \notin WindowNews
    BY <2>1, WindowNewsDiffer DEF IsForWindow
  <2>. QED BY <1>1, <2>1, <2>2, Zenon DEF Drop, TakeEvent, Taken
<1>2. CASE Send(Head(events))
  <2>1. Head(events) \notin WindowNews
    BY <1>2, SentTyped, Zenon DEF Send
  <2>. QED BY <1>2, <2>1, Zenon DEF Send, Handle, TakeEvent, Taken
<1>3. CASE HandleNewFrame
  BY <1>3, OwnEvents, Zenon DEF HandleNewFrame, Handle, TakeEvent, Taken, OtherEvents
<1>4. CASE SwitchFpsCounter
  <2>1. Key(CounterKey) \notin WindowNews
    BY OwnEvents DEF OtherEvents
  <2>. QED BY <1>4, <2>1, Zenon DEF SwitchFpsCounter, Handle, TakeEvent, Taken
<1>5. CASE StopByEvent
  BY <1>5, OwnEvents, Zenon DEF StopByEvent, Handle, TakeEvent, Taken, OtherEvents
<1>. QED BY <1>1, <1>2, <1>3, <1>4, <1>5

\* An event that stands for an input the device is owed.
Due(e) == (IsSent(e) /\ e.type \notin Continuations) \/ TextAsserts(e)

DueEvents == {e \in EventSet : Due(e)}

LEMMA DueStays ==
  ASSUME UNCHANGED <<control, prefer_text>>
  PROVE  DueEvents' = DueEvents
BY DEF DueEvents, Due, IsSent, TextAsserts, KeyIsSent, TextIsSent, MouseIsSent, TouchIsSent,
       ConvertKeycode

LEMMA DueByKind ==
  ASSUME NEW type \in EventTypes, NEW what \in Contents
  PROVE  Event(type, what) \in DueEvents <=>
           \/ /\ type = "SDL_KEYDOWN" /\ control
              /\ what \in DeviceKeys \/ (what = "letter" /\ ~prefer_text)
           \/ type = "SDL_TEXTINPUT" /\ control /\ (prefer_text \/ what # "letter")
           \/ type = "SDL_MOUSEBUTTONDOWN" /\ control /\ what \notin {Hover, TouchMouse, Outside}
           \/ type = "SDL_MOUSEWHEEL" /\ control /\ what \notin {Hover, TouchMouse}
           \/ type = "SDL_FINGERDOWN"
<1>. DEFINE e == Event(type, what)
<1>1. e \in EventSet /\ e.type = type /\ e.what = what
  BY EventTyped
<1>2. Event("SDL_MOUSEBUTTONDOWN", Outside).type = "SDL_MOUSEBUTTONDOWN"
      /\ Event("SDL_MOUSEBUTTONDOWN", Outside).what = Outside
  BY EventTyped DEF EventTypes, ButtonEvents, Contents
<1>3. e # Event("SDL_MOUSEBUTTONDOWN", Outside)
        <=> ~(type = "SDL_MOUSEBUTTONDOWN" /\ what = Outside)
  BY <1>1, <1>2
<1>4. KeyIsSent(e) /\ e.type \notin Continuations
        <=> type = "SDL_KEYDOWN" /\ control
              /\ (what \in DeviceKeys \/ (what = "letter" /\ ~prefer_text))
  BY <1>1 DEF KeyIsSent, ConvertKeycode, KeyEvents, Continuations, DeviceKeys
<1>5. (TextIsSent(e) /\ e.type \notin Continuations) \/ TextAsserts(e)
        <=> type = "SDL_TEXTINPUT" /\ control /\ (prefer_text \/ what # "letter")
  BY <1>1 DEF TextIsSent, TextAsserts, Continuations
<1>6. MouseIsSent(e) /\ e.type \notin Continuations
        <=> \/ type = "SDL_MOUSEBUTTONDOWN" /\ control /\ what \notin {Hover, TouchMouse, Outside}
            \/ type = "SDL_MOUSEWHEEL" /\ control /\ what \notin {Hover, TouchMouse}
  BY <1>1, <1>3 DEF MouseIsSent, ButtonEvents, Continuations
<1>7. TouchIsSent(e) /\ e.type \notin Continuations <=> type = "SDL_FINGERDOWN"
  BY <1>1 DEF TouchIsSent, FingerEvents, Continuations
<1>. HIDE DEF e
<1>8. e \in DueEvents <=> Due(e)
  BY <1>1 DEF DueEvents
<1>. QED BY <1>4, <1>5, <1>6, <1>7, <1>8, Zenon DEF Due, IsSent, e

\* One of the events stands for the input.
Sends(input, sent, D) ==
  \E d \in 1..Len(sent) :
    /\ sent[d] \in D /\ sent[d].what = input
    /\ \A i \in 1..Len(sent) : sent[i] \in D => i = d

LEMMA OneDue ==
  ASSUME NEW D, NEW a, NEW b, NEW c, NEW d, NEW e
  PROVE  /\ a \in D => Sends(a.what, <<a>>, D)
         /\ a \in D /\ b \notin D => Sends(a.what, <<a, b>>, D)
         /\ a \in D /\ b \notin D /\ c \notin D => Sends(a.what, <<a, b, c>>, D)
         /\ b \in D /\ a \notin D /\ c \notin D => Sends(b.what, <<a, b, c>>, D)
         /\ b \in D /\ a \notin D /\ c \notin D /\ d \notin D => Sends(b.what, <<a, b, c, d>>, D)
         /\ a \in D /\ b \notin D /\ c \notin D /\ d \notin D /\ e \notin D
              => Sends(a.what, <<a, b, c, d, e>>, D)
BY DEF Sends

\* SDL's events for a gesture that is meant for the device.
DeviceGesture ==
  \/ \E c \in Characters : Type(c)
  \/ \E k \in DeviceKeys : PressDeviceKey(k)
  \/ Click \/ Drag \/ TurnWheel \/ Touch

\* With control, each gesture makes one event that is due: a letter the key or,
\* with --prefer-text, the text, a touch the finger and not the mouse.
LEMMA GestureEvents ==
  ASSUME DeviceGesture
  PROVE  \E input \in Inputs, sent \in Seq(OtherEvents) :
           Queue(input, sent) /\ (control => Sends(input, sent, DueEvents))
<1>. DEFINE T == EventTypes \ {"SDL_WINDOWEVENT"}
            D == DueEvents
            Goal == \E input \in Inputs, sent \in Seq(OtherEvents) :
                      Queue(input, sent) /\ (control => Sends(input, sent, DueEvents))
<1>1. /\ {"SDL_KEYDOWN", "SDL_KEYUP", "SDL_TEXTINPUT", "SDL_MOUSEBUTTONDOWN",
          "SDL_MOUSEBUTTONUP", "SDL_MOUSEMOTION", "SDL_MOUSEWHEEL", "SDL_FINGERDOWN",
          "SDL_FINGERUP"} \subseteq T
      /\ Inputs \cup {Hover, TouchMouse} \subseteq Contents
      /\ Characters \cup DeviceKeys \cup {"click", "drag", "wheel", "touch"} \subseteq Inputs
  BY DEF EventTypes, KeyEvents, ButtonEvents, FingerEvents, Contents, Inputs
<1>. HIDE DEF T
<1>2. \A t \in T, w \in Contents : Event(t, w) \in OtherEvents /\ Event(t, w).what = w
  BY OtherTyped, EventTyped DEF T
<1>3. \A a, b, c, d, e \in OtherEvents :
        /\ <<a>> \in Seq(OtherEvents) /\ <<a, b>> \in Seq(OtherEvents)
        /\ <<a, b, c>> \in Seq(OtherEvents) /\ <<a, b, c, d>> \in Seq(OtherEvents)
        /\ <<a, b, c, d, e>> \in Seq(OtherEvents)
  OBVIOUS
<1>4. \A w \in Contents :
        /\ Event("SDL_KEYUP", w) \notin D /\ Event("SDL_MOUSEBUTTONUP", w) \notin D
        /\ Event("SDL_MOUSEMOTION", w) \notin D /\ Event("SDL_FINGERUP", w) \notin D
        /\ Event("SDL_FINGERDOWN", w) \in D
  BY <1>1, DueByKind DEF T
<1>5. ASSUME NEW c \in Characters, Type(c)
      PROVE  Goal
  <2>. DEFINE key == Key(c)
              text == Event("SDL_TEXTINPUT", c)
              up == Event("SDL_KEYUP", c)
              sent == IF c = "word" THEN <<text>> ELSE <<key, text, up>>
  <2>1. /\ c \in Contents /\ c \in Inputs
        /\ key \in OtherEvents /\ text \in OtherEvents /\ up \in OtherEvents
        /\ key.what = c /\ text.what = c /\ up \notin D
    BY <1>1, <1>2, <1>4 DEF Key
  <2>2. control => /\ key \in D <=> c = "letter" /\ ~prefer_text
                   /\ text \in D <=> prefer_text \/ c # "letter"
    <3>1. c \notin DeviceKeys
      BY DEF Characters, DeviceKeys
    <3>. QED BY <1>1, <2>1, <3>1, DueByKind DEF Key, T
  <2>3. sent \in Seq(OtherEvents)
    BY <1>3, <2>1, Zenon
  <2>4. ASSUME control
        PROVE  Sends(c, sent, D)
    <3>. HIDE DEF key, text, up, D
    <3>1. CASE c = "word"
      <4>1. text \in D /\ sent = <<text>>
        BY <2>2, <2>4, <3>1
      <4>. QED BY <2>1, <4>1, OneDue
    <3>2. CASE c = "letter" /\ ~prefer_text
      <4>1. key \in D /\ text \notin D /\ sent = <<key, text, up>>
        BY <2>2, <2>4, <3>2
      <4>. QED BY <2>1, <4>1, OneDue
    <3>3. CASE c # "word" /\ ~(c = "letter" /\ ~prefer_text)
      <4>1. key \notin D /\ text \in D /\ sent = <<key, text, up>>
        BY <2>2, <2>4, <3>3
      <4>. QED BY <2>1, <4>1, OneDue
    <3>. QED BY <3>1, <3>2, <3>3
  <2>5. Queue(c, sent)
    BY <1>5 DEF Type
  <2>. HIDE DEF sent
  <2>. QED BY <2>1, <2>3, <2>4, <2>5
<1>6. ASSUME NEW k \in DeviceKeys, PressDeviceKey(k)
      PROVE  Goal
  <2>. DEFINE sent == <<Key(k), Event("SDL_KEYUP", k)>>
  <2>1. k \in Inputs /\ sent \in Seq(OtherEvents)
    BY <1>1, <1>2, <1>3 DEF Key
  <2>2. ASSUME control
        PROVE  Sends(k, sent, D)
    <3>1. Key(k) \in D /\ Event("SDL_KEYUP", k) \notin D /\ Key(k).what = k
      BY <1>1, <1>2, <1>4, <2>2, DueByKind DEF Key, T
    <3>. QED BY <3>1, OneDue
  <2>3. Queue(k, sent)
    BY <1>6 DEF PressDeviceKey
  <2>. HIDE DEF sent
  <2>. QED BY <2>1, <2>2, <2>3
<1>7. CASE Click
  <2>. DEFINE down == Event("SDL_MOUSEBUTTONDOWN", "click")
              sent == <<down, Event("SDL_MOUSEBUTTONUP", "click")>>
  <2>1. sent \in Seq(OtherEvents) /\ "click" \in Contents /\ "click" \in Inputs
    BY <1>1, <1>2, <1>3
  <2>2. ASSUME control
        PROVE  Sends("click", sent, D)
    <3>1. down \in D /\ down.what = "click"
      BY <1>1, <1>2, <2>1, <2>2, DueByKind DEF T, Hover, TouchMouse, Outside
    <3>. QED BY <1>4, <2>1, <3>1, OneDue
  <2>3. Queue("click", sent)
    BY <1>7 DEF Click
  <2>. HIDE DEF sent
  <2>. QED BY <2>1, <2>2, <2>3
<1>8. CASE Drag
  <2>. DEFINE down == Event("SDL_MOUSEBUTTONDOWN", "drag")
              sent == <<Event("SDL_MOUSEMOTION", Hover), down, Event("SDL_MOUSEMOTION", "drag"),
                        Event("SDL_MOUSEBUTTONUP", "drag")>>
  <2>1. /\ sent \in Seq(OtherEvents) /\ "drag" \in Contents /\ "drag" \in Inputs
        /\ Hover \in Contents
    BY <1>1, <1>2, <1>3
  <2>2. ASSUME control
        PROVE  Sends("drag", sent, D)
    <3>1. down \in D /\ down.what = "drag"
      BY <1>1, <1>2, <2>1, <2>2, DueByKind DEF T, Hover, TouchMouse, Outside
    <3>. QED BY <1>4, <2>1, <3>1, OneDue
  <2>3. Queue("drag", sent)
    BY <1>8 DEF Drag
  <2>. HIDE DEF sent
  <2>. QED BY <2>1, <2>2, <2>3
<1>9. CASE TurnWheel
  <2>. DEFINE turn == Event("SDL_MOUSEWHEEL", "wheel")
              sent == <<turn>>
  <2>1. sent \in Seq(OtherEvents) /\ "wheel" \in Contents /\ "wheel" \in Inputs
    BY <1>1, <1>2, <1>3
  <2>2. ASSUME control
        PROVE  Sends("wheel", sent, D)
    <3>1. turn \in D /\ turn.what = "wheel"
      BY <1>1, <1>2, <2>1, <2>2, DueByKind DEF T, Hover, TouchMouse
    <3>. QED BY <3>1, OneDue
  <2>3. Queue("wheel", sent)
    BY <1>9 DEF TurnWheel
  <2>. HIDE DEF sent
  <2>. QED BY <2>1, <2>2, <2>3
<1>10. CASE Touch
  <2>. DEFINE finger == Event("SDL_FINGERDOWN", "touch")
              mouse == Event("SDL_MOUSEBUTTONDOWN", TouchMouse)
              sent == <<finger, mouse, Event("SDL_MOUSEMOTION", TouchMouse),
                        Event("SDL_FINGERUP", "touch"), Event("SDL_MOUSEBUTTONUP", TouchMouse)>>
  <2>1. /\ sent \in Seq(OtherEvents) /\ "touch" \in Contents /\ "touch" \in Inputs
        /\ TouchMouse \in Contents
    BY <1>1, <1>2, <1>3
  <2>2. Sends("touch", sent, D)
    <3>1. finger \in D /\ finger.what = "touch"
      BY <1>1, <1>2, <1>4, <2>1
    <3>2. mouse \notin D
      BY <1>1, <2>1, DueByKind DEF T
    <3>. QED BY <1>4, <2>1, <3>1, <3>2, OneDue
  <2>3. Queue("touch", sent)
    BY <1>10 DEF Touch
  <2>. HIDE DEF sent
  <2>. QED BY <2>1, <2>2, <2>3
<1>. QED BY <1>5, <1>6, <1>7, <1>8, <1>9, <1>10 DEF DeviceGesture

LEMMA QueueingSteps ==
  ASSUME events \in Seq(EventSet),
         \/ DeviceGesture \/ OfferFrame
         \/ PressWindowKey \/ DoubleClickOutside \/ PressCounterKey \/ AskToStop
  PROVE  Queued
<1>1. OtherEvents \subseteq EventSet
  BY DEF OtherEvents
<1>2. \A sent \in Seq(OtherEvents) : Grows(events, events \o sent, OtherEvents)
  BY <1>1, GrowsBy
<1>3. \A e \in OtherEvents : Grows(events, Append(events, e), OtherEvents)
  BY <1>1, GrowsByOne
<1>4. Grows(events, events, OtherEvents)
  BY GrowsByNothing
<1>5. CASE DeviceGesture
  BY <1>2, <1>5, GestureEvents, Zenon DEF Queue, Queued
<1>6. CASE OfferFrame
  BY <1>3, <1>4, <1>6, OwnEvents, Zenon DEF OfferFrame, StreamGoto, Queued
<1>7. CASE PressWindowKey
  BY <1>3, <1>7, OwnEvents DEF PressWindowKey, Queued
<1>8. CASE DoubleClickOutside
  <2>1. <<Event("SDL_MOUSEBUTTONDOWN", Outside), Event("SDL_MOUSEBUTTONUP", Outside)>>
          \in Seq(OtherEvents)
    BY OwnEvents
  <2>. QED BY <1>2, <1>8, <2>1, Zenon DEF DoubleClickOutside, Queued
<1>9. CASE PressCounterKey
  BY <1>3, <1>9, OwnEvents DEF PressCounterKey, Queued
<1>10. CASE AskToStop
  BY <1>3, <1>10, OwnEvents, Zenon DEF AskToStop, Queued
<1>. QED BY <1>5, <1>6, <1>7, <1>8, <1>9, <1>10

LEMMA QuietSteps ==
  ASSUME \/ UNCHANGED userInterfaceVars \/ Abort(Head(events))
         \/ CountRenderedFrame \/ StartCounter \/ StopCounter \/ InterruptFpsCounter
         \/ JoinThreads \/ FpsThread \/ CountSkippedFrame \/ Time
  PROVE  UNCHANGED <<screenVars, events>>
BY Zenon DEF userInterfaceVars, Abort, CountRenderedFrame, StartCounter, StopCounter,
             InterruptFpsCounter, JoinThreads, FpsThread, CountSkippedFrame, StreamGoto,
             Time, FpsCall

\* Every step, by what it does to the window and to the queue.
LEMMA ScreenSteps ==
  ASSUME events \in Seq(EventSet), [UserInterfaceNext]_userInterfaceVars
  PROVE  \/ UNCHANGED <<screenVars, events>>
         \/ Taken
         \/ Queued
         \/ HandleWindowEvent
         \/ ProcessWindowKey
         \/ PrepareForFrame
         \/ ChangeWindow
BY TakingSteps, QueueingSteps, QuietSteps, Zenon
   DEF UserInterfaceNext, LoopStep, LoopFinished, HandleDeviceEvent, User, DeviceGesture

\* The Screen is told of a change of its window's size.
Pending(q) == \E i \in 1..Len(q) : q[i] \in {SizeChanged, Restored}

\* The size to come back to is the window's, unless the window has another size for
\* now, an event is about to correct it, or no window can have it.
SizeKept ==
  \/ windowed_window_size = normalSize \/ Vanishes(windowed_window_size)
  \/ fullscreen \/ maximized \/ wmMaximized
  \/ Pending(events)

\* A MAXIMIZED that comes next finds the size that its SIZE_CHANGED kept.
BackupReady ==
  events # <<>> /\ Head(events) = Maximized
    => fullscreen \/ vanished \/ ~Vanishes(windowed_window_size_backup)

WindowTypes ==
  /\ events \in Seq(EventSet)
  /\ fullscreen \in BOOLEAN
  /\ maximized \in BOOLEAN
  /\ wmMaximized \in BOOLEAN

PictureFits == logicalSize = frame_size /\ texture \in {frame_size, NoTexture}

WindowInv ==
  /\ WindowTypes
  /\ TellsOfWindow(events, wmMaximized, maximized)
  /\ Vanishes(windowed_window_size) => vanished
  /\ ~Vanishes(normalSize)
  /\ SizeKept
  /\ BackupReady
  /\ PictureFits

LEMMA PendingGrows ==
  ASSUME NEW q \in Seq(EventSet), NEW p, NEW S, Grows(q, p, S), Pending(q)
  PROVE  Pending(p)
BY DEF Pending, Grows

LEMMA PendingStays ==
  ASSUME NEW q \in Seq(EventSet), q # <<>>, Pending(q), Head(q) \notin {SizeChanged, Restored}
  PROVE  Pending(Tail(q))
<1>1. /\ Len(q) \in Nat \ {0} /\ Len(Tail(q)) = Len(q) - 1
      /\ \A i \in 1..(Len(q) - 1) : Tail(q)[i] = q[i + 1]
      /\ q[1] \notin {SizeChanged, Restored}
  BY TailAt
<1>2. PICK i \in 1..Len(q) : q[i] \in {SizeChanged, Restored}
  BY DEF Pending
<1>3. i - 1 \in 1..(Len(q) - 1) /\ Tail(q)[i - 1] = q[i]
  BY <1>1, <1>2
<1>. QED BY <1>1, <1>2, <1>3 DEF Pending

LEMMA HeadGrows ==
  ASSUME NEW q \in Seq(EventSet), NEW p, NEW S, Grows(q, p, S), Maximized \notin S,
         p # <<>>, Head(p) = Maximized
  PROVE  q # <<>> /\ Head(q) = Maximized
<1>1. /\ p \in Seq(EventSet) /\ Len(p) \in Nat \ {0} /\ Len(q) \in Nat /\ Head(p) = p[1]
  BY TailAt DEF Grows
<1>2. Len(q) # 0 /\ q[1] = p[1]
  BY <1>1 DEF Grows
<1>3. q # <<>>
  BY <1>2
<1>. QED BY <1>1, <1>2, <1>3, TailAt

LEMMA HeadComes ==
  ASSUME NEW q \in Seq(EventSet), q # <<>>, NEW wm \in BOOLEAN, NEW max \in BOOLEAN,
         TellsOfWindow(q, wm, max), Tail(q) # <<>>, Head(Tail(q)) = Maximized
  PROVE  Head(q) = SizeChanged /\ ~max
<1>1. /\ Tail(q) \in Seq(EventSet) /\ Len(q) \in Nat \ {0} /\ Head(q) = q[1]
      /\ Len(Tail(q)) = Len(q) - 1
      /\ \A i \in 1..(Len(q) - 1) : Tail(q)[i] = q[i + 1]
  BY TailAt
<1>2. Len(Tail(q)) \in Nat \ {0} /\ Head(Tail(q)) = Tail(q)[1]
  BY <1>1, TailAt
<1>3. 2 \in 1..Len(q) /\ 2 \in 2..Len(q) /\ q[2] = Maximized
  BY <1>1, <1>2
<1>4. q[1] = SizeChanged
  BY <1>3 DEF TellsOfWindow, Announced
<1>5. \A j \in 1..(2 - 1) : q[j] # Restored
  BY <1>4, WindowNewsDiffer
<1>. QED BY <1>1, <1>3, <1>4, <1>5 DEF TellsOfWindow, FirstMaximized

\* A size that is asked for is not one that vanishes.
LEMMA SizesAskedFor ==
  /\ ~Vanishes(DisplaySize)
  /\ \A size : ~Vanishes(SizeWhenCreated(size))
  /\ \A size, max : ~Vanishes(normalSize) => ~Vanishes(SizeAfterRequest(size, max))
<1>1. ~Vanishes(DisplaySize)
  <2>1. DisplayWidth # 0 /\ DisplayHeight # 0
    BY ScreenAssumption
  <2>2. DisplaySize.width = DisplayWidth /\ DisplaySize.height = DisplayHeight
    BY DEF DisplaySize, Size
  <2>. QED BY <2>1, <2>2 DEF Vanishes
<1>2. \A size : ~Vanishes(SizeWhenCreated(size))
  BY DEF SizeWhenCreated, Size, Vanishes
<1>3. \A size, max : ~Vanishes(normalSize) => ~Vanishes(SizeAfterRequest(size, max))
  BY Zenon DEF SizeAfterRequest
<1>. QED BY <1>1, <1>2, <1>3

Harmless == EventSet \ {Maximized, Restored}

LEMMA HarmlessEvents ==
  /\ SizeChanged \in Harmless
  /\ OtherEvents \subseteq Harmless
  /\ <<>> \in Seq(Harmless) /\ <<SizeChanged>> \in Seq(Harmless)
  /\ \A from, to : ChangeEvents(from, to) \in Seq(Harmless)
<1>1. SizeChanged \in Harmless /\ OtherEvents \subseteq Harmless
  BY WindowNewsDiffer DEF Harmless, OtherEvents, WindowNews
<1>2. <<>> \in Seq(Harmless) /\ <<SizeChanged>> \in Seq(Harmless)
  BY <1>1
<1>. QED BY <1>1, <1>2, Zenon DEF ChangeEvents

LEMMA SizeApplied ==
  ASSUME NEW rest \in Seq(EventSet), NEW full \in BOOLEAN, NEW max \in BOOLEAN, NEW size,
         ApplyWindowedSize(full, max, size, rest), ~Vanishes(normalSize)
  PROVE  /\ Grows(rest, events', Harmless)
         /\ ~Vanishes(normalSize')
         /\ full \/ max \/ wmMaximized \/ Vanishes(size) \/ normalSize' = size
<1>1. \A sent \in Seq(Harmless) : Grows(rest, rest \o sent, Harmless)
  BY GrowsBy DEF Harmless
<1>2. Grows(rest, rest, Harmless)
  BY GrowsByNothing
<1>3. CASE ~full /\ ~max
  <2>1. /\ normalSize' = SizeAfterRequest(size, wmMaximized)
        /\ events' = rest \o ChangeEvents(normalSize, SizeAfterRequest(size, wmMaximized))
    BY <1>3, Zenon DEF ApplyWindowedSize
  <2>2. Grows(rest, events', Harmless)
    BY <1>1, <2>1, HarmlessEvents, Zenon
  <2>. QED BY <2>1, <2>2, SizesAskedFor, Zenon DEF SizeAfterRequest
<1>4. CASE full \/ max
  BY <1>2, <1>4, Zenon DEF ApplyWindowedSize
<1>. QED BY <1>3, <1>4

\* SDL_RestoreWindow, or the user: the two events in either order.
LEMMA RestoreSent ==
  ASSUME NEW q \in Seq(EventSet),
         NEW sent \in {<<SizeChanged, Restored>>, <<Restored, SizeChanged>>},
         NEW wm \in BOOLEAN, NEW max \in BOOLEAN, NEW newMax \in BOOLEAN, newMax => max,
         TellsOfWindow(q, wm, max)
  PROVE  /\ Grows(q, q \o sent, EventSet \ {Maximized})
         /\ TellsOfWindow(q \o sent, FALSE, newMax)
         /\ Pending(q \o sent)
<1>1. /\ SizeChanged \in EventSet \ {Maximized} /\ Restored \in EventSet \ {Maximized}
      /\ SizeChanged \in Harmless /\ SizeChanged \in EventSet /\ Restored \in EventSet
  BY WindowNewsDiffer DEF WindowNews, Harmless
<1>2. sent \in Seq(EventSet \ {Maximized})
  <2>1. \A a, b \in EventSet \ {Maximized} : <<a, b>> \in Seq(EventSet \ {Maximized})
    OBVIOUS
  <2>. QED BY <1>1, <2>1, Zenon
<1>3. Grows(q, q \o sent, EventSet \ {Maximized})
  BY <1>2, GrowsBy
<1>4. \A e \in EventSet : Append(q, e) \in Seq(EventSet)
  OBVIOUS
<1>5. ASSUME sent = <<SizeChanged, Restored>>
      PROVE  TellsOfWindow(q \o sent, FALSE, newMax)
  <2>1. q \o sent = Append(Append(q, SizeChanged), Restored)
    BY <1>1, <1>5
  <2>2. Grows(q, Append(q, SizeChanged), Harmless)
    BY <1>1, GrowsByOne
  <2>3. TellsOfWindow(Append(q, SizeChanged), wm, max)
    BY <2>2, OthersAppended DEF Harmless
  <2>4. TellsOfWindow(Append(Append(q, SizeChanged), Restored), FALSE, newMax)
    BY <1>1, <1>4, <2>3, RestoredAppended, Zenon
  <2>. QED BY <1>5, <2>1, <2>4, Zenon
<1>6. ASSUME sent = <<Restored, SizeChanged>>
      PROVE  TellsOfWindow(q \o sent, FALSE, newMax)
  <2>1. q \o sent = Append(Append(q, Restored), SizeChanged)
    BY <1>1, <1>6
  <2>2. TellsOfWindow(Append(q, Restored), FALSE, newMax)
    BY RestoredAppended
  <2>3. Grows(Append(q, Restored), q \o sent, Harmless)
    BY <1>1, <1>4, <2>1, GrowsByOne
  <2>4. FALSE \in BOOLEAN /\ Append(q, Restored) \in Seq(EventSet)
    BY <1>1, <1>4, Zenon
  <2>. QED BY <2>2, <2>3, <2>4, OthersAppended, Zenon DEF Harmless
<1>7. Pending(q \o sent)
  <2>1. /\ Len(q) + 1 \in 1..Len(q \o sent) /\ (q \o sent)[Len(q) + 1] = sent[1]
    BY <1>1
  <2>2. sent[1] \in {SizeChanged, Restored}
    OBVIOUS
  <2>. QED BY <2>1, <2>2 DEF Pending
<1>. QED BY <1>3, <1>5, <1>6, <1>7

LEMMA TakenKeeps ==
  ASSUME WindowInv, Taken
  PROVE  WindowInv'
<1>. DEFINE q == events
<1>1. /\ q \in Seq(EventSet) /\ q # <<>> /\ events' = Tail(q)
      /\ Head(q) \notin {SizeChanged, Maximized, Restored}
  BY DEF WindowInv, WindowTypes, Taken, WindowNews
<1>2. /\ UNCHANGED <<windowed_window_size, windowed_window_size_backup, fullscreen, maximized,
                     frame_size, texture, logicalSize, vanished, normalSize, wmMaximized>>
  BY Zenon DEF Taken, screenVars, frameVars
<1>3. TellsOfWindow(q, wmMaximized, maximized) /\ wmMaximized \in BOOLEAN /\ maximized \in BOOLEAN
  BY DEF WindowInv, WindowTypes
<1>. HIDE DEF q
<1>4. Tail(q) \in Seq(EventSet)
  BY <1>1, TailAt
<1>5. TellsOfWindow(Tail(q), wmMaximized, maximized)
  <2>1. maximized <=> After(Head(q), maximized)
    BY <1>1 DEF After
  <2>. QED BY <1>1, <1>3, <2>1, EventTaken
<1>6. Pending(q) => Pending(Tail(q))
  BY <1>1, PendingStays
<1>7. ~(Tail(q) # <<>> /\ Head(Tail(q)) = Maximized)
  BY <1>1, <1>3, HeadComes
<1>. QED BY <1>1, <1>2, <1>4, <1>5, <1>6, <1>7, Zenon
         DEF WindowInv, WindowTypes, SizeKept, BackupReady, PictureFits, q

LEMMA QueuedKeeps ==
  ASSUME WindowInv, Queued
  PROVE  WindowInv'
<1>. DEFINE q == events
            p == events'
<1>1. q \in Seq(EventSet) /\ p \in Seq(EventSet) /\ Grows(q, p, OtherEvents)
  BY DEF WindowInv, WindowTypes, Queued, Grows
<1>2. /\ UNCHANGED <<windowed_window_size, windowed_window_size_backup, fullscreen, maximized,
                     frame_size, texture, logicalSize, vanished, normalSize, wmMaximized>>
  BY Zenon DEF Queued, screenVars, frameVars
<1>3. TellsOfWindow(q, wmMaximized, maximized) /\ wmMaximized \in BOOLEAN /\ maximized \in BOOLEAN
  BY DEF WindowInv, WindowTypes
<1>. HIDE DEF q, p
<1>4. Grows(q, p, EventSet \ {Maximized, Restored}) /\ Maximized \notin OtherEvents
  BY <1>1 DEF Grows, OtherEvents, WindowNews
<1>5. TellsOfWindow(p, wmMaximized, maximized)
  BY <1>1, <1>3, <1>4, OthersAppended
<1>6. Pending(q) => Pending(p)
  BY <1>1, PendingGrows
<1>7. p # <<>> /\ Head(p) = Maximized => q # <<>> /\ Head(q) = Maximized
  BY <1>1, <1>4, HeadGrows
<1>8. events' = p
  BY DEF p
<1>. QED BY <1>1, <1>2, <1>5, <1>6, <1>7, <1>8, Zenon
         DEF WindowInv, WindowTypes, SizeKept, BackupReady, PictureFits, q

\* The handler of an event takes it, and what it asks for is queued: the rest of
\* the queue, if the event was none of a restored or maximized window.
LEMMA RestKept ==
  ASSUME WindowInv, events # <<>>
  PROVE  /\ Tail(events) \in Seq(EventSet)
         /\ \A newMax \in BOOLEAN : (newMax <=> After(Head(events), maximized))
              => TellsOfWindow(Tail(events), wmMaximized, newMax)
         /\ Tail(events) # <<>> /\ Head(Tail(events)) = Maximized
              => Head(events) = SizeChanged /\ ~maximized
         /\ Pending(events) /\ Head(events) \notin {SizeChanged, Restored}
              => Pending(Tail(events))
<1>1. /\ events \in Seq(EventSet) /\ wmMaximized \in BOOLEAN /\ maximized \in BOOLEAN
      /\ TellsOfWindow(events, wmMaximized, maximized)
  BY DEF WindowInv, WindowTypes
<1>2. Tail(events) \in Seq(EventSet)
  BY <1>1, TailAt
<1>3. ASSUME NEW newMax \in BOOLEAN, newMax <=> After(Head(events), maximized)
      PROVE  TellsOfWindow(Tail(events), wmMaximized, newMax)
  BY <1>1, <1>3, EventTaken
<1>4. Tail(events) # <<>> /\ Head(Tail(events)) = Maximized
        => Head(events) = SizeChanged /\ ~maximized
  BY <1>1, HeadComes
<1>5. Pending(events) /\ Head(events) \notin {SizeChanged, Restored} => Pending(Tail(events))
  BY <1>1, PendingStays
<1>. QED BY <1>2, <1>3, <1>4, <1>5

LEMMA SizeChangedKeeps ==
  ASSUME WindowInv, events # <<>>, Head(events) = SizeChanged, HandleSizeChanged
  PROVE  WindowInv'
<1>1. /\ events' = Tail(events)
      /\ UNCHANGED <<fullscreen, maximized, frame_size, texture, logicalSize, vanished,
                     normalSize, wmMaximized>>
  BY Zenon DEF HandleSizeChanged, frameVars
<1>2. Tail(events) \in Seq(EventSet) /\ TellsOfWindow(Tail(events), wmMaximized, maximized)
  <2>1. maximized \in BOOLEAN /\ (maximized <=> After(Head(events), maximized))
    BY WindowNewsDiffer DEF WindowInv, WindowTypes, After
  <2>. QED BY <2>1, RestKept
<1>3. Tail(events) # <<>> /\ Head(Tail(events)) = Maximized => ~maximized
  BY RestKept
<1>4. CASE fullscreen \/ maximized
  <2>1. UNCHANGED <<windowed_window_size, windowed_window_size_backup>>
    BY <1>4, Zenon DEF HandleSizeChanged
  <2>. QED BY <1>1, <1>2, <1>3, <1>4, <2>1, Zenon
           DEF WindowInv, WindowTypes, SizeKept, BackupReady, PictureFits
<1>5. CASE ~fullscreen /\ ~maximized
  <2>1. /\ windowed_window_size_backup' = windowed_window_size
        /\ windowed_window_size' = GetWindowSize
    BY <1>5, Zenon DEF HandleSizeChanged
  <2>2. ~Vanishes(GetWindowSize) /\ (wmMaximized \/ GetWindowSize = normalSize)
    BY <1>5, SizesAskedFor, Zenon DEF GetWindowSize, WindowInv
  <2>. QED BY <1>1, <1>2, <1>3, <1>5, <2>1, <2>2, Zenon
           DEF WindowInv, WindowTypes, SizeKept, BackupReady, PictureFits
<1>. QED BY <1>4, <1>5

LEMMA MaximizedKeeps ==
  ASSUME WindowInv, events # <<>>, Head(events) = Maximized, HandleMaximized
  PROVE  WindowInv'
<1>1. /\ events' = Tail(events)
      /\ windowed_window_size' = windowed_window_size_backup
      /\ maximized' = TRUE
      /\ UNCHANGED <<fullscreen, frame_size, texture, logicalSize, vanished, normalSize,
                     wmMaximized>>
  BY Zenon DEF HandleMaximized, frameVars
<1>2. ~Vanishes(windowed_window_size_backup)
  BY DEF HandleMaximized, BackupIsSet, Vanishes
<1>3. Tail(events) \in Seq(EventSet) /\ TellsOfWindow(Tail(events), wmMaximized, TRUE)
  <2>1. TRUE <=> After(Head(events), maximized)
    BY WindowNewsDiffer DEF After
  <2>. QED BY <2>1, RestKept
<1>4. ~(Tail(events) # <<>> /\ Head(Tail(events)) = Maximized)
  BY RestKept, WindowNewsDiffer
<1>. QED BY <1>1, <1>2, <1>3, <1>4, Zenon
         DEF WindowInv, WindowTypes, SizeKept, BackupReady, PictureFits

LEMMA RestoredKeeps ==
  ASSUME WindowInv, events # <<>>, Head(events) = Restored, HandleRestored
  PROVE  WindowInv'
<1>1. /\ maximized' = FALSE
      /\ ApplyWindowedSize(fullscreen, FALSE, windowed_window_size, Tail(events))
      /\ UNCHANGED <<windowed_window_size, windowed_window_size_backup, fullscreen, frame_size,
                     texture, logicalSize, vanished, wmMaximized>>
  BY Zenon DEF HandleRestored, frameVars
<1>2. /\ fullscreen \in BOOLEAN /\ wmMaximized \in BOOLEAN /\ FALSE \in BOOLEAN
      /\ ~Vanishes(normalSize)
  BY Zenon DEF WindowInv, WindowTypes
<1>3. Tail(events) \in Seq(EventSet) /\ TellsOfWindow(Tail(events), wmMaximized, FALSE)
  <2>1. FALSE <=> After(Head(events), maximized)
    BY DEF After
  <2>. QED BY <2>1, RestKept
<1>4. /\ Grows(Tail(events), events', Harmless)
      /\ ~Vanishes(normalSize')
      /\ \/ fullscreen \/ wmMaximized \/ Vanishes(windowed_window_size)
         \/ normalSize' = windowed_window_size
  BY <1>1, <1>2, <1>3, SizeApplied, Zenon
<1>5. events' \in Seq(EventSet) /\ TellsOfWindow(events', wmMaximized, FALSE)
  <2>1. events' \in Seq(EventSet)
    BY <1>4 DEF Grows
  <2>. QED BY <1>2, <1>3, <1>4, <2>1, OthersAppended, Zenon DEF Harmless
<1>6. ~(events' # <<>> /\ Head(events') = Maximized)
  <2>1. Maximized \notin Harmless
    BY DEF Harmless
  <2>2. events' # <<>> /\ Head(events') = Maximized
          => Tail(events) # <<>> /\ Head(Tail(events)) = Maximized
    BY <1>3, <1>4, <2>1, HeadGrows
  <2>. QED BY <2>2, RestKept, WindowNewsDiffer
<1>. QED BY <1>1, <1>4, <1>5, <1>6, Zenon
         DEF WindowInv, WindowTypes, SizeKept, BackupReady, PictureFits

LEMMA FullscreenKeeps ==
  ASSUME WindowInv, events # <<>>, Head(events) \notin WindowNews, SwitchFullscreen
  PROVE  WindowInv'
<1>1. UNCHANGED <<windowed_window_size, windowed_window_size_backup, maximized, frame_size,
                  texture, logicalSize, vanished, wmMaximized>>
  BY Zenon DEF SwitchFullscreen, frameVars
<1>2. /\ fullscreen \in BOOLEAN /\ (~fullscreen) \in BOOLEAN /\ maximized \in BOOLEAN
      /\ wmMaximized \in BOOLEAN /\ ~Vanishes(normalSize)
  BY Zenon DEF WindowInv, WindowTypes
<1>3. Tail(events) \in Seq(EventSet) /\ TellsOfWindow(Tail(events), wmMaximized, maximized)
  <2>1. maximized <=> After(Head(events), maximized)
    BY DEF After, WindowNews
  <2>. QED BY <1>2, <2>1, RestKept
<1>4. Tail(events) = <<>> \/ Head(Tail(events)) # Maximized
  BY RestKept DEF WindowNews
<1>5. Pending(events) => Pending(Tail(events))
  BY RestKept DEF WindowNews
<1>6. CASE events' = Tail(events) /\ UNCHANGED <<fullscreen, normalSize>>
  BY <1>1, <1>3, <1>4, <1>5, <1>6, Zenon
     DEF WindowInv, WindowTypes, SizeKept, BackupReady, PictureFits
<1>7. CASE /\ fullscreen' = ~fullscreen
           /\ ApplyWindowedSize(~fullscreen, maximized, windowed_window_size,
                                Append(Tail(events), SizeChanged))
  <2>. DEFINE rest == Append(Tail(events), SizeChanged)
  <2>1. Grows(Tail(events), rest, Harmless) /\ rest \in Seq(EventSet)
    BY <1>3, HarmlessEvents, GrowsByOne DEF Harmless, Grows
  <2>. HIDE DEF rest
  <2>2. ApplyWindowedSize(~fullscreen, maximized, windowed_window_size, rest)
    BY <1>7 DEF rest
  <2>3. Grows(rest, events', Harmless) /\ ~Vanishes(normalSize')
    BY <1>2, <2>1, <2>2, SizeApplied, Zenon
  <2>4. TellsOfWindow(rest, wmMaximized, maximized)
    BY <1>2, <1>3, <2>1, OthersAppended, Zenon DEF Harmless
  <2>5. events' \in Seq(EventSet) /\ TellsOfWindow(events', wmMaximized, maximized)
    <3>1. events' \in Seq(EventSet)
      BY <2>3 DEF Grows
    <3>2. Grows(rest, events', EventSet \ {Maximized, Restored}) /\ rest \in Seq(EventSet)
      BY <2>1, <2>3 DEF Harmless
    <3>3. wmMaximized \in BOOLEAN /\ maximized \in BOOLEAN
      BY <1>2, Zenon
    <3>4. TellsOfWindow(events', wmMaximized, maximized)
      BY <2>4, <3>2, <3>3, OthersAppended
    <3>. QED BY <3>1, <3>4
  <2>6. Pending(rest)
    <3>1. Len(rest) \in 1..Len(rest) /\ rest[Len(rest)] = SizeChanged
      BY <1>3, WindowNewsDiffer, AppendedAt DEF WindowNews, rest
    <3>. QED BY <3>1 DEF Pending
  <2>7. Pending(events')
    BY <2>1, <2>3, <2>6, PendingGrows
  <2>8. ~(events' # <<>> /\ Head(events') = Maximized)
    <3>1. Maximized \notin Harmless
      BY DEF Harmless
    <3>2. events' # <<>> /\ Head(events') = Maximized => rest # <<>> /\ Head(rest) = Maximized
      BY <2>1, <2>3, <3>1, HeadGrows
    <3>3. rest # <<>> /\ Head(rest) = Maximized
            => Tail(events) # <<>> /\ Head(Tail(events)) = Maximized
      BY <1>3, <2>1, <3>1, HeadGrows
    <3>. QED BY <1>4, <3>2, <3>3
  <2>9. fullscreen' \in BOOLEAN
    BY <1>2, <1>7, Zenon
  <2>. QED BY <1>1, <2>3, <2>5, <2>7, <2>8, <2>9, Zenon
           DEF WindowInv, WindowTypes, SizeKept, BackupReady, PictureFits
<1>. QED BY <1>6, <1>7, Zenon DEF SwitchFullscreen

\* A window that is not maximized anymore says so.
LEMMA NotMaximizedAnymore ==
  ASSUME NEW q \in Seq(EventSet), TellsOfWindow(q, FALSE, TRUE)
  PROVE  Pending(q) /\ TellsOfWindow(q, FALSE, FALSE)
<1>1. PICK i \in 1..Len(q) : q[i] \in {Maximized, Restored}
  BY DEF TellsOfWindow, Told
<1>2. \A j \in 1..Len(q) : q[j] = Maximized => \E k \in (j + 1)..Len(q) : q[k] = Restored
  BY DEF TellsOfWindow, Told, LastOf
<1>3. Len(q) \in Nat
  OBVIOUS
<1>4. \E k \in 1..Len(q) : q[k] = Restored
  <2>1. CASE q[i] = Restored
    BY <2>1
  <2>2. CASE q[i] = Maximized
    <3>1. PICK k \in (i + 1)..Len(q) : q[k] = Restored
      BY <1>2, <2>2
    <3>. QED BY <1>3, <3>1
  <2>. QED BY <1>1, <2>1, <2>2
<1>5. Pending(q)
  BY <1>4 DEF Pending
<1>6. Told(q, FALSE, FALSE)
  BY <1>1 DEF TellsOfWindow, Told
<1>7. FirstMaximized(q, FALSE)
  BY DEF FirstMaximized
<1>. QED BY <1>5, <1>6, <1>7 DEF TellsOfWindow

\* What resizing a window that is not fullscreen does, restoring it if need be.
LEMMA Resized ==
  ASSUME NEW wanted, Resize(wanted), ~fullscreen,
         maximized \in BOOLEAN, wmMaximized \in BOOLEAN, ~Vanishes(normalSize)
  PROVE  /\ maximized' = FALSE
         /\ UNCHANGED <<windowed_window_size, windowed_window_size_backup, fullscreen,
                        frame_size, texture, logicalSize, vanished>>
         /\ ~Vanishes(normalSize')
         /\ wmMaximized' \in BOOLEAN
         /\ \E sent \in IF maximized THEN RestoreEvents ELSE {<<>>} :
              events' = Tail(events) \o sent \o ChangeEvents(normalSize, normalSize')
         /\ maximized => wmMaximized' = FALSE
         /\ ~maximized => wmMaximized' = wmMaximized
<1>1. /\ maximized' = FALSE
      /\ wmMaximized' = (wmMaximized /\ ~maximized)
      /\ \E now \in SizesToRead, sent \in IF maximized THEN RestoreEvents ELSE {<<>>} :
           /\ normalSize' = SizeAfterRequest(wanted[now], wmMaximized')
           /\ events' = Tail(events) \o sent \o ChangeEvents(normalSize, normalSize')
      /\ UNCHANGED <<windowed_window_size, windowed_window_size_backup, fullscreen, frameVars>>
  BY Zenon DEF Resize
<1>2. (maximized => wmMaximized' = FALSE) /\ (~maximized => wmMaximized' = wmMaximized)
  BY <1>1
<1>3. wmMaximized' \in BOOLEAN
  BY <1>2, Zenon
<1>. QED BY <1>1, <1>2, <1>3, SizesAskedFor, Zenon DEF frameVars

LEMMA ResizeKeeps ==
  ASSUME WindowInv, events # <<>>, Head(events) \notin WindowNews, NEW wanted, Resize(wanted)
  PROVE  WindowInv'
<1>. DEFINE rest == Tail(events)
<1>1. /\ maximized \in BOOLEAN /\ wmMaximized \in BOOLEAN /\ FALSE \in BOOLEAN
      /\ ~Vanishes(normalSize)
  BY Zenon DEF WindowInv, WindowTypes
<1>2. rest \in Seq(EventSet) /\ TellsOfWindow(rest, wmMaximized, maximized)
  <2>1. maximized <=> After(Head(events), maximized)
    BY DEF After, WindowNews
  <2>. QED BY <1>1, <2>1, RestKept
<1>3. ~(rest # <<>> /\ Head(rest) = Maximized)
  BY RestKept DEF WindowNews
<1>4. Pending(events) => Pending(rest)
  BY RestKept DEF WindowNews
<1>5. CASE fullscreen
  <2>1. Taken
    BY <1>5, Zenon DEF Resize, Taken
  <2>. QED BY <2>1, TakenKeeps
<1>6. CASE ~fullscreen
  <2>1. /\ maximized' = FALSE
        /\ UNCHANGED <<windowed_window_size, windowed_window_size_backup, fullscreen,
                       frame_size, texture, logicalSize, vanished>>
        /\ ~Vanishes(normalSize')
        /\ wmMaximized' \in BOOLEAN
        /\ maximized => wmMaximized' = FALSE
        /\ ~maximized => wmMaximized' = wmMaximized
    BY <1>1, <1>6, Resized, Zenon
  <2>2. PICK sent \in (IF maximized THEN RestoreEvents ELSE {<<>>}) :
          events' = rest \o sent \o ChangeEvents(normalSize, normalSize')
    BY <1>1, <1>6, Resized, Zenon
  <2>. DEFINE q == rest \o sent
              changes == ChangeEvents(normalSize, normalSize')
  <2>. HIDE DEF rest
  \* The window was restored, has been, or need not be.
  <2>3. /\ q \in Seq(EventSet)
        /\ TellsOfWindow(q, wmMaximized', FALSE)
        /\ ~(q # <<>> /\ Head(q) = Maximized)
        /\ wmMaximized' \/ Pending(q) \/ ~maximized
        /\ Pending(rest) => Pending(q)
    <3>1. CASE maximized /\ wmMaximized
      <4>1. sent \in {<<SizeChanged, Restored>>, <<Restored, SizeChanged>>}
        BY <2>2, <3>1, Zenon DEF RestoreEvents
      <4>2. /\ Grows(rest, q, EventSet \ {Maximized})
            /\ TellsOfWindow(q, FALSE, FALSE)
            /\ Pending(q)
        BY <1>1, <1>2, <4>1, RestoreSent, Zenon
      <4>3. ~(q # <<>> /\ Head(q) = Maximized)
        BY <1>2, <1>3, <4>2, HeadGrows
      <4>4. q \in Seq(EventSet)
        BY <4>2 DEF Grows
      <4>. QED BY <2>1, <3>1, <4>2, <4>3, <4>4, Zenon
    <3>2. CASE ~(maximized /\ wmMaximized)
      <4>1. sent = <<>>
        BY <1>1, <2>2, <3>2, Zenon DEF RestoreEvents
      <4>2. q = rest
        BY <1>2, <4>1
      <4>3. CASE ~maximized
        <5>1. wmMaximized' = wmMaximized /\ maximized = FALSE
          BY <1>1, <2>1, <4>3, Zenon
        <5>. QED BY <1>2, <1>3, <4>2, <4>3, <5>1, Zenon
      <4>4. CASE maximized /\ ~wmMaximized
        <5>1. wmMaximized' = FALSE /\ wmMaximized = FALSE /\ maximized = TRUE
          BY <1>1, <2>1, <4>4, Zenon
        <5>2. TellsOfWindow(rest, FALSE, TRUE)
          BY <1>2, <5>1, Zenon
        <5>3. Pending(rest) /\ TellsOfWindow(rest, FALSE, FALSE)
          BY <1>2, <5>2, NotMaximizedAnymore
        <5>. QED BY <1>2, <1>3, <4>2, <5>1, <5>3, Zenon
      <4>. QED BY <3>2, <4>3, <4>4
    <3>. QED BY <3>1, <3>2
  <2>4. changes \in Seq(Harmless) /\ (normalSize' = normalSize \/ changes = <<SizeChanged>>)
    BY HarmlessEvents, Zenon DEF ChangeEvents
  <2>5. events' = q \o changes
    BY <2>2
  <2>. HIDE DEF q, changes
  <2>6. Grows(q, events', Harmless)
    BY <2>3, <2>4, <2>5, GrowsBy DEF Harmless
  <2>7. events' \in Seq(EventSet)
    BY <2>6 DEF Grows
  <2>8. TellsOfWindow(events', wmMaximized', FALSE)
    <3>1. Grows(q, events', EventSet \ {Maximized, Restored})
      BY <2>6 DEF Harmless
    <3>. QED BY <1>1, <2>1, <2>3, <3>1, OthersAppended, Zenon
  <2>9. ~(events' # <<>> /\ Head(events') = Maximized)
    <3>1. Maximized \notin Harmless
      BY DEF Harmless
    <3>. QED BY <2>3, <2>6, <3>1, HeadGrows
  <2>10. Pending(q) => Pending(events')
    BY <2>3, <2>6, PendingGrows
  <2>11. normalSize' = normalSize \/ Pending(events')
    <3>. SUFFICES ASSUME changes = <<SizeChanged>> PROVE Pending(events')
      BY <2>4
    <3>1. events' = Append(q, SizeChanged)
      BY <2>3, <2>5
    <3>2. Len(events') \in 1..Len(events') /\ events'[Len(events')] = SizeChanged
      BY <2>3, <3>1, WindowNewsDiffer, AppendedAt DEF WindowNews
    <3>. QED BY <3>2 DEF Pending
  <2>12. SizeKept'
    <3>1. \/ windowed_window_size = normalSize \/ Vanishes(windowed_window_size)
          \/ maximized \/ (wmMaximized /\ ~maximized) \/ Pending(rest)
      BY <1>4, <1>6, Zenon DEF WindowInv, SizeKept
    <3>2. CASE windowed_window_size = normalSize
      BY <2>1, <2>11, <3>2, Zenon DEF SizeKept
    <3>3. CASE Vanishes(windowed_window_size)
      BY <2>1, <3>3, Zenon DEF SizeKept
    <3>4. CASE maximized
      BY <2>3, <2>10, <3>4, Zenon DEF SizeKept
    <3>5. CASE wmMaximized /\ ~maximized
      BY <2>1, <3>5, Zenon DEF SizeKept
    <3>6. CASE Pending(rest)
      BY <2>3, <2>10, <3>6, Zenon DEF SizeKept
    <3>. QED BY <3>1, <3>2, <3>3, <3>4, <3>5, <3>6, Zenon
  <2>. QED BY <1>1, <2>1, <2>7, <2>8, <2>9, <2>12, Zenon
           DEF WindowInv, WindowTypes, BackupReady, PictureFits
<1>. QED BY <1>5, <1>6

\* The window follows a frame of another size.
LEMMA FrameKeeps ==
  ASSUME WindowInv, NEW size, NEW bounds, ResizeForFrame(size, bounds)
  PROVE  WindowInv'
<1>1. PICK best :
        /\ logicalSize' = size
        /\ windowed_window_size' = best
        /\ ApplyWindowedSize(fullscreen, maximized, best, events)
        /\ frame_size' = size
        /\ texture' \in {size, NoTexture}
        /\ vanished' = (vanished \/ Vanishes(best))
        /\ UNCHANGED <<windowed_window_size_backup, fullscreen, maximized, wmMaximized>>
  BY Zenon DEF ResizeForFrame
<1>2. /\ events \in Seq(EventSet) /\ fullscreen \in BOOLEAN /\ maximized \in BOOLEAN
      /\ wmMaximized \in BOOLEAN /\ ~Vanishes(normalSize)
      /\ TellsOfWindow(events, wmMaximized, maximized)
  BY DEF WindowInv, WindowTypes
<1>3. /\ Grows(events, events', Harmless)
      /\ ~Vanishes(normalSize')
      /\ fullscreen \/ maximized \/ wmMaximized \/ Vanishes(best) \/ normalSize' = best
  BY <1>1, <1>2, SizeApplied, Zenon
<1>4. events' \in Seq(EventSet) /\ Grows(events, events', EventSet \ {Maximized, Restored})
  BY <1>3 DEF Grows, Harmless
<1>5. TellsOfWindow(events', wmMaximized, maximized)
  BY <1>2, <1>4, OthersAppended
<1>6. events' # <<>> /\ Head(events') = Maximized => events # <<>> /\ Head(events) = Maximized
  <2>1. Maximized \notin Harmless
    BY DEF Harmless
  <2>. QED BY <1>2, <1>3, <2>1, HeadGrows
<1>7. vanished => vanished'
  BY <1>1, Zenon
<1>8. Vanishes(windowed_window_size') => vanished'
  BY <1>1, Zenon
<1>9. BackupReady'
  BY <1>1, <1>6, <1>7, Zenon DEF WindowInv, BackupReady
<1>10. SizeKept'
  BY <1>1, <1>3, Zenon DEF SizeKept
<1>. QED BY <1>1, <1>2, <1>3, <1>4, <1>5, <1>8, <1>9, <1>10, Zenon
         DEF WindowInv, WindowTypes, PictureFits

LEMMA UserKeeps ==
  ASSUME WindowInv, ChangeWindow
  PROVE  WindowInv'
<1>1. /\ events \in Seq(EventSet) /\ maximized \in BOOLEAN /\ FALSE \in BOOLEAN
      /\ wmMaximized \in BOOLEAN /\ TellsOfWindow(events, wmMaximized, maximized)
      /\ ~Vanishes(normalSize)
  BY Zenon DEF WindowInv, WindowTypes
<1>2. CASE UserMaximizes
  <2>1. /\ ~wmMaximized /\ wmMaximized' = TRUE
        /\ events' = events \o <<SizeChanged, Maximized>>
        /\ UNCHANGED <<windowed_window_size, windowed_window_size_backup, fullscreen, maximized,
                       frame_size, texture, logicalSize, vanished, normalSize>>
    BY <1>2, Zenon DEF UserMaximizes, frameVars
  <2>. DEFINE q == Append(events, SizeChanged)
  <2>2. SizeChanged \in EventSet /\ Maximized \in EventSet /\ SizeChanged # Maximized
    BY WindowNewsDiffer DEF WindowNews
  <2>3. /\ q \in Seq(EventSet) /\ q # <<>> /\ q[Len(q)] = SizeChanged
        /\ events' = Append(q, Maximized) /\ events' \in Seq(EventSet)
    BY <1>1, <2>1, <2>2
  <2>4. Grows(events, q, Harmless) /\ Grows(q, events', EventSet \ {SizeChanged})
    BY <1>1, <2>2, <2>3, HarmlessEvents, GrowsByOne
  <2>. HIDE DEF q
  <2>5. TellsOfWindow(q, FALSE, maximized)
    <3>1. TellsOfWindow(events, FALSE, maximized)
      BY <1>1, <2>1, Zenon
    <3>. QED BY <1>1, <2>4, <3>1, OthersAppended DEF Harmless
  <2>6. TellsOfWindow(events', TRUE, maximized)
    BY <1>1, <2>3, <2>5, MaximizedAppended
  <2>7. events # <<>> /\ Head(events') = Maximized => Head(events) = Maximized
    <3>1. ASSUME events # <<>> PROVE Head(events') = Head(events)
      BY <1>1, <2>1, <3>1
    <3>. QED BY <3>1, Zenon
  <2>8. events = <<>> => Head(events') = SizeChanged
    BY <2>1
  <2>9. BackupReady'
    BY <2>1, <2>2, <2>7, <2>8, Zenon DEF WindowInv, BackupReady
  <2>10. SizeKept'
    BY <2>1, Zenon DEF SizeKept
  <2>. QED BY <1>1, <2>1, <2>3, <2>6, <2>9, <2>10, Zenon
           DEF WindowInv, WindowTypes, PictureFits
<1>3. CASE UserRestores
  <2>1. /\ wmMaximized /\ wmMaximized' = FALSE
        /\ UNCHANGED <<windowed_window_size, windowed_window_size_backup, fullscreen, maximized,
                       frame_size, texture, logicalSize, vanished, normalSize>>
    BY <1>3, Zenon DEF UserRestores, frameVars
  <2>2. PICK sent \in {<<SizeChanged, Restored>>, <<Restored, SizeChanged>>} :
          events' = events \o sent
    BY <1>3, Zenon DEF UserRestores, RestoreEvents
  <2>3. /\ Grows(events, events', EventSet \ {Maximized})
        /\ TellsOfWindow(events', FALSE, maximized)
        /\ Pending(events')
    BY <1>1, <2>2, RestoreSent, Zenon
  <2>4. events' \in Seq(EventSet)
    BY <2>3 DEF Grows
  <2>5. events' # <<>> /\ Head(events') = Maximized => events # <<>> /\ Head(events) = Maximized
    BY <1>1, <2>3, HeadGrows
  <2>6. BackupReady'
    BY <2>1, <2>5, Zenon DEF WindowInv, BackupReady
  <2>7. SizeKept'
    BY <2>3, Zenon DEF SizeKept
  <2>. QED BY <1>1, <2>1, <2>3, <2>4, <2>6, <2>7, Zenon
           DEF WindowInv, WindowTypes, PictureFits
<1>4. ASSUME NEW w \in UserLengths, NEW h \in UserLengths, UserResizes(Size(w, h))
      PROVE  WindowInv'
  <2>1. /\ normalSize' = Size(w, h)
        /\ events' = Append(events, SizeChanged)
        /\ UNCHANGED <<windowed_window_size, windowed_window_size_backup, fullscreen, maximized,
                       frame_size, texture, logicalSize, vanished, wmMaximized>>
    BY <1>4, Zenon DEF UserResizes, frameVars
  <2>2. ~Vanishes(normalSize')
    <3>1. w # 0 /\ h # 0
      BY ScreenAssumption
    <3>2. normalSize'.width = w /\ normalSize'.height = h
      BY <2>1 DEF Size
    <3>. QED BY <3>1, <3>2, Zenon DEF Vanishes
  <2>3. Grows(events, events', Harmless) /\ events' \in Seq(EventSet)
    BY <1>1, <2>1, HarmlessEvents, GrowsByOne DEF Harmless, Grows
  <2>4. TellsOfWindow(events', wmMaximized, maximized)
    <3>1. Grows(events, events', EventSet \ {Maximized, Restored})
      BY <2>3 DEF Harmless
    <3>. QED BY <1>1, <3>1, OthersAppended
  <2>5. Pending(events')
    <3>1. Len(events') \in 1..Len(events') /\ events'[Len(events')] = SizeChanged
      BY <1>1, <2>1, WindowNewsDiffer, AppendedAt DEF WindowNews
    <3>. QED BY <3>1 DEF Pending
  <2>6. events' # <<>> /\ Head(events') = Maximized => events # <<>> /\ Head(events) = Maximized
    <3>1. Maximized \notin Harmless
      BY DEF Harmless
    <3>. QED BY <1>1, <2>3, <3>1, HeadGrows
  <2>7. BackupReady'
    BY <2>1, <2>6, Zenon DEF WindowInv, BackupReady
  <2>8. SizeKept'
    BY <2>5, Zenon DEF SizeKept
  <2>. QED BY <1>1, <2>1, <2>2, <2>3, <2>4, <2>7, <2>8, Zenon
           DEF WindowInv, WindowTypes, PictureFits
<1>. QED BY <1>2, <1>3, <1>4, Zenon DEF ChangeWindow

LEMMA HandlersKeep ==
  ASSUME WindowInv, HandleWindowEvent \/ ProcessWindowKey
  PROVE  WindowInv'
<1>1. CASE HandleWindowEvent
  BY <1>1, SizeChangedKeeps, MaximizedKeeps, RestoredKeeps, Zenon DEF HandleWindowEvent, Handle
<1>2. CASE ProcessWindowKey
  <2>1. events # <<>> /\ Head(events) \in OtherEvents
    <3>1. /\ Key("Ctrl+f") \in OtherEvents /\ Key("Ctrl+x") \in OtherEvents
          /\ Key("Ctrl+g") \in OtherEvents
      BY OwnEvents, Zenon DEF WindowKeys
    <3>. QED BY <1>2, <3>1, OwnEvents, Zenon DEF ProcessWindowKey, Handle
  <2>2. Head(events) \notin WindowNews
    BY <2>1, Zenon DEF OtherEvents
  <2>3. SwitchFullscreen \/ ResizeToFit \/ ResizeToPixelPerfect
    BY <1>2, Zenon DEF ProcessWindowKey
  <2>4. SwitchFullscreen \/ \E wanted : Resize(wanted)
    BY <2>3, Zenon DEF ResizeToFit, ResizeToPixelPerfect
  <2>. QED BY <2>1, <2>2, <2>4, FullscreenKeeps, ResizeKeeps, Zenon
<1>. QED BY <1>1, <1>2

LEMMA WindowStays ==
  ASSUME WindowInv, UNCHANGED <<screenVars, events>>
  PROVE  WindowInv'
BY Zenon DEF WindowInv, WindowTypes, SizeKept, BackupReady, PictureFits, screenVars, frameVars

LEMMA WindowStarts ==
  ASSUME UserInterfaceInit
  PROVE  WindowInv
<1>1. /\ fullscreen = FALSE /\ maximized = FALSE /\ wmMaximized = FALSE
      /\ texture = frame_size /\ logicalSize = frame_size
      /\ normalSize = SizeWhenCreated(windowed_window_size)
      /\ vanished = Vanishes(windowed_window_size)
      /\ events = <<>>
  BY Zenon DEF UserInterfaceInit, ScreenInit
<1>2. events \in Seq(EventSet) /\ Len(events) = 0
  BY <1>1
<1>3. TellsOfWindow(events, FALSE, FALSE)
  BY <1>2 DEF TellsOfWindow, Told, LastOf, Announced, Alternate, FirstMaximized
<1>4. Vanishes(windowed_window_size) \/ normalSize = windowed_window_size
  <2>1. \E w, h : windowed_window_size = Size(w, h)
    <3>1. \E w, h \in UserLengths \cup {0}, b \in DisplayBounds :
            windowed_window_size = GetInitialOptimalSize(frame_size, w, h, b)
      BY Zenon DEF UserInterfaceInit, ScreenInit
    <3>2. \E w, h : frame_size = Size(w, h)
      BY Zenon DEF UserInterfaceInit, ScreenInit, FrameSizes
    <3>. QED BY <3>1, <3>2, Zenon DEF GetInitialOptimalSize, GetOptimalSize
  <2>2. PICK w, h : windowed_window_size = Size(w, h)
    BY <2>1
  <2>3. windowed_window_size.width = w /\ windowed_window_size.height = h
    BY <2>2 DEF Size
  <2>. QED BY <1>1, <2>2, <2>3, Zenon DEF Vanishes, SizeWhenCreated
<1>. QED BY <1>1, <1>2, <1>3, <1>4, SizesAskedFor, Zenon
         DEF WindowInv, WindowTypes, SizeKept, BackupReady, PictureFits

LEMMA WindowKept == UserInterfaceSpec => []WindowInv
<1>1. ASSUME WindowInv, [UserInterfaceNext]_userInterfaceVars
      PROVE  WindowInv'
  <2>1. events \in Seq(EventSet)
    BY <1>1 DEF WindowInv, WindowTypes
  <2>2. CASE PrepareForFrame
    BY <1>1, <2>2, FrameKeeps, WindowStays, Zenon
       DEF PrepareForFrame, SameSize, LogicalSizeFails
  <2>. QED BY <1>1, <2>1, <2>2, ScreenSteps, WindowStays, TakenKeeps, QueuedKeeps,
              HandlersKeep, UserKeeps, Zenon
<1>. QED BY <1>1, WindowStarts, PTL DEF UserInterfaceSpec

\* What the Screen remembers is what its window is, once the events that tell
\* about it are handled: the flag, the size to come back to unless it vanished,
\* and a picture of the size of the frames (screen.hpp:36-46).
THEOREM RemembersItsWindow == UserInterfaceSpec => []ScreenMatchesWindow
<1>1. WindowInv => ScreenMatchesWindow
  <2>. SUFFICES ASSUME WindowInv PROVE ScreenMatchesWindow
    OBVIOUS
  <2>1. ASSUME events = <<>>
        PROVE  maximized = wmMaximized /\ ~Pending(events)
    <3>1. Len(events) = 0
      BY <2>1
    <3>2. \A i \in 1..Len(events) : events[i] \notin {Maximized, Restored}
      BY <3>1
    <3>3. (wmMaximized <=> maximized) /\ wmMaximized \in BOOLEAN /\ maximized \in BOOLEAN
      BY <3>2 DEF WindowInv, WindowTypes, TellsOfWindow, Told
    <3>4. ~Pending(events)
      BY <3>1 DEF Pending
    <3>. QED BY <3>3, <3>4, Zenon
  <2>2. PictureFits
    BY DEF WindowInv
  <2>. QED BY <2>1, <2>2, Zenon DEF WindowInv, SizeKept, ScreenMatchesWindow, PictureFits
<1>. QED BY <1>1, WindowKept, PTL

(***************************************************************************)
(* The event loop: the inputs.                                             *)
(***************************************************************************)

LEMMA OptionsStay ==
  ASSUME [UserInterfaceNext]_userInterfaceVars
  PROVE  UNCHANGED <<control, prefer_text>>
BY Zenon DEF UserInterfaceNext, userInterfaceVars, outside, inputOptions, LoopStep, LoopFinished,
     HandleDeviceEvent, Drop, Send, Abort, HandleWindowEvent, ProcessWindowKey, HandleNewFrame,
     CountRenderedFrame, PrepareForFrame, SwitchFpsCounter, StartCounter, StopCounter, StopByEvent,
     InterruptFpsCounter, JoinThreads, FpsCall, Handle, MainGoto, FpsThread, OfferFrame,
     CountSkippedFrame, StreamGoto, User, Type, PressDeviceKey, Click, Drag, TurnWheel, Touch,
     PressWindowKey, DoubleClickOutside, ChangeWindow, PressCounterKey, AskToStop, Queue, Gesture,
     Time

\* What happens to the three histories: a step leaves them alone, sends an
\* event, aborts, or is a gesture for the device.
LEMMA InputSteps ==
  ASSUME [UserInterfaceNext]_userInterfaceVars
  PROVE  \/ UNCHANGED inputVars
         \/ Send(Head(events)) \/ Abort(Head(events)) \/ DeviceGesture
BY Zenon DEF UserInterfaceNext, userInterfaceVars, inputVars, LoopStep, LoopFinished,
     HandleDeviceEvent, Drop, HandleWindowEvent, ProcessWindowKey, HandleNewFrame,
     CountRenderedFrame, PrepareForFrame, SwitchFpsCounter, StartCounter, StopCounter, StopByEvent,
     InterruptFpsCounter, JoinThreads, FpsCall, FpsThread, OfferFrame, CountSkippedFrame,
     StreamGoto, User, DeviceGesture, PressWindowKey, DoubleClickOutside, ChangeWindow,
     PressCounterKey, AskToStop, Gesture, Time

\* The events the Screen, the counter and the program handle stand for none.
LEMMA NotDue ==
  /\ \A e \in WindowNews : e \notin DueEvents
  /\ NewFrame \notin DueEvents /\ StopEvent \notin DueEvents
  /\ \A k \in WindowKeys \cup {CounterKey} : Key(k) \notin DueEvents
  /\ Event("SDL_MOUSEBUTTONDOWN", Outside) \notin DueEvents
  /\ Event("SDL_MOUSEBUTTONUP", Outside) \notin DueEvents
<1>1. \A e \in WindowNews : e \notin DueEvents
  BY SentTyped DEF DueEvents, Due
<1>2. /\ {"EVENT_NEW_FRAME", "SDL_QUIT", "SDL_KEYDOWN", "SDL_MOUSEBUTTONDOWN",
          "SDL_MOUSEBUTTONUP"} \subseteq EventTypes
      /\ WindowKeys \cup {CounterKey, "frame", "quit", Outside} \subseteq Contents
  BY DEF EventTypes, KeyEvents, ButtonEvents, Contents
<1>3. NewFrame \notin DueEvents /\ StopEvent \notin DueEvents
  BY <1>2, DueByKind DEF NewFrame, StopEvent
<1>4. ASSUME NEW k \in WindowKeys \cup {CounterKey}
      PROVE  Key(k) \notin DueEvents
  <2>1. k \notin DeviceKeys /\ k # "letter"
    BY DEF WindowKeys, CounterKey, DeviceKeys
  <2>. QED BY <1>2, <2>1, DueByKind DEF Key
<1>5. /\ Event("SDL_MOUSEBUTTONDOWN", Outside) \notin DueEvents
      /\ Event("SDL_MOUSEBUTTONUP", Outside) \notin DueEvents
  BY <1>2, DueByKind
<1>. QED BY <1>1, <1>3, <1>4, <1>5

\* The inputs owed are those of the due events in the queue, in their order.
Matched(o, q, D) ==
  \E pos \in [1..Len(o) -> 1..Len(q)] :
    /\ \A a, b \in 1..Len(o) : a < b => pos[a] < pos[b]
    /\ \A a \in 1..Len(o) : q[pos[a]] \in D /\ o[a] = q[pos[a]].what
    /\ \A i \in 1..Len(q) : q[i] \in D => \E a \in 1..Len(o) : pos[a] = i

LEMMA MatchedGrows ==
  ASSUME NEW D, NEW o \in Seq(Inputs), NEW q \in Seq(EventSet), NEW p,
         Grows(q, p, EventSet \ D), Matched(o, q, D)
  PROVE  Matched(o, p, D)
<1>1. PICK pos \in [1..Len(o) -> 1..Len(q)] :
        /\ \A a, b \in 1..Len(o) : a < b => pos[a] < pos[b]
        /\ \A a \in 1..Len(o) : q[pos[a]] \in D /\ o[a] = q[pos[a]].what
        /\ \A i \in 1..Len(q) : q[i] \in D => \E a \in 1..Len(o) : pos[a] = i
  BY DEF Matched
<1>2. /\ Len(q) \in Nat /\ Len(p) \in Nat /\ Len(q) <= Len(p)
      /\ \A i \in 1..Len(q) : p[i] = q[i]
      /\ \A i \in (Len(q) + 1)..Len(p) : p[i] \notin D
  BY DEF Grows
<1>3. pos \in [1..Len(o) -> 1..Len(p)]
  BY <1>1, <1>2
<1>4. \A a \in 1..Len(o) : p[pos[a]] \in D /\ o[a] = p[pos[a]].what
  BY <1>1, <1>2
<1>5. \A i \in 1..Len(p) : p[i] \in D => \E a \in 1..Len(o) : pos[a] = i
  BY <1>1, <1>2
<1>. QED BY <1>1, <1>3, <1>4, <1>5 DEF Matched

LEMMA MatchedTaken ==
  ASSUME NEW D, NEW o \in Seq(Inputs), NEW q \in Seq(EventSet), q # <<>>,
         Head(q) \notin D, Matched(o, q, D)
  PROVE  Matched(o, Tail(q), D)
<1>. DEFINE p == Tail(q)
<1>1. PICK pos \in [1..Len(o) -> 1..Len(q)] :
        /\ \A a, b \in 1..Len(o) : a < b => pos[a] < pos[b]
        /\ \A a \in 1..Len(o) : q[pos[a]] \in D /\ o[a] = q[pos[a]].what
        /\ \A i \in 1..Len(q) : q[i] \in D => \E a \in 1..Len(o) : pos[a] = i
  BY DEF Matched
<1>2. /\ Len(q) \in Nat \ {0} /\ Len(p) = Len(q) - 1
      /\ \A i \in 1..(Len(q) - 1) : p[i] = q[i + 1]
      /\ q[1] \notin D
  BY TailAt
<1>. HIDE DEF p
<1>3. \A a \in 1..Len(o) : pos[a] \in 1..Len(q) /\ pos[a] # 1
  BY <1>1, <1>2
<1>. DEFINE new == [a \in 1..Len(o) |-> pos[a] - 1]
<1>4. /\ new \in [1..Len(o) -> 1..Len(p)]
      /\ \A a \in 1..Len(o) : new[a] = pos[a] - 1
  BY <1>2, <1>3
<1>. HIDE DEF new
<1>5. \A a, b \in 1..Len(o) : a < b => new[a] < new[b]
  BY <1>1, <1>3, <1>4
<1>6. \A a \in 1..Len(o) : p[new[a]] \in D /\ o[a] = p[new[a]].what
  <2>. SUFFICES ASSUME NEW a \in 1..Len(o)
                PROVE  p[new[a]] \in D /\ o[a] = p[new[a]].what
    OBVIOUS
  <2>1. p[new[a]] = q[pos[a]]
    BY <1>2, <1>3, <1>4
  <2>. QED BY <1>1, <2>1
<1>7. \A i \in 1..Len(p) : p[i] \in D => \E a \in 1..Len(o) : new[a] = i
  <2>. SUFFICES ASSUME NEW i \in 1..Len(p), p[i] \in D
                PROVE  \E a \in 1..Len(o) : new[a] = i
    OBVIOUS
  <2>1. i + 1 \in 1..Len(q) /\ q[i + 1] \in D
    BY <1>2
  <2>2. PICK a \in 1..Len(o) : pos[a] = i + 1
    BY <1>1, <2>1
  <2>. QED BY <1>4, <2>2
<1>. QED BY <1>4, <1>5, <1>6, <1>7 DEF Matched, p

LEMMA MatchedSent ==
  ASSUME NEW D, NEW o \in Seq(Inputs), NEW q \in Seq(EventSet), q # <<>>,
         Head(q) \in D, Matched(o, q, D)
  PROVE  /\ o # <<>> /\ Head(o) = Head(q).what
         /\ Tail(o) \in Seq(Inputs)
         /\ Matched(Tail(o), Tail(q), D)
<1>. DEFINE p == Tail(q)
            n == Len(o)
<1>1. PICK pos \in [1..n -> 1..Len(q)] :
        /\ \A a, b \in 1..n : a < b => pos[a] < pos[b]
        /\ \A a \in 1..n : q[pos[a]] \in D /\ o[a] = q[pos[a]].what
        /\ \A i \in 1..Len(q) : q[i] \in D => \E a \in 1..n : pos[a] = i
  BY DEF Matched
<1>2. /\ Len(q) \in Nat \ {0} /\ Len(p) = Len(q) - 1
      /\ \A i \in 1..(Len(q) - 1) : p[i] = q[i + 1]
      /\ Head(q) = q[1] /\ q[1] \in D
  BY TailAt
<1>3. n \in Nat
  OBVIOUS
<1>4. PICK first \in 1..n : pos[first] = 1
  BY <1>1, <1>2
<1>5. first = 1
  <2>1. 1 \in 1..n /\ pos[1] \in 1..Len(q)
    BY <1>1, <1>3, <1>4
  <2>2. 1 < first => pos[1] < pos[first]
    BY <1>1, <2>1
  <2>. QED BY <1>2, <1>3, <1>4, <2>1, <2>2
<1>6. /\ o # <<>> /\ n \in Nat \ {0} /\ Head(o) = o[1]
      /\ Tail(o) \in Seq(Inputs) /\ Len(Tail(o)) = n - 1
      /\ \A a \in 1..(n - 1) : Tail(o)[a] = o[a + 1]
  <2>1. o # <<>>
    BY <1>3, <1>4
  <2>. QED BY <2>1, TailAt
<1>7. Head(o) = Head(q).what
  BY <1>1, <1>2, <1>4, <1>5, <1>6
<1>. HIDE DEF p, n
<1>8. \A a \in 1..n : pos[a] \in 1..Len(q)
  BY <1>1
<1>9. \A a \in 2..n : pos[a] > 1
  BY <1>1, <1>3, <1>4, <1>5
<1>. DEFINE new == [a \in 1..(n - 1) |-> pos[a + 1] - 1]
<1>10. /\ new \in [1..(n - 1) -> 1..Len(p)]
       /\ \A a \in 1..(n - 1) : new[a] = pos[a + 1] - 1
  <2>1. \A a \in 1..(n - 1) : pos[a + 1] - 1 \in 1..Len(p)
    <3>. SUFFICES ASSUME NEW a \in 1..(n - 1) PROVE pos[a + 1] - 1 \in 1..Len(p)
      OBVIOUS
    <3>1. a + 1 \in 1..n /\ a + 1 \in 2..n
      BY <1>6
    <3>. QED BY <1>2, <1>8, <1>9, <3>1
  <2>. QED BY <2>1
<1>. HIDE DEF new
<1>11. \A a, b \in 1..(n - 1) : a < b => new[a] < new[b]
  <2>. SUFFICES ASSUME NEW a \in 1..(n - 1), NEW b \in 1..(n - 1), a < b
                PROVE  new[a] < new[b]
    OBVIOUS
  <2>1. a + 1 \in 1..n /\ b + 1 \in 1..n /\ a + 1 < b + 1
    BY <1>6
  <2>2. pos[a + 1] < pos[b + 1] /\ pos[a + 1] \in Int /\ pos[b + 1] \in Int
    BY <1>1, <1>8, <2>1
  <2>. QED BY <1>10, <2>2
<1>12. \A a \in 1..(n - 1) : p[new[a]] \in D /\ Tail(o)[a] = p[new[a]].what
  <2>. SUFFICES ASSUME NEW a \in 1..(n - 1)
                PROVE  p[new[a]] \in D /\ Tail(o)[a] = p[new[a]].what
    OBVIOUS
  <2>1. a + 1 \in 1..n /\ a + 1 \in 2..n /\ Tail(o)[a] = o[a + 1]
    BY <1>6
  <2>2. p[new[a]] = q[pos[a + 1]]
    BY <1>2, <1>8, <1>9, <1>10, <2>1
  <2>. QED BY <1>1, <2>1, <2>2
<1>13. \A i \in 1..Len(p) : p[i] \in D => \E a \in 1..(n - 1) : new[a] = i
  <2>. SUFFICES ASSUME NEW i \in 1..Len(p), p[i] \in D
                PROVE  \E a \in 1..(n - 1) : new[a] = i
    OBVIOUS
  <2>1. i + 1 \in 1..Len(q) /\ q[i + 1] \in D
    BY <1>2
  <2>2. PICK a \in 1..n : pos[a] = i + 1
    BY <1>1, <2>1
  <2>3. a # 1
    BY <1>4, <1>5, <2>2
  <2>4. a - 1 \in 1..(n - 1) /\ (a - 1) + 1 = a
    BY <1>6, <2>3
  <2>. QED BY <1>10, <2>2, <2>4
<1>14. Matched(Tail(o), p, D)
  <2>1. Len(Tail(o)) = n - 1
    BY <1>6
  <2>2. new \in [1..Len(Tail(o)) -> 1..Len(p)]
    BY <1>10, <2>1, Zenon
  <2>3. \A a, b \in 1..Len(Tail(o)) : a < b => new[a] < new[b]
    BY <1>11, <2>1, Zenon
  <2>4. \A a \in 1..Len(Tail(o)) : p[new[a]] \in D /\ Tail(o)[a] = p[new[a]].what
    BY <1>12, <2>1, Zenon
  <2>5. \A i \in 1..Len(p) : p[i] \in D => \E a \in 1..Len(Tail(o)) : new[a] = i
    BY <1>13, <2>1, Zenon
  <2>. QED BY <2>2, <2>3, <2>4, <2>5, Zenon DEF Matched
<1>. QED BY <1>6, <1>7, <1>14 DEF p

LEMMA MatchedQueued ==
  ASSUME NEW D, NEW o \in Seq(Inputs), NEW q \in Seq(EventSet), NEW input \in Inputs,
         NEW sent \in Seq(EventSet), Sends(input, sent, D), Matched(o, q, D)
  PROVE  Matched(Append(o, input), q \o sent, D)
<1>. DEFINE p == q \o sent
            r == Append(o, input)
            n == Len(o)
            m == Len(q)
<1>1. PICK pos \in [1..n -> 1..m] :
        /\ \A a, b \in 1..n : a < b => pos[a] < pos[b]
        /\ \A a \in 1..n : q[pos[a]] \in D /\ o[a] = q[pos[a]].what
        /\ \A i \in 1..m : q[i] \in D => \E a \in 1..n : pos[a] = i
  BY DEF Matched
<1>2. PICK d \in 1..Len(sent) :
        /\ sent[d] \in D /\ sent[d].what = input
        /\ \A i \in 1..Len(sent) : sent[i] \in D => i = d
  BY DEF Sends
<1>3. /\ n \in Nat /\ m \in Nat /\ Len(sent) \in Nat /\ Len(p) = m + Len(sent)
      /\ \A i \in 1..m : p[i] = q[i]
      /\ \A i \in (m + 1)..Len(p) : i - m \in 1..Len(sent) /\ p[i] = sent[i - m]
  OBVIOUS
<1>4. /\ Len(r) = n + 1 /\ r[n + 1] = input
      /\ \A a \in 1..n : r[a] = o[a]
  BY AppendedAt
<1>. HIDE DEF p, r, n, m
<1>5. \A a \in 1..n : pos[a] \in 1..m
  BY <1>1
<1>. DEFINE new == [a \in 1..(n + 1) |-> IF a = n + 1 THEN m + d ELSE pos[a]]
<1>6. /\ new \in [1..(n + 1) -> 1..Len(p)]
      /\ \A a \in 1..n : new[a] = pos[a]
      /\ new[n + 1] = m + d
  BY <1>2, <1>3, <1>5
<1>. HIDE DEF new
<1>7. p[m + d] = sent[d]
  BY <1>2, <1>3
<1>8. \A a, b \in 1..(n + 1) : a < b => new[a] < new[b]
  <2>. SUFFICES ASSUME NEW a \in 1..(n + 1), NEW b \in 1..(n + 1), a < b
                PROVE  new[a] < new[b]
    OBVIOUS
  <2>1. a \in 1..n
    BY <1>3
  <2>2. CASE b \in 1..n
    BY <1>1, <1>6, <2>1, <2>2
  <2>3. CASE b = n + 1
    BY <1>2, <1>3, <1>5, <1>6, <2>1, <2>3
  <2>. QED BY <1>3, <2>2, <2>3
<1>9. \A a \in 1..(n + 1) : p[new[a]] \in D /\ r[a] = p[new[a]].what
  <2>. SUFFICES ASSUME NEW a \in 1..(n + 1)
                PROVE  p[new[a]] \in D /\ r[a] = p[new[a]].what
    OBVIOUS
  <2>1. CASE a \in 1..n
    <3>1. p[new[a]] = q[pos[a]]
      BY <1>3, <1>5, <1>6, <2>1
    <3>. QED BY <1>1, <1>4, <2>1, <3>1
  <2>2. CASE a = n + 1
    BY <1>2, <1>4, <1>6, <1>7, <2>2
  <2>. QED BY <1>3, <2>1, <2>2
<1>10. \A i \in 1..Len(p) : p[i] \in D => \E a \in 1..(n + 1) : new[a] = i
  <2>. SUFFICES ASSUME NEW i \in 1..Len(p), p[i] \in D
                PROVE  \E a \in 1..(n + 1) : new[a] = i
    OBVIOUS
  <2>1. CASE i \in 1..m
    <3>1. PICK a \in 1..n : pos[a] = i
      BY <1>1, <1>3, <2>1
    <3>. QED BY <1>3, <1>6, <3>1
  <2>2. CASE i \in (m + 1)..Len(p)
    <3>1. i - m = d
      BY <1>2, <1>3, <2>2
    <3>2. i = m + d
      BY <1>2, <1>3, <3>1
    <3>. QED BY <1>3, <1>6, <3>2
  <2>. QED BY <1>3, <2>1, <2>2
<1>11. Matched(r, p, D)
  <2>1. new \in [1..Len(r) -> 1..Len(p)]
    BY <1>4, <1>6, Zenon
  <2>2. \A a, b \in 1..Len(r) : a < b => new[a] < new[b]
    BY <1>4, <1>8, Zenon
  <2>3. \A a \in 1..Len(r) : p[new[a]] \in D /\ r[a] = p[new[a]].what
    BY <1>4, <1>9, Zenon
  <2>4. \A i \in 1..Len(p) : p[i] \in D => \E a \in 1..Len(r) : new[a] = i
    BY <1>4, <1>10, Zenon
  <2>. QED BY <2>1, <2>2, <2>3, <2>4, Zenon DEF Matched
<1>. QED BY <1>11 DEF p, r

LEMMA NewsApplied ==
  ASSUME NEW rest \in Seq(EventSet), NEW full, NEW max, NEW size,
         ApplyWindowedSize(full, max, size, rest)
  PROVE  Grows(rest, events', WindowNews)
<1>1. WindowNews \subseteq EventSet /\ SizeChanged \in WindowNews
  BY WindowNewsDiffer DEF WindowNews
<1>2. \A sent \in Seq(WindowNews) : Grows(rest, rest \o sent, WindowNews)
  BY <1>1, GrowsBy
<1>3. <<>> \in Seq(WindowNews) /\ <<SizeChanged>> \in Seq(WindowNews)
  BY <1>1
<1>4. \A from, to : ChangeEvents(from, to) \in Seq(WindowNews)
  BY <1>3, Zenon DEF ChangeEvents
<1>5. Grows(rest, rest, WindowNews)
  BY GrowsByNothing
<1>. QED BY <1>2, <1>4, <1>5, Zenon DEF ApplyWindowedSize

LEMMA GrowsTwice ==
  ASSUME NEW q \in Seq(EventSet), NEW p \in Seq(EventSet), NEW r, NEW S,
         Grows(q, p, S), Grows(p, r, S)
  PROVE  Grows(q, r, S)
<1>1. r \in Seq(EventSet) /\ Len(q) \in Nat /\ Len(p) \in Nat /\ Len(r) \in Nat
  BY DEF Grows
<1>2. Len(q) <= Len(p) /\ Len(p) <= Len(r)
  BY DEF Grows
<1>3. \A i \in 1..Len(q) : r[i] = q[i]
  BY <1>1, <1>2 DEF Grows
<1>4. ASSUME NEW i \in (Len(q) + 1)..Len(r)
      PROVE  r[i] \in S
  <2>1. CASE i <= Len(p)
    <3>1. i \in 1..Len(p) /\ i \in (Len(q) + 1)..Len(p)
      BY <1>1, <2>1
    <3>. QED BY <3>1 DEF Grows
  <2>2. CASE i > Len(p)
    <3>1. i \in (Len(p) + 1)..Len(r)
      BY <1>1, <2>2
    <3>. QED BY <3>1 DEF Grows
  <2>. QED BY <1>1, <2>1, <2>2
<1>. QED BY <1>1, <1>2, <1>3, <1>4 DEF Grows

\* The handlers of the window take no event that is due, and only queue news.
LEMMA WindowNewsQueued ==
  ASSUME events \in Seq(EventSet),
         HandleWindowEvent \/ ProcessWindowKey \/ PrepareForFrame \/ ChangeWindow
  PROVE  \E rest \in Seq(EventSet) :
           /\ rest = events \/ (events # <<>> /\ rest = Tail(events) /\ Head(events) \notin DueEvents)
           /\ Grows(rest, events', WindowNews)
<1>1. WindowNews \subseteq EventSet /\ WindowNews = {SizeChanged, Maximized, Restored}
  BY WindowNewsDiffer DEF WindowNews
<1>2. \A q \in Seq(EventSet) :
        /\ Grows(q, q, WindowNews)
        /\ \A sent \in Seq(WindowNews) : q \o sent \in Seq(EventSet) /\ Grows(q, q \o sent, WindowNews)
        /\ \A e \in WindowNews : Append(q, e) \in Seq(EventSet) /\ Grows(q, Append(q, e), WindowNews)
  <2>. SUFFICES ASSUME NEW q \in Seq(EventSet)
                PROVE  /\ Grows(q, q, WindowNews)
                       /\ \A sent \in Seq(WindowNews) :
                            q \o sent \in Seq(EventSet) /\ Grows(q, q \o sent, WindowNews)
                       /\ \A e \in WindowNews :
                            Append(q, e) \in Seq(EventSet) /\ Grows(q, Append(q, e), WindowNews)
    OBVIOUS
  <2>1. Grows(q, q, WindowNews)
    BY GrowsByNothing
  <2>2. \A sent \in Seq(WindowNews) : Grows(q, q \o sent, WindowNews)
    BY <1>1, GrowsBy
  <2>3. \A e \in WindowNews : Grows(q, Append(q, e), WindowNews)
    BY <1>1, GrowsByOne
  <2>. QED BY <2>1, <2>2, <2>3, Zenon DEF Grows
<1>3. /\ <<>> \in Seq(WindowNews) /\ <<SizeChanged>> \in Seq(WindowNews)
      /\ <<SizeChanged, Maximized>> \in Seq(WindowNews)
      /\ <<SizeChanged, Restored>> \in Seq(WindowNews)
      /\ <<Restored, SizeChanged>> \in Seq(WindowNews)
  BY <1>1
<1>4. events # <<>> => Tail(events) \in Seq(EventSet)
  BY TailAt
<1>5. \A from, to : ChangeEvents(from, to) \in Seq(WindowNews)
  BY <1>3, Zenon DEF ChangeEvents
<1>6. RestoreEvents \subseteq Seq(WindowNews)
  BY <1>3, Zenon DEF RestoreEvents
<1>7. CASE HandleWindowEvent
  <2>1. /\ events # <<>> /\ Head(events) \in WindowNews
        /\ HandleSizeChanged \/ HandleMaximized \/ HandleRestored
    BY <1>1, <1>7, Zenon DEF HandleWindowEvent, Handle
  <2>2. Head(events) \notin DueEvents
    BY <2>1, NotDue, Zenon
  <2>3. \/ events' = Tail(events)
        \/ ApplyWindowedSize(fullscreen, FALSE, windowed_window_size, Tail(events))
    BY <2>1, Zenon DEF HandleSizeChanged, HandleMaximized, HandleRestored
  <2>4. Grows(Tail(events), events', WindowNews)
    BY <1>2, <1>4, <2>1, <2>3, NewsApplied, Zenon
  <2>. QED BY <1>4, <2>1, <2>2, <2>4, Zenon
<1>8. CASE ProcessWindowKey
  <2>1. /\ events # <<>> /\ Head(events) \notin DueEvents
        /\ SwitchFullscreen \/ \E wanted : Resize(wanted)
    <3>1. /\ Key("Ctrl+f") \notin DueEvents /\ Key("Ctrl+x") \notin DueEvents
          /\ Key("Ctrl+g") \notin DueEvents
      BY NotDue, Zenon DEF WindowKeys
    <3>. QED BY <1>8, <3>1, NotDue, Zenon
             DEF ProcessWindowKey, Handle, ResizeToFit, ResizeToPixelPerfect
  <2>2. CASE SwitchFullscreen
    <3>. DEFINE q == Append(Tail(events), SizeChanged)
    <3>1. /\ Grows(Tail(events), Tail(events), WindowNews)
          /\ q \in Seq(EventSet) /\ Grows(Tail(events), q, WindowNews)
      BY <1>1, <1>2, <1>4, <2>1, Zenon
    <3>. HIDE DEF q
    <3>2. CASE events' = Tail(events)
      BY <1>4, <2>1, <3>1, <3>2, Zenon
    <3>3. CASE ApplyWindowedSize(~fullscreen, maximized, windowed_window_size, q)
      <4>1. Grows(q, events', WindowNews)
        BY <3>1, <3>3, NewsApplied
      <4>2. Grows(Tail(events), events', WindowNews)
        BY <1>4, <2>1, <3>1, <4>1, GrowsTwice
      <4>. QED BY <1>4, <2>1, <4>2, Zenon
    <3>. QED BY <2>2, <3>2, <3>3, Zenon DEF SwitchFullscreen, q
  <2>3. ASSUME NEW wanted, Resize(wanted)
        PROVE  Grows(Tail(events), events', WindowNews)
    <3>1. CASE fullscreen
      BY <1>2, <1>4, <2>1, <2>3, <3>1, Zenon DEF Resize
    <3>2. CASE ~fullscreen
      <4>1. PICK sent \in (IF maximized THEN RestoreEvents ELSE {<<>>}) :
              events' = Tail(events) \o sent \o ChangeEvents(normalSize, normalSize')
        BY <2>3, <3>2, Zenon DEF Resize
      <4>2. sent \in Seq(WindowNews)
        BY <1>3, <1>6, <4>1, Zenon
      <4>. DEFINE q == Tail(events) \o sent
                  changes == ChangeEvents(normalSize, normalSize')
      <4>3. q \in Seq(EventSet) /\ Grows(Tail(events), q, WindowNews)
        BY <1>2, <1>4, <2>1, <4>2, Zenon
      <4>4. changes \in Seq(WindowNews) /\ events' = q \o changes
        BY <1>5, <4>1
      <4>. HIDE DEF q, changes
      <4>5. Grows(q, events', WindowNews)
        BY <1>2, <4>3, <4>4, Zenon
      <4>. QED BY <1>4, <2>1, <4>3, <4>5, GrowsTwice
    <3>. QED BY <3>1, <3>2
  <2>. QED BY <1>4, <2>1, <2>2, <2>3, Zenon
<1>9. CASE PrepareForFrame
  <2>1. events' = events \/ \E best : ApplyWindowedSize(fullscreen, maximized, best, events)
    BY <1>9, Zenon DEF PrepareForFrame, SameSize, LogicalSizeFails, ResizeForFrame
  <2>. QED BY <1>2, <2>1, NewsApplied, Zenon
<1>10. CASE ChangeWindow
  <2>1. \/ events' = events \o <<SizeChanged, Maximized>>
        \/ \E sent \in RestoreEvents : events' = events \o sent
        \/ events' = Append(events, SizeChanged)
    BY <1>10, Zenon DEF ChangeWindow, UserMaximizes, UserRestores, UserResizes
  <2>. QED BY <1>1, <1>2, <1>3, <1>6, <2>1, Zenon
<1>. QED BY <1>7, <1>8, <1>9, <1>10

Undue == EventSet \ DueEvents

\* A step takes an event that is not due, or none, and queues such events.
PassesUndue ==
  \E rest \in Seq(EventSet) :
    /\ rest = events \/ (events # <<>> /\ rest = Tail(events) /\ Head(events) \notin DueEvents)
    /\ Grows(rest, events', Undue)

LEMMA UndueTaken ==
  ASSUME events \in Seq(EventSet),
         Drop(Head(events)) \/ HandleNewFrame \/ SwitchFpsCounter \/ StopByEvent
  PROVE  PassesUndue
<1>1. events # <<>> /\ events' = Tail(events)
  BY Zenon DEF Drop, HandleNewFrame, SwitchFpsCounter, StopByEvent, Handle, TakeEvent
<1>2. Head(events) \notin DueEvents
  <2>1. CASE Drop(Head(events))
    BY <2>1, Zenon DEF Drop, DueEvents, Due
  <2>2. CASE HandleNewFrame
    BY <2>2, NotDue, Zenon DEF HandleNewFrame, Handle
  <2>3. CASE SwitchFpsCounter
    BY <2>3, NotDue DEF SwitchFpsCounter, Handle
  <2>4. CASE StopByEvent
    BY <2>4, NotDue, Zenon DEF StopByEvent, Handle
  <2>. QED BY <2>1, <2>2, <2>3, <2>4
<1>3. Tail(events) \in Seq(EventSet)
  BY <1>1, TailAt
<1>4. Grows(Tail(events), events', Undue)
  BY <1>1, <1>3, GrowsByNothing
<1>. QED BY <1>1, <1>2, <1>3, <1>4, Zenon DEF PassesUndue

LEMMA UndueQueued ==
  ASSUME events \in Seq(EventSet),
         OfferFrame \/ PressWindowKey \/ DoubleClickOutside \/ PressCounterKey \/ AskToStop
  PROVE  PassesUndue
<1>1. /\ NewFrame \in Undue /\ StopEvent \in Undue
      /\ \A k \in WindowKeys \cup {CounterKey} : Key(k) \in Undue
      /\ Event("SDL_MOUSEBUTTONDOWN", Outside) \in Undue
      /\ Event("SDL_MOUSEBUTTONUP", Outside) \in Undue
  BY NotDue, OwnEvents DEF Undue, OtherEvents
<1>2. Undue \subseteq EventSet
  BY DEF Undue
<1>. HIDE DEF Undue
<1>3. \A e \in Undue : Grows(events, Append(events, e), Undue)
  BY <1>2, GrowsByOne
<1>4. Grows(events, events', Undue)
  <2>1. CASE OfferFrame
    <3>1. events' = events \/ events' = Append(events, NewFrame)
      BY <2>1, Zenon DEF OfferFrame
    <3>. QED BY <1>1, <1>3, <3>1, GrowsByNothing
  <2>2. CASE PressWindowKey
    BY <1>1, <1>3, <2>2 DEF PressWindowKey
  <2>3. CASE DoubleClickOutside
    <3>. DEFINE sent == <<Event("SDL_MOUSEBUTTONDOWN", Outside), Event("SDL_MOUSEBUTTONUP", Outside)>>
    <3>1. sent \in Seq(Undue)
      BY <1>1
    <3>2. events' = events \o sent
      BY <2>3 DEF DoubleClickOutside
    <3>. HIDE DEF sent
    <3>. QED BY <1>2, <3>1, <3>2, GrowsBy
  <2>4. CASE PressCounterKey
    BY <1>1, <1>3, <2>4 DEF PressCounterKey
  <2>5. CASE AskToStop
    BY <1>1, <1>3, <2>5, Zenon DEF AskToStop
  <2>. QED BY <2>1, <2>2, <2>3, <2>4, <2>5
<1>. QED BY <1>4, Zenon DEF PassesUndue

LEMMA UndueNews ==
  ASSUME events \in Seq(EventSet),
         HandleWindowEvent \/ ProcessWindowKey \/ PrepareForFrame \/ ChangeWindow
  PROVE  PassesUndue
<1>1. PICK rest \in Seq(EventSet) :
        /\ rest = events \/ (events # <<>> /\ rest = Tail(events) /\ Head(events) \notin DueEvents)
        /\ Grows(rest, events', WindowNews)
  BY WindowNewsQueued
<1>2. WindowNews \subseteq Undue
  BY NotDue, WindowNewsDiffer DEF Undue
<1>3. Grows(rest, events', Undue)
  BY <1>1, <1>2 DEF Grows
<1>. QED BY <1>1, <1>3, Zenon DEF PassesUndue

LEMMA UndueSteps ==
  ASSUME events \in Seq(EventSet), [UserInterfaceNext]_userInterfaceVars,
         ~Send(Head(events)), ~DeviceGesture
  PROVE  PassesUndue
<1>1. Grows(events, events, Undue)
  BY GrowsByNothing
<1>2. UNCHANGED events => PassesUndue
  BY <1>1, Zenon DEF PassesUndue
<1>. QED BY <1>2, UndueTaken, UndueQueued, UndueNews, QuietSteps, Zenon
         DEF UserInterfaceNext, LoopStep, LoopFinished, HandleDeviceEvent, User, DeviceGesture

\* The device is owed the inputs whose events are in the queue, in their order.
OwedInv ==
  /\ ~strayed
  /\ owed \in Seq(Inputs)
  /\ control => Matched(owed, events, DueEvents)
  /\ ~control => owed = <<>>

\* The event that is sent is of the input owed first, or goes on with one sent.
LEMMA SentKeeps ==
  ASSUME OwedInv, events \in Seq(EventSet), Send(Head(events)), DueEvents' = DueEvents,
         UNCHANGED control
  PROVE  OwedInv'
<1>. DEFINE e == Head(events)
<1>1. control /\ IsSent(e) /\ events # <<>> /\ events' = Tail(events)
  BY Zenon DEF Send, Handle, TakeEvent
<1>2. /\ ~strayed /\ owed \in Seq(Inputs) /\ Matched(owed, events, DueEvents) /\ e \in EventSet
  BY <1>1, TailAt DEF OwedInv
<1>3. CASE e.type \in Continuations
  <2>1. e \notin DueEvents
    <3>1. ~TextAsserts(e)
      BY <1>3 DEF TextAsserts, Continuations
    <3>. QED BY <1>3, <3>1, Zenon DEF DueEvents, Due
  <2>2. UNCHANGED <<owed, strayed>>
    BY <1>3, Zenon DEF Send
  <2>3. Matched(owed, Tail(events), DueEvents)
    BY <1>1, <1>2, <2>1, MatchedTaken
  <2>. QED BY <1>1, <1>2, <2>2, <2>3, Zenon DEF OwedInv
<1>4. CASE e.type \notin Continuations
  <2>1. e \in DueEvents
    BY <1>1, <1>2, <1>4, Zenon DEF DueEvents, Due
  <2>2. /\ owed # <<>> /\ Head(owed) = e.what /\ Tail(owed) \in Seq(Inputs)
        /\ Matched(Tail(owed), Tail(events), DueEvents)
    BY <1>1, <1>2, <2>1, MatchedSent
  <2>3. owed' = Tail(owed) /\ UNCHANGED strayed
    BY <1>4, <2>2, Zenon DEF Send
  <2>. QED BY <1>1, <1>2, <2>2, <2>3, Zenon DEF OwedInv
<1>. QED BY <1>3, <1>4

LEMMA GestureKeeps ==
  ASSUME OwedInv, events \in Seq(EventSet), DeviceGesture, DueEvents' = DueEvents,
         UNCHANGED control
  PROVE  OwedInv'
<1>1. PICK input \in Inputs, sent \in Seq(OtherEvents) :
        Queue(input, sent) /\ (control => Sends(input, sent, DueEvents))
  BY GestureEvents
<1>2. /\ events' = events \o sent
      /\ owed' = IF control THEN Append(owed, input) ELSE owed
      /\ UNCHANGED strayed
  BY <1>1, Zenon DEF Queue, Gesture
<1>3. sent \in Seq(EventSet)
  BY DEF OtherEvents
<1>4. ~strayed /\ owed \in Seq(Inputs)
  BY DEF OwedInv
<1>5. CASE control
  <2>1. Matched(Append(owed, input), events \o sent, DueEvents)
    BY <1>1, <1>3, <1>4, <1>5, MatchedQueued DEF OwedInv
  <2>2. Append(owed, input) \in Seq(Inputs)
    BY <1>4
  <2>. QED BY <1>2, <1>4, <1>5, <2>1, <2>2, Zenon DEF OwedInv
<1>6. CASE ~control
  BY <1>2, <1>4, <1>6, Zenon DEF OwedInv
<1>. QED BY <1>5, <1>6

LEMMA UndueKeeps ==
  ASSUME OwedInv, events \in Seq(EventSet), PassesUndue, UNCHANGED <<owed, strayed, control>>,
         DueEvents' = DueEvents
  PROVE  OwedInv'
<1>1. PICK rest \in Seq(EventSet) :
        /\ rest = events \/ (events # <<>> /\ rest = Tail(events) /\ Head(events) \notin DueEvents)
        /\ Grows(rest, events', Undue)
  BY Zenon DEF PassesUndue
<1>2. ASSUME control
      PROVE  Matched(owed, events', DueEvents)
  <2>1. owed \in Seq(Inputs) /\ Matched(owed, events, DueEvents)
    BY <1>2 DEF OwedInv
  <2>2. Matched(owed, rest, DueEvents)
    BY <1>1, <2>1, MatchedTaken
  <2>. QED BY <1>1, <2>1, <2>2, MatchedGrows DEF Undue
<1>. QED BY <1>2, Zenon DEF OwedInv

\* Every input reaches the device once and in its turn: as the key or as the text,
\* never as both, and without its double as a mouse (input_manager.cpp:189-211,
\* 352-384, 475-513).
THEOREM SendsEachInputOnce == UserInterfaceSpec => []InputsSentOnce
<1>1. UserInterfaceInit => OwedInv
  <2>. SUFFICES ASSUME UserInterfaceInit PROVE OwedInv
    OBVIOUS
  <2>1. ~strayed /\ owed = <<>> /\ events = <<>>
    BY Zenon DEF UserInterfaceInit, ScreenInit
  <2>2. owed \in Seq(Inputs) /\ Len(owed) = 0 /\ Len(events) = 0
    BY <2>1
  <2>3. Matched(owed, events, DueEvents)
    <3>. DEFINE none == [a \in 1..0 |-> 1]
    <3>1. none \in [1..0 -> 1..0]
      OBVIOUS
    <3>. HIDE DEF none
    <3>2. none \in [1..Len(owed) -> 1..Len(events)] /\ 1..Len(owed) = {} /\ 1..Len(events) = {}
      BY <2>2, <3>1
    <3>. QED BY <3>2, Zenon DEF Matched
  <2>. QED BY <2>1, <2>2, <2>3, Zenon DEF OwedInv
<1>2. WindowInv /\ OwedInv /\ [UserInterfaceNext]_userInterfaceVars => OwedInv'
  <2>. SUFFICES ASSUME WindowInv, OwedInv, [UserInterfaceNext]_userInterfaceVars
                PROVE  OwedInv'
    OBVIOUS
  <2>1. events \in Seq(EventSet)
    BY DEF WindowInv, WindowTypes
  <2>2. UNCHANGED <<control, prefer_text>> /\ DueEvents' = DueEvents
    BY OptionsStay, DueStays
  <2>3. Abort(Head(events)) => UNCHANGED <<owed, strayed>>
    BY Zenon DEF Abort
  <2>4. UNCHANGED inputVars => UNCHANGED <<owed, strayed>>
    BY Zenon DEF inputVars
  <2>. QED BY <2>1, <2>2, <2>3, <2>4, InputSteps, UndueSteps, SentKeeps, GestureKeeps, UndueKeeps,
              Zenon
<1>3. OwedInv => InputsSentOnce
  <2>. SUFFICES ASSUME OwedInv, events = <<>> PROVE owed = <<>>
    BY Zenon DEF OwedInv, InputsSentOnce
  <2>1. CASE control
    <3>1. PICK pos \in [1..Len(owed) -> 1..Len(events)] : TRUE
      BY <2>1, Zenon DEF OwedInv, Matched
    <3>2. Len(events) = 0 /\ owed \in Seq(Inputs)
      BY DEF OwedInv
    <3>3. Len(owed) \in Nat /\ \A a \in 1..Len(owed) : pos[a] \in 1..0
      BY <3>1, <3>2
    <3>4. Len(owed) = 0
      BY <3>3
    <3>. QED BY <3>2, <3>4
  <2>. QED BY <2>1 DEF OwedInv
<1>. QED BY <1>1, <1>2, <1>3, WindowKept, PTL DEF UserInterfaceSpec

(***************************************************************************)
(* The event loop: its assertions.                                         *)
(***************************************************************************)

\* Nothing happens after an abort.
AbortInv ==
  /\ abortedBy = Nothing \/ mainPc = "aborted"
  /\ AbortsOnlyAtTheEdges

LEMMA AbortingKeeps ==
  ASSUME WindowInv, Abort(Head(events)), UNCHANGED <<control, prefer_text>>
  PROVE  AbortInv'
<1>. DEFINE e == Head(events)
<1>1. /\ TextAsserts(e) \/ (IsSent(e) /\ ~control) \/ (e = Maximized /\ ~BackupIsSet)
      /\ events # <<>> /\ mainPc' = "aborted" /\ abortedBy' = e.type
      /\ UNCHANGED <<fullscreen, vanished>>
  BY Zenon DEF Abort, Handle, MainGoto, screenVars, frameVars
<1>2. CASE TextAsserts(e)
  <2>1. e.type = "SDL_TEXTINPUT" /\ control /\ ~prefer_text
    BY <1>2 DEF TextAsserts
  <2>. QED BY <1>1, <2>1, Zenon DEF AbortInv, AbortsOnlyAtTheEdges
<1>3. CASE IsSent(e) /\ ~control
  <2>1. e.type \in FingerEvents
    BY <1>3 DEF IsSent, KeyIsSent, TextIsSent, MouseIsSent, TouchIsSent
  <2>. QED BY <1>1, <1>3, <2>1, Zenon DEF AbortInv, AbortsOnlyAtTheEdges
<1>4. CASE e = Maximized /\ ~BackupIsSet
  <2>1. e.type = "SDL_WINDOWEVENT"
    BY <1>4, WindowNewsDiffer DEF WindowNews
  <2>2. Vanishes(windowed_window_size_backup)
    BY <1>4, Zenon DEF BackupIsSet, Vanishes
  <2>3. fullscreen \/ vanished
    BY <1>1, <1>4, <2>2, Zenon DEF WindowInv, BackupReady
  <2>. QED BY <1>1, <2>1, <2>3, Zenon DEF AbortInv, AbortsOnlyAtTheEdges
<1>. QED BY <1>1, <1>2, <1>3, <1>4

LEMMA AbortKept == UserInterfaceSpec => []AbortInv
<1>1. UserInterfaceInit => AbortInv
  BY Zenon DEF UserInterfaceInit, AbortInv, AbortsOnlyAtTheEdges
<1>2. WindowInv /\ AbortInv /\ [UserInterfaceNext]_userInterfaceVars => AbortInv'
  <2>. SUFFICES ASSUME WindowInv, AbortInv, [UserInterfaceNext]_userInterfaceVars
                PROVE  AbortInv'
    OBVIOUS
  <2>1. UNCHANGED <<control, prefer_text>>
    BY OptionsStay
  <2>2. CASE UNCHANGED userInterfaceVars
    BY <2>2, Zenon DEF AbortInv, AbortsOnlyAtTheEdges, userInterfaceVars, outside, inputOptions,
                       inputVars, screenVars, frameVars
  <2>3. CASE Abort(Head(events))
    BY <2>1, <2>3, AbortingKeeps
  <2>4. CASE ~LoopOver /\ UNCHANGED abortedBy
    BY <2>4, Zenon DEF AbortInv, AbortsOnlyAtTheEdges, LoopOver
  <2>5. Send(Head(events)) \/ DeviceGesture => UNCHANGED abortedBy
    BY Zenon DEF Send, DeviceGesture, Type, PressDeviceKey, Click, Drag, TurnWheel, Touch, Queue,
                 Gesture
  <2>6. UNCHANGED inputVars => UNCHANGED abortedBy
    BY Zenon DEF inputVars
  <2>7. UNCHANGED userInterfaceVars \/ ~LoopOver
    BY Zenon DEF UserInterfaceNext, LoopFinished
  <2>. QED BY <2>2, <2>3, <2>4, <2>5, <2>6, <2>7, InputSteps, Zenon
<1>. QED BY <1>1, <1>2, WindowKept, PTL DEF UserInterfaceSpec

\* A handler aborts only on a word from an input method, on a touch without control,
\* or on a MAXIMIZED whose size is missing: in a fullscreen window, or after a size
\* vanished (input_manager.cpp:194, screen.cpp:396).
THEOREM AbortsAtTheEdges == UserInterfaceSpec => []AbortsOnlyAtTheEdges
<1>1. AbortInv => AbortsOnlyAtTheEdges
  BY DEF AbortInv
<1>. QED BY <1>1, AbortKept, PTL

(***************************************************************************)
(* Sizes fit into 16 bits.                                                 *)
(***************************************************************************)

LEMMA QuotientBounded ==
  ASSUME NEW a \in Nat, NEW b \in Nat, NEW c \in Nat \ {0}, a <= c * b
  PROVE  a \div c \in Nat /\ a \div c <= b
<1>. DEFINE q == a \div c
            r == a % c
<1>1. q \in Nat /\ r \in Nat /\ a = c * q + r
  OBVIOUS
<1>. HIDE DEF q, r
<1>2. ASSUME q > b
      PROVE  FALSE
  <2>1. PICK k \in Nat : q = b + 1 + k
    <3>1. q - (b + 1) \in Nat /\ q = b + 1 + (q - (b + 1))
      BY <1>1, <1>2
    <3>. QED BY <3>1
  <2>2. c * q = c * b + c + c * k /\ c * b \in Nat /\ c * k \in Nat
    BY <2>1
  <2>. QED BY <1>1, <2>2
<1>. QED BY <1>1, <1>2 DEF q

LEMMA SizeFields ==
  /\ MaxLength \in Nat
  /\ \A w, h : Size(w, h).width = w /\ Size(w, h).height = h
  /\ \A w, h \in 0..MaxLength : Size(w, h) \in Sizes
  /\ \A size \in Sizes : size.width \in 0..MaxLength /\ size.height \in 0..MaxLength
  /\ \A n \in Nat : Uint16(n) \in 0..MaxLength
<1>1. MaxLength \in Nat
  BY DEF MaxLength
<1>. QED BY <1>1 DEF Size, Sizes, Uint16

LEMMA ScreenSizes ==
  /\ FrameSizes \subseteq Sizes /\ DisplaySize \in Sizes /\ NoSize \in Sizes
  /\ \A size \in FrameSizes : size.width \in 1..MaxLength /\ size.height \in 1..MaxLength
  /\ UserLengths \subseteq 1..MaxLength
  /\ \A n \in 1..MaxLength : n \in 0..MaxLength
  /\ 0 \in 0..MaxLength
<1>1. MaxLength \in Nat /\ \A n \in 1..MaxLength : n \in 0..MaxLength
  BY SizeFields
<1>2. 0 \in 0..MaxLength
  BY <1>1
<1>3. /\ FrameWidth \in 1..MaxLength /\ FrameHeight \in 1..MaxLength
      /\ DisplayWidth \in 1..MaxLength /\ DisplayHeight \in 1..MaxLength
      /\ UserLengths \subseteq 1..MaxLength
  BY ScreenAssumption
<1>4. /\ Size(FrameWidth, FrameHeight) \in Sizes /\ Size(FrameHeight, FrameWidth) \in Sizes
      /\ DisplaySize \in Sizes /\ NoSize \in Sizes
  BY <1>1, <1>2, <1>3, SizeFields, Zenon DEF DisplaySize, NoSize
<1>5. \A size \in FrameSizes : size \in Sizes
  BY <1>4, Zenon DEF FrameSizes
<1>6. \A size \in FrameSizes : size.width \in 1..MaxLength /\ size.height \in 1..MaxLength
  <2>1. /\ Size(FrameWidth, FrameHeight).width = FrameWidth
        /\ Size(FrameWidth, FrameHeight).height = FrameHeight
        /\ Size(FrameHeight, FrameWidth).width = FrameHeight
        /\ Size(FrameHeight, FrameWidth).height = FrameWidth
    BY SizeFields, Zenon
  <2>. QED BY <1>3, <2>1 DEF FrameSizes
<1>7. FrameSizes \subseteq Sizes
  BY <1>5, Zenon
<1>. QED BY <1>1, <1>2, <1>3, <1>4, <1>6, <1>7

LEMMA LengthsPositive ==
  /\ \A size \in Sizes : size.width \in Nat /\ size.height \in Nat
  /\ \A size \in FrameSizes : size.width \in Nat \ {0} /\ size.height \in Nat \ {0}
  /\ \A n \in UserLengths \cup {0} : n \in Nat /\ n \in 0..MaxLength
<1>1. MaxLength \in Nat
  BY SizeFields
<1>2. (\A n \in 0..MaxLength : n \in Nat) /\ (\A n \in 1..MaxLength : n \in Nat \ {0})
  BY <1>1
<1>3. \A size \in Sizes : size.width \in Nat /\ size.height \in Nat
  BY <1>2, SizeFields, Zenon
<1>4. \A size \in FrameSizes : size.width \in Nat \ {0} /\ size.height \in Nat \ {0}
  BY <1>2, ScreenSizes, Zenon
<1>5. \A n \in UserLengths : n \in 1..MaxLength
  BY ScreenSizes, Zenon
<1>6. \A n \in UserLengths \cup {0} : n \in Nat /\ n \in 0..MaxLength
  BY <1>1, <1>5
<1>. QED BY <1>3, <1>4, <1>6

\* The optimal size is no larger than the current one, nor than the display: its
\* assertion holds (screen.cpp:107).
LEMMA OptimalSizeFits ==
  ASSUME NEW current \in Sizes, NEW frame \in Sizes, NEW bounds \in Sizes
  PROVE  LET size == GetOptimalSize(current, frame, bounds)
         IN  /\ size \in Sizes
             /\ size.width <= current.width /\ size.height <= current.height
             /\ bounds # NoSize /\ frame.width # 0 /\ frame.height # 0
                  => size.width <= bounds.width /\ size.height <= bounds.height
<1>. DEFINE w == IF bounds = NoSize THEN current.width ELSE Smaller(current.width, bounds.width)
            h == IF bounds = NoSize THEN current.height ELSE Smaller(current.height, bounds.height)
            size == GetOptimalSize(current, frame, bounds)
            fw == frame.width
            fh == frame.height
<1>1. /\ current.width \in 0..MaxLength /\ current.height \in 0..MaxLength
      /\ bounds.width \in 0..MaxLength /\ bounds.height \in 0..MaxLength
      /\ fw \in 0..MaxLength /\ fh \in 0..MaxLength
      /\ MaxLength \in Nat
  BY SizeFields
<1>2. /\ w \in 0..MaxLength /\ h \in 0..MaxLength
      /\ w <= current.width /\ h <= current.height
      /\ bounds # NoSize => w <= bounds.width /\ h <= bounds.height
  BY <1>1 DEF Smaller
<1>3. size = IF fw = 0 \/ fh = 0 THEN current
             ELSE IF fw * h > fh * w THEN Size(w, (fh * w) \div fw)
                  ELSE Size((fw * h) \div fh, h)
  BY Zenon DEF GetOptimalSize
<1>. HIDE DEF w, h, size, fw, fh
<1>4. CASE fw = 0 \/ fh = 0
  <2>1. size = current
    BY <1>3, <1>4, Zenon
  <2>. QED BY <1>1, <1>4, <2>1 DEF size, fw, fh
<1>5. ASSUME fw # 0, fh # 0, fw * h > fh * w
      PROVE  \E n \in 0..h : size = Size(w, n)
  <2>1. fh * w \in Nat /\ fw * h \in Nat /\ fh * w <= fw * h /\ fw \in Nat \ {0} /\ h \in Nat
    BY <1>1, <1>2, <1>5
  <2>2. (fh * w) \div fw \in Nat /\ (fh * w) \div fw <= h
    BY <2>1, QuotientBounded
  <2>3. (fh * w) \div fw \in 0..h
    BY <2>1, <2>2
  <2>4. size = Size(w, (fh * w) \div fw)
    BY <1>3, <1>5, Zenon
  <2>. QED BY <2>3, <2>4, Zenon
<1>6. ASSUME fw # 0, fh # 0, ~(fw * h > fh * w)
      PROVE  \E n \in 0..w : size = Size(n, h)
  <2>1. fw * h \in Nat /\ fw * h <= fh * w /\ fh \in Nat \ {0} /\ w \in Nat
    BY <1>1, <1>2, <1>6
  <2>2. (fw * h) \div fh \in Nat /\ (fw * h) \div fh <= w
    BY <2>1, QuotientBounded
  <2>3. (fw * h) \div fh \in 0..w
    BY <2>1, <2>2
  <2>4. size = Size((fw * h) \div fh, h)
    BY <1>3, <1>6, Zenon
  <2>. QED BY <2>3, <2>4, Zenon
<1>7. CASE ~(fw = 0 \/ fh = 0)
  <2>1. \E m \in 0..w, n \in 0..h : size = Size(m, n)
    <3>1. w \in 0..w /\ h \in 0..h
      BY <1>2
    <3>. QED BY <1>5, <1>6, <1>7, <3>1, Zenon
  <2>2. PICK m \in 0..w, n \in 0..h : size = Size(m, n)
    BY <2>1
  <2>3. m \in 0..MaxLength /\ n \in 0..MaxLength
    BY <1>1, <1>2
  <2>4. size.width = m /\ size.height = n /\ size \in Sizes
    BY <2>2, <2>3, SizeFields, Zenon
  <2>. QED BY <1>1, <1>2, <2>2, <2>4 DEF size
<1>. QED BY <1>4, <1>7 DEF size

LEMMA RequestsFit ==
  ASSUME normalSize \in Sizes, NEW size \in Sizes
  PROVE  /\ \A max : SizeAfterRequest(size, max) \in Sizes
         /\ \A full, max, rest :
              ApplyWindowedSize(full, max, size, rest) => normalSize' \in Sizes
BY Zenon DEF SizeAfterRequest, ApplyWindowedSize

LEMMA WindowSizesFit ==
  ASSUME ScreenTypeOK
  PROVE  GetWindowSize \in Sizes /\ GetWindowedWindowSize \in Sizes /\ SizesToRead \subseteq Sizes
<1>1. normalSize \in Sizes /\ windowed_window_size \in Sizes /\ DisplaySize \in Sizes
  BY ScreenSizes DEF ScreenTypeOK
<1>2. GetWindowSize \in Sizes
  BY <1>1, Zenon DEF GetWindowSize
<1>3. GetWindowedWindowSize \in Sizes
  BY <1>1, <1>2, Zenon DEF GetWindowedWindowSize
<1>4. \A size \in SizesToRead : size \in Sizes
  BY <1>1, <1>2, Zenon DEF SizesToRead
<1>. QED BY <1>2, <1>3, <1>4, Zenon

LEMMA WindowEventTyped ==
  ASSUME ScreenTypeOK, HandleSizeChanged \/ HandleMaximized \/ HandleRestored
  PROVE  ScreenTypeOK'
<1>1. NoSize \in Sizes /\ GetWindowSize \in Sizes
  BY ScreenSizes, WindowSizesFit, Zenon
<1>2. CASE HandleSizeChanged
  BY <1>1, <1>2, Zenon DEF HandleSizeChanged, ScreenTypeOK, frameVars
<1>3. CASE HandleMaximized
  BY <1>1, <1>3, Zenon DEF HandleMaximized, ScreenTypeOK, frameVars
<1>4. CASE HandleRestored
  BY <1>4, RequestsFit, Zenon DEF HandleRestored, ScreenTypeOK, frameVars
<1>. QED BY <1>2, <1>3, <1>4

LEMMA SwitchTyped ==
  ASSUME ScreenTypeOK, SwitchFullscreen
  PROVE  ScreenTypeOK'
<1>1. normalSize' \in Sizes /\ fullscreen' \in BOOLEAN
  BY RequestsFit, Zenon DEF SwitchFullscreen, ScreenTypeOK
<1>. QED BY <1>1, Zenon DEF SwitchFullscreen, ScreenTypeOK, frameVars

LEMMA ResizeTyped ==
  ASSUME ScreenTypeOK, ResizeToFit \/ ResizeToPixelPerfect
  PROVE  ScreenTypeOK'
<1>1. PICK wanted : Resize(wanted) /\ \A size \in SizesToRead : wanted[size] \in Sizes
  <2>1. frame_size \in Sizes
    BY ScreenSizes DEF ScreenTypeOK
  <2>2. \A bounds \in DisplayBounds, size \in SizesToRead :
          GetOptimalSize(size, frame_size, bounds) \in Sizes
    BY <2>1, ScreenSizes, WindowSizesFit, OptimalSizeFits, Zenon DEF DisplayBounds
  <2>3. CASE ResizeToFit
    <3>1. PICK bounds \in DisplayBounds :
            Resize([size \in SizesToRead |-> GetOptimalSize(size, frame_size, bounds)])
      BY <2>3, Zenon DEF ResizeToFit
    <3>. DEFINE fitting == [size \in SizesToRead |-> GetOptimalSize(size, frame_size, bounds)]
    <3>2. \A size \in SizesToRead : fitting[size] \in Sizes
      BY <2>2
    <3>3. Resize(fitting)
      BY <3>1
    <3>. HIDE DEF fitting
    <3>. QED BY <3>2, <3>3
  <2>4. CASE ResizeToPixelPerfect
    <3>. DEFINE perfect == [size \in SizesToRead |-> frame_size]
    <3>1. \A size \in SizesToRead : perfect[size] \in Sizes
      BY <2>1
    <3>2. Resize(perfect)
      BY <2>4 DEF ResizeToPixelPerfect
    <3>. HIDE DEF perfect
    <3>. QED BY <3>1, <3>2
  <2>. QED BY <2>3, <2>4
<1>2. CASE fullscreen
  BY <1>1, <1>2, Zenon DEF Resize, ScreenTypeOK, screenVars, frameVars
<1>3. CASE ~fullscreen
  <2>1. normalSize' \in Sizes
    BY <1>1, <1>3, RequestsFit, Zenon DEF Resize, ScreenTypeOK
  <2>2. maximized' \in BOOLEAN /\ wmMaximized' \in BOOLEAN
    BY <1>1, <1>3, Zenon DEF Resize
  <2>. QED BY <1>1, <1>3, <2>1, <2>2, Zenon DEF Resize, ScreenTypeOK, frameVars
<1>. QED BY <1>2, <1>3

LEMMA FrameTyped ==
  ASSUME ScreenTypeOK, NEW size \in FrameSizes, NEW bounds \in DisplayBounds,
         ResizeForFrame(size, bounds)
  PROVE  ScreenTypeOK'
<1>. DEFINE now == GetWindowedWindowSize
            target == Size(Uint16((now.width * size.width) \div frame_size.width),
                           Uint16((now.height * size.height) \div frame_size.height))
            best == GetOptimalSize(target, size, bounds)
<1>1. now \in Sizes /\ size \in Sizes /\ bounds \in Sizes /\ frame_size \in FrameSizes
  BY ScreenSizes, WindowSizesFit, Zenon DEF DisplayBounds, ScreenTypeOK
<1>2. /\ now.width \in Nat /\ now.height \in Nat /\ size.width \in Nat /\ size.height \in Nat
      /\ frame_size.width \in Nat \ {0} /\ frame_size.height \in Nat \ {0}
  BY <1>1, LengthsPositive
<1>3. \A a, b \in Nat : \A c \in Nat \ {0} : (a * b) \div c \in Nat
  <2>. SUFFICES ASSUME NEW a \in Nat, NEW b \in Nat, NEW c \in Nat \ {0}
                PROVE  (a * b) \div c \in Nat
    OBVIOUS
  <2>1. a * b \in Nat
    OBVIOUS
  <2>2. \A d \in Nat : d \div c \in Nat
    OBVIOUS
  <2>. QED BY <2>1, <2>2
<1>4. target \in Sizes
  <2>1. /\ (now.width * size.width) \div frame_size.width \in Nat
        /\ (now.height * size.height) \div frame_size.height \in Nat
    BY <1>2, <1>3
  <2>. QED BY <2>1, SizeFields, Zenon
<1>5. best \in Sizes
  BY <1>1, <1>4, OptimalSizeFits, Zenon
<1>6. /\ logicalSize' = size /\ windowed_window_size' = best /\ frame_size' = size
      /\ ApplyWindowedSize(fullscreen, maximized, best, events)
      /\ texture' \in {size, NoTexture}
      /\ vanished' = (vanished \/ Vanishes(best))
      /\ UNCHANGED <<windowed_window_size_backup, fullscreen, maximized, wmMaximized>>
  BY Zenon DEF ResizeForFrame
<1>. HIDE DEF now, target, best
<1>7. normalSize' \in Sizes
  BY <1>5, <1>6, RequestsFit, Zenon DEF ScreenTypeOK
<1>8. vanished' \in BOOLEAN
  BY <1>6, Zenon
<1>. QED BY <1>5, <1>6, <1>7, <1>8, Zenon DEF ScreenTypeOK

LEMMA ChangeTyped ==
  ASSUME ScreenTypeOK, ChangeWindow
  PROVE  ScreenTypeOK'
<1>1. \A w, h \in UserLengths : Size(w, h) \in Sizes
  BY ScreenSizes, SizeFields
<1>2. CASE UserMaximizes
  BY <1>2, Zenon DEF UserMaximizes, ScreenTypeOK, frameVars
<1>3. CASE UserRestores
  BY <1>3, Zenon DEF UserRestores, ScreenTypeOK, frameVars
<1>4. CASE \E w, h \in UserLengths : UserResizes(Size(w, h))
  BY <1>1, <1>4, Zenon DEF UserResizes, ScreenTypeOK, frameVars
<1>. QED BY <1>2, <1>3, <1>4, Zenon DEF ChangeWindow

LEMMA ScreenStays ==
  ASSUME ScreenTypeOK, UNCHANGED screenVars
  PROVE  ScreenTypeOK'
BY Zenon DEF ScreenTypeOK, screenVars, frameVars

LEMMA ScreenKeeps ==
  ASSUME ScreenTypeOK, events \in Seq(EventSet), [UserInterfaceNext]_userInterfaceVars
  PROVE  ScreenTypeOK'
<1>1. CASE HandleWindowEvent
  BY <1>1, WindowEventTyped, Zenon DEF HandleWindowEvent
<1>2. CASE ProcessWindowKey
  BY <1>2, SwitchTyped, ResizeTyped, Zenon DEF ProcessWindowKey
<1>3. CASE PrepareForFrame
  BY <1>3, FrameTyped, ScreenStays, Zenon DEF PrepareForFrame, SameSize, LogicalSizeFails
<1>4. CASE ChangeWindow
  BY <1>4, ChangeTyped
<1>5. CASE UNCHANGED screenVars
  BY <1>5, ScreenStays
<1>. QED BY <1>1, <1>2, <1>3, <1>4, <1>5, ScreenSteps, Zenon DEF Taken, Queued

LEMMA ScreenStarts ==
  ASSUME UserInterfaceInit
  PROVE  ScreenTypeOK
<1>1. frame_size \in FrameSizes /\ frame_size \in Sizes
  BY ScreenSizes, Zenon DEF UserInterfaceInit, ScreenInit
<1>2. PICK w \in UserLengths \cup {0}, h \in UserLengths \cup {0}, b \in DisplayBounds :
        windowed_window_size = GetInitialOptimalSize(frame_size, w, h, b)
  BY Zenon DEF UserInterfaceInit, ScreenInit
<1>3. /\ w \in Nat /\ h \in Nat /\ w \in 0..MaxLength /\ h \in 0..MaxLength
      /\ frame_size.width \in Nat \ {0} /\ frame_size.height \in Nat \ {0}
  BY <1>1, LengthsPositive
<1>4. windowed_window_size \in Sizes
  <2>1. GetOptimalSize(frame_size, frame_size, b) \in Sizes
    BY <1>1, ScreenSizes, OptimalSizeFits, Zenon DEF DisplayBounds
  <2>2. /\ (h * frame_size.width) \div frame_size.height \in Nat
        /\ (w * frame_size.height) \div frame_size.width \in Nat
    <3>1. h * frame_size.width \in Nat /\ w * frame_size.height \in Nat
      BY <1>3
    <3>2. \A d \in Nat, c \in Nat \ {0} : d \div c \in Nat
      OBVIOUS
    <3>. QED BY <1>3, <3>1, <3>2
  <2>. QED BY <1>2, <1>3, <2>1, <2>2, SizeFields, Zenon DEF GetInitialOptimalSize
<1>5. /\ windowed_window_size.width \in 0..MaxLength /\ windowed_window_size.height \in 0..MaxLength
  BY <1>4, SizeFields
<1>6. SizeWhenCreated(windowed_window_size) \in Sizes
  <2>1. 1 \in 0..MaxLength
    BY DEF MaxLength
  <2>. QED BY <1>5, <2>1, SizeFields, Zenon DEF SizeWhenCreated
<1>7. /\ fullscreen = FALSE /\ maximized = FALSE /\ wmMaximized = FALSE
      /\ texture = frame_size /\ logicalSize = frame_size
      /\ windowed_window_size_backup = NoSize
      /\ normalSize = SizeWhenCreated(windowed_window_size)
      /\ vanished = Vanishes(windowed_window_size)
  BY Zenon DEF UserInterfaceInit, ScreenInit
<1>8. vanished \in BOOLEAN
  BY <1>7, Zenon DEF Vanishes
<1>. QED BY <1>1, <1>4, <1>6, <1>7, <1>8, ScreenSizes, Zenon DEF ScreenTypeOK

(***************************************************************************)
(* The rate counter's thread.                                              *)
(***************************************************************************)

CounterCall ==
  \/ AddRenderedFrame \/ AddSkippedFrame \/ StartReset
  \/ SetStarted(TRUE) \/ SetStarted(FALSE) \/ SignalFps \/ SetFpsInterrupted

\* Every step, by what it does to the counter; only the main thread makes its thread.
LEMMA CounterSteps ==
  ASSUME [UserInterfaceNext]_userInterfaceVars
  PROVE  /\ \/ UNCHANGED fpsVars
            \/ CounterCall
            \/ mainPc = "create" /\ mainPc' = "poll" /\ CreateFpsThread
            \/ FpsStep \/ Tick \/ SpuriousWakeUp
         /\ mainPc' = "create" => mainPc = "create" \/ (SignalFps /\ ~HasThread)
<1>. USE DEF CounterCall
<1>1. CASE UNCHANGED userInterfaceVars
  BY <1>1, Zenon DEF userInterfaceVars
<1>2. CASE HandleDeviceEvent
  BY <1>2, Zenon DEF HandleDeviceEvent, Drop, Send, Abort, Handle, MainGoto
<1>3. CASE HandleWindowEvent \/ ProcessWindowKey \/ PrepareForFrame
  BY <1>3, Zenon DEF HandleWindowEvent, ProcessWindowKey, PrepareForFrame, Handle, MainGoto
<1>4. CASE HandleNewFrame \/ SwitchFpsCounter \/ StopByEvent \/ JoinThreads
  <2>1. UNCHANGED fpsVars
    BY <1>4, Zenon DEF HandleNewFrame, SwitchFpsCounter, StopByEvent, JoinThreads
  <2>2. mainPc' \in {"count", "prepare", "clearStarted", "reset", "interrupt", "join", "destroyed"}
    BY <1>4, Zenon DEF HandleNewFrame, SwitchFpsCounter, StopByEvent, JoinThreads, Handle, MainGoto
  <2>3. mainPc' # "create"
    BY <2>2
  <2>. QED BY <2>1, <2>3, Zenon
<1>5. CASE CountRenderedFrame
  BY <1>5, Zenon DEF CountRenderedFrame, MainGoto
<1>6. CASE CountSkippedFrame
  BY <1>6, Zenon DEF CountSkippedFrame, StreamGoto
<1>7. CASE StartCounter
  BY <1>7, Zenon DEF StartCounter, FpsCall, MainGoto
<1>8. CASE StopCounter \/ InterruptFpsCounter
  BY <1>8, Zenon DEF StopCounter, InterruptFpsCounter, FpsCall, MainGoto, SignalUnderMutex
<1>9. CASE FpsThread \/ Time
  BY <1>9, Zenon DEF FpsThread, Time
<1>10. CASE OfferFrame \/ User
  BY <1>10, Zenon DEF OfferFrame, StreamGoto, User, Type, PressDeviceKey, Click, Drag, TurnWheel,
                      Touch, PressWindowKey, DoubleClickOutside, ChangeWindow, PressCounterKey,
                      AskToStop, Queue, Gesture
<1>. QED BY <1>1, <1>2, <1>3, <1>4, <1>5, <1>6, <1>7, <1>8, <1>9, <1>10, Zenon
         DEF UserInterfaceNext, LoopStep, LoopFinished

\* The counter's thread finds the end of an interval ahead of it, however late it is.
LEMMA NextIsAhead ==
  ASSUME CountInv
  PROVE  NextTimestamp > ticks
<1>. USE TicksAssumption DEF CountInv
<1>1. CASE ~IntervalExpired
  BY <1>1 DEF NextTimestamp, IntervalExpired
<1>2. CASE IntervalExpired
  <2>. DEFINE next == next_timestamp + Interval * ElapsedSlices
  <2>1. next \in Nat /\ ticks < next /\ next <= ticks + Interval
    BY <1>2, NextInterval DEF IntervalExpired, ElapsedSlices
  <2>2. NextTimestamp = next % TicksModulus
    BY <1>2 DEF NextTimestamp
  <2>. HIDE DEF next
  <2>3. next % TicksModulus = next
    BY <2>1
  <2>. QED BY <2>1, <2>2, <2>3
<1>. QED BY <1>1, <1>2

LEMMA CountedAtTimes ==
  ASSUME CountInv
  PROVE  /\ next_timestamp \in 0..(MaxTicks + Interval) /\ countedAt \subseteq 0..MaxTicks
         /\ ticks \in 0..MaxTicks
BY TicksAssumption DEF CountInv

LEMMA FramesTyped ==
  ASSUME nr_rendered \in Nat, nr_skipped \in Nat,
         CounterCall \/ CreateFpsThread \/ FpsStep \/ Tick \/ SpuriousWakeUp \/ UNCHANGED fpsVars
  PROVE  nr_rendered' \in Nat /\ nr_skipped' \in Nat
<1>1. /\ 0 \in Nat /\ Kept(nr_rendered) \in Nat /\ Kept(nr_skipped) \in Nat
      /\ Kept(nr_rendered) + 1 \in Nat /\ Kept(nr_skipped) + 1 \in Nat
  BY DEF Kept
<1>. QED BY <1>1, Zenon
         DEF CounterCall, AddRenderedFrame, AddSkippedFrame, StartReset, SetStarted, SignalFps,
             SetFpsInterrupted, CreateFpsThread, FpsStep, FpsLock, DecideToSleep, CountInterval,
             CheckIntervalExpired, EndFps, FpsWait, TimeOut, Tick, SpuriousWakeUp, fpsVars, countVars

\* The atomics, and the mutex by the thread's place.
PlaceTyped ==
  /\ fpsPc \in FpsPcs \ {"aborted"}
  /\ fpsMutexFree = (fpsPc \notin {"check", "sleep", "doze", "aborted"})
  /\ started \in BOOLEAN
  /\ fps_interrupted \in BOOLEAN

LEMMA PlaceKept ==
  ASSUME PlaceTyped, CountInv,
         \/ CounterCall \/ FpsStep \/ Tick \/ SpuriousWakeUp \/ UNCHANGED fpsVars
         \/ CreateFpsThread /\ ~HasThread
  PROVE  PlaceTyped'
<1>. USE DEF PlaceTyped, FpsPcs
<1>1. CASE UNCHANGED fpsVars
  BY <1>1, Zenon DEF fpsVars
<1>2. CASE CounterCall /\ UNCHANGED fpsPc
  BY <1>2, Zenon DEF CounterCall, AddRenderedFrame, AddSkippedFrame, StartReset, SetStarted,
                     SignalFps, SetFpsInterrupted
<1>3. CASE SignalFps
  <2>1. UNCHANGED <<fpsMutexFree, started, fps_interrupted>>
    BY <1>3, Zenon DEF SignalFps
  <2>2. /\ fpsPc' \in FpsPcs \ {"aborted"}
        /\ fpsPc' \in {"check", "sleep", "doze", "aborted"}
             <=> fpsPc \in {"check", "sleep", "doze", "aborted"}
    BY <1>3 DEF SignalFps, Signalled
  <2>. QED BY <2>1, <2>2, Zenon
<1>4. CASE CreateFpsThread /\ ~HasThread
  <2>1. UNCHANGED <<fpsMutexFree, started, fps_interrupted>>
    BY <1>4, Zenon DEF CreateFpsThread
  <2>2. /\ fpsPc' \in FpsPcs \ {"aborted"}
        /\ fpsPc \notin {"check", "sleep", "doze", "aborted"}
        /\ fpsPc' \notin {"check", "sleep", "doze", "aborted"}
    BY <1>4 DEF CreateFpsThread, HasThread
  <2>. QED BY <2>1, <2>2, Zenon
<1>5. CASE FpsLock
  <2>1. fpsPc' = "check" /\ ~fpsMutexFree' /\ UNCHANGED <<started, fps_interrupted>>
    BY <1>5, Zenon DEF FpsLock
  <2>2. fpsPc' \in FpsPcs \ {"aborted"} /\ fpsPc' \in {"check", "sleep", "doze", "aborted"}
    BY <2>1
  <2>3. fpsMutexFree' = FALSE
    BY <1>5, Zenon DEF FpsLock
  <2>. QED BY <2>1, <2>2, <2>3, Zenon
<1>6. CASE DecideToSleep \/ CountInterval
  <2>1. fpsPc' \in {"sleep", "doze"} /\ fpsPc = "check"
    BY <1>6, NextIsAhead, Zenon DEF DecideToSleep, CountInterval
  <2>2. UNCHANGED <<fpsMutexFree, started, fps_interrupted>>
    BY <1>6, Zenon DEF DecideToSleep, CountInterval
  <2>3. /\ fpsPc' \in FpsPcs \ {"aborted"}
        /\ fpsPc \in {"check", "sleep", "doze", "aborted"}
        /\ fpsPc' \in {"check", "sleep", "doze", "aborted"}
    BY <2>1
  <2>. QED BY <2>2, <2>3, Zenon
<1>7. CASE EndFps \/ FpsWait
  <2>1. fpsPc' \in {"ended", "asleep", "dozing"}
    BY <1>7 DEF EndFps, FpsWait
  <2>2. fpsMutexFree' = TRUE /\ UNCHANGED <<started, fps_interrupted>>
    BY <1>7, Zenon DEF EndFps, FpsWait
  <2>3. /\ fpsPc' \in FpsPcs \ {"aborted"}
        /\ fpsPc' \notin {"check", "sleep", "doze", "aborted"}
    BY <2>1
  <2>. QED BY <2>2, <2>3, Zenon
<1>8. CASE TimeOut \/ SpuriousWakeUp
  <2>1. fpsPc \in {"asleep", "dozing"} /\ fpsPc' = "lock"
    BY <1>8 DEF TimeOut, SpuriousWakeUp
  <2>2. UNCHANGED <<fpsMutexFree, started, fps_interrupted>>
    BY <1>8, Zenon DEF TimeOut, SpuriousWakeUp
  <2>3. /\ fpsPc' \in FpsPcs \ {"aborted"}
        /\ fpsPc \notin {"check", "sleep", "doze", "aborted"}
        /\ fpsPc' \notin {"check", "sleep", "doze", "aborted"}
    BY <2>1
  <2>. QED BY <2>2, <2>3, Zenon
<1>9. CASE Tick
  BY <1>9, Zenon DEF Tick
<1>10. CounterCall => SignalFps \/ UNCHANGED fpsPc
  BY Zenon DEF CounterCall, AddRenderedFrame, AddSkippedFrame, StartReset, SetStarted,
               SetFpsInterrupted
<1>. QED BY <1>1, <1>2, <1>3, <1>4, <1>5, <1>6, <1>7, <1>8, <1>9, <1>10, Zenon DEF FpsStep

\* The counter's thread, of which there is at most one, never fails its assertion.
CounterInv ==
  /\ CountInv
  /\ PlaceTyped
  /\ nr_rendered \in Nat /\ nr_skipped \in Nat
  /\ mainPc = "create" => ~HasThread

LEMMA CounterKept == UserInterfaceSpec => []CounterInv
<1>1. UserInterfaceInit => CounterInv
  <2>. SUFFICES ASSUME UserInterfaceInit PROVE CounterInv
    OBVIOUS
  <2>1. CountInv
    BY TicksAssumption DEF UserInterfaceInit, FpsInit, CountInv
  <2>2. fpsPc = "none" /\ mainPc = "poll" /\ nr_rendered = 0 /\ nr_skipped = 0
    BY DEF UserInterfaceInit, FpsInit
  <2>3. fpsMutexFree = TRUE /\ started = FALSE /\ fps_interrupted = FALSE
    BY DEF UserInterfaceInit, FpsInit
  <2>4. fpsPc \in FpsPcs \ {"aborted"} /\ fpsPc \notin {"check", "sleep", "doze", "aborted"}
    BY <2>2 DEF FpsPcs
  <2>5. PlaceTyped
    BY <2>3, <2>4, Zenon DEF PlaceTyped
  <2>. QED BY <2>1, <2>2, <2>5 DEF CounterInv
<1>2. CounterInv /\ [UserInterfaceNext]_userInterfaceVars => CounterInv'
  <2>. SUFFICES ASSUME CounterInv, [UserInterfaceNext]_userInterfaceVars
                PROVE  CounterInv'
    OBVIOUS
  <2>1. CountInv'
    BY CountSteps, Counts DEF CounterInv
  <2>2. PlaceTyped'
    BY CounterSteps, PlaceKept, Zenon DEF CounterInv
  <2>3. nr_rendered' \in Nat /\ nr_skipped' \in Nat
    BY CounterSteps, FramesTyped, Zenon DEF CounterInv
  <2>4. ASSUME mainPc' = "create"
        PROVE  ~HasThread'
    <3>1. mainPc = "create" \/ (SignalFps /\ ~HasThread)
      BY <2>4, CounterSteps
    <3>2. fpsPc = "none"
      BY <3>1 DEF CounterInv, HasThread
    <3>3. ~FpsStep /\ ~SpuriousWakeUp
      BY <3>2 DEF FpsStep, FpsLock, DecideToSleep, CountInterval, EndFps, FpsWait, TimeOut,
                  SpuriousWakeUp
    <3>4. CounterCall \/ Tick \/ UNCHANGED fpsVars => fpsPc' = "none"
      <4>1. SignalFps => fpsPc' = "none"
        BY <3>2 DEF SignalFps, Signalled
      <4>. QED BY <3>2, <4>1, Zenon
               DEF CounterCall, AddRenderedFrame, AddSkippedFrame, StartReset, SetStarted,
                   SetFpsInterrupted, Tick, fpsVars
    <3>5. mainPc' # "poll"
      BY <2>4
    <3>. QED BY <3>3, <3>4, <3>5, CounterSteps, Zenon DEF HasThread
  <2>. QED BY <2>1, <2>2, <2>3, <2>4, Zenon DEF CounterInv
<1>. QED BY <1>1, <1>2, PTL DEF UserInterfaceSpec

\* The assertion that the interval ends ahead holds whenever the counter's thread
\* wakes up, as long as the program ends before the clock wraps (fps_counter.cpp:67).
THEOREM RateAssertionHolds == UserInterfaceSpec => [](fpsPc # "aborted")
<1>1. CounterInv => fpsPc # "aborted"
  BY Zenon DEF CounterInv, PlaceTyped
<1>. QED BY <1>1, CounterKept, PTL

\* The types: the sizes fit into their 16 bits whatever is computed from them
\* (screen.cpp:107), and the mutex of the counter is held where its thread holds it.
THEOREM UserInterfaceTyped == UserInterfaceSpec => []TypeOK
<1>1. UserInterfaceInit => ScreenTypeOK
  BY ScreenStarts
<1>2. WindowInv /\ ScreenTypeOK /\ [UserInterfaceNext]_userInterfaceVars => ScreenTypeOK'
  BY ScreenKeeps DEF WindowInv, WindowTypes
<1>3. UserInterfaceSpec => []ScreenTypeOK
  BY <1>1, <1>2, WindowKept, PTL DEF UserInterfaceSpec
<1>4. CounterInv => FpsTypeOK
  <2>. SUFFICES ASSUME CounterInv PROVE FpsTypeOK
    OBVIOUS
  <2>1. /\ next_timestamp \in 0..(MaxTicks + Interval) /\ countedAt \subseteq 0..MaxTicks
        /\ ticks \in 0..MaxTicks
    BY CountedAtTimes DEF CounterInv
  <2>. QED BY <2>1, Zenon DEF CounterInv, PlaceTyped, FpsTypeOK
<1>5. AbortInv => (abortedBy # Nothing => mainPc = "aborted")
  BY Zenon DEF AbortInv
<1>. QED BY <1>3, <1>4, <1>5, AbortKept, CounterKept, PTL DEF TypeOK
=============================================================================
