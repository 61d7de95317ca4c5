----------------------------- MODULE IRobotCore -----------------------------
(***************************************************************************)
(* The life of the program (iRobotMain, IRobotCore::Start): it reads its   *)
(* arguments, starts the server on the device, initialises and starts the  *)
(* components, runs the event loop, and stops, joins and destroys what was *)
(* started.  Any step may fail.                                            *)
(*                                                                         *)
(* Start writes "!cannot_cont & !X()": "&" evaluates both sides, so X() is *)
(* called even after a failure.                                            *)
(*                                                                         *)
(* The threads are seen from here as running or not; what they do is in    *)
(* VideoPipeline, Controller, Recorder, AgentStream and FileHandler.       *)
(***************************************************************************)
EXTENDS DeviceServer, CommandLine

VARIABLES
  cannot_cont,
  flags,         \* the *_initialized and *_started locals that are true
  state,         \* what has become of each component
  running,       \* the threads that run
  told,          \* the threads that have been told to end
  sdl,           \* SDL is initialised
  streamStopped, \* EVENT_STREAM_STOPPED is in SDL's queue
  agentListens,  \* the agents' server sockets are open
  agentSocket,   \* the control socket of the agents' client is valid
  touches,       \* adb processes for "show touches" not waited for
  touchesOn,     \* the device shows touches
  kept,          \* history: adb has failed to hide the touches
  noThread,      \* history: SDL could not create the stream's thread
  blame          \* history: who ended the program, an agent's client or a finger

coreLocals == <<commandVars, cannot_cont, flags, state, sdl>>
agentVars == <<agentListens, agentSocket>>
touchVars == <<touches, touchesOn, kept>>
threadVars == <<running, told, streamStopped, noThread, blame>>
coreVars == <<coreLocals, agentVars, touchVars, threadVars>>
vars == <<pc, serverVars, coreVars>>

Components == {"fpsCounter", "videoBuffer", "fileHandler", "recorder", "controller",
               "agentManager", "screen"}

\* "stream" also stands for the recorder's thread, which it starts and joins;
\* "agentStream" and "agentControl" for two threads each.
Threads == {"stream", "controller", "receiver", "agentStream", "agentControl",
            "fileHandler", "fpsCounter"}

Init ==
  /\ ServerInit
  /\ pc = "args"
  /\ CommandInit
  /\ cannot_cont = FALSE
  /\ flags = {}
  /\ state = [c \in Components |-> "unset"]
  /\ running = {}
  /\ told = {}
  /\ sdl = FALSE
  /\ streamStopped = FALSE
  /\ agentListens = FALSE
  /\ agentSocket = FALSE
  /\ touches = 0
  /\ touchesOn = FALSE
  /\ kept = FALSE
  /\ noThread = FALSE
  /\ blame = "nobody"

\* A component's Init: it fails when SDL or malloc does.
InitTo(c) == {[state EXCEPT ![c] = s] : s \in {"ready", "failed"}}

\* "!cannot_cont & !X()": X has been called, and ok is what it returned.
Failing(ok) == cannot_cont \/ ~ok

----------------------------------------------------------------------------
(* iRobotMain. *)

ExitNow == pc' = "exited"

ParseArgs ==
  /\ pc = "args"
  /\ \/ TakeFlag /\ UNCHANGED pc
     \/ \E field \in Fields, text \in Texts :
          \/ TakeNumber(field, text) /\ UNCHANGED pc
          \/ RefuseNumber(field, text) /\ ExitNow
     \/ RefuseOption /\ ExitNow
  /\ UNCHANGED <<serverVars, cannot_cont, flags, state, sdl, agentVars, touchVars, threadVars>>

\* The end of ParseArgs; the help and the version are printed; the network of
\* FFmpeg may not be available.
RunMain ==
  /\ pc = "args"
  /\ \/ Consistent /\ ~options.help /\ ~options.version /\ pc' = "push"
     \/ ExitNow
  /\ options' = Selected(options)
  /\ written' = NotWritten
  /\ UNCHANGED <<serverVars, cannot_cont, flags, state, sdl, agentVars, touchVars, threadVars>>

----------------------------------------------------------------------------
(* IRobotCore::Start. *)

ServerStart ==
  /\ \/ PushServer \/ EnableTunnelReverse \/ EnableTunnelForward \/ ListenOnPort
     \/ ExecuteServer \/ ExecuteServerFails
  /\ UNCHANGED coreVars

\* One adb process, which is not waited for yet.
EnableShowTouches ==
  /\ Goto("showTouches", "initAgents")
  /\ IF options.show_touches
     THEN \E result \in Results :
            /\ touches' = IF result = "notExecuted" THEN 0 ELSE 1
            /\ touchesOn' = (result = "done")
     ELSE UNCHANGED <<touches, touchesOn>>
  /\ UNCHANGED <<serverVars, coreLocals, agentVars, kept, threadVars>>

\* When a port is taken, Start returns and leaves the device's server running.
InitAgents ==
  /\ \/ /\ Goto("initAgents", "initSDL")
        /\ state' = [state EXCEPT !["agentManager"] = "ready"]
        /\ agentListens' = TRUE
     \/ /\ Goto("initAgents", "returned")
        /\ state' = [state EXCEPT !["agentManager"] = "failed"]
        /\ UNCHANGED agentListens
  /\ UNCHANGED <<serverVars, commandVars, cannot_cont, flags, sdl, agentSocket, touchVars, threadVars>>

InitSDL ==
  /\ Goto("initSDL", "connect")
  /\ sdl' \in BOOLEAN
  /\ cannot_cont' = Failing(sdl')
  /\ UNCHANGED <<serverVars, commandVars, flags, state, agentVars, touchVars, threadVars>>

ConnectTo ==
  /\ OpenVideoSocket("readInfo") \/ OpenControlSocket("readInfo")
  /\ cannot_cont' = Failing(pc' # "readInfo")
  /\ UNCHANGED <<commandVars, flags, state, sdl, agentVars, touchVars, threadVars>>

FinishConnection == Connected("readInfo") /\ UNCHANGED coreVars

\* ReadDeviceInfomation: without a connection, recv fails on video_socket.
ReadInfo ==
  /\ Goto("readInfo", "initDisplay")
  /\ \E ok \in BOOLEAN :
       /\ ok => video_socket = "video"
       /\ cannot_cont' = Failing(ok)
  /\ UNCHANGED <<serverVars, commandVars, flags, state, sdl, agentVars, touchVars, threadVars>>

\* fps_counter.Init, video_buffer.Init and file_handler.Init.  Only the last
\* is spared when one before it failed.
InitDisplay ==
  /\ Goto("initDisplay", "initRecorder")
  /\ IF ~cannot_cont /\ options.display
     THEN \E fps, buffer, files \in {"ready", "failed"} :
            LET wanted == options.control /\ fps = "ready" /\ buffer = "ready" IN
            /\ state' = [state EXCEPT !["fpsCounter"] = fps, !["videoBuffer"] = buffer,
                           !["fileHandler"] = IF wanted THEN files ELSE @]
            /\ flags' = flags \cup {"fpsCounter", "videoBuffer"}
                          \cup (IF wanted THEN {"fileHandler"} ELSE {})
            /\ cannot_cont' = ("failed" \in {fps, buffer} \/ (wanted /\ files = "failed"))
     ELSE UNCHANGED <<state, flags, cannot_cont>>
  /\ UNCHANGED <<serverVars, commandVars, sdl, agentVars, touchVars, threadVars>>

InitRecorder ==
  /\ Goto("initRecorder", "startStream")
  /\ IF ~cannot_cont /\ options.record
     THEN /\ state' \in InitTo("recorder")
          /\ flags' = flags \cup {"recorder"}
          /\ cannot_cont' = (state'["recorder"] = "failed")
     ELSE UNCHANGED <<state, flags, cannot_cont>>
  /\ UNCHANGED <<serverVars, commandVars, sdl, agentVars, touchVars, threadVars>>

\* stream.Start() and agent_manager.Start() are called after a failure too.
\* SDL_CreateThread may fail for any of the threads.
StartStream ==
  /\ Goto("startStream", "startAgents")
  /\ noThread' \in BOOLEAN
  /\ running' = IF noThread' THEN running ELSE running \cup {"stream"}
  /\ cannot_cont' = Failing(~noThread')
  /\ UNCHANGED <<serverVars, commandVars, flags, state, sdl, agentVars, touchVars, told, streamStopped,
                 blame>>

StartAgents ==
  /\ Goto("startAgents", "initController")
  /\ \E started \in SUBSET {"agentStream", "agentControl"} :
       /\ running' = running \cup started
       /\ cannot_cont' = Failing(Cardinality(started) = 2)
  /\ UNCHANGED <<serverVars, commandVars, flags, state, sdl, agentVars, touchVars, told, streamStopped, noThread, blame>>

\* The block is entered or not before controller.Init(); without "&" there,
\* Init and Start are both called, and the window is tried, whatever fails.
InitController ==
  /\ IF ~cannot_cont /\ options.display
     THEN IF options.control
          THEN /\ Goto("initController", "startController")
               /\ state' \in InitTo("controller")
               /\ flags' = flags \cup {"controller"}
               /\ cannot_cont' = (state'["controller"] = "failed")
          ELSE Goto("initController", "openWindow") /\ UNCHANGED <<state, flags, cannot_cont>>
     ELSE Goto("initController", "waitTouches") /\ UNCHANGED <<state, flags, cannot_cont>>
  /\ UNCHANGED <<serverVars, commandVars, sdl, agentVars, touchVars, threadVars>>

\* When the receiver's thread cannot be created, the controller's is waited
\* for at once ("undone"), and will be waited for once more by Join.
StartController ==
  /\ flags' = flags \cup {"controllerStarted"}
  /\ \/ /\ Goto("startController", "openWindow")
        /\ running' = running \cup {"controller", "receiver"}
        /\ state["controller"] = "ready"
        /\ UNCHANGED <<cannot_cont, state>>
     \/ /\ Goto("startController", "openWindow")
        /\ cannot_cont' = TRUE
        /\ state' \in {state, IF state["controller"] = "ready"
                              THEN [state EXCEPT !["controller"] = "undone"] ELSE state}
        /\ UNCHANGED running
     \/ /\ Goto("startController", "crashed")   \* the thread locks no mutex
        /\ state["controller"] = "failed"
        /\ UNCHANGED <<cannot_cont, state, running>>
  /\ UNCHANGED <<serverVars, commandVars, sdl, agentVars, touchVars, told, streamStopped, noThread, blame>>

OpenWindow ==
  /\ Goto("openWindow", "turnScreenOff")
  /\ IF options.headless
     THEN UNCHANGED <<state, cannot_cont>>
     ELSE /\ state' \in InitTo("screen")
          /\ cannot_cont' = Failing(state'["screen"] = "ready")
  /\ UNCHANGED <<serverVars, commandVars, flags, sdl, agentVars, touchVars, threadVars>>

\* The request goes through the controller, whose mutex is locked.
TurnScreenOff ==
  /\ IF ~cannot_cont /\ options.turn_screen_off /\ state["controller"] # "ready"
     THEN Goto("turnScreenOff", "crashed")
     ELSE Goto("turnScreenOff", "waitTouches")
  /\ UNCHANGED <<serverVars, coreVars>>

WaitShowTouches ==
  /\ Goto("waitTouches", IF options.headless THEN "headless" ELSE "loop")
  /\ touches' = 0
  /\ UNCHANGED <<serverVars, coreLocals, agentVars, touchesOn, kept, threadVars>>

----------------------------------------------------------------------------
(* The event loop. *)

\* FpsCounter::Start locks its mutex, which only Init creates.
StartFpsCounter(from, to) ==
  IF state["fpsCounter"] = "ready"
  THEN Goto(from, to) /\ running' \in {running, running \cup {"fpsCounter"}}
  ELSE Goto(from, "crashed") /\ UNCHANGED running

StartHeadless ==
  /\ StartFpsCounter("headless", "loop")
  /\ UNCHANGED <<serverVars, coreLocals, agentVars, touchVars, told, streamStopped, noThread, blame>>

HasWindow == pc = "loop" /\ ~options.headless /\ sdl /\ state["screen"] = "ready"

\* The user presses Ctrl+i.
UserStartsFpsCounter ==
  /\ HasWindow
  /\ StartFpsCounter("loop", "loop")
  /\ UNCHANGED <<serverVars, coreLocals, agentVars, touchVars, told, streamStopped, noThread, blame>>

\* The user drops a file: the thread is created at the first request.
UserDropsFile ==
  /\ HasWindow /\ options.control
  /\ IF state["fileHandler"] = "ready"
     THEN running' \in {running, running \cup {"fileHandler"}} /\ UNCHANGED pc
     ELSE pc' = "crashed" /\ UNCHANGED running
  /\ UNCHANGED <<serverVars, coreLocals, agentVars, touchVars, told, streamStopped, noThread, blame>>

\* A finger on the window: unlike the other inputs it goes to the controller whatever
\* control says (input_manager.cpp:619-623).
UserTouches ==
  /\ HasWindow
  /\ state["controller"] \in {"unset", "failed"}
  /\ pc' = "crashed"
  /\ blame' = "finger"
  /\ UNCHANGED <<serverVars, coreLocals, agentVars, touchVars, running, told, streamStopped, noThread>>

\* An image is made for an agent: it locks the video buffer's mutex.
HandleOpenCVFrame ==
  /\ pc = "loop" /\ sdl /\ "agentStream" \in running
  /\ state["videoBuffer"] # "ready"
  /\ pc' = "crashed"
  /\ UNCHANGED <<serverVars, coreVars>>

\* SDL_QUIT, which needs a window or a signal.
UserQuits == sdl /\ Goto("loop", "stop") /\ UNCHANGED <<serverVars, coreVars>>

\* EVENT_STREAM_STOPPED; without SDL, SDL_WaitEvent fails at once.
LeaveLoop ==
  /\ streamStopped \/ (~sdl /\ ~options.headless)
  /\ Goto("loop", "stop")
  /\ UNCHANGED <<serverVars, coreVars>>

----------------------------------------------------------------------------
(* The shutdown. *)

\* stream.Stop() tells nothing to the thread (VideoPipeline!Interrupt wakes
\* the decoder up); controller.Stop() and agent_manager.Stop().
StopControl ==
  /\ Goto("stop", "stopFiles")
  /\ IF "controllerStarted" \in flags
     THEN /\ told' = told \cup {"controller", "receiver", "agentStream", "agentControl"}
          /\ agentListens' = FALSE
     ELSE UNCHANGED <<told, agentListens>>
  /\ UNCHANGED <<serverVars, coreLocals, agentSocket, touchVars, running, streamStopped, noThread, blame>>

BugForgetInterrupt ==   \* a bug: fps_counter.Interrupt() is not called
  /\ Goto("stopFiles", IF state["fileHandler"] = "failed" THEN "crashed" ELSE "stopServer")
  /\ told' = told \cup (flags \cap {"fileHandler"})
  /\ UNCHANGED <<serverVars, coreLocals, agentVars, touchVars, running, streamStopped, noThread, blame>>

\* file_handler.Stop() locks its mutex; fps_counter.Interrupt() does so only
\* when the thread exists.
StopOthers ==
  /\ Goto("stopFiles", IF state["fileHandler"] = "failed" THEN "crashed" ELSE "stopServer")
  /\ told' = told \cup (flags \cap {"fileHandler", "fpsCounter"})
  /\ UNCHANGED <<serverVars, coreLocals, agentVars, touchVars, running, streamStopped, noThread, blame>>

StopServer == Stop("stopServer", "joinStream") /\ UNCHANGED coreVars

\* Join waits for threads; the joins of what was never started are skipped.
Join(from, to, threads) ==
  /\ Goto(from, to)
  /\ threads \cap running = {}
  /\ UNCHANGED <<serverVars, coreVars>>

BugDoNotJoin == Join("joinStream", "joinController", {})   \* a bug: stream.Join() is left out

JoinStream == Join("joinStream", "joinController", {"stream"})

WhenStarted(threads) == IF "controllerStarted" \in flags THEN threads ELSE {}

\* Waiting for a thread that was waited for already is undefined.
JoinController ==
  \/ Join("joinController", "joinAgents", WhenStarted({"controller", "receiver"}))
  \/ /\ state["controller"] = "undone"
     /\ Goto("joinController", "crashed")
     /\ UNCHANGED <<serverVars, coreVars>>

\* AgentController::Join waits only when its socket is valid.
JoinAgents ==
  Join("joinAgents", "destroyControl",
       WhenStarted({"agentStream"} \cup (IF agentSocket THEN {"agentControl"} ELSE {})))

DestroyAll(components) ==
  state' = [c \in Components |-> IF c \in components THEN "destroyed" ELSE state[c]]

\* controller.Destroy(), agent_manager.Destroy() and recorder.Destroy().
DestroyControl ==
  /\ Goto("destroyControl", "joinFiles")
  /\ DestroyAll((IF "controller" \in flags THEN {"controller", "agentManager"} ELSE {})
                \cup (flags \cap {"recorder"}))
  /\ UNCHANGED <<serverVars, commandVars, cannot_cont, flags, sdl, agentVars, touchVars, threadVars>>

JoinFileHandler == Join("joinFiles", "destroyFiles", flags \cap {"fileHandler"})

\* file_handler.Destroy() and video_buffer.Destroy().
DestroyFileHandler ==
  /\ Goto("destroyFiles", "joinFps")
  /\ DestroyAll(flags \cap {"fileHandler", "videoBuffer"})
  /\ UNCHANGED <<serverVars, commandVars, cannot_cont, flags, sdl, agentVars, touchVars, threadVars>>

JoinFpsCounter == Join("joinFps", "destroyFps", flags \cap {"fpsCounter"})

DestroyFpsCounter ==
  /\ Goto("destroyFps", "restoreTouches")
  /\ DestroyAll(flags \cap {"fpsCounter"})
  /\ UNCHANGED <<serverVars, commandVars, cannot_cont, flags, sdl, agentVars, touchVars, threadVars>>

\* One more adb process, run and waited for; its result is ignored.
RestoreTouches ==
  /\ Goto("restoreTouches", "returned")
  /\ touches' = 0
  /\ IF options.show_touches
     THEN \E result \in Results :
            /\ touchesOn' = (touchesOn /\ result # "done")
            /\ kept' = (result # "done")
     ELSE UNCHANGED <<touchesOn, kept>>
  /\ UNCHANGED <<serverVars, coreLocals, agentVars, threadVars>>

----------------------------------------------------------------------------
(* The threads, seen from the main thread: what makes each of them end.     *)

Over == pc \in {"exited", "returned", "crashed"}

Ends(thread) == thread \in running /\ running' = running \ {thread}


\* At the end of the stream, on an error, and once the socket is shut down.
StreamEnds ==
  /\ Ends("stream")
  /\ streamStopped' = TRUE
  /\ UNCHANGED <<pc, serverVars, coreLocals, agentVars, touchVars, told, noThread, blame>>

\* With a decoder or a recorder whose Init failed, the thread may crash.
StreamCrashes ==
  /\ "stream" \in running
  /\ "failed" \in {state["videoBuffer"], state["recorder"], state["fpsCounter"]}
  /\ pc' = "crashed"
  /\ UNCHANGED <<serverVars, coreVars>>

\* A failed send ends the controller's thread, a closed socket the receiver's.
ControllerEnds ==
  /\ \E t \in {"controller", "receiver"} : Ends(t)
  /\ UNCHANGED <<pc, serverVars, coreLocals, agentVars, touchVars, told, streamStopped, noThread, blame>>

\* The others end when they are told to; the agents' control threads are not
\* told anything while they read from a client.
ToldThreadEnds ==
  /\ \E t \in told \ {"controller", "receiver"} : Ends(t) /\ (t = "agentControl" => ~agentSocket)
  /\ UNCHANGED <<pc, serverVars, coreLocals, agentVars, touchVars, told, streamStopped, noThread, blame>>

ClientConnects ==
  /\ agentListens /\ "agentControl" \in running /\ ~agentSocket
  /\ agentSocket' = TRUE
  /\ UNCHANGED <<pc, serverVars, coreLocals, agentListens, touchVars, threadVars>>

ClientLeaves ==
  /\ agentSocket /\ "agentControl" \in running
  /\ agentSocket' = FALSE
  /\ UNCHANGED <<pc, serverVars, coreLocals, agentListens, touchVars, threadVars>>

\* A client's message goes to the controller, whose mutex is locked whether
\* there is a controller or not; and some messages, or the reset of a
\* connection, end the program in any case (AgentController).
ClientEndsProgram ==
  /\ agentSocket /\ "agentControl" \in running
  /\ pc' = "crashed"
  /\ blame' = "client"
  /\ UNCHANGED <<serverVars, coreLocals, agentVars, touchVars, running, told, streamStopped, noThread>>

----------------------------------------------------------------------------
\* What the main thread does by itself; accept and connect may wait for ever.
MainStep ==
  \/ RunMain \/ ServerStart \/ EnableShowTouches \/ InitAgents \/ InitSDL \/ FinishConnection
  \/ ReadInfo \/ InitDisplay \/ InitRecorder \/ StartStream \/ StartAgents
  \/ InitController \/ StartController \/ OpenWindow \/ TurnScreenOff \/ WaitShowTouches
  \/ StartHeadless \/ LeaveLoop \/ StopControl \/ StopOthers \/ StopServer
  \/ JoinStream \/ JoinController \/ JoinAgents \/ DestroyControl \/ JoinFileHandler
  \/ DestroyFileHandler \/ JoinFpsCounter \/ DestroyFpsCounter \/ RestoreTouches

ThreadStep == StreamEnds \/ StreamCrashes \/ ControllerEnds \/ ToldThreadEnds

Environment ==
  \/ ParseArgs \/ ConnectTo \/ UserStartsFpsCounter \/ UserDropsFile \/ UserTouches
  \/ HandleOpenCVFrame \/ UserQuits
  \/ (ServerDies /\ UNCHANGED coreVars)
  \/ ClientConnects \/ ClientLeaves \/ ClientEndsProgram

Finished == Over /\ UNCHANGED vars

Next ==
  \/ ~Over /\ (MainStep \/ ThreadStep \/ Environment)
  \/ Finished

Spec == Init /\ [][Next]_vars

\* The main thread runs; a thread ends once nothing can hold it: the stream's
\* when its socket is closed, the receiver's and the controller's likewise once
\* they are stopped, the others when they are told.  An agent's client may stay
\* for ever; FairSpec assumes that it leaves.
Fairness ==
  /\ WF_vars(~Over /\ MainStep)
  /\ WF_vars(~Over /\ video_socket # "video" /\ StreamEnds)
  /\ WF_vars(~Over /\ control_socket # "control" /\ "controller" \in told /\ ControllerEnds)
  /\ WF_vars(~Over /\ ToldThreadEnds)
  /\ WF_vars(~Over /\ ~agentListens /\ ClientLeaves)

FairSpec == Spec /\ Fairness
----------------------------------------------------------------------------
\* Whatever failed on the way, when Start returns the device is as it was: the
\* server is killed and waited for, the tunnel is removed, the sockets are
\* closed and the touches are hidden.  Unless an agents' port was taken: then
\* Start returns at irobot_core.cpp:141 and undoes nothing; and unless adb itself
\* fails to remove the tunnel or to hide the touches, which is ignored and not
\* tried again (device_server.cpp:313-314, irobot_core.cpp:359-360).
NothingLeftBehind ==
  pc = "returned" /\ state["agentManager"] # "failed" =>
    /\ process \in {"none", "reaped"}
    /\ tunnel = "none" \/ stuck
    /\ open = {}
    /\ touches = 0 /\ (touchesOn => kept)

\* With any command line that ParseArgs accepts, the program crashes only after
\* a step of Start has failed, or because of an agent's client: no step uses
\* what an option left out.  Unless there is no display: then the images and
\* messages of the agents (agent_manager.cpp:86, 229), and with --headless the
\* frame rate counter (irobot_core.cpp:280), lock a mutex that does not exist;
\* and unless a finger touches the window with --no-control, where the touch
\* locks the mutex of a controller that does not exist (input_manager.cpp:619-623).
CrashesOnlyAfterFailure ==
  pc = "crashed" =>
    \/ cannot_cont \/ {"failed", "undone"} \cap {state[c] : c \in Components} # {}
    \/ blame = "client" \/ (blame = "finger" /\ ~options.control)
    \/ ~options.display

\* What a thread uses: mutexes, frames, queues.
Uses(thread) ==
  CASE thread = "stream" -> {"videoBuffer", "fpsCounter", "recorder"}
    [] thread \in {"controller", "receiver"} -> {"controller"}
    [] thread = "agentStream" -> {"agentManager"}
    [] OTHER -> {thread}

\* Nothing is destroyed while a thread still uses it (the order of the
\* shutdown, irobot_core.cpp:303-346).  The agents' control threads are left
\* out: AgentController::Join does not wait for them when no client is there.
UsersJoinedFirst ==
  \A t \in running \ {"agentControl"}, c \in Components :
    state[c] = "destroyed" => c \notin Uses(t)


\* Once the event loop is left, Start returns: every thread that is joined was
\* told to end, or lost its socket, before.
QuitTerminates == pc = "stop" ~> Over
============================================================================
