--------------------------- MODULE UserInterface ---------------------------
(***************************************************************************)
(* The main thread of a program with a window: the event loop and the      *)
(* handlers of src/ui/input_manager.cpp, with the Screen they resize and   *)
(* the FpsCounter they switch, up to the end of the counter's thread.      *)
(*                                                                         *)
(* A gesture of the user puts events into SDL's queue.  The handler of an  *)
(* event is one step, or one per point where another thread can interfere. *)
(* What is sent to the device is abstracted to what the user did: keycode, *)
(* position and button are left out.  So are the key events on which no    *)
(* handler here acts: repeats and releases of the window's shortcuts, keys *)
(* with Alt or Meta, and the two shortcuts of the agent manager, Ctrl+e    *)
(* and Ctrl+k.                                                             *)
(***************************************************************************)
EXTENDS Screen, FpsCounter

CONSTANTS
  MaxWindowGestures,    \* bounds: what the user does, by session
  MaxDeviceGestures,
  MaxCounterGestures,
  MaxWindowFrames,      \* bounds: frames the decoder offers, by session
  MaxCounterFrames

ASSUME UserInterfaceAssumption ==
  /\ MaxWindowGestures \in Nat
  /\ MaxDeviceGestures \in Nat
  /\ MaxCounterGestures \in Nat
  /\ MaxWindowFrames \in Nat
  /\ MaxCounterFrames \in Nat

VARIABLES
  session,       \* what the user is interested in
  control,       \* the option --no-control is not given
  prefer_text,   \* the option --prefer-text
  mainPc,        \* where the main thread is
  streamPc,      \* where the stream thread is: it counts a skipped frame, or not
  gestures,      \* gestures so far
  frames,        \* frames offered so far
  owed,          \* history: inputs meant for the device, not yet sent
  strayed,       \* history: an input was sent that was not the next one owed
  abortedBy      \* history: the type of the event whose handler aborted

inputOptions == <<session, control, prefer_text>>
inputVars == <<owed, strayed, abortedBy>>
outside == <<inputOptions, streamPc, gestures, frames>>
userInterfaceVars == <<screenVars, events, fpsVars, outside, mainPc, inputVars>>

Event(type, what) == [type |-> type, what |-> what]

NewFrame == Event("EVENT_NEW_FRAME", "frame")
StopEvent == Event("SDL_QUIT", "quit")      \* or EVENT_STREAM_STOPPED

Characters == {"letter", "digit", "word"}   \* a word comes from an input method
DeviceKeys == {"Enter", "Ctrl+h"}           \* a special key; a shortcut that is sent
WindowKeys == {"Ctrl+f", "Ctrl+x", "Ctrl+g"}
CounterKey == "Ctrl+i"
TouchMouse == "SDL_TOUCH_MOUSEID"           \* the mouse SDL derives from a touch
Hover == "hover"
Outside == "double click outside"           \* on the black borders
Nothing == "nothing"

\* The window, the inputs for the device and the counter share only the main
\* thread's time: a session explores one of them, so that each can be explored
\* further.  What a session is not about starts in one way.
PlainWindow ==
  /\ frame_size = Size(FrameWidth, FrameHeight)
  /\ normalSize = frame_size

PlainOptions == control /\ ~prefer_text

UserInterfaceInit ==
  /\ ScreenInit
  /\ FpsInit
  /\ control \in BOOLEAN
  /\ prefer_text \in BOOLEAN
  /\ session \in {"window", "device", "counter"}
  /\ session # "window" => PlainWindow
  /\ session # "device" => PlainOptions
  /\ mainPc = "poll"
  /\ streamPc = "receive"
  /\ gestures = 0
  /\ frames = 0
  /\ owed = <<>>
  /\ strayed = FALSE
  /\ abortedBy = Nothing

----------------------------------------------------------------------------
(* Which events are sent to the device: ProcessKey, ProcessTextInput,      *)
(* the three ProcessMouse..., and ProcessTouch.                            *)

KeyEvents == {"SDL_KEYDOWN", "SDL_KEYUP"}
ButtonEvents == {"SDL_MOUSEBUTTONDOWN", "SDL_MOUSEBUTTONUP"}
FingerEvents == {"SDL_FINGERDOWN", "SDL_FINGERUP"}

\* Events that go on with, or end, what another one began.
Continuations == {"SDL_KEYUP", "SDL_MOUSEBUTTONUP", "SDL_MOUSEMOTION", "SDL_FINGERUP"}

BugConvertKeycode(key) == key \in {"Enter", "letter"}   \* a bug: without prefer_text

\* The keys that are sent as keys.
ConvertKeycode(key) == key = "Enter" \/ (key = "letter" /\ ~prefer_text)

KeyIsSent(e) ==
  e.type \in KeyEvents /\ control /\ (e.what = "Ctrl+h" \/ ConvertKeycode(e.what))

\* A text that begins with a letter is left to the key, and asserted to be one.
TextIsSent(e) ==
  e.type = "SDL_TEXTINPUT" /\ control /\ (prefer_text \/ e.what \notin {"letter", "word"})

TextAsserts(e) ==
  e.type = "SDL_TEXTINPUT" /\ control /\ ~prefer_text /\ e.what = "word"

\* The mouse that SDL derives from a touch is a duplicate; without a button a
\* motion is of no interest.
MouseIsSent(e) ==
  e.type \in ButtonEvents \cup {"SDL_MOUSEMOTION", "SDL_MOUSEWHEEL"} /\ control
    /\ e.what \notin {Hover, TouchMouse} /\ e # Event("SDL_MOUSEBUTTONDOWN", Outside)

\* Nothing tests control on the way of a touch.
TouchIsSent(e) == e.type \in FingerEvents

IsSent(e) == KeyIsSent(e) \/ TextIsSent(e) \/ MouseIsSent(e) \/ TouchIsSent(e)

\* Events that change the window, the counter or the program instead.
IsForWindow(e) ==
  \/ e.type \in {"SDL_WINDOWEVENT", "EVENT_NEW_FRAME"}
  \/ e.what \in WindowKeys \cup {CounterKey}
  \/ e = Event("SDL_MOUSEBUTTONDOWN", Outside)
  \/ e = StopEvent

----------------------------------------------------------------------------
(* The event loop. *)

MainGoto(from, to) ==
  /\ mainPc = from
  /\ mainPc' = to
  /\ UNCHANGED outside

\* The handler of the oldest event, e, begins; it is over at "poll".
Handle(e, to) ==
  /\ events # <<>>
  /\ Head(events) = e
  /\ MainGoto("poll", to)

TakeEvent == events' = Tail(events)

Drop(e) ==
  /\ ~IsSent(e) /\ ~IsForWindow(e) /\ ~TextAsserts(e)
  /\ Handle(e, "poll")
  /\ TakeEvent
  /\ UNCHANGED <<screenVars, fpsVars, inputVars>>

\* PushDeviceControlMessage.  Whether the controller takes the message or its
\* queue is full, the handler is done with it.
Send(e) ==
  /\ IsSent(e) /\ control
  /\ Handle(e, "poll")
  /\ TakeEvent
  /\ IF e.type \in Continuations THEN UNCHANGED <<owed, strayed>>
     ELSE IF owed # <<>> /\ Head(owed) = e.what
     THEN owed' = Tail(owed) /\ UNCHANGED strayed
     ELSE strayed' = TRUE /\ UNCHANGED owed
  /\ UNCHANGED <<screenVars, fpsVars, abortedBy>>

\* An assertion fails, or the mutex of a controller that was never initialised
\* is locked: both abort.
Abort(e) ==
  /\ TextAsserts(e) \/ (IsSent(e) /\ ~control) \/ (e = Maximized /\ ~BackupIsSet)
  /\ Handle(e, "aborted")
  /\ abortedBy' = e.type
  /\ UNCHANGED <<screenVars, events, fpsVars, owed, strayed>>

----------------------------------------------------------------------------
(* HandleEvent: the window. *)

HandleWindowEvent ==
  /\ \/ Handle(SizeChanged, "poll") /\ HandleSizeChanged
     \/ Handle(Maximized, "poll") /\ HandleMaximized
     \/ Handle(Restored, "poll") /\ HandleRestored
  /\ UNCHANGED <<fpsVars, inputVars>>

Key(k) == Event("SDL_KEYDOWN", k)

ProcessWindowKey ==
  /\ \/ Handle(Key("Ctrl+f"), "poll") /\ SwitchFullscreen
     \/ Handle(Key("Ctrl+x"), "poll") /\ ResizeToFit
     \/ Handle(Key("Ctrl+g"), "poll") /\ ResizeToPixelPerfect
     \/ Handle(Event("SDL_MOUSEBUTTONDOWN", Outside), "poll") /\ ResizeToFit
  /\ UNCHANGED <<fpsVars, inputVars>>

----------------------------------------------------------------------------
(* EVENT_NEW_FRAME: the frame is counted, then the screen prepared for it. *)

\* The mutex of the video buffer: UpdateFrame and OfferDecodedFrame hold it.
BufferFreeForMain == streamPc = "receive"
BufferFreeForStream == mainPc \notin {"count", "prepare"}

\* AddRenderedFrame tests started, which only this thread writes.
HandleNewFrame ==
  /\ BufferFreeForMain
  /\ Handle(NewFrame, IF started THEN "count" ELSE "prepare")
  /\ TakeEvent
  /\ UNCHANGED <<screenVars, fpsVars, inputVars>>

CountRenderedFrame ==
  /\ MainGoto("count", "prepare")
  /\ AddRenderedFrame
  /\ UNCHANGED <<screenVars, events, inputVars>>

\* PrepareForFrame, with whatever size the frame has.
PrepareForFrame ==
  /\ MainGoto("prepare", "poll")
  /\ \E size \in FrameSizes :
       \/ SameSize(size)
       \/ LogicalSizeFails(size)
       \/ \E bounds \in DisplayBounds : ResizeForFrame(size, bounds)
  /\ UNCHANGED <<fpsVars, inputVars>>

----------------------------------------------------------------------------
(* SwitchFpsCounterState. *)

SwitchFpsCounter ==
  /\ Handle(Key(CounterKey), IF started THEN "clearStarted" ELSE "reset")
  /\ TakeEvent
  /\ UNCHANGED <<screenVars, fpsVars, inputVars>>

\* A step of Start or Stop of the counter.
FpsCall(from, to, Step) ==
  /\ MainGoto(from, to)
  /\ Step
  /\ UNCHANGED <<screenVars, events, inputVars>>

StartCounter ==
  \/ FpsCall("reset", "setStarted", StartReset)
  \/ FpsCall("setStarted", "signalStarted", SetStarted(TRUE))
  \/ FpsCall("signalStarted", IF HasThread THEN "poll" ELSE "create", SignalFps)
  \/ FpsCall("create", "poll", CreateFpsThread)

StopCounter ==
  \/ FpsCall("clearStarted", "signalStopped", SetStarted(FALSE))
  \/ FpsCall("signalStopped", "poll", SignalUnderMutex)

----------------------------------------------------------------------------
(* The end: IRobotCore::Start after the event loop. *)

StopByEvent ==
  /\ Handle(StopEvent, IF HasThread THEN "interrupt" ELSE "join")
  /\ TakeEvent
  /\ UNCHANGED <<screenVars, fpsVars, inputVars>>

InterruptFpsCounter ==
  \/ FpsCall("interrupt", "signalInterrupt", SetFpsInterrupted)
  \/ FpsCall("signalInterrupt", "join", SignalFps)

\* stream.Join(), and later fps_counter.Join().
JoinThreads ==
  /\ streamPc = "receive"
  /\ fpsPc \in {"none", "ended"}
  /\ MainGoto("join", "destroyed")
  /\ UNCHANGED <<screenVars, events, fpsVars, inputVars>>

----------------------------------------------------------------------------
(* The stream thread: Decoder::PushFrame and OfferDecodedFrame. *)

StreamGoto(from, to) ==
  /\ streamPc = from
  /\ streamPc' = to
  /\ UNCHANGED <<inputOptions, mainPc, gestures, screenVars, inputVars>>

\* A frame is announced unless the one before it still is; then it is skipped,
\* and counted if the counter was started at that moment.
OfferFrame ==
  /\ \/ session = "window" /\ frames < MaxWindowFrames
     \/ session = "counter" /\ frames < MaxCounterFrames
  /\ BufferFreeForStream
  /\ frames' = frames + 1
  /\ LET skips == NewFrame \in {events[i] : i \in DOMAIN events}
     IN  /\ StreamGoto("receive", IF skips /\ started THEN "count" ELSE "receive")
         /\ events' = IF skips THEN events ELSE Append(events, NewFrame)
  /\ UNCHANGED fpsVars

CountSkippedFrame ==
  /\ StreamGoto("count", "receive")
  /\ AddSkippedFrame
  /\ UNCHANGED <<events, frames>>

----------------------------------------------------------------------------
(* The user and the device. *)

Gesture(about, bound) ==
  /\ session = about
  /\ gestures < bound
  /\ gestures' = gestures + 1
  /\ UNCHANGED <<inputOptions, fpsVars, mainPc, streamPc, frames, strayed, abortedBy>>

\* SDL queues what it makes of a gesture; with control the device is owed it.
Queue(input, sent) ==
  /\ Gesture("device", MaxDeviceGestures)
  /\ events' = events \o sent
  /\ owed' = IF control THEN Append(owed, input) ELSE owed
  /\ UNCHANGED screenVars

Type(c) ==
  Queue(c, IF c = "word" THEN <<Event("SDL_TEXTINPUT", c)>>
           ELSE <<Key(c), Event("SDL_TEXTINPUT", c), Event("SDL_KEYUP", c)>>)

PressDeviceKey(k) == Queue(k, <<Key(k), Event("SDL_KEYUP", k)>>)

Click ==
  Queue("click", <<Event("SDL_MOUSEBUTTONDOWN", "click"), Event("SDL_MOUSEBUTTONUP", "click")>>)

Drag ==
  Queue("drag", <<Event("SDL_MOUSEMOTION", Hover), Event("SDL_MOUSEBUTTONDOWN", "drag"),
                  Event("SDL_MOUSEMOTION", "drag"), Event("SDL_MOUSEBUTTONUP", "drag")>>)

TurnWheel == Queue("wheel", <<Event("SDL_MOUSEWHEEL", "wheel")>>)

Touch ==
  Queue("touch", <<Event("SDL_FINGERDOWN", "touch"), Event("SDL_MOUSEBUTTONDOWN", TouchMouse),
                   Event("SDL_MOUSEMOTION", TouchMouse), Event("SDL_FINGERUP", "touch"), Event("SDL_MOUSEBUTTONUP", TouchMouse)>>)

PressWindowKey ==
  /\ Gesture("window", MaxWindowGestures)
  /\ \E k \in WindowKeys : events' = Append(events, Key(k))
  /\ UNCHANGED <<screenVars, owed>>

DoubleClickOutside ==
  /\ Gesture("window", MaxWindowGestures)
  /\ events' = events \o <<Event("SDL_MOUSEBUTTONDOWN", Outside),
                          Event("SDL_MOUSEBUTTONUP", Outside)>>
  /\ UNCHANGED <<screenVars, owed>>

PressCounterKey ==
  /\ Gesture("counter", MaxCounterGestures)
  /\ events' = Append(events, Key(CounterKey))
  /\ UNCHANGED <<screenVars, owed>>

ChangeWindow ==
  /\ Gesture("window", MaxWindowGestures)
  /\ UserMaximizes \/ UserRestores \/ \E w, h \in UserLengths : UserResizes(Size(w, h))
  /\ UNCHANGED owed

\* The user quits, or the stream ends.
AskToStop ==
  /\ StopEvent \notin {events[i] : i \in DOMAIN events}
  /\ events' = Append(events, StopEvent)
  /\ UNCHANGED <<screenVars, fpsVars, outside, mainPc, inputVars>>

User ==
  \/ \E c \in Characters : Type(c)
  \/ \E k \in DeviceKeys : PressDeviceKey(k)
  \/ Click \/ Drag \/ TurnWheel \/ Touch
  \/ PressWindowKey \/ DoubleClickOutside \/ ChangeWindow
  \/ PressCounterKey
  \/ AskToStop

----------------------------------------------------------------------------
HandleDeviceEvent == events # <<>> /\ LET e == Head(events) IN Drop(e) \/ Send(e) \/ Abort(e)

LoopStep ==
  \/ HandleDeviceEvent \/ HandleWindowEvent \/ ProcessWindowKey
  \/ HandleNewFrame \/ CountRenderedFrame \/ PrepareForFrame
  \/ SwitchFpsCounter \/ StartCounter \/ StopCounter
  \/ StopByEvent \/ InterruptFpsCounter \/ JoinThreads

\* The steps of the counter's thread, beside the two others.
FpsThread ==
  /\ FpsStep
  /\ UNCHANGED <<screenVars, events, outside, mainPc, inputVars>>

Time ==
  /\ session = "counter"
  /\ Tick \/ SpuriousWakeUp
  /\ UNCHANGED <<screenVars, events, outside, mainPc, inputVars>>

LoopOver == mainPc \in {"destroyed", "aborted"} \/ fpsPc = "aborted"

LoopFinished == LoopOver /\ UNCHANGED userInterfaceVars

UserInterfaceNext ==
  \/ ~LoopOver /\ (LoopStep \/ FpsThread \/ OfferFrame \/ CountSkippedFrame \/ User \/ Time)
  \/ LoopFinished

UserInterfaceSpec == UserInterfaceInit /\ [][UserInterfaceNext]_userInterfaceVars

\* The threads run when they can; the mutex of the counter is strongly fair, for
\* its thread returns to it again and again.  A wait with a timeout ends if the
\* clock goes on.
UserInterfaceFairness ==
  /\ WF_userInterfaceVars(~LoopOver /\ LoopStep)
  /\ WF_userInterfaceVars(~LoopOver /\ FpsThread)
  /\ WF_userInterfaceVars(~LoopOver /\ CountSkippedFrame)
  /\ SF_userInterfaceVars(~LoopOver /\ fpsMutexFree /\ LoopStep)
  /\ SF_userInterfaceVars(~LoopOver /\ CountSkippedFrame)
  /\ SF_userInterfaceVars(~LoopOver /\ FpsLock /\ FpsThread)

FairUserInterfaceSpec == UserInterfaceSpec /\ UserInterfaceFairness
----------------------------------------------------------------------------
TypeOK ==
  /\ ScreenTypeOK
  /\ FpsTypeOK
  /\ abortedBy # Nothing => mainPc = "aborted"

\* Every input reaches the device once and in its turn: a letter as a key or,
\* with --prefer-text, as a text, never as both; a touch without its double as a
\* mouse (input_manager.cpp:189-211, 352-384, 475-513).
InputsSentOnce ==
  /\ ~strayed
  /\ events = <<>> /\ mainPc # "aborted" => owed = <<>>

\* Without control nothing but a touch finds its way to the controller, which is
\* not there; with it a handler aborts only on a word from an input method.  The
\* size that MAXIMIZED needs is missing only in a fullscreen window, or after a
\* size of the window vanished.
AbortsOnlyAtTheEdges ==
  \/ abortedBy = Nothing
  \/ abortedBy = "SDL_TEXTINPUT" /\ control /\ ~prefer_text
  \/ abortedBy \in FingerEvents /\ ~control
  \/ abortedBy = "SDL_WINDOWEVENT" /\ (fullscreen \/ vanished)

\* Once it is stopped the program ends: the counter's thread is woken and joined,
\* wherever the interruption finds it.
QuitJoinsCounter == mainPc \in {"interrupt", "join"} ~> LoopOver

\* "Enable/disable FPS counter (on stdout)" (README.md:466): the counter that is
\* started does not sleep until it is stopped.
StartedCounterRuns == started /\ fpsPc = "asleep" ~> ~started \/ fpsPc # "asleep" \/ LoopOver
=============================================================================
