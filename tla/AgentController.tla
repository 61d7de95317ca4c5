--------------------------- MODULE AgentController ---------------------------
(***************************************************************************)
(* The control connection of an agent (agent_controller.cpp): a thread     *)
(* that accepts clients, one at a time, and acts on the documents they     *)
(* send; a thread that waits for messages to send back, of which there are *)
(* none; the main thread, which records inputs (EventRecorder) and quits.  *)
(*                                                                         *)
(* A document travels in two halves.  recv returns any part of what has    *)
(* arrived, and only a part that is exactly one document is JSON.  What    *)
(* ProcessMessages consumes is all or nothing, so that head is always 0.   *)
(***************************************************************************)
EXTENDS EventRecorder

CONSTANTS
  Clients, NoClient,
  MaxDocuments,    \* bound: documents that the clients send
  MaxToggles,      \* bound: how often the user presses Ctrl+e
  MaxPushes        \* bound: inputs of the user

ASSUME AgentControllerAssumption ==
  /\ NoClient \notin Clients
  /\ {MaxDocuments, MaxToggles, MaxPushes} \subseteq Nat
  /\ MaxDocuments + MaxToggles <= MaxFiles

VARIABLES
  session,          \* which of three sorts of sessions this is, for the bounds
  mainPc, agentPc, recorderPc,
  control_socket,   \* the client it is connected to
  listens,          \* control_server_socket is open
  stopped,
  backlog,          \* the clients that wait for accept
  client,           \* what each client is about
  stream,           \* the halves that each sent and nobody received
  buf, r,           \* what recv wrote and returned
  documents, toggles, pushes,   \* counters for the bounds
  alone,            \* history: recv always returned one whole document
  meant,            \* history: the documents received that are for the device
  unfit,            \* history: an unfit document was received
  pushed,           \* history: the messages that were passed to the controller
  wasReset          \* history: a client reset its connection

agentVars == <<agentPc, control_socket, buf, r>>
peerVars == <<backlog, client, stream, documents>>
mainVars == <<session, mainPc, listens, stopped, toggles, pushes>>
agentHistory == <<alone, meant, unfit, pushed, wasReset>>
vars == <<recorderVars, agentVars, peerVars, mainVars, recorderPc, agentHistory>>

\* A finger whose identifier is out of an int's range; on some systems they are.  Its
\* pressure is not read back as it was.
FarFinger == Touch(IntModulus + 5, 3 * FloatStep)

\* The user's inputs, with a body and without.
UserMessages == {Text(TooLong), Plain("ROTATE_DEVICE")}

Recording == {Object("START_RECORDING", NoBody), Object("END_RECORDING", NoBody)}

\* What a client sends: messages of a recording, its own, and others.
Replayed ==
  {JsonSerialize(Touch(POINTER_ID_MOUSE, One)), JsonSerialize(FarFinger), JsonSerialize(Text(Quoted)),
   Object("INJECT_TEXT", NoBody)}

Strange ==
  {Array, Object(Absent, NoBody), JsonSerialize(Plain("ROTATE_DEVICE")), Object("SET_CLIPBOARD", NoBody),
   Object("INJECT_TEXT", Text("plain")), Object("INJECT_TEXT", Partial),
   Object("INJECT_KEYCODE", NoBody), Object("INJECT_SCROLL_EVENT", Partial),
   Object("INJECT_TOUCH_EVENT", Touch(POINTER_ID_MOUSE, 2 * One))}

\* What makes a document unfit: it is no object, has no type, or lacks some of its
\* body; it is a text, which Destroy frees before the controller sends it
\* (agent_controller.cpp:108) or which is null, and always null for the clipboard; or a
\* pressure is none.
Unfit(doc) ==
  \/ doc.json = "array"
  \/ /\ doc.json = "object"
     /\ \/ doc.msg_type \in {Absent, "INJECT_TEXT", "SET_CLIPBOARD"}
        \/ doc.msg_type \in WithBody /\ doc.body \in {NoBody, Partial}
        \/ doc.msg_type = "INJECT_TOUCH_EVENT" /\ doc.body.pressure \notin 0..One

\* In one sort of sessions agents come and go; in the others there is one.  In the
\* third it records, in whole documents, and the user does so too.
Documents ==
  CASE session = "agents" -> Replayed
    [] session = "stranger" -> Strange
    [] session = "user" -> Recording

Halves(doc) == <<<<doc, 1>>, <<doc, 2>>>>

Init ==
  /\ RecorderInit
  /\ session \in {"agents", "stranger", "user"}
  /\ mainPc = "start" /\ agentPc = "unborn" /\ recorderPc = "unborn"
  /\ control_socket = NoClient
  /\ listens = TRUE
  /\ stopped = FALSE
  /\ backlog = <<>>
  /\ client = [c \in Clients |-> "away"]
  /\ stream = [c \in Clients |-> <<>>]
  /\ buf = <<>> /\ r = 0
  /\ documents = 0 /\ toggles = 0 /\ pushes = 0
  /\ alone = TRUE
  /\ meant = <<>> /\ unfit = FALSE
  /\ pushed = <<>>
  /\ wasReset = FALSE

----------------------------------------------------------------------------
(* The clients. *)

Connect(c) ==
  /\ listens /\ client[c] = "away"
  /\ session # "agents" => c = CHOOSE d \in Clients : TRUE
  /\ client' = [client EXCEPT ![c] = "here"]
  /\ backlog' = Append(backlog, c)
  /\ UNCHANGED <<recorderVars, agentVars, stream, documents, mainVars, recorderPc, agentHistory>>

Send(c) ==
  /\ client[c] = "here" /\ documents < MaxDocuments
  /\ documents' = documents + 1
  /\ \E doc \in Documents : stream' = [stream EXCEPT ![c] = @ \o Halves(doc)]
  /\ UNCHANGED <<recorderVars, agentVars, backlog, client, mainVars, recorderPc, agentHistory>>

\* It may leave in the middle of a document.
Leave(c) ==
  /\ client[c] = "here"
  /\ client' = [client EXCEPT ![c] = "left"]
  /\ \/ UNCHANGED <<stream, documents>>
     \/ /\ session = "agents" /\ documents < MaxDocuments
        /\ documents' = documents + 1
        /\ stream' = [stream EXCEPT ![c] = Append(@, Halves(Garbage)[1])]
  /\ UNCHANGED <<recorderVars, agentVars, backlog, mainVars, recorderPc, agentHistory>>

\* What it sent may be lost.
Reset(c) ==
  /\ session = "agents" /\ client[c] = "here" /\ control_socket = c
  /\ client' = [client EXCEPT ![c] = "reset"]
  /\ stream' \in {stream, [stream EXCEPT ![c] = <<>>]}
  /\ wasReset' = TRUE
  /\ UNCHANGED <<recorderVars, agentVars, backlog, documents, mainVars, recorderPc, alone, meant, unfit,
                 pushed>>

----------------------------------------------------------------------------
(* The agent controller's thread. *)

\* net_accept; after a reconnection the thread goes on with the length that
\* the failed recv returned.
Accept ==
  /\ agentPc \in {"accept", "accept again"}
  /\ backlog # <<>>
  /\ control_socket' = Head(backlog)
  /\ backlog' = Tail(backlog)
  /\ agentPc' = IF agentPc = "accept" THEN "loop" ELSE "process"
  /\ UNCHANGED <<recorderVars, buf, r, client, stream, documents, mainVars, recorderPc, agentHistory>>

AcceptFails ==
  /\ agentPc \in {"accept", "accept again"}
  /\ ~listens
  /\ agentPc' = "ended"
  /\ UNCHANGED <<recorderVars, control_socket, buf, r, peerVars, mainVars, recorderPc, agentHistory>>

TestStopped ==
  /\ agentPc = "loop"
  /\ agentPc' = IF stopped THEN "ended" ELSE "receive"
  /\ UNCHANGED <<recorderVars, control_socket, buf, r, peerVars, mainVars, recorderPc, agentHistory>>

IsDocument(halves) == Len(halves) = 2 /\ halves = Halves(halves[1][1])

\* Whether a document tells the device something.
ForDevice(doc) ==
  /\ doc.json = "object"
  /\ doc.msg_type \in Known \ {"START_RECORDING", "END_RECORDING"}
  /\ doc.msg_type \in WithBody => doc.body # Partial /\ (doc.body # NoBody \/ doc.msg_type = "INJECT_TEXT")

Receive ==
  /\ agentPc = "receive"
  /\ \E n \in 1..Len(stream[control_socket]) :
       /\ session = "user" => n = 2
       /\ r' = n
       /\ buf' = SubSeq(stream[control_socket], 1, n)
       /\ stream' = [stream EXCEPT ![control_socket] = SubSeq(@, n + 1, Len(@))]
       /\ alone' = (alone /\ IsDocument(buf'))
       /\ meant' = IF IsDocument(buf') /\ ForDevice(buf'[1][1]) THEN Append(meant, buf'[1][1]) ELSE meant
       /\ unfit' = (unfit \/ (IsDocument(buf') /\ Unfit(buf'[1][1])))
  /\ agentPc' = "process"
  /\ UNCHANGED <<recorderVars, control_socket, backlog, client, documents, mainVars, recorderPc,
                 pushed, wasReset>>

BugReceiveFails ==   \* a bug: the thread ends when its client is lost
  /\ agentPc = "receive"
  /\ stream[control_socket] = <<>> /\ client[control_socket] # "here"
  /\ r' = IF client[control_socket] = "left" THEN 0 ELSE -1
  /\ agentPc' = "ended"
  /\ control_socket' = NoClient
  /\ UNCHANGED <<recorderVars, buf, peerVars, mainVars, recorderPc, agentHistory>>

\* recv returns 0 or -1; WaitForClientConnection closes the socket first.
ReceiveFails ==
  /\ agentPc = "receive"
  /\ stream[control_socket] = <<>> /\ client[control_socket] # "here"
  /\ r' = IF client[control_socket] = "left" THEN 0 ELSE -1
  /\ agentPc' = "accept again"
  /\ control_socket' = NoClient
  /\ UNCHANGED <<recorderVars, buf, peerVars, mainVars, recorderPc, agentHistory>>

\* ProcessMessages is given r as a size_t; a length of -1 is refused by the
\* constructor of std::string, which throws.
Message ==
  CASE r = -1 -> Thrown
    [] r >= 0 /\ ~(r > 0 /\ IsDocument(buf)) -> Nothing
    [] r > 0 /\ IsDocument(buf) -> JsonDeserialize(buf[1][1])

ProcessMessages ==
  /\ agentPc = "process"
  /\ agentPc' = IF Message.type \in {"START_RECORDING", "END_RECORDING"} THEN "record" ELSE "loop"
  /\ CASE Message = Thrown ->
            crashed' = TRUE /\ UNCHANGED <<pushed, fileVars, disk, doing, pushing, recorderHistory>>
       [] Message = Nothing -> UNCHANGED <<pushed, recorderVars>>
       [] Message.type = "START_RECORDING" -> StartRecordEvents("agent") /\ UNCHANGED pushed
       [] Message.type = "END_RECORDING" -> StopRecordEvents("agent") /\ UNCHANGED pushed
       [] OTHER -> pushed' = Append(pushed, Message) /\ UNCHANGED recorderVars
  /\ UNCHANGED <<control_socket, buf, r, peerVars, mainVars, recorderPc, alone, meant, unfit,
                 wasReset>>

Recorded ==
  /\ agentPc = "record" /\ doing["agent"] = "idle"
  /\ agentPc' = "loop"
  /\ UNCHANGED <<recorderVars, control_socket, buf, r, peerVars, mainVars, recorderPc, agentHistory>>

AgentRecords ==
  /\ RecorderStep("agent")
  /\ UNCHANGED <<agentVars, peerVars, mainVars, recorderPc, agentHistory>>

\* What the controller cannot serialise: a text that is null or was freed, whose length
\* it takes, and a pressure of which it asserts that it is one.
Fatal(msg) ==
  \/ msg.type \in {"INJECT_TEXT", "SET_CLIPBOARD"}
  \/ msg.type = "INJECT_TOUCH_EVENT" /\ msg.pressure \notin 0..One

\* The controller's thread serialises what was pushed (Controller).
SerializePushed ==
  /\ \E i \in DOMAIN pushed : Fatal(pushed[i])
  /\ crashed' = TRUE
  /\ UNCHANGED <<fileVars, disk, doing, pushing, recorderHistory, agentVars, peerVars, mainVars, recorderPc,
                 agentHistory>>

AgentThread == Accept \/ AcceptFails \/ TestStopped \/ Receive \/ ReceiveFails
               \/ ProcessMessages \/ Recorded \/ AgentRecords

----------------------------------------------------------------------------
(* The agent recorder's thread: nothing is ever put into its queue. *)

RunAgentRecorder ==
  /\ recorderPc = "waiting" /\ stopped
  /\ recorderPc' = "ended"
  /\ UNCHANGED <<recorderVars, agentVars, peerVars, mainVars, agentHistory>>

----------------------------------------------------------------------------
(* The main thread. *)

\* Either thread may not be created; then the program does not get as far as
\* to stop what was started (IRobotCore).
StartThreads ==
  /\ mainPc = "start"
  /\ \/ mainPc' = "loop" /\ agentPc' = "accept" /\ recorderPc' = "waiting"
     \/ mainPc' = "left" /\ agentPc' \in {"unborn", "accept"} /\ UNCHANGED recorderPc
  /\ UNCHANGED <<recorderVars, control_socket, buf, r, peerVars, session, listens, stopped, toggles, pushes,
                 agentHistory>>

UserToggles ==
  /\ mainPc = "loop" /\ session = "user" /\ toggles < MaxToggles
  /\ ToggleRecording
  /\ toggles' = toggles + 1
  /\ UNCHANGED <<agentVars, peerVars, mainPc, session, listens, stopped, pushes, recorderPc, agentHistory>>

UserPushes ==
  /\ mainPc = "loop" /\ session = "user" /\ pushes < MaxPushes
  /\ \E msg \in UserMessages : PushInput(msg)
  /\ pushes' = pushes + 1
  /\ UNCHANGED <<agentVars, peerVars, mainPc, session, listens, stopped, toggles, recorderPc, agentHistory>>

MainRecords ==
  /\ RecorderStep("main")
  /\ UNCHANGED <<agentVars, peerVars, mainVars, recorderPc, agentHistory>>

UserQuits ==
  /\ mainPc = "loop" /\ doing["main"] = "idle"
  /\ mainPc' = "close"
  /\ UNCHANGED <<recorderVars, agentVars, peerVars, session, listens, stopped, toggles, pushes, recorderPc,
                 agentHistory>>

BugCloseServer ==   \* a bug: the server socket is left open
  /\ mainPc = "close" /\ mainPc' = "stop"
  /\ UNCHANGED <<recorderVars, agentVars, peerVars, session, listens, stopped, toggles, pushes, recorderPc,
                 agentHistory>>

\* AgentManager::Stop.  The clients that were not accepted are refused.
CloseServer ==
  /\ mainPc = "close" /\ mainPc' = "stop"
  /\ listens' = FALSE
  /\ backlog' = <<>>
  /\ UNCHANGED <<recorderVars, agentVars, client, stream, documents, session, stopped, toggles, pushes,
                 recorderPc, agentHistory>>

Stop ==
  /\ mainPc = "stop" /\ mainPc' = "join"
  /\ stopped' = TRUE
  /\ UNCHANGED <<recorderVars, agentVars, peerVars, session, listens, toggles, pushes, recorderPc, agentHistory>>

\* Join waits for both threads if a client is there, for none otherwise.
Join ==
  /\ \/ mainPc = "join" /\ mainPc' = IF control_socket = NoClient THEN "left" ELSE "wait"
     \/ mainPc = "wait" /\ agentPc = "ended" /\ recorderPc = "ended" /\ mainPc' = "left"
  /\ UNCHANGED <<recorderVars, agentVars, peerVars, session, listens, stopped, toggles, pushes, recorderPc,
                 agentHistory>>

\* The program ends, and with it the agent's thread, wherever it is.
Exit ==
  /\ mainPc = "left" /\ mainPc' = "exited"
  /\ FlushFiles
  /\ UNCHANGED <<agentVars, peerVars, session, listens, stopped, toggles, pushes, recorderPc, agentHistory>>

MainThread == StartThreads \/ MainRecords \/ CloseServer \/ Stop \/ Join \/ Exit
User == UserToggles \/ UserPushes \/ UserQuits

Peers == \E c \in Clients : Connect(c) \/ Send(c) \/ Leave(c) \/ Reset(c)

Over == crashed \/ mainPc = "exited"

Finished == Over /\ UNCHANGED vars

Next ==
  \/ ~Over /\ (AgentThread \/ SerializePushed \/ RunAgentRecorder \/ MainThread \/ User \/ Peers)
  \/ Finished

Spec == Init /\ [][Next]_vars

\* The threads run.  Nothing shuts a client's socket down, so that an agent
\* that stays connected holds up the join: FairSpec assumes that it leaves.
Fairness ==
  /\ WF_vars(~Over /\ AgentThread)
  /\ WF_vars(~Over /\ RunAgentRecorder)
  /\ WF_vars(~Over /\ MainThread)
  /\ \A c \in Clients : WF_vars(~Over /\ Leave(c))

FairSpec == Spec /\ Fairness
----------------------------------------------------------------------------
\* The program ends in a crash only for one of these reasons: the two threads
\* used fp_events at the same time, the file could not be opened, a client asked
\* for the end of a recording when there was none, it sent an unfit document, it
\* reset its connection and another connected, or a text that does not fit into
\* temp[256] was recorded (control_msg.cpp:78, 118).  In particular, half a document
\* does no harm, nor a client that leaves and comes back, although ProcessMessages is
\* then called with the length of the recv that failed
\* (agent_controller.cpp:157-165), and Ctrl+e never closes a file twice.
CrashesForAReason ==
  crashed =>
    \/ raced \/ noFile \/ misused \/ wasReset \/ unfit
    \/ \E f \in Files : \E i \in DOMAIN inputs[f] : inputs[f][i] = Text(TooLong)

\* What a document for the device tells it; a pressure is rounded to a float.
Meant(doc) ==
  CASE doc.body = NoBody -> Plain(doc.msg_type)
    [] doc.msg_type = "INJECT_TOUCH_EVENT" /\ doc.body # NoBody ->
         [doc.body EXCEPT !.pressure = Nearest(@, FloatStep)]
    [] doc.msg_type # "INJECT_TOUCH_EVENT" /\ doc.body # NoBody -> doc.body

\* While each recv returns one whole document, which is what an agent gets that
\* waits between them, the device is told what they say, all of it and in
\* order, across reconnections: except for the identifier of a finger that an int
\* does not hold, and for texts that are not there
\* (agent_controller.cpp:96-115, control_msg.cpp:217-357).
ActedWhenAlone ==
  LET late == IF agentPc = "process" /\ r > 0 /\ ForDevice(buf[1][1]) THEN 1 ELSE 0 IN
  alone /\ ~crashed =>
    /\ Len(pushed) = Len(meant) - late
    /\ \A i \in DOMAIN pushed :
         \/ pushed[i] = Meant(meant[i])
         \/ meant[i] = JsonSerialize(FarFinger) /\ pushed[i].pressure = Meant(meant[i]).pressure
         \/ meant[i].msg_type = "INJECT_TEXT" /\ pushed[i] = Text(NullText)

\* A client that connects is accepted, even though the one before it left in
\* the middle of a document (agent_controller.cpp:157-163).
ClientsServed ==
  \A c \in Clients :
    (\E i \in DOMAIN backlog : backlog[i] = c) /\ agentPc # "unborn"
      ~> (control_socket = c \/ mainPc \notin {"start", "loop"} \/ crashed)

\* Once the user quits, the join returns: the thread is in recv, in accept or
\* at a document, and each of these ends (agent_manager.cpp:47-56).
StopTerminates == mainPc = "close" ~> Over
============================================================================
