----------------------------- MODULE Controller -----------------------------
(***************************************************************************)
(* The control channel to the device: src/core/controller.cpp on top of    *)
(* src/core/actor.cpp, with its two producers, the main thread             *)
(* (AgentManager::PushDeviceControlMessage) and the agent's control thread *)
(* (AgentManager::ProcessAgentControlMessage), and its consumer,           *)
(* RunController.                                                          *)
(*                                                                         *)
(* Everything shared is accessed with the mutex held, and no critical      *)
(* section blocks except in cond_wait: a critical section is one step.     *)
(* Messages are numbered; what matters of one is whether it owns a text    *)
(* (INJECT_TEXT, SET_CLIPBOARD), which somebody has to free.               *)
(***************************************************************************)
EXTENDS CBuf

CONSTANTS
  AgentSendsText,   \* the agent's client sends messages that own a text
  MaxMessages       \* bound: messages produced

ASSUME ControllerAssumption ==
  /\ AgentSendsText \in BOOLEAN
  /\ MaxMessages \in Nat
  /\ Items = 1..MaxMessages

VARIABLES
  queue,        \* a CBuf of messages
  stopped,
  sleeping,     \* the controller thread sleeps in cond_wait, not signalled
  consumerPc,   \* where the controller thread is
  msg,          \* its message
  ok,           \* the result of ProcessMessage
  failed,       \* history: a message was not, or not entirely, sent
  mainPc,       \* where the main thread is
  joined,       \* the controller thread has been waited for
  shutDown,     \* server.Stop() has shut the control socket down
  agentPc,      \* where the agent's control thread is
  agentMsg,     \* its message
  produced,     \* number of messages produced
  text,         \* the text a message owns
  accepted,     \* history: the messages PushMessage has accepted
  wire          \* history: the messages sent entirely to the device

consumerVars == <<consumerPc, msg, ok, failed>>
mainVars == <<mainPc, joined, shutDown>>
agentVars == <<agentPc, agentMsg>>
vars == <<queue, stopped, sleeping, consumerVars, mainVars, agentVars, produced, text,
          accepted, wire>>

Messages == 1..MaxMessages

Init ==
  /\ queue = EmptyCBuf
  /\ stopped = FALSE
  /\ sleeping = FALSE
  /\ consumerPc = "unborn"
  /\ msg = NoItem
  /\ ok = TRUE
  /\ failed = FALSE
  /\ mainPc = "init"
  /\ joined = FALSE
  /\ shutDown = FALSE
  /\ agentPc = "listening"     \* agent_manager.Start() comes before controller.Init()
  /\ agentMsg = NoItem
  /\ produced = 0
  /\ text = [m \in Messages |-> "none"]
  /\ accepted = <<>>
  /\ wire = <<>>

\* SDL_free(msg->text); freeing twice corrupts the heap.
Release(m) == CASE text[m] = "live"  -> [text EXCEPT ![m] = "freed"]
                [] text[m] = "freed" -> [text EXCEPT ![m] = "corrupt"]
                [] OTHER             -> text
----------------------------------------------------------------------------
(* PushMessage. *)

BugSignalUnlessEmpty == sleeping /\ CbufIsEmpty(queue)   \* a bug: the wrong test

\* The consumer sleeps on, unless it is signalled: when the queue was empty.
SleepingAfterPush == sleeping /\ ~CbufIsEmpty(queue)

\* The critical section of PushMessage; its result is ~CbufIsFull(queue).
PushMessage(m) ==
  /\ queue' = CbufPush(queue, m)
  /\ sleeping' = SleepingAfterPush
  /\ accepted' = IF CbufIsFull(queue) THEN accepted ELSE Append(accepted, m)
  /\ produced' = m
  /\ UNCHANGED <<stopped, wire>>

\* A new message, with or without a text of its own.
NewMessage(texts) ==
  /\ produced < MaxMessages
  /\ \E t \in texts : text' = [text EXCEPT ![produced + 1] = t]

----------------------------------------------------------------------------
(* The main thread: IRobotCore::Start and the event loop. *)

MainGoto(from, to) ==
  /\ mainPc = from
  /\ mainPc' = to
  /\ UNCHANGED agentVars

InitController ==
  /\ MainGoto("init", "start")
  /\ queue' = CbufInit(queue)
  /\ stopped' = FALSE
  /\ UNCHANGED <<sleeping, consumerVars, joined, shutDown, produced, text, accepted, wire>>

\* Start: the thread is created, or it is not; the program goes on either way.
CreateThread ==
  /\ \/ MainGoto("start", "startReceiver") /\ consumerPc' = "check"
     \/ MainGoto("start", "loop") /\ UNCHANGED consumerPc
  /\ UNCHANGED <<queue, stopped, sleeping, msg, ok, failed, joined, shutDown, produced, text,
                 accepted, wire>>

StartReceiver ==
  /\ MainGoto("startReceiver", "loop")
  /\ UNCHANGED <<queue, stopped, sleeping, consumerVars, joined, shutDown, produced, text,
                 accepted, wire>>

\* The receiver's thread cannot be created.  Stop() ...
StartReceiverFails ==
  /\ MainGoto("startReceiver", "undoStart")
  /\ stopped' = TRUE
  /\ sleeping' = FALSE
  /\ UNCHANGED <<queue, consumerVars, joined, shutDown, produced, text, accepted, wire>>

\* ... and SDL_WaitThread.  The caller ignores the failure: the loop runs.
UndoStart ==
  /\ consumerPc = "ended"
  /\ MainGoto("undoStart", "loop")
  /\ joined' = TRUE
  /\ UNCHANGED <<queue, stopped, sleeping, consumerVars, shutDown, produced, text, accepted, wire>>

\* An event of the user makes a message; its text is freed if it is refused.
MainPush ==
  /\ mainPc = "loop"
  /\ NewMessage(IF CbufIsFull(queue) THEN {"none", "freed"} ELSE {"none", "live"})
  /\ PushMessage(produced + 1)
  /\ UNCHANGED <<consumerVars, mainVars, agentVars>>

BugStopSilently ==   \* a bug: Stop does not signal
  /\ MainGoto("loop", "stopServer")
  /\ stopped' = TRUE
  /\ UNCHANGED <<queue, sleeping, consumerVars, joined, shutDown, produced, text, accepted, wire>>

\* Controller::Stop, after the event loop.
Stop ==
  /\ MainGoto("loop", "stopServer")
  /\ stopped' = TRUE
  /\ sleeping' = FALSE
  /\ UNCHANGED <<queue, consumerVars, joined, shutDown, produced, text, accepted, wire>>

\* server.Stop() shuts the control socket down: a blocked send returns.
StopServer ==
  /\ MainGoto("stopServer", "join")
  /\ shutDown' = TRUE
  /\ UNCHANGED <<queue, stopped, sleeping, consumerVars, joined, produced, text, accepted, wire>>

\* Controller::Join; SDL_WaitThread(NULL) returns at once.
JoinController ==
  /\ consumerPc \in {"ended", "unborn"}
  /\ MainGoto("join", "joinAgent")
  /\ joined' = TRUE
  /\ UNCHANGED <<queue, stopped, sleeping, consumerVars, shutDown, produced, text, accepted, wire>>

\* After a failed Start the same thread is waited for again: SDL has freed it.
JoinTwiceCrashes ==
  /\ joined
  /\ MainGoto("join", "crashed")
  /\ UNCHANGED <<queue, stopped, sleeping, consumerVars, joined, shutDown, produced, text,
                 accepted, wire>>

\* AgentController::Join waits for the thread only if it has a client's socket.
JoinAgent ==
  /\ agentPc \in {"listening", "accepted", "ended"}
  /\ MainGoto("joinAgent", "destroy")
  /\ UNCHANGED <<queue, stopped, sleeping, consumerVars, joined, shutDown, produced, text,
                 accepted, wire>>

\* Controller::Destroy takes and destroys the messages that are left, one by one.
Destroy ==
  /\ \/ /\ ~CbufIsEmpty(queue)
        /\ MainGoto("destroy", "destroy")
        /\ text' = Release(CbufItem(queue))
        /\ queue' = CbufTake(queue)
     \/ /\ CbufIsEmpty(queue)
        /\ MainGoto("destroy", "destroyed")
        /\ UNCHANGED <<text, queue>>
  /\ UNCHANGED <<stopped, sleeping, consumerVars, joined, shutDown, produced, accepted, wire>>

----------------------------------------------------------------------------
(* The agent's control thread: AgentController::ProcessMessages. *)

AgentGoto(from, to) ==
  /\ agentPc = from
  /\ agentPc' = to
  /\ UNCHANGED mainVars

\* WaitForClientConnection: accept() returns, and its result is stored.  The server
\* socket is closed by agent_manager.Stop(), right after controller.Stop().
ServerSocketOpen == mainPc \in {"init", "start", "startReceiver", "undoStart", "loop"}

AgentAccepts ==
  /\ ServerSocketOpen
  /\ AgentGoto("listening", "accepted")
  /\ UNCHANGED <<queue, stopped, sleeping, consumerVars, agentMsg, produced, text, accepted, wire>>

AgentStoresSocket ==
  /\ AgentGoto("accepted", "idle")
  /\ UNCHANGED <<queue, stopped, sleeping, consumerVars, agentMsg, produced, text, accepted, wire>>

\* ProcessMessage hands the message to PushMessage, which copies the struct but
\* not the text, and whose result is ignored.
AgentPush ==
  /\ mainPc \notin {"init", "destroy"}
  /\ AgentGoto("idle", "pushed")
  /\ NewMessage(IF AgentSendsText THEN {"none", "live"} ELSE {"none"})
  /\ PushMessage(produced + 1)
  /\ agentMsg' = produced + 1
  /\ UNCHANGED consumerVars

\* The same before Controller::Init or once Controller::Destroy has begun: there is
\* no mutex, and mutex_log aborts.
AgentPushWithoutMutex ==
  /\ mainPc \in {"init", "destroy"}
  /\ agentPc = "idle"
  /\ produced < MaxMessages
  /\ mainPc' = "aborted"
  /\ UNCHANGED <<queue, stopped, sleeping, consumerVars, joined, shutDown, agentVars, produced,
                 text, accepted, wire>>

\* msg.Destroy(), after the handler.
AgentDestroysMessage ==
  /\ AgentGoto("pushed", "idle")
  /\ text' = Release(agentMsg)
  /\ UNCHANGED <<queue, stopped, sleeping, consumerVars, agentMsg, produced, accepted, wire>>

\* The client goes, and the thread accepts another one.
AgentLosesClient ==
  /\ AgentGoto("idle", "listening")
  /\ UNCHANGED <<queue, stopped, sleeping, consumerVars, agentMsg, produced, text, accepted, wire>>

\* A message it cannot parse, the stop flag, or a server socket that is closed.
AgentEnds ==
  /\ \/ AgentGoto("idle", "ended")
     \/ ~ServerSocketOpen /\ AgentGoto("listening", "ended")
  /\ UNCHANGED <<queue, stopped, sleeping, consumerVars, agentMsg, produced, text, accepted, wire>>

----------------------------------------------------------------------------
(* The controller thread: RunController. *)

ConsumerGoto(from, to) ==
  /\ consumerPc = from
  /\ consumerPc' = to
  /\ UNCHANGED <<mainVars, agentVars, produced, accepted, stopped>>

\* The while loop around cond_wait.
Sleep ==
  /\ ~stopped
  /\ CbufIsEmpty(queue)
  /\ ConsumerGoto("check", "wait")
  /\ sleeping' = TRUE
  /\ UNCHANGED <<queue, msg, ok, failed, text, wire>>

WakeUp ==
  /\ ~sleeping
  /\ ConsumerGoto("wait", "check")
  /\ UNCHANGED <<queue, sleeping, msg, ok, failed, text, wire>>

\* A condition variable may wake a sleeper that nobody signalled.
SpuriousWakeUp ==
  /\ sleeping
  /\ sleeping' = FALSE
  /\ UNCHANGED <<queue, stopped, consumerVars, mainVars, agentVars, produced, text, accepted, wire>>

\* Stop immediately, do not process further messages.
ExitStopped ==
  /\ stopped
  /\ ConsumerGoto("check", "ended")
  /\ UNCHANGED <<queue, sleeping, msg, ok, failed, text, wire>>

TakeMessage ==
  /\ ~stopped
  /\ ~CbufIsEmpty(queue)
  /\ ConsumerGoto("check", "process")
  /\ queue' = CbufTake(queue)
  /\ msg' = CbufItem(queue)
  /\ UNCHANGED <<sleeping, ok, failed, text, wire>>

\* net_send_all sends everything with one call of send().
SendInOneGo ==
  /\ ConsumerGoto("process", "destroyMessage")
  /\ ok' = TRUE
  /\ wire' = Append(wire, msg)
  /\ UNCHANGED <<queue, sleeping, msg, failed, text>>

\* net_send_all sends everything, but in several chunks: it returns the length of
\* the last one, and ProcessMessage reports a failure.
SendInChunks ==
  /\ ConsumerGoto("process", "destroyMessage")
  /\ ok' = FALSE
  /\ wire' = Append(wire, msg)
  /\ UNCHANGED <<queue, sleeping, msg, failed, text>>

\* Serialize does not know the message, or the socket is closed.
SendFails ==
  /\ ConsumerGoto("process", "destroyMessage")
  /\ ok' = FALSE
  /\ failed' = TRUE
  /\ UNCHANGED <<queue, sleeping, msg, text, wire>>

BugKeepUnsent ==   \* a bug: a message that was not sent is not destroyed
  /\ ConsumerGoto("destroyMessage", IF ok THEN "check" ELSE "ended")
  /\ text' = IF ok THEN Release(msg) ELSE text
  /\ UNCHANGED <<queue, sleeping, msg, ok, failed, wire>>

DestroyMessage ==
  /\ ConsumerGoto("destroyMessage", IF ok THEN "check" ELSE "ended")
  /\ text' = Release(msg)
  /\ UNCHANGED <<queue, sleeping, msg, ok, failed, wire>>

----------------------------------------------------------------------------
ConsumerStep == Sleep \/ WakeUp \/ ExitStopped \/ TakeMessage \/ DestroyMessage

Send == SendInOneGo \/ SendInChunks \/ SendFails

MainStep ==
  \/ InitController \/ CreateThread \/ StartReceiver \/ StartReceiverFails \/ UndoStart
  \/ StopServer \/ JoinController \/ JoinTwiceCrashes \/ JoinAgent \/ Destroy

AgentStep ==
  \/ AgentAccepts \/ AgentStoresSocket \/ AgentPush \/ AgentPushWithoutMutex
  \/ AgentDestroysMessage \/ AgentLosesClient \/ AgentEnds

Over == mainPc \in {"destroyed", "aborted", "crashed"}

Next ==
  \/ ~Over /\ (ConsumerStep \/ Send \/ SpuriousWakeUp \/ MainStep \/ MainPush \/ Stop \/ AgentStep)
  \/ Over /\ UNCHANGED vars

Spec == Init /\ [][Next]_vars

\* The threads run when they can.  A send may block as long as the device does
\* not read; it returns once the socket is shut down.  Nothing obliges the user
\* to quit or the agent's client to go.
Fairness ==
  /\ WF_vars(~Over /\ ConsumerStep)
  /\ WF_vars(~Over /\ shutDown /\ Send)
  /\ WF_vars(~Over /\ MainStep)

FairSpec == Spec /\ Fairness
----------------------------------------------------------------------------
ConsumerPcs == {"unborn", "check", "wait", "process", "destroyMessage", "ended"}
MainPcs == {"init", "start", "startReceiver", "undoStart", "loop", "stopServer", "join",
            "joinAgent", "destroy", "destroyed", "aborted", "crashed"}

TypeOK ==
  /\ queue \in CBufs
  /\ stopped \in BOOLEAN
  /\ sleeping \in BOOLEAN
  /\ consumerPc \in ConsumerPcs
  /\ msg \in Messages \cup {NoItem}
  /\ ok \in BOOLEAN
  /\ failed \in BOOLEAN
  /\ mainPc \in MainPcs
  /\ joined \in BOOLEAN
  /\ shutDown \in BOOLEAN
  /\ agentPc \in {"listening", "accepted", "idle", "pushed", "ended"}
  /\ agentMsg \in Messages \cup {NoItem}
  /\ produced \in 0..MaxMessages
  /\ text \in [Messages -> {"none", "live", "freed", "corrupt"}]
  /\ accepted \in Seq(Messages)
  /\ wire \in Seq(Messages)

\* No wake-up is lost: the controller thread never sleeps on a message or on a
\* stop, although PushMessage only signals when the queue was empty.
NoLostWakeup == sleeping => CbufIsEmpty(queue) /\ ~stopped

\* The message the controller thread holds, or failed to send.
InHand == IF consumerPc = "process" \/ failed THEN <<msg>> ELSE <<>>

\* Every accepted message is on the wire, in hand, or in the queue, and in the
\* order of acceptance; nothing follows a message that was not sent.
NothingLostOrReordered ==
  mainPc \notin {"destroy", "destroyed", "aborted"} => accepted = wire \o InHand \o Contents(queue)

\* A text is not freed while the queue or the controller thread still uses it:
\* the message owns it (control_msg.hpp:62 and :77).
NoStaleText ==
  /\ \A i \in DOMAIN Contents(queue) : text[Contents(queue)[i]] \in {"none", "live"}
  /\ consumerPc \in {"process", "destroyMessage"} => text[msg] \in {"none", "live"}

\* In the end every text was freed, once: those of the messages sent, refused
\* and left in the queue.
TextsFreedOnce == mainPc = "destroyed" => \A m \in Messages : text[m] \in {"none", "freed"}

\* The controller's queue is a bounded FIFO.
Fifo == INSTANCE BoundedFifo WITH Items <- Messages, contents <- Contents(queue)

\* controller.cpp:43-54 and 82, cbuf.hpp:42-60: what is pushed is taken in order.
ImplementsFifo == Fifo!FifoSpec

\* After Stop the controller thread can be joined, whatever it was doing.
StopTerminates == mainPc = "stopServer" ~> mainPc = "joinAgent" \/ Over
=============================================================================
