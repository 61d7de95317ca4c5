----------------------------- MODULE AgentStream -----------------------------
(***************************************************************************)
(* Sending images to an agent's client: src/agent/agent_stream.cpp, its    *)
(* caller AgentManager::SendOpenCVImage, and net_try_recv of               *)
(* src/platform/unix/net.cpp.  Three threads: the main thread makes the    *)
(* images, RunStream sends them, RunAgentReceiver accepts one client at a  *)
(* time and notices that it went away.                                     *)
(*                                                                         *)
(* RunStream keeps the mutex while it sends, and PushMessage when the      *)
(* queue is full: the mutex is explicit.  video_socket is shared without   *)
(* any lock; a number of a closed socket may be given to the next one.     *)
(***************************************************************************)
EXTENDS CBuf, Functions

CONSTANTS
  Clients,     \* the connections that clients make, each once
  Fds,         \* the numbers accept() gives to sockets
  Invalid,     \* INVALID_SOCKET, and no client
  EAgains,     \* errno of a recv() that would block: 35 on macOS, 11 on GNU/Linux
  MaxImages    \* bound: images made

ASSUME AgentStreamAssumption ==
  /\ Invalid \notin Clients \cup Fds
  /\ EAgains \subseteq Nat
  /\ MaxImages \in Nat
  /\ Items = 1..MaxImages

VARIABLES
  queue,         \* a CBuf of images
  mutex,         \* who has it locked between two steps
  stopped,
  sleeping,      \* RunStream sleeps in cond_wait, not signalled
  mainPc,        \* where the main thread is
  made,          \* number of images made
  image,         \* the memory of an image
  senderPc,      \* where RunStream is
  msg,           \* its image
  fd,            \* the socket number net_send_all was called with
  receiverPc,    \* where RunAgentReceiver is
  video_socket,
  listening,     \* the server socket is open
  peer,          \* external: the client at the other end of a socket
  client,        \* external: what the clients do
  spoken,        \* external: the clients that have sent something, which nobody reads
  windowFull,    \* external: the clients that have to read before more can be sent
  eagain,        \* external: errno of a recv() that would block, on this system
  received       \* history: what a client was sent, whole images or parts

mainVars == <<mainPc, made>>
senderVars == <<senderPc, msg, fd>>
receiverVars == <<receiverPc, video_socket>>
outsideVars == <<client, spoken, windowFull, eagain>>
vars == <<queue, mutex, stopped, sleeping, mainVars, image, senderVars, receiverVars,
          listening, peer, outsideVars, received>>

Init ==
  /\ queue = EmptyCBuf
  /\ mutex = "free"
  /\ stopped = FALSE
  /\ sleeping = FALSE
  /\ mainPc = "loop"
  /\ made = 0
  /\ image = [m \in Items |-> "none"]
  /\ senderPc = "check"
  /\ msg = NoItem
  /\ fd = Invalid
  /\ receiverPc = "accept"
  /\ video_socket = Invalid
  /\ listening = TRUE
  /\ peer = [f \in Fds |-> Invalid]
  /\ client = [c \in Clients |-> "away"]
  /\ spoken = {}
  /\ windowFull = {}
  /\ eagain \in EAgains
  /\ received = [c \in Clients |-> <<>>]

\* BlobMessage::Destroy.
Release(m) == CASE image[m] = "live"  -> [image EXCEPT ![m] = "freed"]
                [] image[m] = "freed" -> [image EXCEPT ![m] = "corrupt"]
                [] OTHER              -> image
----------------------------------------------------------------------------
(* The environment: the clients. *)

\* A client connects to the server socket; it waits until it is accepted.
ClientConnects(c) ==
  /\ listening
  /\ client[c] = "away"
  /\ client' = [client EXCEPT ![c] = "waiting"]
  /\ UNCHANGED <<queue, mutex, stopped, sleeping, mainVars, image, senderVars, receiverVars,
                 listening, peer, spoken, windowFull, eagain, received>>

ClientLeaves(c) ==
  /\ client[c] = "connected"
  /\ client' = [client EXCEPT ![c] = "gone"]
  /\ spoken' = spoken \ {c}
  /\ UNCHANGED <<queue, mutex, stopped, sleeping, mainVars, image, senderVars, receiverVars,
                 listening, peer, windowFull, eagain, received>>

ClientReads(c) ==
  /\ client[c] = "connected"
  /\ windowFull' = windowFull \ {c}
  /\ UNCHANGED <<queue, mutex, stopped, sleeping, mainVars, image, senderVars, receiverVars,
                 listening, peer, client, spoken, eagain, received>>
\* A client sends something, although nothing is expected from it.
ClientSpeaks(c) ==
  /\ client[c] = "connected"
  /\ c \in Range(peer)
  /\ spoken' = spoken \cup {c}
  /\ UNCHANGED <<queue, mutex, stopped, sleeping, mainVars, image, senderVars, receiverVars,
                 listening, peer, client, windowFull, eagain, received>>
----------------------------------------------------------------------------
(* Is a client connected? *)

BugTryRecv(errno) == errno > 35 /\ errno < 45   \* a bug: off by one

\* net_try_recv
NetTryRecv(errno) == errno > 34 /\ errno < 45

EBADF == 9

\* The values of errno on GNU/Linux; those of macOS are among them.
AnyErrno == 0..133

\* What recv() leaves in errno, which only a call that fails sets.  It keeps its value
\* when the client went away, and when it has sent something: MSG_PEEK leaves that
\* where it is, for every later call.
Errnos(stale) ==
  IF video_socket = Invalid \/ peer[video_socket] = Invalid THEN {EBADF}
  ELSE IF client[peer[video_socket]] = "gone" \/ peer[video_socket] \in spoken THEN stale
  ELSE {eagain}

IsConnected(stale) == \E errno \in Errnos(stale) : NetTryRecv(errno)
----------------------------------------------------------------------------
(* The main thread. *)

MainGoto(from, to) == mainPc = from /\ mainPc' = to

\* The mutex is recursive.
MainCanLock == mutex \in {"free", "main"}

\* SendOpenCVImage: an image is made when a client is connected, which the main thread
\* tests with any errno of its own.
MakeImage ==
  /\ MainGoto("loop", "push")
  /\ made < MaxImages
  /\ IsConnected(AnyErrno)
  /\ made' = made + 1
  /\ image' = [image EXCEPT ![made + 1] = "live"]
  /\ UNCHANGED <<queue, mutex, stopped, sleeping, senderVars, receiverVars, listening, peer,
                 outsideVars, received>>

BugPushAndFree ==   \* a bug: the image is freed by the caller
  /\ MainCanLock
  /\ ~CbufIsFull(queue)
  /\ MainGoto("push", "loop")
  /\ queue' = CbufPush(queue, made)
  /\ image' = Release(made)
  /\ sleeping' = (sleeping /\ ~CbufIsEmpty(queue))
  /\ UNCHANGED <<mutex, stopped, made, senderVars, receiverVars, listening, peer, outsideVars,
                 received>>

\* PushMessage: the thread is signalled when the queue was empty.
PushMessage ==
  /\ MainCanLock
  /\ ~CbufIsFull(queue)
  /\ MainGoto("push", "loop")
  /\ queue' = CbufPush(queue, made)
  /\ sleeping' = (sleeping /\ ~CbufIsEmpty(queue))
  /\ UNCHANGED <<mutex, stopped, made, image, senderVars, receiverVars, listening, peer,
                 outsideVars, received>>

\* When the queue is full it returns with the mutex locked; nobody frees the image.
PushMessageWhenFull ==
  /\ MainCanLock
  /\ CbufIsFull(queue)
  /\ MainGoto("push", "loop")
  /\ mutex' = "main"
  /\ UNCHANGED <<queue, stopped, sleeping, made, image, senderVars, receiverVars, listening,
                 peer, outsideVars, received>>

\* AgentManager::Stop: the server socket ...
CloseServerSocket ==
  /\ MainGoto("loop", "stop")
  /\ listening' = FALSE
  /\ UNCHANGED <<queue, mutex, stopped, sleeping, made, image, senderVars, receiverVars, peer,
                 outsideVars, received>>

BugStopSilently ==   \* a bug: the thread is not signalled
  /\ MainCanLock
  /\ MainGoto("stop", "join")
  /\ stopped' = TRUE
  /\ UNCHANGED <<queue, mutex, sleeping, made, image, senderVars, receiverVars, listening, peer,
                 outsideVars, received>>

\* ... and Actor::Stop.
Stop ==
  /\ MainCanLock
  /\ MainGoto("stop", "join")
  /\ stopped' = TRUE
  /\ sleeping' = FALSE
  /\ UNCHANGED <<queue, mutex, made, image, senderVars, receiverVars, listening, peer,
                 outsideVars, received>>

Join ==
  /\ senderPc = "ended" /\ receiverPc = "ended"
  /\ MainGoto("join", "destroy")
  /\ UNCHANGED <<queue, mutex, stopped, sleeping, made, image, senderVars, receiverVars,
                 listening, peer, outsideVars, received>>

\* Destroy takes and frees what is left in the queue.
Destroy ==
  /\ MainGoto("destroy", "ended")
  /\ queue' = [queue EXCEPT !.tail = queue.head]
  /\ image' = [m \in Items |-> IF m \in Range(Contents(queue)) THEN Release(m)[m] ELSE image[m]]
  /\ UNCHANGED <<mutex, stopped, sleeping, made, senderVars, receiverVars, listening, peer,
                 outsideVars, received>>
----------------------------------------------------------------------------
(* RunStream. *)

SenderGoto(from, to) ==
  /\ senderPc = from
  /\ senderPc' = to
  /\ UNCHANGED <<mainVars, receiverVars, listening, peer>>

Sleep ==
  /\ mutex = "free"
  /\ ~stopped
  /\ CbufIsEmpty(queue)
  /\ SenderGoto("check", "wait")
  /\ sleeping' = TRUE
  /\ UNCHANGED <<queue, mutex, stopped, image, msg, fd, outsideVars, received>>

WakeUp ==
  /\ mutex = "free"
  /\ ~sleeping
  /\ SenderGoto("wait", "check")
  /\ UNCHANGED <<queue, mutex, stopped, sleeping, image, msg, fd, outsideVars, received>>

SpuriousWakeUp ==
  /\ sleeping
  /\ sleeping' = FALSE
  /\ UNCHANGED <<queue, mutex, stopped, mainVars, image, senderVars, receiverVars, listening,
                 peer, outsideVars, received>>

ExitStopped ==
  /\ mutex = "free"
  /\ stopped
  /\ SenderGoto("check", "ended")
  /\ UNCHANGED <<queue, mutex, stopped, sleeping, image, msg, fd, outsideVars, received>>

\* The mutex stays locked until the image is sent and freed.
TakeImage ==
  /\ mutex = "free"
  /\ ~stopped
  /\ ~CbufIsEmpty(queue)
  /\ SenderGoto("check", "process")
  /\ mutex' = "sender"
  /\ queue' = CbufTake(queue)
  /\ msg' = CbufItem(queue)
  /\ UNCHANGED <<stopped, sleeping, image, fd, outsideVars, received>>

\* ProcessMessage looks at video_socket ...
CheckSocket ==
  /\ SenderGoto("process", IF video_socket = Invalid THEN "free" ELSE "call")
  /\ UNCHANGED <<queue, mutex, stopped, sleeping, image, msg, fd, outsideVars, received>>

\* ... and reads it again to send.
CallSend ==
  /\ SenderGoto("call", "send")
  /\ fd' = video_socket
  /\ UNCHANGED <<queue, mutex, stopped, sleeping, image, msg, outsideVars, received>>

\* The client at the other end of fd, if the connection is good.
CanReceive(c) == fd # Invalid /\ peer[fd] = c /\ client[c] = "connected"

\* send() blocks until the client has read.
Deliver(c, part) ==
  /\ CanReceive(c) /\ c \notin windowFull
  /\ received' = [received EXCEPT ![c] = Append(@, <<msg, part>>)]
  /\ \E full \in SUBSET {c} : windowFull' = windowFull \cup full
  /\ UNCHANGED <<client, spoken, eagain>>

BugSendOnce ==   \* a bug: what send() has not accepted is dropped
  /\ \E c \in Clients :
       \/ SenderGoto("send", "free") /\ Deliver(c, "all")
       \/ SenderGoto("send", "free") /\ Deliver(c, "start")
  /\ UNCHANGED <<queue, mutex, stopped, sleeping, image, msg, fd>>

\* net_send_all: an image is accepted at once, or in two parts.
SendImage ==
  /\ \E c \in Clients :
       \/ SenderGoto("send", "free") /\ Deliver(c, "all")
       \/ SenderGoto("send", "sendRest") /\ Deliver(c, "start")
       \/ SenderGoto("sendRest", "free") /\ Deliver(c, "rest")
  /\ UNCHANGED <<queue, mutex, stopped, sleeping, image, msg, fd>>

\* send() fails: the socket is closed, or its client has gone.  The result is ignored.
SendFails ==
  /\ SenderGoto("send", "free") \/ SenderGoto("sendRest", "free")
  /\ ~\E c \in Clients : CanReceive(c)
  /\ UNCHANGED <<queue, mutex, stopped, sleeping, image, msg, fd, outsideVars, received>>

\* The image is destroyed, and the mutex unlocked.
FreeImage ==
  /\ SenderGoto("free", "check")
  /\ image' = Release(msg)
  /\ mutex' = "free"
  /\ msg' = NoItem
  /\ fd' = Invalid
  /\ UNCHANGED <<queue, stopped, sleeping, outsideVars, received>>
----------------------------------------------------------------------------
(* RunAgentReceiver. *)

ReceiverGoto(from, to) ==
  /\ receiverPc = from
  /\ receiverPc' = to
  /\ UNCHANGED <<queue, mutex, stopped, sleeping, mainVars, image, senderVars, listening,
                 received>>

\* WaitForClientConnection closes the previous socket ...
CloseSocket ==
  /\ ReceiverGoto("close", "accept")
  /\ video_socket' = Invalid
  /\ peer' = [peer EXCEPT ![video_socket] = Invalid]
  /\ spoken' = spoken \ {peer[video_socket]}
  /\ UNCHANGED <<client, windowFull, eagain>>

\* ... and accepts the next client, on a socket number that is free.
Accept ==
  /\ ReceiverGoto("accept", "poll")
  /\ \E c \in Clients, f \in Fds :
       /\ client[c] = "waiting"
       /\ peer[f] = Invalid
       /\ client' = [client EXCEPT ![c] = "connected"]
       /\ peer' = [peer EXCEPT ![f] = c]
       /\ video_socket' = f
  /\ UNCHANGED <<spoken, windowFull, eagain>>

\* accept() fails when the server socket is closed.
AcceptFails ==
  /\ ~listening
  /\ ReceiverGoto("accept", "ended")
  /\ UNCHANGED <<video_socket, peer, outsideVars>>

EndReceiver ==
  /\ stopped
  /\ ReceiverGoto("poll", "ended")
  /\ UNCHANGED <<video_socket, peer, outsideVars>>

\* The thread polls every millisecond; SDL_Delay has set errno to 0.
NoticeDisconnection ==
  /\ ~stopped
  /\ ~IsConnected({0})
  /\ ReceiverGoto("poll", "close")
  /\ UNCHANGED <<video_socket, peer, outsideVars>>
----------------------------------------------------------------------------
MainStep == PushMessage \/ PushMessageWhenFull \/ Stop \/ Join \/ Destroy

SenderStep ==
  \/ Sleep \/ WakeUp \/ ExitStopped \/ TakeImage \/ CheckSocket \/ CallSend \/ SendImage
  \/ SendFails \/ FreeImage

ReceiverStep == CloseSocket \/ Accept \/ AcceptFails \/ EndReceiver \/ NoticeDisconnection

ClientStep ==
  \E c \in Clients :
    ClientConnects(c) \/ ClientLeaves(c) \/ ClientReads(c) \/ ClientSpeaks(c)

Over == mainPc = "ended"

Next ==
  \/ MainStep \/ SenderStep \/ ReceiverStep \/ ClientStep
  \/ MakeImage \/ CloseServerSocket \/ SpuriousWakeUp
  \/ Over /\ UNCHANGED vars

Spec == Init /\ [][Next]_vars

\* The three threads run when they can.
Fairness == WF_vars(MainStep) /\ WF_vars(SenderStep) /\ WF_vars(ReceiverStep)

FairSpec == Spec /\ Fairness

\* A client reads what it is sent, as long as it is connected.
FairClientsSpec == FairSpec /\ \A c \in Clients : WF_vars(ClientReads(c))
----------------------------------------------------------------------------
MainPcs == {"loop", "push", "stop", "join", "destroy", "ended"}
SenderPcs == {"check", "wait", "process", "call", "send", "sendRest", "free", "ended"}
ReceiverPcs == {"accept", "poll", "close", "ended"}
ImageStates == {"none", "live", "freed", "corrupt"}
Parts == {"all", "start", "rest"}

TypeOK ==
  /\ queue \in CBufs
  /\ mutex \in {"free", "main", "sender"}
  /\ stopped \in BOOLEAN /\ sleeping \in BOOLEAN /\ listening \in BOOLEAN
  /\ mainPc \in MainPcs /\ senderPc \in SenderPcs /\ receiverPc \in ReceiverPcs
  /\ made \in 0..MaxImages
  /\ image \in [Items -> ImageStates]
  /\ msg \in Items \cup {NoItem}
  /\ fd \in Fds \cup {Invalid} /\ video_socket \in Fds \cup {Invalid}
  /\ peer \in [Fds -> Clients \cup {Invalid}]
  /\ client \in [Clients -> {"away", "waiting", "connected", "gone"}]
  /\ spoken \subseteq Clients /\ windowFull \subseteq Clients
  /\ eagain \in EAgains
  /\ \A c \in Clients : received[c] \in Seq(Items \X Parts)

\* Nothing that can still be sent was freed, nothing is freed twice, and in the end
\* only images that a full queue has refused are left.
ImagesFreedOnce ==
  /\ \A m \in Items : image[m] # "corrupt"
  /\ \A m \in Range(Contents(queue)) : image[m] = "live"
  /\ msg # NoItem => image[msg] = "live"
  /\ Over /\ mutex = "free" => \A m \in 1..made : image[m] = "freed"

\* A client gets images in the order they were made.  The last one may lack its end,
\* and, when the client was given the socket number of its predecessor, the first one
\* its beginning: none in between is cut.
CutOnlyAtTheEnds ==
  \A c \in Clients : \A i \in DOMAIN received[c] :
    LET r == received[c]  m == r[i][1]  part == r[i][2] IN
    /\ part = "start" => i = Len(r) \/ r[i + 1] = <<m, "rest">>
    /\ part = "rest" => i = 1 \/ r[i - 1] = <<m, "start">>
    /\ i > 1 /\ part # "rest" => r[i - 1][1] < m

\* A connection is closed only when its client has gone, or has sent something.  Not so
\* on GNU/Linux, which README.md:8 names beside macOS: net_try_recv takes an errno from
\* 35 to 44 for a recv() that would block, Linux has 11, and every client is given up.
ClientKept ==
  [][\A f \in Fds : peer[f] # Invalid /\ peer'[f] = Invalid =>
       client[peer[f]] = "gone" \/ peer[f] \in spoken \/ eagain \notin 35..44]_vars

\* irobot_core.cpp:321-322: once everything was told to stop, the threads can be joined.
QuitTerminates == mainPc = "stop" ~> Over

\* The same, unless a full queue has left the mutex locked.
QuitTerminatesUnlessFull == mainPc = "stop" /\ mutex # "main" ~> Over

=============================================================================
