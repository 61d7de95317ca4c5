-------------------------- MODULE AgentStreamProofs --------------------------
(***************************************************************************)
(* Sending images for every capacity of the queue and any number of        *)
(* images, clients and sockets.                                            *)
(*                                                                         *)
(* The argument: RunStream has the mutex exactly while it has an image in  *)
(* hand (LockInv); images are numbered, and the received, the one in hand, *)
(* the queued and the one about to be pushed follow each other in this     *)
(* order (OrderInv, SentInv), so that each has one owner, who frees it     *)
(* (ImageInv).  RunAgentReceiver has one socket open at most (SocketInv):  *)
(* a client that lost its connection never gets another one, and what it   *)
(* was sent stays as it is (CutInv).                                       *)
(***************************************************************************)
EXTENDS AgentStream, CBufProofs

Busy == {"process", "call", "send", "sendRest", "free"}

\* RunStream has an image that it has taken from the queue.
InHand == senderPc \in Busy

Queued == Range(Contents(queue))

TypeInv ==
  /\ queue \in CBufs
  /\ Contents(queue) \in Seq(Items)
  /\ mutex \in {"free", "main", "sender"}
  /\ mainPc \in MainPcs /\ senderPc \in SenderPcs
  /\ made \in 0..MaxImages
  /\ mainPc = "push" => made \in Items
  /\ msg \in Items \cup {NoItem}

\* RunStream keeps the mutex from taking an image to freeing it; Destroy comes after
\* both threads have ended.
LockInv ==
  /\ mutex = "sender" <=> InHand
  /\ msg # NoItem <=> InHand
  /\ mainPc \in {"destroy", "ended"} => senderPc = "ended" /\ receiverPc = "ended"
  /\ mainPc = "ended" => Contents(queue) = <<>>

Increasing(s) == \A i, j \in 1..Len(s) : i < j => s[i] < s[j]

\* The image in hand was made before the queued ones, in their order, and those before
\* the one about to be pushed.
OrderInv ==
  /\ Increasing(Contents(queue))
  /\ \A m \in Queued : m <= made /\ (mainPc = "push" => m < made)
  /\ InHand => /\ msg <= made
               /\ mainPc = "push" => msg < made
               /\ \A m \in Queued : msg < m

\* An image lives while it is in one of these places, and is freed after, unless a full
\* queue has refused one: then the mutex stays with the main thread.
ImageInv ==
  /\ image \in [Items -> ImageStates]
  /\ \A m \in Items : image[m] # "corrupt"
  /\ \A m \in Items : m > made => image[m] = "none"
  /\ mainPc = "push" => image[made] = "live"
  /\ \A m \in Queued : image[m] = "live"
  /\ InHand => image[msg] = "live"
  /\ \/ mutex = "main"
     \/ \A m \in 1..made :
          \/ image[m] = "freed"
          \/ m \in Queued
          \/ InHand /\ m = msg
          \/ mainPc = "push" /\ m = made

----------------------------------------------------------------------------
(* The clients. *)

ClientStates == {"away", "waiting", "connected", "gone"}

\* The client that can be reached: it has the one open socket, and has not left.
Reachable(c) ==
  video_socket # Invalid /\ peer[video_socket] = c /\ client[c] = "connected"

\* One socket is open at most, and video_socket is its number; a client that has it was
\* accepted.
SocketInv ==
  /\ receiverPc \in ReceiverPcs
  /\ video_socket \in Fds \cup {Invalid}
  /\ peer \in [Fds -> Clients \cup {Invalid}]
  /\ client \in [Clients -> ClientStates]
  /\ \A f \in Fds : peer[f] # Invalid => f = video_socket
  /\ video_socket # Invalid => /\ peer[video_socket] \in Clients
                               /\ client[peer[video_socket]] \in {"connected", "gone"}
  /\ receiverPc = "accept" => video_socket = Invalid
  /\ receiverPc \in {"poll", "close"} => video_socket # Invalid

\* A connection that may be given up: its client has gone, or has sent something, or
\* net_try_recv does not know the errno of a recv that would block.
GivenUp(c) == client[c] = "gone" \/ c \in spoken \/ eagain \notin 35..44

\* The socket that is about to be closed.
GoneInv == receiverPc = "close" => GivenUp(peer[video_socket])

\* What a client was sent was made before the images that are still to be sent.
SentInv ==
  /\ received \in [Clients -> Seq(Items \X Parts)]
  /\ \A c \in Clients : \A i \in 1..Len(received[c]) :
       LET m == received[c][i][1] IN
       /\ m <= made
       /\ mainPc = "push" => m < made
       /\ \A q \in Queued : m < q
       /\ InHand => m <= msg
       /\ senderPc \in {"process", "call", "send"} => m < msg

\* The first part of an image, without the rest, is the last that a client was sent; it
\* can get the rest, and nothing else, or has lost its connection for ever.
CutInv ==
  /\ fd \in Fds \cup {Invalid}
  /\ \A c \in Clients :
       LET r == received[c]  last == r[Len(r)] IN
       /\ client[c] \in {"away", "waiting"} => r = <<>>
       /\ Reachable(c) /\ r # <<>> /\ last[2] = "start" => senderPc = "sendRest" /\ last[1] = msg
       /\ Reachable(c) /\ r # <<>> /\ senderPc = "sendRest" =>
            last = <<msg, "start">> /\ fd = video_socket
----------------------------------------------------------------------------
(* The steps. *)

\* What the steps of the clients and of RunAgentReceiver leave alone.
OutsideStep == ReceiverStep \/ ClientStep

\* RunStream's steps between taking an image and freeing it, and those without one.
SendStep == CheckSocket \/ CallSend \/ SendImage \/ SendFails
IdleStep == Sleep \/ WakeUp \/ ExitStopped \/ SpuriousWakeUp

\* The main thread's steps that have nothing to do with an image.
QuitStep == CloseServerSocket \/ Stop \/ Join

LEMMA Steps ==
  ASSUME [Next]_vars
  PROVE  \/ OutsideStep \/ SendStep \/ IdleStep \/ QuitStep \/ UNCHANGED vars
         \/ MakeImage \/ PushMessage \/ PushMessageWhenFull \/ Destroy \/ TakeImage \/ FreeImage
BY Zenon DEF Next, MainStep, SenderStep, OutsideStep, SendStep, IdleStep, QuitStep

LEMMA OutsideSteps ==
  ASSUME OutsideStep \/ UNCHANGED vars
  PROVE  UNCHANGED <<queue, mutex, mainPc, made, image, senderPc, msg, fd, received>>
BY Zenon DEF OutsideStep, ReceiverStep, ClientStep, ClientConnects, ClientLeaves, ClientReads, ClientSpeaks,
       CloseSocket, Accept, AcceptFails, EndReceiver, NoticeDisconnection, ReceiverGoto,
       vars, mainVars, senderVars

LEMMA SendSteps ==
  ASSUME SendStep
  PROVE  /\ senderPc \in {"process", "call", "send", "sendRest"}
         /\ senderPc' \in {"call", "send", "sendRest", "free"}
         /\ UNCHANGED <<queue, mutex, mainPc, made, image, msg, receiverPc, video_socket, peer, client>>
<1>1. CASE CheckSocket
  BY <1>1, Zenon DEF CheckSocket, SenderGoto, mainVars, receiverVars, outsideVars
<1>2. CASE CallSend
  BY <1>2, Zenon DEF CallSend, SenderGoto, mainVars, receiverVars, outsideVars
<1>3. CASE SendImage
  BY <1>3, Zenon DEF SendImage, Deliver, SenderGoto, mainVars, receiverVars, outsideVars
<1>4. CASE SendFails
  BY <1>4, Zenon DEF SendFails, SenderGoto, mainVars, receiverVars, outsideVars
<1>. QED BY <1>1, <1>2, <1>3, <1>4 DEF SendStep

LEMMA IdleSteps ==
  ASSUME IdleStep
  PROVE  /\ \/ senderPc' = senderPc
            \/ senderPc \in {"check", "wait"} /\ senderPc' \in {"check", "wait", "ended"}
         /\ UNCHANGED <<queue, mutex, mainPc, made, image, msg, received, receiverPc, video_socket,
                        peer, client>>
BY Zenon DEF IdleStep, Sleep, WakeUp, ExitStopped, SpuriousWakeUp, SenderGoto, mainVars, senderVars,
       receiverVars, outsideVars

LEMMA QuitSteps ==
  ASSUME QuitStep
  PROVE  /\ mainPc \in {"loop", "stop", "join"}
         /\ \/ mainPc' \in {"stop", "join"}
            \/ mainPc' = "destroy" /\ senderPc = "ended" /\ receiverPc = "ended"
         /\ UNCHANGED <<queue, mutex, made, image, senderPc, msg, received, receiverPc, video_socket,
                        peer, client>>
BY Zenon DEF QuitStep, CloseServerSocket, Stop, Join, MainGoto, senderVars, receiverVars, outsideVars

LEMMA MakingImage ==
  ASSUME MakeImage
  PROVE  /\ mainPc = "loop" /\ mainPc' = "push"
         /\ made < MaxImages /\ made' = made + 1
         /\ image' = [image EXCEPT ![made + 1] = "live"]
         /\ UNCHANGED <<queue, mutex, senderPc, msg, received, receiverPc, video_socket, peer, client>>
BY Zenon DEF MakeImage, MainGoto, senderVars, receiverVars, outsideVars

LEMMA RefusingImage ==
  ASSUME PushMessageWhenFull
  PROVE  /\ mainPc = "push" /\ mainPc' = "loop"
         /\ mutex \in {"free", "main"} /\ mutex' = "main"
         /\ UNCHANGED <<queue, made, image, senderPc, msg, received, receiverPc, video_socket, peer,
                        client>>
BY Zenon DEF PushMessageWhenFull, MainCanLock, MainGoto, senderVars, receiverVars, outsideVars

\* A successful push appends the image.
LEMMA PushingImage ==
  ASSUME PushMessage, TypeInv
  PROVE  /\ mainPc = "push" /\ mainPc' = "loop"
         /\ UNCHANGED <<mutex, made, image, senderPc, msg, received, receiverPc, video_socket, peer,
                        client>>
         /\ made \in Items
         /\ queue' \in CBufs
         /\ Contents(queue') = Append(Contents(queue), made)
         /\ Contents(queue') \in Seq(Items)
         /\ Queued' = Queued \cup {made}
<1>1. /\ mainPc = "push" /\ mainPc' = "loop"
      /\ ~CbufIsFull(queue) /\ queue' = CbufPush(queue, made)
      /\ UNCHANGED <<mutex, made, image, senderPc, msg, received, receiverPc, video_socket, peer,
                     client>>
  BY Zenon DEF PushMessage, MainGoto, senderVars, receiverVars, outsideVars
<1>2. made \in Items /\ queue \in CBufs /\ Contents(queue) \in Seq(Items)
  BY <1>1 DEF TypeInv
<1>3. queue' \in CBufs /\ Contents(queue') = Append(Contents(queue), made)
  BY <1>1, <1>2, Push
<1>4. Append(Contents(queue), made) \in Seq(Items)
  BY <1>2
<1>5. Queued' = Queued \cup {made}
  BY <1>2, <1>3, Appending DEF Queued
<1>. QED BY <1>1, <1>2, <1>3, <1>4, <1>5

\* RunStream takes the first image.
LEMMA TakingImage ==
  ASSUME TakeImage, TypeInv
  PROVE  /\ senderPc = "check" /\ senderPc' = "process"
         /\ mutex = "free" /\ mutex' = "sender"
         /\ UNCHANGED <<mainPc, made, image, received, receiverPc, video_socket, peer, client>>
         /\ Contents(queue) # <<>>
         /\ queue' \in CBufs
         /\ Contents(queue') = Tail(Contents(queue))
         /\ Contents(queue') \in Seq(Items)
         /\ msg' = Head(Contents(queue)) /\ msg' \in Items
         /\ Queued = Queued' \cup {msg'}
<1>1. /\ senderPc = "check" /\ senderPc' = "process"
      /\ mutex = "free" /\ mutex' = "sender"
      /\ ~CbufIsEmpty(queue) /\ queue' = CbufTake(queue) /\ msg' = CbufItem(queue)
      /\ UNCHANGED <<mainPc, made, image, received, receiverPc, video_socket, peer, client>>
  BY Zenon DEF TakeImage, SenderGoto, mainVars, receiverVars, outsideVars
<1>2. queue \in CBufs /\ Contents(queue) \in Seq(Items)
  BY DEF TypeInv
<1>3. /\ queue' \in CBufs /\ Contents(queue) # <<>>
      /\ msg' = Head(Contents(queue)) /\ Contents(queue') = Tail(Contents(queue))
  BY <1>1, <1>2, Take
<1>4. Head(Contents(queue)) \in Items /\ Tail(Contents(queue)) \in Seq(Items)
  BY <1>2, <1>3
<1>5. Queued = Queued' \cup {msg'}
  BY <1>2, <1>3, Removing DEF Queued
<1>. QED BY <1>1, <1>3, <1>4, <1>5

LEMMA FreeingImage ==
  ASSUME FreeImage
  PROVE  /\ senderPc = "free" /\ senderPc' = "check"
         /\ mutex' = "free" /\ msg' = NoItem
         /\ image' = Release(msg)
         /\ UNCHANGED <<queue, mainPc, made, received, receiverPc, video_socket, peer, client>>
BY Zenon DEF FreeImage, SenderGoto, mainVars, receiverVars, outsideVars

LEMMA Destroying ==
  ASSUME Destroy, TypeInv
  PROVE  /\ mainPc = "destroy" /\ mainPc' = "ended"
         /\ image' = [m \in Items |-> IF m \in Queued THEN Release(m)[m] ELSE image[m]]
         /\ UNCHANGED <<mutex, made, senderPc, msg, received, receiverPc, video_socket, peer, client>>
         /\ queue' \in CBufs
         /\ Contents(queue') = <<>>
         /\ Queued' = {}
<1>1. /\ mainPc = "destroy" /\ mainPc' = "ended"
      /\ queue' = [queue EXCEPT !.tail = queue.head]
      /\ image' = [m \in Items |-> IF m \in Queued THEN Release(m)[m] ELSE image[m]]
      /\ UNCHANGED <<mutex, made, senderPc, msg, received, receiverPc, video_socket, peer, client>>
  BY Zenon DEF Destroy, MainGoto, senderVars, receiverVars, outsideVars, Queued
<1>2. queue' \in CBufs /\ Contents(queue') = <<>>
  BY <1>1, Emptiness DEF TypeInv
<1>3. Queued' = {}
  BY <1>2 DEF Queued, Range
<1>. QED BY <1>1, <1>2, <1>3

----------------------------------------------------------------------------
(* The images. *)

LEMMA Typing == Spec => []TypeInv
<1>1. Init => TypeInv
  <2>. SUFFICES ASSUME Init PROVE TypeInv
    OBVIOUS
  <2>1. queue \in CBufs /\ Contents(queue) \in Seq(Items)
    BY Emptiness DEF Init
  <2>2. made = 0 /\ 0 \in 0..MaxImages
    BY AgentStreamAssumption DEF Init
  <2>. QED BY <2>1, <2>2 DEF Init, TypeInv, MainPcs, SenderPcs
<1>2. TypeInv /\ [Next]_vars => TypeInv'
  <2>. SUFFICES ASSUME TypeInv, [Next]_vars PROVE TypeInv'
    OBVIOUS
  <2>1. CASE OutsideStep \/ UNCHANGED vars
    BY <2>1, OutsideSteps DEF TypeInv
  <2>2. CASE SendStep
    BY <2>2, SendSteps DEF TypeInv, SenderPcs
  <2>3. CASE IdleStep
    BY <2>3, IdleSteps DEF TypeInv, SenderPcs
  <2>4. CASE QuitStep
    BY <2>4, QuitSteps DEF TypeInv, MainPcs
  <2>5. CASE MakeImage
    <3>1. made \in 0..MaxImages
      BY DEF TypeInv
    <3>2. made' \in 0..MaxImages /\ made' \in Items
      BY <2>5, <3>1, MakingImage, AgentStreamAssumption
    <3>. QED BY <2>5, <3>2, MakingImage DEF TypeInv, MainPcs
  <2>6. CASE PushMessage
    BY <2>6, PushingImage DEF TypeInv, MainPcs
  <2>7. CASE PushMessageWhenFull
    BY <2>7, RefusingImage DEF TypeInv, MainPcs
  <2>8. CASE Destroy
    <3>1. Contents(queue') \in Seq(Items)
      BY <2>8, Destroying
    <3>. QED BY <2>8, <3>1, Destroying DEF TypeInv, MainPcs
  <2>9. CASE TakeImage
    BY <2>9, TakingImage DEF TypeInv, SenderPcs
  <2>10. CASE FreeImage
    BY <2>10, FreeingImage DEF TypeInv, SenderPcs
  <2>. QED BY <2>1, <2>2, <2>3, <2>4, <2>5, <2>6, <2>7, <2>8, <2>9, <2>10, Steps
<1>. QED BY <1>1, <1>2, PTL DEF Spec

\* RunStream steps with an image in hand only while it has the mutex.
LEMMA Locking == Spec => []LockInv
<1>1. Init => LockInv
  BY DEF Init, LockInv, InHand, Busy
<1>2. TypeInv /\ LockInv /\ [Next]_vars => LockInv'
  <2>. SUFFICES ASSUME TypeInv, LockInv, [Next]_vars PROVE LockInv'
    OBVIOUS
  <2>0. senderPc = "ended" => senderPc' = "ended"
    BY Steps, OutsideSteps, SendSteps, IdleSteps, QuitSteps, MakingImage, RefusingImage, PushingImage,
       TakingImage, FreeingImage, Destroying
  <2>1. CASE OutsideStep \/ UNCHANGED vars
    <3>1. receiverPc = "ended" => receiverPc' = "ended"
      BY <2>1, Zenon DEF OutsideStep, ReceiverStep, ClientStep, ClientConnects, ClientLeaves, ClientReads, ClientSpeaks,
         CloseSocket, Accept, AcceptFails, EndReceiver, NoticeDisconnection, ReceiverGoto, vars, receiverVars
    <3>. QED BY <2>1, <3>1, OutsideSteps DEF LockInv, InHand
  <2>2. CASE SendStep
    BY <2>2, SendSteps DEF LockInv, InHand, Busy
  <2>3. CASE IdleStep
    BY <2>3, IdleSteps DEF LockInv, InHand, Busy
  <2>4. CASE QuitStep
    BY <2>4, QuitSteps DEF LockInv, InHand
  <2>5. CASE MakeImage
    BY <2>5, MakingImage DEF LockInv, InHand
  <2>6. CASE PushMessage
    BY <2>6, PushingImage DEF LockInv, InHand
  <2>7. CASE PushMessageWhenFull
    BY <2>7, RefusingImage DEF LockInv, InHand
  <2>8. CASE Destroy
    BY <2>8, Destroying DEF LockInv, InHand
  <2>9. CASE TakeImage
    <3>1. msg' # NoItem
      BY <2>9, TakingImage, CBufAssumption
    <3>. QED BY <2>9, <3>1, TakingImage DEF LockInv, InHand, Busy
  <2>10. CASE FreeImage
    BY <2>10, FreeingImage DEF LockInv, InHand, Busy
  <2>. QED BY <2>1, <2>2, <2>3, <2>4, <2>5, <2>6, <2>7, <2>8, <2>9, <2>10, Steps
<1>. QED BY <1>1, <1>2, Typing, PTL DEF Spec

\* A number above all others can be appended; without its first a sequence has only
\* larger numbers.
LEMMA IncreasingSequences ==
  ASSUME NEW s \in Seq(Nat), Increasing(s)
  PROVE  /\ \A x \in Nat : (\A m \in Range(s) : m < x) => Increasing(Append(s, x))
         /\ s # <<>> => Increasing(Tail(s)) /\ \A m \in Range(Tail(s)) : Head(s) < m
<1>1. ASSUME NEW x \in Nat, \A m \in Range(s) : m < x
      PROVE  Increasing(Append(s, x))
  <2>. DEFINE a == Append(s, x)
  <2>1. /\ Len(s) \in Nat /\ Len(a) = Len(s) + 1 /\ a[Len(s) + 1] = x
        /\ \A i \in 1..Len(s) : a[i] = s[i] /\ s[i] < x
    BY <1>1 DEF Range
  <2>. HIDE DEF a
  <2>2. ASSUME NEW i \in 1..Len(a), NEW j \in 1..Len(a), i < j
        PROVE  a[i] < a[j]
    <3>1. i \in 1..Len(s) /\ (j \in 1..Len(s) \/ j = Len(s) + 1)
      BY <2>1, <2>2
    <3>. QED BY <2>1, <2>2, <3>1 DEF Increasing
  <2>. QED BY <2>2 DEF Increasing, a
<1>2. ASSUME s # <<>>
      PROVE  Increasing(Tail(s)) /\ \A m \in Range(Tail(s)) : Head(s) < m
  <2>. DEFINE t == Tail(s)
  <2>1. /\ Len(s) \in Nat /\ Len(s) > 0 /\ Len(t) = Len(s) - 1 /\ Head(s) = s[1]
        /\ \A i \in 1..Len(t) : t[i] = s[i + 1]
        /\ DOMAIN t = 1..Len(t)
    BY <1>2
  <2>. HIDE DEF t
  <2>2. \A i \in 1..Len(t) : i + 1 \in 1..Len(s) /\ 1 \in 1..Len(s) /\ 1 < i + 1
    BY <2>1
  <2>3. ASSUME NEW i \in 1..Len(t), NEW j \in 1..Len(t), i < j
        PROVE  t[i] < t[j]
    <3>1. i + 1 < j + 1
      BY <2>3
    <3>. QED BY <2>1, <2>2, <3>1 DEF Increasing
  <2>4. \A i \in 1..Len(t) : Head(s) < t[i]
    BY <2>1, <2>2 DEF Increasing
  <2>. QED BY <2>1, <2>3, <2>4 DEF Increasing, Range, t
<1>. QED BY <1>1, <1>2

LEMMA Numbers ==
  ASSUME TypeInv
  PROVE  /\ made \in Nat
         /\ Items \subseteq Nat
         /\ Contents(queue) \in Seq(Nat)
         /\ Queued \subseteq Items
<1>1. Items \subseteq Nat
  BY AgentStreamAssumption
<1>2. made \in Nat
  <2>1. made \in 0..MaxImages
    BY DEF TypeInv
  <2>. QED BY <2>1, AgentStreamAssumption
<1>3. Contents(queue) \in Seq(Items)
  BY DEF TypeInv
<1>4. Contents(queue) \in Seq(Nat)
  BY <1>1, <1>3, SeqMonotonic
<1>5. Queued \subseteq Items
  BY <1>3, RangeOfSeq DEF Queued
<1>. QED BY <1>1, <1>2, <1>4, <1>5

\* The images keep the order in which they were made.
LEMMA Ordering == Spec => []OrderInv
<1>1. Init => OrderInv
  <2>. SUFFICES ASSUME Init PROVE OrderInv
    OBVIOUS
  <2>1. Contents(queue) = <<>>
    BY Emptiness DEF Init
  <2>. QED BY <2>1 DEF Init, OrderInv, Increasing, Queued, Range, InHand, Busy
<1>2. TypeInv /\ LockInv /\ OrderInv /\ [Next]_vars => OrderInv'
  <2>. SUFFICES ASSUME TypeInv, LockInv, OrderInv, [Next]_vars PROVE OrderInv'
    OBVIOUS
  <2>0. made \in Nat /\ Items \subseteq Nat /\ Contents(queue) \in Seq(Nat) /\ Queued \subseteq Nat
    BY Numbers
  <2>1. CASE OutsideStep \/ UNCHANGED vars
    BY <2>1, OutsideSteps DEF OrderInv, InHand, Queued
  <2>2. CASE SendStep
    BY <2>2, SendSteps DEF OrderInv, InHand, Busy, Queued
  <2>3. CASE IdleStep
    BY <2>3, IdleSteps DEF OrderInv, InHand, Busy, Queued
  <2>4. CASE QuitStep
    BY <2>4, QuitSteps DEF OrderInv, InHand, Queued
  <2>5. CASE MakeImage
    <3>1. UNCHANGED <<queue, senderPc, msg>> /\ made' = made + 1
      BY <2>5, MakingImage
    <3>2. \A m \in Queued : m <= made' /\ m < made'
      BY <2>0, <3>1 DEF OrderInv
    <3>3. InHand => msg \in Nat
      <4>1. InHand => msg \in Items
        BY DEF LockInv, TypeInv
      <4>. QED BY <2>0, <4>1
    <3>4. InHand => msg < made' /\ msg <= made'
      BY <2>0, <3>1, <3>3 DEF OrderInv
    <3>. QED BY <3>1, <3>2, <3>4 DEF OrderInv, InHand, Queued
  <2>6. CASE PushMessage
    <3>1. /\ mainPc = "push" /\ mainPc' = "loop"
          /\ UNCHANGED <<made, senderPc, msg>>
          /\ Contents(queue') = Append(Contents(queue), made)
          /\ Queued' = Queued \cup {made}
      BY <2>6, PushingImage
    <3>2. Increasing(Contents(queue'))
      <4>1. \A m \in Range(Contents(queue)) : m < made
        BY <3>1 DEF OrderInv, Queued
      <4>2. Increasing(Contents(queue))
        BY DEF OrderInv
      <4>. QED BY <2>0, <3>1, <4>1, <4>2, IncreasingSequences
    <3>3. made <= made
      BY <2>0
    <3>. QED BY <3>1, <3>2, <3>3 DEF OrderInv, InHand
  <2>7. CASE PushMessageWhenFull
    BY <2>7, RefusingImage DEF OrderInv, InHand, Queued
  <2>8. CASE Destroy
    <3>1. senderPc = "ended" /\ senderPc' = "ended" /\ mainPc' = "ended"
      BY <2>8, Destroying DEF LockInv
    <3>. QED BY <2>8, <3>1, Destroying DEF OrderInv, InHand, Busy, Increasing
  <2>9. CASE TakeImage
    <3>1. /\ senderPc' = "process" /\ UNCHANGED <<mainPc, made>>
          /\ Contents(queue) # <<>> /\ Contents(queue') = Tail(Contents(queue))
          /\ msg' = Head(Contents(queue)) /\ Queued = Queued' \cup {msg'}
      BY <2>9, TakingImage
    <3>2. Increasing(Contents(queue')) /\ \A m \in Queued' : msg' < m
      <4>1. Increasing(Contents(queue))
        BY DEF OrderInv
      <4>. QED BY <2>0, <3>1, <4>1, IncreasingSequences DEF Queued
    <3>. QED BY <3>1, <3>2 DEF OrderInv
  <2>10. CASE FreeImage
    BY <2>10, FreeingImage DEF OrderInv, InHand, Busy, Queued
  <2>. QED BY <2>1, <2>2, <2>3, <2>4, <2>5, <2>6, <2>7, <2>8, <2>9, <2>10, Steps
<1>. QED BY <1>1, <1>2, Typing, Locking, PTL DEF Spec

\* Destroying a blob message that lives frees it.
LEMMA Releasing ==
  ASSUME image \in [Items -> ImageStates], NEW m \in Items, image[m] = "live"
  PROVE  Release(m) = [image EXCEPT ![m] = "freed"] /\ Release(m)[m] = "freed"
BY DEF Release

LEMMA OneImage ==
  ASSUME image \in [Items -> ImageStates], NEW m \in Items, NEW s \in {"live", "freed"},
         image' = [image EXCEPT ![m] = s]
  PROVE  /\ image' \in [Items -> ImageStates]
         /\ image'[m] = s
         /\ \A q \in Items : q # m => image'[q] = image[q]
BY DEF ImageStates

\* The memory of the images.
LEMMA Imaging == Spec => []ImageInv
<1>1. Init => ImageInv
  <2>. SUFFICES ASSUME Init PROVE ImageInv
    OBVIOUS
  <2>1. Queued = {}
    BY Emptiness DEF Init, Queued, Range
  <2>2. made = 0 /\ \A m \in 1..made : FALSE
    BY DEF Init
  <2>. QED BY <2>1, <2>2 DEF Init, ImageInv, ImageStates, InHand, Busy
<1>2. TypeInv /\ LockInv /\ OrderInv /\ ImageInv /\ [Next]_vars => ImageInv'
  <2>. SUFFICES ASSUME TypeInv, LockInv, OrderInv, ImageInv, [Next]_vars PROVE ImageInv'
    OBVIOUS
  <2>0. /\ made \in Nat /\ Items \subseteq Nat /\ Queued \subseteq Items
        /\ image \in [Items -> ImageStates]
        /\ \A m \in 1..made : m \in Items
    <3>1. \A m \in 1..made : m \in Items
      <4>1. made \in 0..MaxImages
        BY DEF TypeInv
      <4>. QED BY <4>1, AgentStreamAssumption
    <3>. QED BY <3>1, Numbers DEF ImageInv
  <2>1. CASE OutsideStep \/ UNCHANGED vars
    BY <2>1, OutsideSteps DEF ImageInv, InHand, Queued
  <2>2. CASE SendStep
    <3>1. /\ UNCHANGED <<queue, mutex, mainPc, made, image, msg>>
          /\ InHand /\ InHand'
      BY <2>2, SendSteps DEF InHand, Busy
    <3>. QED BY <3>1 DEF ImageInv, Queued
  <2>3. CASE IdleStep
    <3>1. /\ UNCHANGED <<queue, mutex, mainPc, made, image, msg>>
          /\ InHand' <=> InHand
      BY <2>3, IdleSteps DEF InHand, Busy
    <3>. QED BY <3>1 DEF ImageInv, Queued
  <2>4. CASE QuitStep
    <3>1. /\ UNCHANGED <<queue, mutex, senderPc, made, image, msg>>
          /\ mainPc # "push" /\ mainPc' # "push"
      BY <2>4, QuitSteps
    <3>. QED BY <3>1 DEF ImageInv, Queued, InHand
  <2>5. CASE MakeImage
    <3>1. /\ UNCHANGED <<queue, mutex, senderPc, msg>>
          /\ mainPc = "loop" /\ mainPc' = "push"
          /\ made < MaxImages /\ made' = made + 1
          /\ image' = [image EXCEPT ![made'] = "live"]
      BY <2>5, MakingImage
    <3>2. /\ made' \in Items /\ made' > made
          /\ \A m \in Items : m > made' => m > made /\ m # made'
          /\ \A m \in 1..made' : m \in 1..made \/ m = made'
      BY <2>0, <3>1, AgentStreamAssumption
    <3>3. /\ image' \in [Items -> ImageStates]
          /\ image'[made'] = "live"
          /\ \A q \in Items : q # made' => image'[q] = image[q]
      BY <2>0, <3>1, <3>2, OneImage
    <3>4. \A m \in Queued : m # made'
      BY <2>0, <3>1, <3>2 DEF OrderInv
    <3>5. InHand => msg # made' /\ msg \in Items
      <4>1. InHand => msg \in Items /\ msg <= made
        BY DEF LockInv, TypeInv, OrderInv
      <4>. QED BY <2>0, <3>1, <4>1
    <3>6. \A m \in 1..made : m # made' /\ m \in Items
      BY <2>0, <3>1
    <3>7. Queued' = Queued /\ (InHand' <=> InHand)
      BY <3>1 DEF Queued, InHand
    <3>8. \A m \in Items : image'[m] # "corrupt" /\ (m > made' => image'[m] = "none")
      BY <3>2, <3>3 DEF ImageInv
    <3>9. (\A m \in Queued' : image'[m] = "live") /\ (InHand' => image'[msg'] = "live")
      BY <2>0, <3>1, <3>3, <3>4, <3>5, <3>7 DEF ImageInv
    <3>10. \/ mutex' = "main"
           \/ \A m \in 1..made' :
                image'[m] = "freed" \/ m \in Queued' \/ (InHand' /\ m = msg') \/ m = made'
      BY <3>1, <3>2, <3>3, <3>6, <3>7 DEF ImageInv
    <3>. QED BY <3>1, <3>3, <3>8, <3>9, <3>10 DEF ImageInv
  <2>6. CASE PushMessage
    <3>1. /\ mainPc = "push" /\ mainPc' = "loop"
          /\ UNCHANGED <<mutex, made, image, senderPc, msg>>
          /\ Queued' = Queued \cup {made}
      BY <2>6, PushingImage
    <3>. QED BY <3>1 DEF ImageInv, InHand
  <2>7. CASE PushMessageWhenFull
    BY <2>7, RefusingImage DEF ImageInv, InHand, Queued
  <2>8. CASE Destroy
    <3>1. /\ mainPc = "destroy" /\ mainPc' = "ended" /\ ~InHand /\ ~InHand'
          /\ UNCHANGED <<mutex, made>>
          /\ image' = [m \in Items |-> IF m \in Queued THEN Release(m)[m] ELSE image[m]]
          /\ Queued' = {}
      BY <2>8, Destroying DEF LockInv, InHand, Busy
    <3>2. \A m \in Queued : image[m] = "live" /\ Release(m)[m] = "freed"
      <4>1. \A m \in Queued : image[m] = "live"
        BY DEF ImageInv
      <4>. QED BY <2>0, <4>1, Releasing
    <3>3. /\ \A m \in Queued : image'[m] = "freed"
          /\ \A m \in Items : m \notin Queued => image'[m] = image[m]
          /\ image' \in [Items -> ImageStates]
      <4>1. \A m \in Items : (IF m \in Queued THEN Release(m)[m] ELSE image[m]) \in ImageStates
        BY <2>0, <3>2 DEF ImageStates
      <4>. QED BY <2>0, <3>1, <3>2, <4>1
    <3>4. \A m \in Items : image'[m] # "corrupt"
      BY <3>3 DEF ImageInv
    <3>5. \A m \in Items : m > made' => image'[m] = "none"
      <4>1. \A m \in Items : m > made => m \notin Queued
        BY <2>0 DEF OrderInv
      <4>. QED BY <3>1, <3>3, <4>1 DEF ImageInv
    <3>6. mutex' = "main" \/ \A m \in 1..made' : image'[m] = "freed"
      BY <2>0, <3>1, <3>3 DEF ImageInv
    <3>. QED BY <3>1, <3>3, <3>4, <3>5, <3>6 DEF ImageInv
  <2>9. CASE TakeImage
    <3>1. /\ ~InHand /\ InHand' /\ mutex = "free"
          /\ UNCHANGED <<mainPc, made, image>>
          /\ Queued = Queued' \cup {msg'}
      BY <2>9, TakingImage DEF InHand, Busy
    <3>. QED BY <3>1 DEF ImageInv
  <2>10. CASE FreeImage
    <3>1. /\ InHand /\ ~InHand' /\ mutex' = "free"
          /\ UNCHANGED <<queue, mainPc, made>>
          /\ image' = Release(msg)
      BY <2>10, FreeingImage DEF InHand, Busy
    <3>2. msg \in Items /\ image[msg] = "live" /\ mutex = "sender"
      BY <3>1 DEF LockInv, TypeInv, ImageInv
    <3>3. /\ image' \in [Items -> ImageStates]
          /\ image'[msg] = "freed"
          /\ \A q \in Items : q # msg => image'[q] = image[q]
      BY <2>0, <3>1, <3>2, Releasing, OneImage
    <3>4. Queued' = Queued /\ (\A m \in Queued : m # msg) /\ ~(msg > made)
          /\ (mainPc = "push" => made # msg /\ made \in Items)
      BY <2>0, <3>1, <3>2 DEF OrderInv, Queued, TypeInv
    <3>. QED BY <2>0, <3>1, <3>2, <3>3, <3>4 DEF ImageInv
  <2>. QED BY <2>1, <2>2, <2>3, <2>4, <2>5, <2>6, <2>7, <2>8, <2>9, <2>10, Steps
<1>. QED BY <1>1, <1>2, Typing, Locking, Ordering, PTL DEF Spec

\* No image is freed twice, none is freed while it is queued or being sent, and at the
\* end all are freed, but those that a full queue has refused.
THEOREM ImagesAreFreed == Spec => []ImagesFreedOnce
<1>1. TypeInv /\ LockInv /\ ImageInv => ImagesFreedOnce
  <2>. SUFFICES ASSUME TypeInv, LockInv, ImageInv PROVE ImagesFreedOnce
    OBVIOUS
  <2>1. ASSUME Over, mutex = "free", NEW m \in 1..made
        PROVE  image[m] = "freed"
    <3>1. Queued = {} /\ ~InHand /\ mainPc # "push"
      BY <2>1 DEF Over, LockInv, InHand, Busy, Queued, Range
    <3>. QED BY <2>1, <3>1 DEF ImageInv
  <2>2. msg # NoItem => image[msg] = "live"
    BY DEF LockInv, ImageInv
  <2>. QED BY <2>1, <2>2 DEF ImagesFreedOnce, ImageInv, Queued
<1>. QED BY <1>1, Typing, Locking, Imaging, PTL

----------------------------------------------------------------------------
(* The clients. *)

\* The steps of the two threads that do not touch the sockets.
InsideStep ==
  \/ SendStep \/ IdleStep \/ QuitStep
  \/ MakeImage \/ PushMessage \/ PushMessageWhenFull \/ Destroy \/ TakeImage \/ FreeImage

LEMMA InsideSteps ==
  ASSUME InsideStep, TypeInv
  PROVE  UNCHANGED <<receiverPc, video_socket, peer, client>>
BY SendSteps, IdleSteps, QuitSteps, MakingImage, RefusingImage, PushingImage, TakingImage, FreeingImage,
   Destroying DEF InsideStep

\* What the steps of the clients and of RunAgentReceiver do to the sockets.
LEMMA SocketSteps ==
  ASSUME OutsideStep \/ UNCHANGED vars
  PROVE  \/ \E c \in Clients :
              /\ client[c] = "away" /\ client' = [client EXCEPT ![c] = "waiting"]
              /\ UNCHANGED <<receiverPc, video_socket, peer>>
         \/ \E c \in Clients :
              /\ client[c] = "connected" /\ client' = [client EXCEPT ![c] = "gone"]
              /\ UNCHANGED <<receiverPc, video_socket, peer>>
         \/ /\ receiverPc = "close" /\ receiverPc' = "accept"
            /\ video_socket' = Invalid
            /\ peer' = [peer EXCEPT ![video_socket] = Invalid]
            /\ client' = client
         \/ \E c \in Clients, f \in Fds :
              /\ receiverPc = "accept" /\ receiverPc' = "poll"
              /\ client[c] = "waiting" /\ client' = [client EXCEPT ![c] = "connected"]
              /\ peer' = [peer EXCEPT ![f] = c]
              /\ video_socket' = f
         \/ /\ \/ receiverPc \in {"accept", "poll"} /\ receiverPc' = "ended"
               \/ receiverPc = "poll" /\ receiverPc' = "close" /\ ~IsConnected({0})
            /\ UNCHANGED <<video_socket, peer, client>>
         \/ UNCHANGED <<receiverPc, video_socket, peer, client>>
<1>1. CASE UNCHANGED vars
  BY <1>1, Zenon DEF vars, receiverVars, outsideVars
<1>2. CASE ClientStep
  BY <1>2, Zenon DEF ClientStep, ClientConnects, ClientLeaves, ClientReads, ClientSpeaks, receiverVars
<1>3. CASE CloseSocket
  BY <1>3, Zenon DEF CloseSocket, ReceiverGoto, outsideVars
<1>4. CASE Accept
  BY <1>4, Zenon DEF Accept, ReceiverGoto
<1>5. CASE AcceptFails \/ EndReceiver \/ NoticeDisconnection
  BY <1>5, Zenon DEF AcceptFails, EndReceiver, NoticeDisconnection, ReceiverGoto, outsideVars
<1>. QED BY <1>1, <1>2, <1>3, <1>4, <1>5 DEF OutsideStep, ReceiverStep

\* One entry of peer or of client changes.
LEMMA OnePeer ==
  ASSUME peer \in [Fds -> Clients \cup {Invalid}], NEW f \in Fds, NEW c \in Clients \cup {Invalid},
         peer' = [peer EXCEPT ![f] = c]
  PROVE  /\ peer' \in [Fds -> Clients \cup {Invalid}]
         /\ peer'[f] = c
         /\ \A g \in Fds : g # f => peer'[g] = peer[g]
OBVIOUS

LEMMA OneClient ==
  ASSUME client \in [Clients -> ClientStates], NEW c \in Clients, NEW s \in ClientStates,
         client' = [client EXCEPT ![c] = s]
  PROVE  /\ client' \in [Clients -> ClientStates]
         /\ client'[c] = s
         /\ \A d \in Clients : d # c => client'[d] = client[d]
OBVIOUS

\* A new socket is opened only after the one before was closed.
LEMMA Connecting == Spec => []SocketInv
<1>1. Init => SocketInv
  BY AgentStreamAssumption DEF Init, SocketInv, ReceiverPcs, ClientStates
<1>2. TypeInv /\ SocketInv /\ [Next]_vars => SocketInv'
  <2>. SUFFICES ASSUME TypeInv, SocketInv, [Next]_vars PROVE SocketInv'
    OBVIOUS
  <2>0. /\ video_socket # Invalid => video_socket \in Fds
        /\ peer \in [Fds -> Clients \cup {Invalid}] /\ client \in [Clients -> ClientStates]
        /\ Invalid \notin Clients \cup Fds
    BY AgentStreamAssumption DEF SocketInv
  <2>1. CASE InsideStep \/ UNCHANGED <<receiverPc, video_socket, peer, client>>
    BY <2>1, InsideSteps DEF SocketInv
  <2>2. ASSUME NEW c \in Clients, NEW s \in {"waiting", "gone"},
               client' = [client EXCEPT ![c] = s],
               s = "waiting" => client[c] = "away",
               UNCHANGED <<receiverPc, video_socket, peer>>
        PROVE  SocketInv'
    <3>1. /\ client' \in [Clients -> ClientStates]
          /\ client'[c] = s
          /\ \A d \in Clients : d # c => client'[d] = client[d]
      BY <2>0, <2>2, OneClient DEF ClientStates
    <3>. QED BY <2>2, <3>1 DEF SocketInv
  <2>3. CASE /\ receiverPc = "close" /\ receiverPc' = "accept"
             /\ video_socket' = Invalid
             /\ peer' = [peer EXCEPT ![video_socket] = Invalid]
             /\ client' = client
    <3>1. video_socket \in Fds
      BY <2>0, <2>3 DEF SocketInv
    <3>2. /\ peer' \in [Fds -> Clients \cup {Invalid}]
          /\ \A f \in Fds : peer'[f] = Invalid
      BY <2>0, <2>3, <3>1, OnePeer DEF SocketInv
    <3>. QED BY <2>0, <2>3, <3>2 DEF SocketInv, ReceiverPcs
  <2>4. ASSUME NEW c \in Clients, NEW f \in Fds,
               receiverPc = "accept", receiverPc' = "poll",
               client' = [client EXCEPT ![c] = "connected"],
               peer' = [peer EXCEPT ![f] = c],
               video_socket' = f
        PROVE  SocketInv'
    <3>1. /\ peer' \in [Fds -> Clients \cup {Invalid}]
          /\ peer'[f] = c
          /\ \A g \in Fds : g # f => peer'[g] = peer[g]
      BY <2>0, <2>4, OnePeer
    <3>2. /\ client' \in [Clients -> ClientStates]
          /\ client'[c] = "connected"
      BY <2>0, <2>4, OneClient DEF ClientStates
    <3>3. \A g \in Fds : peer[g] = Invalid
      BY <2>0, <2>4 DEF SocketInv
    <3>. QED BY <2>0, <2>4, <3>1, <3>2, <3>3 DEF SocketInv, ReceiverPcs
  <2>5. CASE /\ \/ receiverPc \in {"accept", "poll"} /\ receiverPc' = "ended"
                \/ receiverPc = "poll" /\ receiverPc' = "close"
             /\ UNCHANGED <<video_socket, peer, client>>
    BY <2>5 DEF SocketInv, ReceiverPcs
  <2>6. CASE OutsideStep \/ UNCHANGED vars
    BY <2>1, <2>2, <2>3, <2>4, <2>5, <2>6, SocketSteps
  <2>. QED BY <2>1, <2>6, Steps DEF InsideStep
<1>. QED BY <1>1, <1>2, Typing, PTL DEF Spec

\* Only clients that leave or speak, and a socket that is closed, change what is unread.
LEMMA QuietSteps ==
  ASSUME [Next]_vars
  PROVE  \/ \E c \in Clients : ClientLeaves(c)
         \/ \E c \in Clients : ClientSpeaks(c)
         \/ CloseSocket
         \/ eagain' = eagain /\ spoken' = spoken
<1>1. CASE MainStep \/ MakeImage \/ CloseServerSocket
  BY <1>1, Zenon DEF MainStep, PushMessage, PushMessageWhenFull, Stop, Join, Destroy, MakeImage,
       CloseServerSocket, outsideVars
<1>2. CASE SenderStep \/ SpuriousWakeUp
  BY <1>2, Zenon DEF SenderStep, Sleep, WakeUp, ExitStopped, TakeImage, CheckSocket, CallSend,
       SendImage, Deliver, SendFails, FreeImage, SpuriousWakeUp, outsideVars
<1>3. CASE ReceiverStep
  BY <1>3, Zenon DEF ReceiverStep, Accept, AcceptFails, EndReceiver, NoticeDisconnection,
       outsideVars
<1>4. CASE ClientStep
  BY <1>4, Zenon DEF ClientStep, ClientConnects, ClientReads
<1>5. CASE UNCHANGED vars
  BY <1>5, Zenon DEF vars, outsideVars
<1>. QED BY <1>1, <1>2, <1>3, <1>4, <1>5, Zenon DEF Next

\* What a client has sent is left unread, as long as it stays.
LEMMA Speaking ==
  ASSUME [Next]_vars, SocketInv, receiverPc' # "accept"
  PROVE  /\ eagain' = eagain
         /\ \A c \in Clients : c \in spoken => c \in spoken' \/ client'[c] = "gone"
<1>1. CASE \E c \in Clients : ClientLeaves(c)
  <2>. PICK c \in Clients : ClientLeaves(c)
    BY <1>1
  <2>1. eagain' = eagain /\ spoken' = spoken \ {c} /\ client' = [client EXCEPT ![c] = "gone"]
    BY Zenon DEF ClientLeaves
  <2>2. client'[c] = "gone"
    BY <2>1, OneClient DEF SocketInv, ClientStates
  <2>. QED BY <2>1, <2>2
<1>2. CASE \E c \in Clients : ClientSpeaks(c)
  BY <1>2, Zenon DEF ClientSpeaks
<1>3. CASE eagain' = eagain /\ spoken' = spoken
  BY <1>3
<1>. QED
  <2>1. ~CloseSocket
    BY Zenon DEF CloseSocket, ReceiverGoto
  <2>. QED BY <2>1, <1>1, <1>2, <1>3, QuietSteps

\* The program gives up a connection only when its client has gone or has sent something,
\* on a system where net_try_recv knows the errno of a recv that would block (macOS).
THEOREM ClientsAreKept == Spec => ClientKept
<1>1. Init => GoneInv
  BY DEF Init, GoneInv
<1>2. TypeInv /\ SocketInv /\ GoneInv /\ [Next]_vars => GoneInv'
  <2>. SUFFICES ASSUME TypeInv, SocketInv, GoneInv, [Next]_vars, receiverPc' = "close"
                PROVE  GivenUp(peer[video_socket])'
    BY DEF GoneInv
  <2>0. receiverPc = "close" => peer[video_socket] \in Clients /\ GivenUp(peer[video_socket])
    BY DEF SocketInv, GoneInv
  <2>1. CASE InsideStep \/ UNCHANGED <<receiverPc, video_socket, peer, client>>
    <3>1. UNCHANGED <<receiverPc, video_socket, peer, client>>
      BY <2>1, InsideSteps
    <3>. QED BY <2>0, <3>1, Speaking DEF GivenUp
  <2>2. ASSUME NEW c \in Clients, NEW s \in {"waiting", "gone"},
               client' = [client EXCEPT ![c] = s],
               s = "waiting" => client[c] = "away",
               UNCHANGED <<receiverPc, video_socket, peer>>
        PROVE  GivenUp(peer[video_socket])'
    <3>1. /\ client'[c] = s
          /\ \A d \in Clients : d # c => client'[d] = client[d]
      BY <2>2, OneClient DEF SocketInv, ClientStates
    <3>2. client[peer[video_socket]] = "gone" => client'[peer[video_socket]] = "gone"
      BY <2>0, <2>2, <3>1
    <3>. QED BY <2>0, <2>2, <3>2, Speaking DEF GivenUp
  <2>3. CASE receiverPc' \in {"accept", "poll", "ended"}
    BY <2>3
  <2>4. CASE /\ receiverPc = "poll" /\ ~IsConnected({0})
             /\ UNCHANGED <<video_socket, peer, client>>
    <3>1. /\ video_socket # Invalid /\ peer[video_socket] # Invalid
          /\ peer[video_socket] \in Clients
      BY <2>4, AgentStreamAssumption DEF SocketInv
    <3>2. GivenUp(peer[video_socket])
      BY <2>4, <3>1 DEF IsConnected, Errnos, NetTryRecv, GivenUp
    <3>. QED BY <2>4, <3>1, <3>2, Speaking DEF GivenUp
  <2>5. CASE OutsideStep \/ UNCHANGED vars
    BY <2>1, <2>2, <2>3, <2>4, <2>5, SocketSteps
  <2>. QED BY <2>1, <2>5, Steps DEF InsideStep
<1>3. TypeInv /\ SocketInv /\ GoneInv /\ [Next]_vars
      => \A f \in Fds : peer[f] # Invalid /\ peer'[f] = Invalid => GivenUp(peer[f])
  <2>. SUFFICES ASSUME TypeInv, SocketInv, GoneInv, [Next]_vars,
                       NEW f \in Fds, peer[f] # Invalid, peer'[f] = Invalid
                PROVE  GivenUp(peer[f])
    OBVIOUS
  <2>1. peer' # peer
    OBVIOUS
  <2>2. OutsideStep \/ UNCHANGED vars
    BY <2>1, InsideSteps, Steps DEF InsideStep
  <2>3. f = video_socket
    BY DEF SocketInv
  <2>4. receiverPc # "accept"
    BY <2>3, AgentStreamAssumption DEF SocketInv
  <2>5. receiverPc = "close"
    BY <2>1, <2>2, <2>4, SocketSteps
  <2>. QED BY <2>3, <2>5 DEF GoneInv
<1>. QED BY <1>1, <1>2, <1>3, Typing, Connecting, PTL DEF Spec, ClientKept, GivenUp

----------------------------------------------------------------------------
(* What the clients are sent. *)

Sent == Items \X Parts

\* What a client was sent gets one element longer.
LEMMA Receiving ==
  ASSUME received \in [Clients -> Seq(Sent)], NEW c \in Clients, NEW x \in Sent,
         received' = [received EXCEPT ![c] = Append(@, x)]
  PROVE  /\ received' \in [Clients -> Seq(Sent)]
         /\ Len(received'[c]) = Len(received[c]) + 1
         /\ received'[c][Len(received[c]) + 1] = x
         /\ \A i \in 1..Len(received[c]) : received'[c][i] = received[c][i]
         /\ \A d \in Clients : d # c => received'[d] = received[d]
<1>1. received[c] \in Seq(Sent) /\ received'[c] = Append(received[c], x)
  OBVIOUS
<1>2. received' \in [Clients -> Seq(Sent)]
  OBVIOUS
<1>. QED BY <1>1, <1>2

\* The client at the other end is the one that can be reached.
LEMMA Sending ==
  ASSUME SendImage
  PROVE  \E c \in Clients, part \in Parts :
           /\ CanReceive(c)
           /\ received' = [received EXCEPT ![c] = Append(@, <<msg, part>>)]
           /\ \/ part = "all" /\ senderPc = "send" /\ senderPc' = "free"
              \/ part = "start" /\ senderPc = "send" /\ senderPc' = "sendRest"
              \/ part = "rest" /\ senderPc = "sendRest" /\ senderPc' = "free"
BY Zenon DEF SendImage, Deliver, SenderGoto, Parts

LEMMA OneReachable ==
  ASSUME SocketInv, fd \in Fds \cup {Invalid}, NEW c \in Clients, CanReceive(c)
  PROVE  /\ fd = video_socket
         /\ Reachable(c)
         /\ \A d \in Clients : Reachable(d) => d = c
BY AgentStreamAssumption DEF SocketInv, CanReceive, Reachable

LEMMA OtherSteps ==
  ASSUME InsideStep, TypeInv, ~SendImage
  PROVE  received' = received
<1>1. CASE CheckSocket \/ CallSend \/ SendFails
  BY <1>1, Zenon DEF CheckSocket, CallSend, SendFails
<1>. QED BY <1>1, IdleSteps, QuitSteps, MakingImage, RefusingImage, PushingImage, TakingImage,
            FreeingImage, Destroying DEF InsideStep, SendStep

\* The bounds on what was sent.
LEMMA SentBefore == Spec => []SentInv
<1>1. Init => SentInv
  <2>. SUFFICES ASSUME Init PROVE SentInv
    OBVIOUS
  <2>1. /\ received = [c \in Clients |-> <<>>] /\ <<>> \in Seq(Sent)
        /\ \A c \in Clients : Len(received[c]) = 0
    BY DEF Init
  <2>2. \A c \in Clients : \A i \in 1..Len(received[c]) : FALSE
    BY <2>1
  <2>. QED BY <2>1, <2>2 DEF SentInv, Sent
<1>2. TypeInv /\ LockInv /\ OrderInv /\ SentInv /\ [Next]_vars => SentInv'
  <2>. SUFFICES ASSUME TypeInv, LockInv, OrderInv, SentInv, [Next]_vars PROVE SentInv'
    OBVIOUS
  <2>0. /\ made \in Nat /\ Items \subseteq Nat /\ Queued \subseteq Items
        /\ received \in [Clients -> Seq(Sent)]
        /\ InHand => msg \in Items
        /\ \A c \in Clients : \A i \in 1..Len(received[c]) : received[c][i][1] \in Items
    <3>1. \A c \in Clients : \A i \in 1..Len(received[c]) : received[c][i] \in Sent
      BY ElementOfSeq DEF SentInv, Sent
    <3>. QED BY <3>1, Numbers DEF SentInv, Sent, LockInv, TypeInv
  <2>1. CASE OutsideStep \/ UNCHANGED vars
    BY <2>1, OutsideSteps DEF SentInv, InHand, Queued
  <2>2. CASE (CheckSocket \/ CallSend \/ SendFails) /\ ~SendImage
    <3>1. /\ UNCHANGED <<queue, mainPc, made, msg>>
          /\ InHand
          /\ senderPc' \in {"call", "send"} => senderPc \in {"process", "call", "send"}
      <4>1. /\ UNCHANGED <<queue, mainPc, made, msg>>
            /\ InHand
        BY <2>2, SendSteps DEF SendStep, InHand, Busy
      <4>2. senderPc' \in {"call", "send"} => senderPc \in {"process", "call", "send"}
        BY <2>2, Zenon DEF CheckSocket, CallSend, SendFails, SenderGoto
      <4>. QED BY <4>1, <4>2
    <3>2. senderPc' # "process"
      BY <2>2, SendSteps DEF SendStep
    <3>3. received' = received
      BY <2>2, OtherSteps DEF InsideStep, SendStep
    <3>. QED BY <3>1, <3>2, <3>3 DEF SentInv, Queued
  <2>3. CASE SendImage
    <3>1. PICK c \in Clients, part \in Parts :
            /\ received' = [received EXCEPT ![c] = Append(@, <<msg, part>>)]
            /\ InHand /\ senderPc' \in {"sendRest", "free"}
      BY <2>3, Sending DEF InHand, Busy
    <3>2. UNCHANGED <<queue, mainPc, made, msg>>
      BY <2>3, SendSteps DEF SendStep
    <3>3. /\ msg \in Items /\ msg <= made /\ msg <= msg
          /\ mainPc = "push" => msg < made
          /\ \A q \in Queued : msg < q
      <4>1. msg \in Items /\ msg \in Nat
        BY <2>0, <3>1
      <4>2. /\ msg <= made /\ (mainPc = "push" => msg < made)
            /\ \A q \in Queued : msg < q
        BY <3>1 DEF OrderInv
      <4>. QED BY <4>1, <4>2
    <3>4. <<msg, part>> \in Sent
      BY <3>1, <3>3 DEF Sent
    <3>5. /\ received' \in [Clients -> Seq(Sent)]
          /\ Len(received'[c]) = Len(received[c]) + 1
          /\ received'[c][Len(received[c]) + 1] = <<msg, part>>
          /\ \A i \in 1..Len(received[c]) : received'[c][i] = received[c][i]
          /\ \A d \in Clients : d # c => received'[d] = received[d]
      BY <2>0, <3>1, <3>4, Receiving
    <3>6. \A i \in 1..Len(received'[c]) : i \in 1..Len(received[c]) \/ i = Len(received[c]) + 1
      BY <2>0, <3>5
    <3>7. ASSUME NEW d \in Clients, NEW i \in 1..Len(received'[d])
          PROVE  LET m == received'[d][i][1] IN
                 /\ m <= made
                 /\ mainPc = "push" => m < made
                 /\ \A q \in Queued : m < q
                 /\ m <= msg
      <4>1. CASE d = c /\ i = Len(received[c]) + 1
        BY <3>3, <3>5, <4>1
      <4>2. CASE d # c \/ i \in 1..Len(received[c])
        <5>1. i \in 1..Len(received[d]) /\ received'[d][i] = received[d][i]
          BY <3>5, <3>7, <4>2
        <5>. QED BY <3>1, <5>1 DEF SentInv
      <4>. QED BY <3>6, <3>7, <4>1, <4>2
    <3>8. Queued' = Queued
      BY <3>2 DEF Queued
    <3>. QED BY <3>1, <3>2, <3>5, <3>7, <3>8 DEF SentInv, Sent
  <2>4. CASE IdleStep
    BY <2>4, IdleSteps DEF SentInv, InHand, Busy, Queued
  <2>5. CASE QuitStep
    BY <2>5, QuitSteps DEF SentInv, InHand, Queued
  <2>6. CASE MakeImage
    <3>1. UNCHANGED <<queue, senderPc, msg, received>> /\ made' = made + 1
      BY <2>6, MakingImage
    <3>2. \A m \in Items : m <= made => m <= made' /\ m < made'
      BY <2>0, <3>1
    <3>. QED BY <2>0, <3>1, <3>2 DEF SentInv, InHand, Queued
  <2>7. CASE PushMessage
    BY <2>7, PushingImage DEF SentInv, InHand
  <2>8. CASE PushMessageWhenFull
    BY <2>8, RefusingImage DEF SentInv, InHand, Queued
  <2>9. CASE Destroy
    BY <2>9, Destroying DEF SentInv, InHand
  <2>10. CASE TakeImage
    <3>1. /\ UNCHANGED <<mainPc, made, received>>
          /\ Queued = Queued' \cup {msg'}
          /\ msg' \in Items
      BY <2>10, TakingImage
    <3>2. \A m \in Items : m < msg' => m <= msg'
      BY <2>0, <3>1
    <3>. QED BY <2>0, <3>1, <3>2 DEF SentInv
  <2>11. CASE FreeImage
    BY <2>11, FreeingImage DEF SentInv, InHand, Busy, Queued
  <2>. QED BY <2>1, <2>2, <2>3, <2>4, <2>5, <2>6, <2>7, <2>8, <2>9, <2>10, <2>11, Steps DEF SendStep
<1>. QED BY <1>1, <1>2, Typing, Locking, Ordering, PTL DEF Spec

\* What becomes of a client that was sent the first part of an image only.
LEMMA Cutting == Spec => []CutInv
<1>1. Init => CutInv
  <2>. SUFFICES ASSUME Init PROVE CutInv
    OBVIOUS
  <2>1. \A c \in Clients : received[c] = <<>> /\ ~Reachable(c)
    BY DEF Init, Reachable
  <2>. QED BY <2>1 DEF Init, CutInv
<1>2. TypeInv /\ LockInv /\ SocketInv /\ SentInv /\ CutInv /\ [Next]_vars => CutInv'
  <2>. SUFFICES ASSUME TypeInv, LockInv, SocketInv, SentInv, CutInv, [Next]_vars PROVE CutInv'
    OBVIOUS
  <2>1. CASE InsideStep /\ ~SendImage
    <3>1. UNCHANGED <<receiverPc, video_socket, peer, client, received>>
      BY <2>1, InsideSteps, OtherSteps
    <3>2. \A c \in Clients : Reachable(c)' <=> Reachable(c)
      BY <3>1 DEF Reachable
    <3>3. /\ fd' \in Fds \cup {Invalid}
          /\ senderPc = "sendRest" \/ senderPc' # "sendRest"
          /\ senderPc = "sendRest" =>
               \/ UNCHANGED <<senderPc, msg, fd>>
               \/ senderPc' = "free" /\ ~\E c \in Clients : CanReceive(c)
      <4>1. CASE CallSend
        BY <4>1, Zenon DEF CallSend, SenderGoto, SocketInv
      <4>2. CASE CheckSocket \/ SendFails
        <5>1. /\ fd' = fd
              /\ \/ senderPc = "process" /\ senderPc' \in {"free", "call"}
                 \/ senderPc \in {"send", "sendRest"} /\ senderPc' = "free"
                    /\ ~\E c \in Clients : CanReceive(c)
          BY <4>2, Zenon DEF CheckSocket, SendFails, SenderGoto
        <5>. QED BY <5>1 DEF CutInv
      <4>3. CASE IdleStep
        <5>1. fd' = fd
          BY <4>3, Zenon DEF IdleStep, Sleep, WakeUp, ExitStopped, SpuriousWakeUp, senderVars
        <5>. QED BY <4>3, <5>1, IdleSteps DEF CutInv
      <4>4. CASE QuitStep \/ MakeImage \/ PushMessage \/ PushMessageWhenFull \/ Destroy
        <5>1. UNCHANGED <<senderPc, msg, fd>>
          BY <4>4, Zenon DEF QuitStep, CloseServerSocket, Stop, Join, MakeImage, PushMessage,
                             PushMessageWhenFull, Destroy, senderVars
        <5>. QED BY <5>1 DEF CutInv
      <4>5. CASE TakeImage
        BY <4>5, Zenon DEF TakeImage, SenderGoto, CutInv
      <4>6. CASE FreeImage
        BY <4>6, Zenon DEF FreeImage, SenderGoto
      <4>. QED BY <2>1, <4>1, <4>2, <4>3, <4>4, <4>5, <4>6 DEF InsideStep, SendStep
    <3>4. ASSUME NEW c \in Clients, Reachable(c), received[c] # <<>>, senderPc = "sendRest"
          PROVE  CanReceive(c)
      BY <3>4 DEF CutInv, Reachable, CanReceive
    <3>. QED BY <3>1, <3>2, <3>3, <3>4 DEF CutInv
  <2>2. CASE SendImage
    <3>1. PICK c \in Clients, part \in Parts :
            /\ CanReceive(c)
            /\ received' = [received EXCEPT ![c] = Append(@, <<msg, part>>)]
            /\ \/ part = "all" /\ senderPc = "send" /\ senderPc' = "free"
               \/ part = "start" /\ senderPc = "send" /\ senderPc' = "sendRest"
               \/ part = "rest" /\ senderPc = "sendRest" /\ senderPc' = "free"
      BY <2>2, Sending
    <3>2. fd = video_socket /\ Reachable(c) /\ \A d \in Clients : Reachable(d) => d = c
      BY <3>1, OneReachable DEF CutInv
    <3>3. UNCHANGED <<receiverPc, video_socket, peer, client, msg, fd>>
      <4>1. fd' = fd
        BY <2>2, Zenon DEF SendImage
      <4>. QED BY <2>2, <4>1, SendSteps DEF SendStep
    <3>4. <<msg, part>> \in Sent /\ received \in [Clients -> Seq(Sent)]
      BY <3>1 DEF Sent, LockInv, TypeInv, InHand, Busy, SentInv
    <3>5. /\ Len(received'[c]) = Len(received[c]) + 1
          /\ received'[c][Len(received[c]) + 1] = <<msg, part>>
          /\ \A d \in Clients : d # c => received'[d] = received[d]
      BY <3>1, <3>4, Receiving
    <3>6. received'[c][Len(received'[c])] = <<msg, part>> /\ client[c] = "connected"
      BY <3>2, <3>5 DEF Reachable
    <3>7. \A d \in Clients : Reachable(d)' <=> d = c
      BY <3>2, <3>3 DEF Reachable
    <3>. QED BY <3>1, <3>2, <3>3, <3>5, <3>6, <3>7 DEF CutInv
  <2>3. CASE OutsideStep \/ UNCHANGED vars
    <3>1. UNCHANGED <<senderPc, msg, fd, received>>
      BY <2>3, OutsideSteps
    <3>. DEFINE Kept(c) ==
           /\ client'[c] \in {"away", "waiting"} => client[c] \in {"away", "waiting"}
           /\ Reachable(c)' => \/ Reachable(c) /\ video_socket' = video_socket
                               \/ client[c] = "waiting"
    <3>2. ASSUME NEW c \in Clients
          PROVE  Kept(c)
      <4>0. /\ peer \in [Fds -> Clients \cup {Invalid}] /\ client \in [Clients -> ClientStates]
            /\ Invalid \notin Clients
        BY AgentStreamAssumption DEF SocketInv
      <4>1. ASSUME NEW d \in Clients, NEW s \in {"waiting", "gone"},
                   client' = [client EXCEPT ![d] = s],
                   s = "waiting" => client[d] = "away",
                   UNCHANGED <<receiverPc, video_socket, peer>>
            PROVE  Kept(c)
        <5>1. /\ client'[d] = s
              /\ \A e \in Clients : e # d => client'[e] = client[e]
          BY <4>0, <4>1, OneClient DEF ClientStates
        <5>. QED BY <4>1, <5>1 DEF Reachable
      <4>2. CASE video_socket' = Invalid /\ client' = client
        BY <4>2 DEF Reachable
      <4>3. ASSUME NEW d \in Clients, NEW f \in Fds,
                   client[d] = "waiting", client' = [client EXCEPT ![d] = "connected"],
                   peer' = [peer EXCEPT ![f] = d], video_socket' = f
            PROVE  Kept(c)
        <5>1. /\ client'[d] = "connected"
              /\ \A e \in Clients : e # d => client'[e] = client[e]
          BY <4>0, <4>3, OneClient DEF ClientStates
        <5>2. peer'[f] = d
          BY <4>0, <4>3, OnePeer
        <5>. QED BY <4>3, <5>1, <5>2 DEF Reachable
      <4>4. CASE UNCHANGED <<video_socket, peer, client>>
        BY <4>4 DEF Reachable
      <4>. HIDE DEF Kept
      <4>. QED BY <2>3, <4>1, <4>2, <4>3, <4>4, SocketSteps
    <3>. QED BY <3>1, <3>2 DEF CutInv
  <2>. QED BY <2>1, <2>2, <2>3, Steps DEF InsideStep, SendStep
<1>. QED BY <1>1, <1>2, Typing, Locking, Connecting, SentBefore, PTL DEF Spec

\* A client gets the images in the order in which they were made, each once, and none but
\* the first and the last one in parts; this holds wherever clients come and go.
THEOREM CutsAreAtTheEnds == Spec => []CutOnlyAtTheEnds
<1>1. Init => CutOnlyAtTheEnds
  <2>. SUFFICES ASSUME Init PROVE CutOnlyAtTheEnds
    OBVIOUS
  <2>1. \A c \in Clients : DOMAIN received[c] = {}
    BY DEF Init
  <2>. QED BY <2>1 DEF CutOnlyAtTheEnds
<1>2. TypeInv /\ LockInv /\ SocketInv /\ SentInv /\ CutInv /\ CutOnlyAtTheEnds /\ [Next]_vars
      => CutOnlyAtTheEnds'
  <2>. SUFFICES ASSUME TypeInv, LockInv, SocketInv, SentInv, CutInv, CutOnlyAtTheEnds, [Next]_vars
                PROVE  CutOnlyAtTheEnds'
    OBVIOUS
  <2>1. CASE ~SendImage
    <3>1. received' = received
      BY <2>1, OtherSteps, OutsideSteps, Steps DEF InsideStep, SendStep
    <3>. QED BY <3>1 DEF CutOnlyAtTheEnds
  <2>2. CASE SendImage
    <3>1. PICK c \in Clients, part \in Parts :
            /\ CanReceive(c)
            /\ received' = [received EXCEPT ![c] = Append(@, <<msg, part>>)]
            /\ \/ part = "all" /\ senderPc = "send"
               \/ part = "start" /\ senderPc = "send"
               \/ part = "rest" /\ senderPc = "sendRest"
      BY <2>2, Sending
    <3>2. Reachable(c)
      BY <3>1, OneReachable DEF CutInv
    <3>. DEFINE r == received[c]  s == received'[c]  n == Len(received[c])
    <3>3. <<msg, part>> \in Sent /\ received \in [Clients -> Seq(Sent)]
      BY <3>1 DEF Sent, LockInv, TypeInv, InHand, Busy, SentInv
    <3>4. /\ received' \in [Clients -> Seq(Sent)]
          /\ Len(s) = n + 1
          /\ s[n + 1] = <<msg, part>>
          /\ \A i \in 1..n : s[i] = r[i]
          /\ \A d \in Clients : d # c => received'[d] = received[d]
      BY <3>1, <3>3, Receiving
    <3>5. /\ n \in Nat /\ r \in Seq(Sent) /\ DOMAIN r = 1..n /\ DOMAIN s = 1..(n + 1)
          /\ r = <<>> <=> n = 0
      BY <3>3, <3>4
    <3>6. /\ n > 0 /\ r[n][2] = "start" => part = "rest" /\ r[n][1] = msg
          /\ part = "rest" => n = 0 \/ r[n] = <<msg, "start">>
      BY <3>1, <3>2, <3>5 DEF CutInv
    <3>7. part # "rest" /\ n > 0 => r[n][1] < msg
      <4>1. part # "rest" => senderPc = "send"
        BY <3>1
      <4>2. n > 0 => n \in 1..Len(received[c])
        BY <3>5
      <4>. QED BY <4>1, <4>2 DEF SentInv
    <3>8. \A i \in DOMAIN r :
            /\ r[i][2] = "start" => i = n \/ r[i + 1] = <<r[i][1], "rest">>
            /\ r[i][2] = "rest" => i = 1 \/ r[i - 1] = <<r[i][1], "start">>
            /\ i > 1 /\ r[i][2] # "rest" => r[i - 1][1] < r[i][1]
      BY DEF CutOnlyAtTheEnds
    <3>. HIDE DEF r, s, n
    <3>9. ASSUME NEW i \in 1..(n + 1)
          PROVE  /\ s[i][2] = "start" => i = Len(s) \/ s[i + 1] = <<s[i][1], "rest">>
                 /\ s[i][2] = "rest" => i = 1 \/ s[i - 1] = <<s[i][1], "start">>
                 /\ i > 1 /\ s[i][2] # "rest" => s[i - 1][1] < s[i][1]
      <4>1. CASE i = n + 1
        <5>1. i > 1 => s[i - 1] = r[n] /\ n > 0
          BY <3>4, <3>5, <4>1
        <5>2. s[i][1] = msg /\ s[i][2] = part
          BY <3>4, <4>1
        <5>3. i = 1 <=> n = 0
          BY <3>5, <4>1
        <5>. QED BY <3>4, <3>5, <3>6, <3>7, <4>1, <5>1, <5>2, <5>3
      <4>2. CASE i = n /\ n > 0
        <5>1. /\ i \in 1..n /\ s[i] = r[n] /\ s[i + 1] = <<msg, part>>
              /\ i > 1 => s[i - 1] = r[i - 1]
          BY <3>4, <3>5, <4>2
        <5>. QED BY <3>5, <3>6, <3>8, <4>2, <5>1
      <4>3. CASE i \in 1..n /\ i # n
        <5>1. /\ s[i] = r[i] /\ s[i + 1] = r[i + 1]
              /\ i > 1 => s[i - 1] = r[i - 1]
          BY <3>4, <3>5, <4>3
        <5>. QED BY <3>5, <3>8, <4>3, <5>1
      <4>. QED BY <3>5, <4>1, <4>2, <4>3
    <3>10. ASSUME NEW d \in Clients, d # c, NEW i \in DOMAIN received'[d]
           PROVE  LET q == received'[d] IN
                  /\ q[i][2] = "start" => i = Len(q) \/ q[i + 1] = <<q[i][1], "rest">>
                  /\ q[i][2] = "rest" => i = 1 \/ q[i - 1] = <<q[i][1], "start">>
                  /\ i > 1 /\ q[i][2] # "rest" => q[i - 1][1] < q[i][1]
      BY <3>4, <3>10 DEF CutOnlyAtTheEnds
    <3>. QED BY <3>5, <3>9, <3>10 DEF CutOnlyAtTheEnds, s
  <2>. QED BY <2>1, <2>2
<1>. QED BY <1>1, <1>2, Typing, Locking, Connecting, SentBefore, Cutting, PTL DEF Spec
=============================================================================
