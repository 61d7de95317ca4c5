-------------------------- MODULE ControllerProofs --------------------------
(***************************************************************************)
(* The control channel for every capacity of its queue, any number of      *)
(* messages and both kinds of agent; then what goes over its socket, for   *)
(* every limit of the texts, all messages of the program and all texts.    *)
(*                                                                         *)
(* The argument for the queue: the controller thread exists only after     *)
(* Init and Start (BirthInv), so nothing can be in the queue that Init     *)
(* would drop and nobody sleeps when a failed Start sets the stop flag; a  *)
(* message is pushed at one end of the contents and taken at the other     *)
(* (CBufProofs); and a failure to send is final (ConsumerInv).             *)
(***************************************************************************)
EXTENDS Controller, ControlSocket, CBufProofs, SequenceTheorems

\* The items of the queue are messages, and so is what the thread holds.
MessagesInv ==
  /\ Contents(queue) \in Seq(Messages)
  /\ consumerPc \in {"process", "destroyMessage"} => msg \in Messages

BirthInv ==
  /\ mainPc \in {"init", "start"} => consumerPc = "unborn"
  /\ mainPc = "init" => queue = EmptyCBuf

ConsumerInv ==
  /\ sleeping => consumerPc = "wait"
  /\ failed => ~ok /\ consumerPc \in {"destroyMessage", "ended"}

----------------------------------------------------------------------------
(* The queue. *)

\* What PushMessage does to the contents, when there is room and when there is not.
LEMMA Pushing ==
  ASSUME NEW b \in CBufs, NEW m \in Messages, Contents(b) \in Seq(Messages)
  PROVE  /\ CbufPush(b, m) \in CBufs
         /\ Contents(CbufPush(b, m)) \in Seq(Messages)
         /\ CbufIsFull(b) => CbufPush(b, m) = b
         /\ ~CbufIsFull(b) => /\ Len(Contents(b)) < Capacity
                              /\ Contents(CbufPush(b, m)) = Append(Contents(b), m)
<1>1. CASE CbufIsFull(b)
  BY <1>1 DEF CbufPush
<1>2. CASE ~CbufIsFull(b)
  <2>1. /\ CbufPush(b, m) \in CBufs
        /\ Contents(CbufPush(b, m)) = Append(Contents(b), m)
    BY <1>2, Push, ControllerAssumption DEF Messages
  <2>2. Len(Contents(b)) = CbufCount(b) /\ CbufCount(b) \in 0..Capacity /\ CbufCount(b) # Capacity
    BY <1>2, Counting, ContentsType
  <2>. QED BY <1>2, <2>1, <2>2, CBufAssumption
<1>. QED BY <1>1, <1>2

\* Taking the first message.
LEMMA Taking ==
  ASSUME NEW b \in CBufs, ~CbufIsEmpty(b), Contents(b) \in Seq(Messages)
  PROVE  /\ CbufTake(b) \in CBufs
         /\ Contents(b) # <<>>
         /\ CbufItem(b) \in Messages
         /\ Contents(CbufTake(b)) \in Seq(Messages)
         /\ Contents(CbufTake(b)) = Tail(Contents(b))
         /\ Contents(b) = <<CbufItem(b)>> \o Contents(CbufTake(b))
<1>1. /\ CbufTake(b) \in CBufs
      /\ Contents(b) # <<>>
      /\ CbufItem(b) = Head(Contents(b))
      /\ Contents(CbufTake(b)) = Tail(Contents(b))
  BY Take
<1>2. /\ Head(Contents(b)) \in Messages
      /\ Tail(Contents(b)) \in Seq(Messages)
      /\ Contents(b) = <<Head(Contents(b))>> \o Tail(Contents(b))
  BY <1>1
<1>. QED BY <1>1, <1>2

\* What a step that produces a message does.
LEMMA Producing ==
  ASSUME TypeOK, MessagesInv, NEW texts, texts \subseteq {"none", "live", "freed"},
         NewMessage(texts), PushMessage(produced + 1)
  PROVE  /\ queue' \in CBufs /\ Contents(queue)' \in Seq(Messages)
         /\ sleeping' \in BOOLEAN
         /\ produced' \in 0..MaxMessages /\ produced' = produced + 1 /\ produced' \in Messages
         /\ text' \in [Messages -> {"none", "live", "freed", "corrupt"}]
         /\ accepted' \in Seq(Messages)
         /\ CbufIsFull(queue) => queue' = queue /\ accepted' = accepted
         /\ ~CbufIsFull(queue) => /\ Len(Contents(queue)) < Capacity
                                  /\ Contents(queue)' = Append(Contents(queue), produced')
                                  /\ accepted' = Append(accepted, produced')
<1>1. produced + 1 \in Messages /\ queue \in CBufs /\ Contents(queue) \in Seq(Messages)
  BY ControllerAssumption DEF TypeOK, MessagesInv, NewMessage, Messages
<1>2. queue' = CbufPush(queue, produced + 1) /\ produced' = produced + 1
  BY DEF PushMessage
<1>3. sleeping' \in BOOLEAN
  BY Zenon DEF PushMessage, SleepingAfterPush, TypeOK
<1>4. text' \in [Messages -> {"none", "live", "freed", "corrupt"}]
  BY DEF NewMessage, TypeOK
<1>5. /\ accepted' = IF CbufIsFull(queue) THEN accepted ELSE Append(accepted, produced + 1)
      /\ accepted \in Seq(Messages)
  BY DEF PushMessage, TypeOK
<1>6. /\ CbufPush(queue, produced + 1) \in CBufs
      /\ Contents(CbufPush(queue, produced + 1)) \in Seq(Messages)
      /\ CbufIsFull(queue) => CbufPush(queue, produced + 1) = queue
      /\ ~CbufIsFull(queue) =>
           /\ Len(Contents(queue)) < Capacity
           /\ Contents(CbufPush(queue, produced + 1)) = Append(Contents(queue), produced + 1)
  BY <1>1, Pushing
<1>7. /\ accepted' \in Seq(Messages)
      /\ CbufIsFull(queue) => accepted' = accepted
      /\ ~CbufIsFull(queue) => accepted' = Append(accepted, produced + 1)
  BY <1>1, <1>5
<1>8. produced' \in 0..MaxMessages
  BY <1>1, <1>2, ControllerAssumption DEF Messages
<1>. QED BY <1>1, <1>2, <1>3, <1>4, <1>6, <1>7, <1>8

\* Freeing a text leaves it freed or corrupt.
LEMMA Releasing ==
  ASSUME TypeOK, NEW m
  PROVE  Release(m) \in [Messages -> {"none", "live", "freed", "corrupt"}]
BY DEF Release, TypeOK

----------------------------------------------------------------------------
(* Every variable keeps its type, and the queue holds messages. *)
THEOREM Typing == Spec => [](TypeOK /\ MessagesInv)
<1>. USE ControllerAssumption DEF consumerVars, mainVars, agentVars
<1>1. Init => TypeOK /\ MessagesInv
  <2>. SUFFICES ASSUME Init
                PROVE  TypeOK /\ MessagesInv
    OBVIOUS
  <2>1. stopped \in BOOLEAN /\ sleeping \in BOOLEAN /\ ok \in BOOLEAN /\ failed \in BOOLEAN
        /\ joined \in BOOLEAN /\ shutDown \in BOOLEAN
    BY Zenon DEF Init
  <2>. QED BY <2>1, Emptiness DEF Init, TypeOK, MessagesInv, ConsumerPcs, MainPcs, Messages
<1>2. TypeOK /\ MessagesInv /\ [Next]_vars => (TypeOK /\ MessagesInv)'
  <2>. SUFFICES ASSUME TypeOK, MessagesInv, [Next]_vars
                PROVE  TypeOK' /\ MessagesInv'
    OBVIOUS
  <2>1. CASE InitController
    <3>1. sleeping' \in BOOLEAN
      BY <2>1, Zenon DEF InitController, MainGoto, TypeOK
    <3>2. /\ stopped' \in BOOLEAN /\ ok' \in BOOLEAN /\ failed' \in BOOLEAN
          /\ joined' \in BOOLEAN /\ shutDown' \in BOOLEAN
      BY <2>1, Zenon DEF InitController, MainGoto, TypeOK
    <3>3. queue' \in CBufs /\ Contents(queue') = <<>>
      BY <2>1, Emptiness DEF InitController, TypeOK
    <3>. QED BY <2>1, <3>1, <3>2, <3>3
         DEF InitController, MainGoto, TypeOK, MessagesInv, ConsumerPcs, MainPcs
  <2>2. CASE CreateThread
    <3>1. sleeping' \in BOOLEAN
      BY <2>2, Zenon DEF CreateThread, MainGoto, TypeOK
    <3>2. /\ stopped' \in BOOLEAN /\ ok' \in BOOLEAN /\ failed' \in BOOLEAN
          /\ joined' \in BOOLEAN /\ shutDown' \in BOOLEAN
      BY <2>2, Zenon DEF CreateThread, MainGoto, TypeOK
    <3>. QED BY <2>2, <3>1, <3>2
         DEF CreateThread, MainGoto, TypeOK, MessagesInv, ConsumerPcs, MainPcs
  <2>3. CASE StartReceiver
    <3>1. sleeping' \in BOOLEAN
      BY <2>3, Zenon DEF StartReceiver, MainGoto, TypeOK
    <3>2. /\ stopped' \in BOOLEAN /\ ok' \in BOOLEAN /\ failed' \in BOOLEAN
          /\ joined' \in BOOLEAN /\ shutDown' \in BOOLEAN
      BY <2>3, Zenon DEF StartReceiver, MainGoto, TypeOK
    <3>. QED BY <2>3, <3>1, <3>2
         DEF StartReceiver, MainGoto, TypeOK, MessagesInv, ConsumerPcs, MainPcs
  <2>4. CASE StartReceiverFails
    <3>1. sleeping' \in BOOLEAN
      BY <2>4, Zenon DEF StartReceiverFails, MainGoto, TypeOK
    <3>2. /\ stopped' \in BOOLEAN /\ ok' \in BOOLEAN /\ failed' \in BOOLEAN
          /\ joined' \in BOOLEAN /\ shutDown' \in BOOLEAN
      BY <2>4, Zenon DEF StartReceiverFails, MainGoto, TypeOK
    <3>. QED BY <2>4, <3>1, <3>2
         DEF StartReceiverFails, MainGoto, TypeOK, MessagesInv, ConsumerPcs, MainPcs
  <2>5. CASE UndoStart
    <3>1. sleeping' \in BOOLEAN
      BY <2>5, Zenon DEF UndoStart, MainGoto, TypeOK
    <3>2. /\ stopped' \in BOOLEAN /\ ok' \in BOOLEAN /\ failed' \in BOOLEAN
          /\ joined' \in BOOLEAN /\ shutDown' \in BOOLEAN
      BY <2>5, Zenon DEF UndoStart, MainGoto, TypeOK
    <3>. QED BY <2>5, <3>1, <3>2
         DEF UndoStart, MainGoto, TypeOK, MessagesInv, ConsumerPcs, MainPcs
  <2>6. CASE MainPush
    <3>0. \E texts : /\ texts \subseteq {"none", "live", "freed"}
                       /\ NewMessage(texts) /\ PushMessage(produced + 1)
      BY <2>6 DEF MainPush
    <3>1. /\ queue' \in CBufs /\ Contents(queue)' \in Seq(Messages)
          /\ sleeping' \in BOOLEAN
          /\ produced' \in 0..MaxMessages /\ produced + 1 \in Messages
          /\ text' \in [Messages -> {"none", "live", "freed", "corrupt"}]
          /\ accepted' \in Seq(Messages)
      BY <3>0, Producing
    <3>2. /\ stopped' \in BOOLEAN /\ ok' \in BOOLEAN /\ failed' \in BOOLEAN
          /\ joined' \in BOOLEAN /\ shutDown' \in BOOLEAN
      BY <2>6, Zenon DEF MainPush, PushMessage, TypeOK
    <3>. QED BY <2>6, <3>1, <3>2
         DEF MainPush, PushMessage, TypeOK, MessagesInv, ConsumerPcs, MainPcs
  <2>7. CASE Stop
    <3>1. sleeping' \in BOOLEAN
      BY <2>7, Zenon DEF Stop, MainGoto, TypeOK
    <3>2. /\ stopped' \in BOOLEAN /\ ok' \in BOOLEAN /\ failed' \in BOOLEAN
          /\ joined' \in BOOLEAN /\ shutDown' \in BOOLEAN
      BY <2>7, Zenon DEF Stop, MainGoto, TypeOK
    <3>. QED BY <2>7, <3>1, <3>2
         DEF Stop, MainGoto, TypeOK, MessagesInv, ConsumerPcs, MainPcs
  <2>8. CASE StopServer
    <3>1. sleeping' \in BOOLEAN
      BY <2>8, Zenon DEF StopServer, MainGoto, TypeOK
    <3>2. /\ stopped' \in BOOLEAN /\ ok' \in BOOLEAN /\ failed' \in BOOLEAN
          /\ joined' \in BOOLEAN /\ shutDown' \in BOOLEAN
      BY <2>8, Zenon DEF StopServer, MainGoto, TypeOK
    <3>. QED BY <2>8, <3>1, <3>2
         DEF StopServer, MainGoto, TypeOK, MessagesInv, ConsumerPcs, MainPcs
  <2>9. CASE JoinController
    <3>1. sleeping' \in BOOLEAN
      BY <2>9, Zenon DEF JoinController, MainGoto, TypeOK
    <3>2. /\ stopped' \in BOOLEAN /\ ok' \in BOOLEAN /\ failed' \in BOOLEAN
          /\ joined' \in BOOLEAN /\ shutDown' \in BOOLEAN
      BY <2>9, Zenon DEF JoinController, MainGoto, TypeOK
    <3>. QED BY <2>9, <3>1, <3>2
         DEF JoinController, MainGoto, TypeOK, MessagesInv, ConsumerPcs, MainPcs
  <2>10. CASE JoinTwiceCrashes
    <3>1. sleeping' \in BOOLEAN
      BY <2>10, Zenon DEF JoinTwiceCrashes, MainGoto, TypeOK
    <3>2. /\ stopped' \in BOOLEAN /\ ok' \in BOOLEAN /\ failed' \in BOOLEAN
          /\ joined' \in BOOLEAN /\ shutDown' \in BOOLEAN
      BY <2>10, Zenon DEF JoinTwiceCrashes, MainGoto, TypeOK
    <3>. QED BY <2>10, <3>1, <3>2
         DEF JoinTwiceCrashes, MainGoto, TypeOK, MessagesInv, ConsumerPcs, MainPcs
  <2>11. CASE JoinAgent
    <3>1. sleeping' \in BOOLEAN
      BY <2>11, Zenon DEF JoinAgent, MainGoto, TypeOK
    <3>2. /\ stopped' \in BOOLEAN /\ ok' \in BOOLEAN /\ failed' \in BOOLEAN
          /\ joined' \in BOOLEAN /\ shutDown' \in BOOLEAN
      BY <2>11, Zenon DEF JoinAgent, MainGoto, TypeOK
    <3>. QED BY <2>11, <3>1, <3>2
         DEF JoinAgent, MainGoto, TypeOK, MessagesInv, ConsumerPcs, MainPcs
  <2>12. CASE Destroy
    <3>1. sleeping' \in BOOLEAN
      BY <2>12, Zenon DEF Destroy, MainGoto, TypeOK
    <3>2. /\ stopped' \in BOOLEAN /\ ok' \in BOOLEAN /\ failed' \in BOOLEAN
          /\ joined' \in BOOLEAN /\ shutDown' \in BOOLEAN
      BY <2>12, Zenon DEF Destroy, MainGoto, TypeOK
    <3>. QED BY <2>12, <3>1, <3>2, Releasing, Taking
         DEF Destroy, MainGoto, TypeOK, MessagesInv, ConsumerPcs, MainPcs
  <2>13. CASE AgentAccepts
    <3>1. sleeping' \in BOOLEAN
      BY <2>13, Zenon DEF AgentAccepts, AgentGoto, TypeOK
    <3>2. /\ stopped' \in BOOLEAN /\ ok' \in BOOLEAN /\ failed' \in BOOLEAN
          /\ joined' \in BOOLEAN /\ shutDown' \in BOOLEAN
      BY <2>13, Zenon DEF AgentAccepts, AgentGoto, TypeOK
    <3>. QED BY <2>13, <3>1, <3>2
         DEF AgentAccepts, AgentGoto, TypeOK, MessagesInv, ConsumerPcs, MainPcs
  <2>14. CASE AgentStoresSocket
    <3>1. sleeping' \in BOOLEAN
      BY <2>14, Zenon DEF AgentStoresSocket, AgentGoto, TypeOK
    <3>2. /\ stopped' \in BOOLEAN /\ ok' \in BOOLEAN /\ failed' \in BOOLEAN
          /\ joined' \in BOOLEAN /\ shutDown' \in BOOLEAN
      BY <2>14, Zenon DEF AgentStoresSocket, AgentGoto, TypeOK
    <3>. QED BY <2>14, <3>1, <3>2
         DEF AgentStoresSocket, AgentGoto, TypeOK, MessagesInv, ConsumerPcs, MainPcs
  <2>15. CASE AgentPush
    <3>0. \E texts : /\ texts \subseteq {"none", "live", "freed"}
                       /\ NewMessage(texts) /\ PushMessage(produced + 1)
      BY <2>15 DEF AgentPush, AgentGoto
    <3>1. /\ queue' \in CBufs /\ Contents(queue)' \in Seq(Messages)
          /\ sleeping' \in BOOLEAN
          /\ produced' \in 0..MaxMessages /\ produced + 1 \in Messages
          /\ text' \in [Messages -> {"none", "live", "freed", "corrupt"}]
          /\ accepted' \in Seq(Messages)
      BY <3>0, Producing
    <3>2. /\ stopped' \in BOOLEAN /\ ok' \in BOOLEAN /\ failed' \in BOOLEAN
          /\ joined' \in BOOLEAN /\ shutDown' \in BOOLEAN
      BY <2>15, Zenon DEF AgentPush, AgentGoto, PushMessage, TypeOK
    <3>. QED BY <2>15, <3>1, <3>2
         DEF AgentPush, AgentGoto, PushMessage, TypeOK, MessagesInv, ConsumerPcs, MainPcs
  <2>16. CASE AgentPushWithoutMutex
    <3>1. sleeping' \in BOOLEAN
      BY <2>16, Zenon DEF AgentPushWithoutMutex, TypeOK
    <3>2. /\ stopped' \in BOOLEAN /\ ok' \in BOOLEAN /\ failed' \in BOOLEAN
          /\ joined' \in BOOLEAN /\ shutDown' \in BOOLEAN
      BY <2>16, Zenon DEF AgentPushWithoutMutex, TypeOK
    <3>. QED BY <2>16, <3>1, <3>2
         DEF AgentPushWithoutMutex, TypeOK, MessagesInv, ConsumerPcs, MainPcs
  <2>17. CASE AgentDestroysMessage
    <3>1. sleeping' \in BOOLEAN
      BY <2>17, Zenon DEF AgentDestroysMessage, AgentGoto, TypeOK
    <3>2. /\ stopped' \in BOOLEAN /\ ok' \in BOOLEAN /\ failed' \in BOOLEAN
          /\ joined' \in BOOLEAN /\ shutDown' \in BOOLEAN
      BY <2>17, Zenon DEF AgentDestroysMessage, AgentGoto, TypeOK
    <3>. QED BY <2>17, <3>1, <3>2, Releasing
         DEF AgentDestroysMessage, AgentGoto, TypeOK, MessagesInv, ConsumerPcs, MainPcs
  <2>18. CASE AgentLosesClient
    <3>1. sleeping' \in BOOLEAN
      BY <2>18, Zenon DEF AgentLosesClient, AgentGoto, TypeOK
    <3>2. /\ stopped' \in BOOLEAN /\ ok' \in BOOLEAN /\ failed' \in BOOLEAN
          /\ joined' \in BOOLEAN /\ shutDown' \in BOOLEAN
      BY <2>18, Zenon DEF AgentLosesClient, AgentGoto, TypeOK
    <3>. QED BY <2>18, <3>1, <3>2
         DEF AgentLosesClient, AgentGoto, TypeOK, MessagesInv, ConsumerPcs, MainPcs
  <2>19. CASE AgentEnds
    <3>1. sleeping' \in BOOLEAN
      BY <2>19, Zenon DEF AgentEnds, AgentGoto, TypeOK
    <3>2. /\ stopped' \in BOOLEAN /\ ok' \in BOOLEAN /\ failed' \in BOOLEAN
          /\ joined' \in BOOLEAN /\ shutDown' \in BOOLEAN
      BY <2>19, Zenon DEF AgentEnds, AgentGoto, TypeOK
    <3>. QED BY <2>19, <3>1, <3>2
         DEF AgentEnds, AgentGoto, TypeOK, MessagesInv, ConsumerPcs, MainPcs
  <2>20. CASE Sleep
    <3>1. sleeping' \in BOOLEAN
      BY <2>20, Zenon DEF Sleep, ConsumerGoto, TypeOK
    <3>2. /\ stopped' \in BOOLEAN /\ ok' \in BOOLEAN /\ failed' \in BOOLEAN
          /\ joined' \in BOOLEAN /\ shutDown' \in BOOLEAN
      BY <2>20, Zenon DEF Sleep, ConsumerGoto, TypeOK
    <3>. QED BY <2>20, <3>1, <3>2
         DEF Sleep, ConsumerGoto, TypeOK, MessagesInv, ConsumerPcs, MainPcs
  <2>21. CASE WakeUp
    <3>1. sleeping' \in BOOLEAN
      BY <2>21, Zenon DEF WakeUp, ConsumerGoto, TypeOK
    <3>2. /\ stopped' \in BOOLEAN /\ ok' \in BOOLEAN /\ failed' \in BOOLEAN
          /\ joined' \in BOOLEAN /\ shutDown' \in BOOLEAN
      BY <2>21, Zenon DEF WakeUp, ConsumerGoto, TypeOK
    <3>. QED BY <2>21, <3>1, <3>2
         DEF WakeUp, ConsumerGoto, TypeOK, MessagesInv, ConsumerPcs, MainPcs
  <2>22. CASE SpuriousWakeUp
    <3>1. sleeping' \in BOOLEAN
      BY <2>22, Zenon DEF SpuriousWakeUp, TypeOK
    <3>2. /\ stopped' \in BOOLEAN /\ ok' \in BOOLEAN /\ failed' \in BOOLEAN
          /\ joined' \in BOOLEAN /\ shutDown' \in BOOLEAN
      BY <2>22, Zenon DEF SpuriousWakeUp, TypeOK
    <3>. QED BY <2>22, <3>1, <3>2
         DEF SpuriousWakeUp, TypeOK, MessagesInv, ConsumerPcs, MainPcs
  <2>23. CASE ExitStopped
    <3>1. sleeping' \in BOOLEAN
      BY <2>23, Zenon DEF ExitStopped, ConsumerGoto, TypeOK
    <3>2. /\ stopped' \in BOOLEAN /\ ok' \in BOOLEAN /\ failed' \in BOOLEAN
          /\ joined' \in BOOLEAN /\ shutDown' \in BOOLEAN
      BY <2>23, Zenon DEF ExitStopped, ConsumerGoto, TypeOK
    <3>. QED BY <2>23, <3>1, <3>2
         DEF ExitStopped, ConsumerGoto, TypeOK, MessagesInv, ConsumerPcs, MainPcs
  <2>24. CASE TakeMessage
    <3>1. sleeping' \in BOOLEAN
      BY <2>24, Zenon DEF TakeMessage, ConsumerGoto, TypeOK
    <3>2. /\ stopped' \in BOOLEAN /\ ok' \in BOOLEAN /\ failed' \in BOOLEAN
          /\ joined' \in BOOLEAN /\ shutDown' \in BOOLEAN
      BY <2>24, Zenon DEF TakeMessage, ConsumerGoto, TypeOK
    <3>. QED BY <2>24, <3>1, <3>2, Taking
         DEF TakeMessage, ConsumerGoto, TypeOK, MessagesInv, ConsumerPcs, MainPcs
  <2>25. CASE SendInOneGo
    <3>1. sleeping' \in BOOLEAN
      BY <2>25, Zenon DEF SendInOneGo, ConsumerGoto, TypeOK
    <3>2. /\ stopped' \in BOOLEAN /\ ok' \in BOOLEAN /\ failed' \in BOOLEAN
          /\ joined' \in BOOLEAN /\ shutDown' \in BOOLEAN
      BY <2>25, Zenon DEF SendInOneGo, ConsumerGoto, TypeOK
    <3>. QED BY <2>25, <3>1, <3>2
         DEF SendInOneGo, ConsumerGoto, TypeOK, MessagesInv, ConsumerPcs, MainPcs
  <2>26. CASE SendInChunks
    <3>1. sleeping' \in BOOLEAN
      BY <2>26, Zenon DEF SendInChunks, ConsumerGoto, TypeOK
    <3>2. /\ stopped' \in BOOLEAN /\ ok' \in BOOLEAN /\ failed' \in BOOLEAN
          /\ joined' \in BOOLEAN /\ shutDown' \in BOOLEAN
      BY <2>26, Zenon DEF SendInChunks, ConsumerGoto, TypeOK
    <3>. QED BY <2>26, <3>1, <3>2
         DEF SendInChunks, ConsumerGoto, TypeOK, MessagesInv, ConsumerPcs, MainPcs
  <2>27. CASE SendFails
    <3>1. sleeping' \in BOOLEAN
      BY <2>27, Zenon DEF SendFails, ConsumerGoto, TypeOK
    <3>2. /\ stopped' \in BOOLEAN /\ ok' \in BOOLEAN /\ failed' \in BOOLEAN
          /\ joined' \in BOOLEAN /\ shutDown' \in BOOLEAN
      BY <2>27, Zenon DEF SendFails, ConsumerGoto, TypeOK
    <3>. QED BY <2>27, <3>1, <3>2
         DEF SendFails, ConsumerGoto, TypeOK, MessagesInv, ConsumerPcs, MainPcs
  <2>28. CASE DestroyMessage
    <3>1. sleeping' \in BOOLEAN
      BY <2>28, Zenon DEF DestroyMessage, ConsumerGoto, TypeOK
    <3>2. /\ stopped' \in BOOLEAN /\ ok' \in BOOLEAN /\ failed' \in BOOLEAN
          /\ joined' \in BOOLEAN /\ shutDown' \in BOOLEAN
      BY <2>28, Zenon DEF DestroyMessage, ConsumerGoto, TypeOK
    <3>. QED BY <2>28, <3>1, <3>2, Releasing
         DEF DestroyMessage, ConsumerGoto, TypeOK, MessagesInv, ConsumerPcs, MainPcs
  <2>29. CASE UNCHANGED vars
    BY <2>29 DEF vars, TypeOK, MessagesInv
  <2>. QED
    BY <2>1, <2>2, <2>3, <2>4, <2>5, <2>6, <2>7, <2>8, <2>9, <2>10, <2>11, <2>12, <2>13, <2>14, <2>15, <2>16, <2>17, <2>18, <2>19, <2>20, <2>21, <2>22, <2>23, <2>24, <2>25, <2>26, <2>27, <2>28, <2>29
    DEF Next, ConsumerStep, Send, MainStep, AgentStep
<1>. QED BY <1>1, <1>2, PTL DEF Spec

----------------------------------------------------------------------------
(* Where the threads are: nothing runs before Start, and a failure is final. *)
LEMMA ThreadInvariance == Spec => [](BirthInv /\ ConsumerInv)
<1>. USE DEF consumerVars, mainVars, agentVars, BirthInv, ConsumerInv
<1>1. Init => BirthInv /\ ConsumerInv
  BY DEF Init
<1>2. TypeOK /\ BirthInv /\ ConsumerInv /\ [Next]_vars => (BirthInv /\ ConsumerInv)'
  <2>. SUFFICES ASSUME TypeOK, BirthInv, ConsumerInv, [Next]_vars
                PROVE  BirthInv' /\ ConsumerInv'
    OBVIOUS
  <2>. USE DEF TypeOK
  <2>1. CASE InitController
    BY <2>1 DEF InitController, MainGoto
  <2>2. CASE CreateThread
    BY <2>2 DEF CreateThread, MainGoto
  <2>3. CASE StartReceiver
    BY <2>3 DEF StartReceiver, MainGoto
  <2>4. CASE StartReceiverFails
    BY <2>4 DEF StartReceiverFails, MainGoto
  <2>5. CASE UndoStart
    BY <2>5 DEF UndoStart, MainGoto
  <2>6. CASE MainPush
    BY <2>6 DEF MainPush, PushMessage, SleepingAfterPush
  <2>7. CASE Stop
    BY <2>7 DEF Stop, MainGoto
  <2>8. CASE StopServer
    BY <2>8 DEF StopServer, MainGoto
  <2>9. CASE JoinController
    BY <2>9 DEF JoinController, MainGoto
  <2>10. CASE JoinTwiceCrashes
    BY <2>10 DEF JoinTwiceCrashes, MainGoto
  <2>11. CASE JoinAgent
    BY <2>11 DEF JoinAgent, MainGoto
  <2>12. CASE Destroy
    BY <2>12 DEF Destroy, MainGoto
  <2>13. CASE AgentAccepts
    BY <2>13 DEF AgentAccepts, AgentGoto
  <2>14. CASE AgentStoresSocket
    BY <2>14 DEF AgentStoresSocket, AgentGoto
  <2>15. CASE AgentPush
    BY <2>15 DEF AgentPush, AgentGoto, PushMessage, SleepingAfterPush
  <2>16. CASE AgentPushWithoutMutex
    BY <2>16 DEF AgentPushWithoutMutex
  <2>17. CASE AgentDestroysMessage
    BY <2>17 DEF AgentDestroysMessage, AgentGoto
  <2>18. CASE AgentLosesClient
    BY <2>18 DEF AgentLosesClient, AgentGoto
  <2>19. CASE AgentEnds
    BY <2>19 DEF AgentEnds, AgentGoto
  <2>20. CASE Sleep
    BY <2>20 DEF Sleep, ConsumerGoto
  <2>21. CASE WakeUp
    BY <2>21 DEF WakeUp, ConsumerGoto
  <2>22. CASE SpuriousWakeUp
    BY <2>22 DEF SpuriousWakeUp
  <2>23. CASE ExitStopped
    BY <2>23 DEF ExitStopped, ConsumerGoto
  <2>24. CASE TakeMessage
    BY <2>24 DEF TakeMessage, ConsumerGoto
  <2>25. CASE SendInOneGo
    BY <2>25 DEF SendInOneGo, ConsumerGoto
  <2>26. CASE SendInChunks
    BY <2>26 DEF SendInChunks, ConsumerGoto
  <2>27. CASE SendFails
    BY <2>27 DEF SendFails, ConsumerGoto
  <2>28. CASE DestroyMessage
    BY <2>28 DEF DestroyMessage, ConsumerGoto
  <2>29. CASE UNCHANGED vars
    BY <2>29 DEF vars
  <2>. QED
    BY <2>1, <2>2, <2>3, <2>4, <2>5, <2>6, <2>7, <2>8, <2>9, <2>10, <2>11, <2>12, <2>13, <2>14, <2>15, <2>16, <2>17, <2>18, <2>19, <2>20, <2>21, <2>22, <2>23, <2>24, <2>25, <2>26, <2>27, <2>28, <2>29
    DEF Next, ConsumerStep, Send, MainStep, AgentStep
<1>. QED BY <1>1, <1>2, Typing, PTL DEF Spec

----------------------------------------------------------------------------
(* The thread is never asleep while there is a message or a stop to see: a   *)
(* push signals exactly when it can be asleep, because it only sleeps on an  *)
(* empty queue.                                                              *)
THEOREM WakeupsAreSafe == Spec => []NoLostWakeup
<1>. USE DEF consumerVars, mainVars, agentVars
<1>1. Init => NoLostWakeup
  BY DEF Init, NoLostWakeup
<1>2. BirthInv /\ ConsumerInv /\ NoLostWakeup /\ [Next]_vars => NoLostWakeup'
  <2>. SUFFICES ASSUME BirthInv, ConsumerInv, NoLostWakeup, [Next]_vars
                PROVE  NoLostWakeup'
    OBVIOUS
  <2>. USE DEF NoLostWakeup, BirthInv, ConsumerInv
  <2>1. CASE InitController
    BY <2>1, Emptiness DEF InitController, MainGoto, EmptyCBuf, CbufIsEmpty
  <2>2. CASE CreateThread
    BY <2>2 DEF CreateThread, MainGoto
  <2>3. CASE StartReceiver
    BY <2>3 DEF StartReceiver, MainGoto
  <2>4. CASE StartReceiverFails
    BY <2>4 DEF StartReceiverFails, MainGoto
  <2>5. CASE UndoStart
    BY <2>5 DEF UndoStart, MainGoto
  <2>6. CASE MainPush
    BY <2>6 DEF MainPush, PushMessage, SleepingAfterPush
  <2>7. CASE Stop
    BY <2>7 DEF Stop, MainGoto
  <2>8. CASE StopServer
    BY <2>8 DEF StopServer, MainGoto
  <2>9. CASE JoinController
    BY <2>9 DEF JoinController, MainGoto
  <2>10. CASE JoinTwiceCrashes
    BY <2>10 DEF JoinTwiceCrashes, MainGoto
  <2>11. CASE JoinAgent
    BY <2>11 DEF JoinAgent, MainGoto
  <2>12. CASE Destroy
    BY <2>12 DEF Destroy, MainGoto
  <2>13. CASE AgentAccepts
    BY <2>13 DEF AgentAccepts, AgentGoto
  <2>14. CASE AgentStoresSocket
    BY <2>14 DEF AgentStoresSocket, AgentGoto
  <2>15. CASE AgentPush
    BY <2>15 DEF AgentPush, AgentGoto, PushMessage, SleepingAfterPush
  <2>16. CASE AgentPushWithoutMutex
    BY <2>16 DEF AgentPushWithoutMutex
  <2>17. CASE AgentDestroysMessage
    BY <2>17 DEF AgentDestroysMessage, AgentGoto
  <2>18. CASE AgentLosesClient
    BY <2>18 DEF AgentLosesClient, AgentGoto
  <2>19. CASE AgentEnds
    BY <2>19 DEF AgentEnds, AgentGoto
  <2>20. CASE Sleep
    BY <2>20 DEF Sleep, ConsumerGoto
  <2>21. CASE WakeUp
    BY <2>21 DEF WakeUp, ConsumerGoto
  <2>22. CASE SpuriousWakeUp
    BY <2>22 DEF SpuriousWakeUp
  <2>23. CASE ExitStopped
    BY <2>23 DEF ExitStopped, ConsumerGoto
  <2>24. CASE TakeMessage
    BY <2>24 DEF TakeMessage, ConsumerGoto
  <2>25. CASE SendInOneGo
    BY <2>25 DEF SendInOneGo, ConsumerGoto
  <2>26. CASE SendInChunks
    BY <2>26 DEF SendInChunks, ConsumerGoto
  <2>27. CASE SendFails
    BY <2>27 DEF SendFails, ConsumerGoto
  <2>28. CASE DestroyMessage
    BY <2>28 DEF DestroyMessage, ConsumerGoto
  <2>29. CASE UNCHANGED vars
    BY <2>29 DEF vars
  <2>. QED
    BY <2>1, <2>2, <2>3, <2>4, <2>5, <2>6, <2>7, <2>8, <2>9, <2>10, <2>11, <2>12, <2>13, <2>14, <2>15, <2>16, <2>17, <2>18, <2>19, <2>20, <2>21, <2>22, <2>23, <2>24, <2>25, <2>26, <2>27, <2>28, <2>29
    DEF Next, ConsumerStep, Send, MainStep, AgentStep
<1>. QED BY <1>1, <1>2, ThreadInvariance, PTL DEF Spec

----------------------------------------------------------------------------
(* The messages: wire, hand and queue make up what was accepted. *)

\* Messages, and what the thread holds before it has one.
Held == Messages \cup {NoItem}

\* All four histories are sequences of these.
LEMMA Sequences ==
  ASSUME TypeOK, MessagesInv
  PROVE  /\ wire \in Seq(Held) /\ InHand \in Seq(Held) /\ Contents(queue) \in Seq(Held)
         /\ accepted \in Seq(Held)
<1>1. Messages \subseteq Held
  BY DEF Held
<1>2. InHand \in Seq(Held)
  <2>1. msg \in Held
    BY DEF TypeOK, Held
  <2>2. <<msg>> \in Seq(Held) /\ <<>> \in Seq(Held)
    BY <2>1
  <2>. QED BY <2>2 DEF InHand
<1>3. wire \in Seq(Messages) /\ accepted \in Seq(Messages) /\ Contents(queue) \in Seq(Messages)
  BY DEF TypeOK, MessagesInv
<1>. QED BY <1>1, <1>2, <1>3, SeqMonotonic

\* The parts of what was accepted, regrouped: a message is appended to the last part,
\* moved from the last to the middle one, or from the middle to the first.
LEMMA AppendToLast ==
  ASSUME NEW p \in Seq(Held), NEW q \in Seq(Held), NEW x \in Held
  PROVE  p \o Append(q, x) = Append(p \o q, x)
<1>1. Append(q, x) = q \o <<x>> /\ <<x>> \in Seq(Held) /\ p \o q \in Seq(Held)
  BY ConcatProperties
<1>2. Append(p \o q, x) = (p \o q) \o <<x>>
  BY <1>1
<1>3. (p \o q) \o <<x>> = p \o (q \o <<x>>)
  BY <1>1, ConcatAssociative
<1>. QED BY <1>1, <1>2, <1>3

LEMMA MoveToMiddle ==
  ASSUME NEW w \in Seq(Held), NEW q \in Seq(Held), NEW x \in Held
  PROVE  (w \o <<>>) \o (<<x>> \o q) = (w \o <<x>>) \o q
<1>1. w \o <<>> = w
  BY ConcatEmptySeq
<1>2. <<x>> \in Seq(Held)
  OBVIOUS
<1>3. w \o (<<x>> \o q) = (w \o <<x>>) \o q
  BY <1>2, ConcatAssociative
<1>. QED BY <1>1, <1>3

LEMMA MoveToFirst ==
  ASSUME NEW w \in Seq(Held), NEW q \in Seq(Held), NEW x \in Held
  PROVE  (w \o <<x>>) \o q = (Append(w, x) \o <<>>) \o q
<1>1. Append(w, x) = w \o <<x>> /\ w \o <<x>> \in Seq(Held)
  BY ConcatProperties
<1>2. (w \o <<x>>) \o <<>> = w \o <<x>>
  BY <1>1, ConcatEmptySeq
<1>. QED BY <1>1, <1>2

\* Whatever the threads do, the messages PushMessage accepted are those sent, then
\* the one in hand, then those in the queue.
THEOREM NothingLost == Spec => []NothingLostOrReordered
<1>. USE DEF consumerVars, mainVars, agentVars
<1>1. Init => NothingLostOrReordered
  BY Emptiness DEF Init, NothingLostOrReordered, InHand
<1>2. /\ TypeOK /\ MessagesInv /\ BirthInv /\ ConsumerInv /\ (TypeOK /\ MessagesInv)'
      /\ NothingLostOrReordered /\ [Next]_vars
      => NothingLostOrReordered'
  <2>. SUFFICES ASSUME TypeOK, MessagesInv, BirthInv, ConsumerInv, (TypeOK /\ MessagesInv)',
                       NothingLostOrReordered, [Next]_vars,
                       mainPc' \notin {"destroy", "destroyed", "aborted"}
                PROVE  (accepted = (wire \o InHand) \o Contents(queue))'
    BY DEF NothingLostOrReordered
  <2>0. /\ wire \in Seq(Held) /\ InHand \in Seq(Held) /\ Contents(queue) \in Seq(Held)
        /\ msg \in Held /\ \A m \in Messages : m \in Held
    BY Sequences DEF Held, TypeOK
  <2>1. CASE InitController
    <3>1. queue' = queue
      BY <2>1, Emptiness DEF InitController, MainGoto, BirthInv
    <3>. QED BY <2>1, <3>1 DEF InitController, MainGoto, NothingLostOrReordered, InHand
  <2>2. CASE CreateThread
    BY <2>2 DEF CreateThread, MainGoto, NothingLostOrReordered, InHand, BirthInv, ConsumerInv
  <2>3. CASE StartReceiver
    BY <2>3 DEF StartReceiver, MainGoto, NothingLostOrReordered, InHand
  <2>4. CASE StartReceiverFails
    BY <2>4 DEF StartReceiverFails, MainGoto, NothingLostOrReordered, InHand
  <2>5. CASE UndoStart
    BY <2>5 DEF UndoStart, MainGoto, NothingLostOrReordered, InHand
  <2>6. CASE MainPush
    <3>1. accepted = (wire \o InHand) \o Contents(queue)
      BY <2>6 DEF MainPush, NothingLostOrReordered
    <3>2. wire' = wire /\ InHand' = InHand
      BY <2>6 DEF MainPush, PushMessage, InHand
    <3>3. PICK texts : /\ texts \subseteq {"none", "live", "freed"}
                       /\ NewMessage(texts) /\ PushMessage(produced + 1)
      BY <2>6 DEF MainPush
    <3>4. CASE CbufIsFull(queue)
      BY <3>1, <3>2, <3>3, <3>4, Producing
    <3>5. CASE ~CbufIsFull(queue)
      <4>1. /\ Contents(queue)' = Append(Contents(queue), produced')
            /\ accepted' = Append(accepted, produced') /\ produced' \in Messages
        BY <3>3, <3>5, Producing
      <4>2. produced' \in Held
        BY <4>1 DEF Held
      <4>3. wire \o InHand \in Seq(Held)
        BY <2>0, ConcatProperties
      <4>4. (wire \o InHand) \o Append(Contents(queue), produced')
               = Append((wire \o InHand) \o Contents(queue), produced')
        BY <2>0, <4>2, <4>3, AppendToLast
      <4>5. accepted' = Append((wire \o InHand) \o Contents(queue), produced')
        BY <3>1, <4>1
      <4>. QED BY <3>2, <4>1, <4>4, <4>5
    <3>. QED BY <3>4, <3>5
  <2>7. CASE Stop
    BY <2>7 DEF Stop, MainGoto, NothingLostOrReordered, InHand
  <2>8. CASE StopServer
    BY <2>8 DEF StopServer, MainGoto, NothingLostOrReordered, InHand
  <2>9. CASE JoinController
    BY <2>9 DEF JoinController, MainGoto, NothingLostOrReordered, InHand
  <2>10. CASE JoinTwiceCrashes
    BY <2>10 DEF JoinTwiceCrashes, MainGoto, NothingLostOrReordered, InHand
  <2>11. CASE JoinAgent
    BY <2>11 DEF JoinAgent, MainGoto, NothingLostOrReordered, InHand
  <2>12. CASE Destroy
    BY <2>12 DEF Destroy, MainGoto
  <2>13. CASE AgentAccepts
    BY <2>13 DEF AgentAccepts, AgentGoto, NothingLostOrReordered, InHand
  <2>14. CASE AgentStoresSocket
    BY <2>14 DEF AgentStoresSocket, AgentGoto, NothingLostOrReordered, InHand
  <2>15. CASE AgentPush
    <3>1. accepted = (wire \o InHand) \o Contents(queue)
      BY <2>15 DEF AgentPush, AgentGoto, NothingLostOrReordered
    <3>2. wire' = wire /\ InHand' = InHand
      BY <2>15 DEF AgentPush, PushMessage, InHand
    <3>3. PICK texts : /\ texts \subseteq {"none", "live", "freed"}
                       /\ NewMessage(texts) /\ PushMessage(produced + 1)
      BY <2>15 DEF AgentPush
    <3>4. CASE CbufIsFull(queue)
      BY <3>1, <3>2, <3>3, <3>4, Producing
    <3>5. CASE ~CbufIsFull(queue)
      <4>1. /\ Contents(queue)' = Append(Contents(queue), produced')
            /\ accepted' = Append(accepted, produced') /\ produced' \in Messages
        BY <3>3, <3>5, Producing
      <4>2. produced' \in Held
        BY <4>1 DEF Held
      <4>3. wire \o InHand \in Seq(Held)
        BY <2>0, ConcatProperties
      <4>4. (wire \o InHand) \o Append(Contents(queue), produced')
               = Append((wire \o InHand) \o Contents(queue), produced')
        BY <2>0, <4>2, <4>3, AppendToLast
      <4>5. accepted' = Append((wire \o InHand) \o Contents(queue), produced')
        BY <3>1, <4>1
      <4>. QED BY <3>2, <4>1, <4>4, <4>5
    <3>. QED BY <3>4, <3>5
  <2>16. CASE AgentPushWithoutMutex
    BY <2>16 DEF AgentPushWithoutMutex, NothingLostOrReordered, InHand
  <2>17. CASE AgentDestroysMessage
    BY <2>17 DEF AgentDestroysMessage, AgentGoto, NothingLostOrReordered, InHand
  <2>18. CASE AgentLosesClient
    BY <2>18 DEF AgentLosesClient, AgentGoto, NothingLostOrReordered, InHand
  <2>19. CASE AgentEnds
    BY <2>19 DEF AgentEnds, AgentGoto, NothingLostOrReordered, InHand
  <2>20. CASE Sleep
    BY <2>20 DEF Sleep, ConsumerGoto, NothingLostOrReordered, InHand, BirthInv, ConsumerInv
  <2>21. CASE WakeUp
    BY <2>21 DEF WakeUp, ConsumerGoto, NothingLostOrReordered, InHand, BirthInv, ConsumerInv
  <2>22. CASE SpuriousWakeUp
    BY <2>22 DEF SpuriousWakeUp, NothingLostOrReordered, InHand
  <2>23. CASE ExitStopped
    BY <2>23 DEF ExitStopped, ConsumerGoto, NothingLostOrReordered, InHand, BirthInv, ConsumerInv
  <2>24. CASE TakeMessage
    <3>1. /\ accepted = (wire \o <<>>) \o Contents(queue) /\ ~CbufIsEmpty(queue)
          /\ InHand' = <<CbufItem(queue)>> /\ wire' = wire
          /\ accepted' = accepted /\ queue' = CbufTake(queue)
      BY <2>24 DEF TakeMessage, ConsumerGoto, NothingLostOrReordered, InHand, ConsumerInv
    <3>2. /\ Contents(queue) = <<CbufItem(queue)>> \o Contents(queue')
          /\ CbufItem(queue) \in Held /\ Contents(queue') \in Seq(Held)
      BY <3>1, Taking DEF TypeOK, MessagesInv, Held
    <3>3. (wire \o <<>>) \o (<<CbufItem(queue)>> \o Contents(queue'))
             = (wire \o <<CbufItem(queue)>>) \o Contents(queue')
      BY <2>0, <3>2, MoveToMiddle
    <3>. QED BY <3>1, <3>2, <3>3
  <2>25. CASE SendInOneGo
    <3>1. /\ accepted = (wire \o InHand) \o Contents(queue) /\ InHand = <<msg>>
          /\ InHand' = <<>> /\ wire' = Append(wire, msg)
          /\ accepted' = accepted /\ queue' = queue
      BY <2>25 DEF SendInOneGo, ConsumerGoto, NothingLostOrReordered, InHand, ConsumerInv
    <3>2. (wire \o <<msg>>) \o Contents(queue)
             = (Append(wire, msg) \o <<>>) \o Contents(queue)
      BY <2>0, MoveToFirst
    <3>. QED BY <3>1, <3>2
  <2>26. CASE SendInChunks
    <3>1. /\ accepted = (wire \o InHand) \o Contents(queue) /\ InHand = <<msg>>
          /\ InHand' = <<>> /\ wire' = Append(wire, msg)
          /\ accepted' = accepted /\ queue' = queue
      BY <2>26 DEF SendInChunks, ConsumerGoto, NothingLostOrReordered, InHand, ConsumerInv
    <3>2. (wire \o <<msg>>) \o Contents(queue)
             = (Append(wire, msg) \o <<>>) \o Contents(queue)
      BY <2>0, MoveToFirst
    <3>. QED BY <3>1, <3>2
  <2>27. CASE SendFails
    BY <2>27 DEF SendFails, ConsumerGoto, NothingLostOrReordered, InHand, BirthInv, ConsumerInv
  <2>28. CASE DestroyMessage
    BY <2>28 DEF DestroyMessage, ConsumerGoto, NothingLostOrReordered, InHand, BirthInv, ConsumerInv
  <2>29. CASE UNCHANGED vars
    BY <2>29 DEF vars, NothingLostOrReordered, InHand
  <2>. QED
    BY <2>1, <2>2, <2>3, <2>4, <2>5, <2>6, <2>7, <2>8, <2>9, <2>10, <2>11, <2>12, <2>13, <2>14, <2>15, <2>16, <2>17, <2>18, <2>19, <2>20, <2>21, <2>22, <2>23, <2>24, <2>25, <2>26, <2>27, <2>28, <2>29
    DEF Next, ConsumerStep, Send, MainStep, AgentStep
<1>. QED BY <1>1, <1>2, Typing, ThreadInvariance, PTL DEF Spec

----------------------------------------------------------------------------
(* The queue is a bounded FIFO: every step puts one message at the end of its *)
(* contents, gets the first, or leaves them alone.                            *)
THEOREM FifoImplemented == Spec => ImplementsFifo
<1>. USE DEF consumerVars, mainVars, agentVars
<1>1. Init => Fifo!FifoInit
  BY Emptiness DEF Init, Fifo!FifoInit
<1>2. TypeOK /\ MessagesInv /\ BirthInv /\ [Next]_vars => [Fifo!FifoNext]_(Contents(queue))
  <2>. SUFFICES ASSUME TypeOK, MessagesInv, BirthInv, [Next]_vars
                PROVE  [Fifo!FifoNext]_(Contents(queue))
    OBVIOUS
  <2>1. CASE InitController
    <3>1. queue' = queue
      BY <2>1, Emptiness DEF InitController, MainGoto, BirthInv
    <3>. QED BY <3>1
  <2>2. CASE CreateThread
    BY <2>2 DEF CreateThread, MainGoto
  <2>3. CASE StartReceiver
    BY <2>3 DEF StartReceiver, MainGoto
  <2>4. CASE StartReceiverFails
    BY <2>4 DEF StartReceiverFails, MainGoto
  <2>5. CASE UndoStart
    BY <2>5 DEF UndoStart, MainGoto
  <2>6. CASE MainPush
    <3>1. PICK texts : /\ texts \subseteq {"none", "live", "freed"}
                       /\ NewMessage(texts) /\ PushMessage(produced + 1)
      BY <2>6 DEF MainPush
    <3>2. CASE CbufIsFull(queue)
      <4>1. queue' = queue
        BY <3>1, <3>2, Producing
      <4>. QED BY <4>1
    <3>3. CASE ~CbufIsFull(queue)
      <4>1. /\ Contents(queue)' = Append(Contents(queue), produced')
            /\ Len(Contents(queue)) < Capacity /\ produced' \in Messages
        BY <3>1, <3>3, Producing
      <4>. QED BY <4>1 DEF Fifo!FifoNext, Fifo!Put
    <3>. QED BY <3>2, <3>3
  <2>7. CASE Stop
    BY <2>7 DEF Stop, MainGoto
  <2>8. CASE StopServer
    BY <2>8 DEF StopServer, MainGoto
  <2>9. CASE JoinController
    BY <2>9 DEF JoinController, MainGoto
  <2>10. CASE JoinTwiceCrashes
    BY <2>10 DEF JoinTwiceCrashes, MainGoto
  <2>11. CASE JoinAgent
    BY <2>11 DEF JoinAgent, MainGoto
  <2>12. CASE Destroy
    <3>1. CASE queue' = CbufTake(queue) /\ ~CbufIsEmpty(queue)
      <4>1. Contents(queue) # <<>> /\ Contents(queue') = Tail(Contents(queue))
        BY <3>1, Taking DEF TypeOK, MessagesInv
      <4>. QED BY <4>1 DEF Fifo!FifoNext, Fifo!Get
    <3>2. CASE queue' = queue
      BY <3>2
    <3>. QED BY <2>12, <3>1, <3>2 DEF Destroy
  <2>13. CASE AgentAccepts
    BY <2>13 DEF AgentAccepts, AgentGoto
  <2>14. CASE AgentStoresSocket
    BY <2>14 DEF AgentStoresSocket, AgentGoto
  <2>15. CASE AgentPush
    <3>1. PICK texts : /\ texts \subseteq {"none", "live", "freed"}
                       /\ NewMessage(texts) /\ PushMessage(produced + 1)
      BY <2>15 DEF AgentPush
    <3>2. CASE CbufIsFull(queue)
      <4>1. queue' = queue
        BY <3>1, <3>2, Producing
      <4>. QED BY <4>1
    <3>3. CASE ~CbufIsFull(queue)
      <4>1. /\ Contents(queue)' = Append(Contents(queue), produced')
            /\ Len(Contents(queue)) < Capacity /\ produced' \in Messages
        BY <3>1, <3>3, Producing
      <4>. QED BY <4>1 DEF Fifo!FifoNext, Fifo!Put
    <3>. QED BY <3>2, <3>3
  <2>16. CASE AgentPushWithoutMutex
    BY <2>16 DEF AgentPushWithoutMutex
  <2>17. CASE AgentDestroysMessage
    BY <2>17 DEF AgentDestroysMessage, AgentGoto
  <2>18. CASE AgentLosesClient
    BY <2>18 DEF AgentLosesClient, AgentGoto
  <2>19. CASE AgentEnds
    BY <2>19 DEF AgentEnds, AgentGoto
  <2>20. CASE Sleep
    BY <2>20 DEF Sleep, ConsumerGoto
  <2>21. CASE WakeUp
    BY <2>21 DEF WakeUp, ConsumerGoto
  <2>22. CASE SpuriousWakeUp
    BY <2>22 DEF SpuriousWakeUp
  <2>23. CASE ExitStopped
    BY <2>23 DEF ExitStopped, ConsumerGoto
  <2>24. CASE TakeMessage
    <3>1. queue' = CbufTake(queue) /\ ~CbufIsEmpty(queue)
      BY <2>24 DEF TakeMessage
    <3>2. Contents(queue) # <<>> /\ Contents(queue') = Tail(Contents(queue))
      BY <3>1, Taking DEF TypeOK, MessagesInv
    <3>. QED BY <3>2 DEF Fifo!FifoNext, Fifo!Get
  <2>25. CASE SendInOneGo
    BY <2>25 DEF SendInOneGo, ConsumerGoto
  <2>26. CASE SendInChunks
    BY <2>26 DEF SendInChunks, ConsumerGoto
  <2>27. CASE SendFails
    BY <2>27 DEF SendFails, ConsumerGoto
  <2>28. CASE DestroyMessage
    BY <2>28 DEF DestroyMessage, ConsumerGoto
  <2>29. CASE UNCHANGED vars
    BY <2>29 DEF vars
  <2>. QED
    BY <2>1, <2>2, <2>3, <2>4, <2>5, <2>6, <2>7, <2>8, <2>9, <2>10, <2>11, <2>12, <2>13, <2>14, <2>15, <2>16, <2>17, <2>18, <2>19, <2>20, <2>21, <2>22, <2>23, <2>24, <2>25, <2>26, <2>27, <2>28, <2>29
    DEF Next, ConsumerStep, Send, MainStep, AgentStep
<1>. QED
  BY <1>1, <1>2, Typing, ThreadInvariance, PTL DEF Spec, ImplementsFifo, Fifo!FifoSpec

----------------------------------------------------------------------------
(* The texts.  Without an agent that sends some, a text always has one owner: *)
(* the queue, or the controller thread; who frees it is the owner.            *)

Queued == Range(Contents(queue))

InUse == consumerPc \in {"process", "destroyMessage"}

OwnershipInv ==
  /\ \A m \in Messages : text[m] # "corrupt"
  /\ \A m \in Messages : m > produced => text[m] = "none"
  /\ \A m \in Queued : m <= produced /\ text[m] \in {"none", "live"}
  /\ Distinct(Contents(queue))
  /\ InUse => msg \notin Queued /\ msg <= produced /\ text[msg] \in {"none", "live"}
  /\ \A m \in Messages : text[m] = "live" => m \in Queued \/ (InUse /\ m = msg)
  /\ agentPc = "pushed" => agentMsg \in Messages /\ agentMsg <= produced /\ text[agentMsg] = "none"

\* When the program ends, the thread has ended and the queue is empty.
EndInv ==
  /\ mainPc \in {"joinAgent", "destroy", "destroyed"} => consumerPc \in {"ended", "unborn"}
  /\ mainPc = "destroyed" => Contents(queue) = <<>>

\* cbuf_take removes the message it returns from the queue, and only that one.
LEMMA QueuedAfterTaking ==
  ASSUME TypeOK, MessagesInv, OwnershipInv, ~CbufIsEmpty(queue), queue' = CbufTake(queue)
  PROVE  /\ CbufItem(queue) \in Messages
         /\ Queued = Queued' \cup {CbufItem(queue)}
         /\ CbufItem(queue) \notin Queued'
         /\ Distinct(Contents(queue))'
<1>1. /\ Contents(queue) \in Seq(Messages) /\ Contents(queue) # <<>>
      /\ CbufItem(queue) = Head(Contents(queue))
      /\ Contents(queue') = Tail(Contents(queue))
  BY Take DEF TypeOK, MessagesInv
<1>2. Distinct(Contents(queue))
  BY DEF OwnershipInv
<1>. QED BY <1>1, <1>2, Removing DEF Queued

\* PushMessage adds the new message to the queue, or nothing when it is full.
LEMMA QueuedAfterPushing ==
  ASSUME TypeOK, MessagesInv, OwnershipInv, NEW texts, texts \subseteq {"none", "live", "freed"},
         NewMessage(texts), PushMessage(produced + 1)
  PROVE  /\ produced' = produced + 1 /\ produced' \in Messages
         /\ Queued' = IF CbufIsFull(queue) THEN Queued ELSE Queued \cup {produced'}
         /\ produced' \notin Queued
         /\ Distinct(Contents(queue))'
<1>1. produced' = produced + 1 /\ produced' \in Messages /\ Contents(queue) \in Seq(Messages)
  BY Producing DEF MessagesInv
<1>2. produced' \notin Queued /\ Distinct(Contents(queue))
  BY <1>1 DEF OwnershipInv, TypeOK
<1>3. CASE CbufIsFull(queue)
  <2>1. queue' = queue
    BY <1>3, Producing
  <2>. QED BY <1>1, <1>2, <1>3, <2>1 DEF Queued
<1>4. CASE ~CbufIsFull(queue)
  <2>1. Contents(queue') = Append(Contents(queue), produced')
    BY <1>4, Producing
  <2>. QED BY <1>1, <1>2, <1>4, <2>1, Appending DEF Queued
<1>. QED BY <1>3, <1>4

\* Every text has exactly one owner, through every step of the program.
LEMMA OwnershipInvariance ==
  ASSUME ~AgentSendsText
  PROVE  Spec => []OwnershipInv
<1>. USE DEF consumerVars, mainVars, agentVars
<1>1. Init => OwnershipInv
  <2>. SUFFICES ASSUME Init
                PROVE  OwnershipInv
    OBVIOUS
  <2>1. Contents(queue) = <<>>
    BY Emptiness DEF Init
  <2>2. Queued = {} /\ Distinct(Contents(queue))
    BY <2>1 DEF Queued, Range, Distinct
  <2>. QED BY <2>2 DEF Init, OwnershipInv, InUse
<1>2. TypeOK /\ MessagesInv /\ BirthInv /\ OwnershipInv /\ [Next]_vars => OwnershipInv'
  <2>. SUFFICES ASSUME TypeOK, MessagesInv, BirthInv, OwnershipInv, [Next]_vars
                PROVE  OwnershipInv'
    OBVIOUS
  <2>0. ASSUME queue' = queue
        PROVE  Queued' = Queued /\ Distinct(Contents(queue))' = Distinct(Contents(queue))
    BY <2>0 DEF Queued
  <2>Q. Queued \subseteq Messages /\ (InUse => msg \in Messages)
    BY ElementOfSeq DEF Queued, Range, MessagesInv, InUse
  <2>1. CASE InitController
    <3>1. queue' = queue
      BY <2>1, Emptiness DEF InitController, MainGoto, BirthInv
    <3>. QED BY <2>1, <3>1, <2>0 DEF InitController, MainGoto, OwnershipInv, InUse
  <2>2. CASE CreateThread
    BY <2>2, <2>0 DEF CreateThread, MainGoto, OwnershipInv, InUse, BirthInv
  <2>3. CASE StartReceiver
    BY <2>3, <2>0 DEF StartReceiver, MainGoto, OwnershipInv, InUse
  <2>4. CASE StartReceiverFails
    BY <2>4, <2>0 DEF StartReceiverFails, MainGoto, OwnershipInv, InUse
  <2>5. CASE UndoStart
    BY <2>5, <2>0 DEF UndoStart, MainGoto, OwnershipInv, InUse
  <2>6. CASE MainPush
    <3>1. PICK texts : /\ texts \subseteq {"none", "live", "freed"}
                       /\ ~CbufIsFull(queue) => "freed" \notin texts
                       /\ CbufIsFull(queue) => "live" \notin texts
                       /\ NewMessage(texts) /\ PushMessage(produced + 1)
      BY <2>6 DEF MainPush
    <3>2. /\ produced' = produced + 1 /\ produced' \in Messages
          /\ Queued' = IF CbufIsFull(queue) THEN Queued ELSE Queued \cup {produced'}
          /\ produced' \notin Queued
          /\ Distinct(Contents(queue))'
      BY <3>1, QueuedAfterPushing
    <3>3. \E t \in texts : text' = [text EXCEPT ![produced'] = t]
      BY <3>1, <3>2 DEF NewMessage
    <3>4. /\ \A m \in Messages : m # produced' => text'[m] = text[m]
          /\ text'[produced'] \in texts
      BY <3>2, <3>3 DEF TypeOK
    <3>5. /\ InUse' = InUse /\ msg' = msg
          /\ agentPc' = "pushed" => \/ agentPc = "pushed" /\ agentMsg' = agentMsg
                                    \/ agentMsg' = produced' /\ texts = {"none"}
      BY <2>6, <3>1, <3>2 DEF MainPush, InUse
    <3>6. \A m \in Messages : m <= produced => m <= produced' /\ m # produced'
      BY <3>2 DEF TypeOK, Messages
    <3>7. \A m \in Messages : m > produced' => m > produced /\ m # produced'
      BY <3>2 DEF TypeOK, Messages
    <3>8. produced' <= produced' /\ ~(produced' > produced')
      BY <3>2 DEF TypeOK
    <3>. QED BY <2>Q, <3>1, <3>2, <3>4, <3>5, <3>6, <3>7, <3>8
         DEF OwnershipInv, InUse, MessagesInv
  <2>7. CASE Stop
    BY <2>7, <2>0 DEF Stop, MainGoto, OwnershipInv, InUse
  <2>8. CASE StopServer
    BY <2>8, <2>0 DEF StopServer, MainGoto, OwnershipInv, InUse
  <2>9. CASE JoinController
    BY <2>9, <2>0 DEF JoinController, MainGoto, OwnershipInv, InUse
  <2>10. CASE JoinTwiceCrashes
    BY <2>10, <2>0 DEF JoinTwiceCrashes, MainGoto, OwnershipInv, InUse
  <2>11. CASE JoinAgent
    BY <2>11, <2>0 DEF JoinAgent, MainGoto, OwnershipInv, InUse
  <2>12. CASE Destroy
    <3>1. CASE ~CbufIsEmpty(queue) /\ queue' = CbufTake(queue) /\ text' = Release(CbufItem(queue))
      <4>. DEFINE first == CbufItem(queue)
      <4>1. /\ first \in Messages
            /\ Queued = Queued' \cup {first} /\ first \notin Queued'
            /\ Distinct(Contents(queue))'
        BY <3>1, QueuedAfterTaking
      <4>. HIDE DEF first
      <4>2. /\ text' \in [Messages -> {"none", "freed", "live"}]
            /\ \A m \in Messages : m # first => text'[m] = text[m]
            /\ text'[first] = IF text[first] = "live" THEN "freed" ELSE text[first]
        BY <3>1, <4>1 DEF first, Release, OwnershipInv, TypeOK
      <4>. QED BY <2>12, <2>Q, <4>1, <4>2 DEF Destroy, MainGoto, OwnershipInv, InUse
    <3>2. CASE queue' = queue /\ text' = text
      BY <2>12, <3>2, <2>0 DEF Destroy, MainGoto, OwnershipInv, InUse
    <3>. QED BY <2>12, <3>1, <3>2 DEF Destroy, MainGoto
  <2>13. CASE AgentAccepts
    BY <2>13, <2>0 DEF AgentAccepts, AgentGoto, OwnershipInv, InUse
  <2>14. CASE AgentStoresSocket
    BY <2>14, <2>0 DEF AgentStoresSocket, AgentGoto, OwnershipInv, InUse
  <2>15. CASE AgentPush
    <3>1. PICK texts : /\ texts \subseteq {"none", "live", "freed"}
                       /\ ~CbufIsFull(queue) => "freed" \notin texts
                       /\ CbufIsFull(queue) => "live" \notin texts
                       /\ texts = {"none"}
                       /\ NewMessage(texts) /\ PushMessage(produced + 1)
      BY <2>15 DEF AgentPush
    <3>2. /\ produced' = produced + 1 /\ produced' \in Messages
          /\ Queued' = IF CbufIsFull(queue) THEN Queued ELSE Queued \cup {produced'}
          /\ produced' \notin Queued
          /\ Distinct(Contents(queue))'
      BY <3>1, QueuedAfterPushing
    <3>3. \E t \in texts : text' = [text EXCEPT ![produced'] = t]
      BY <3>1, <3>2 DEF NewMessage
    <3>4. /\ \A m \in Messages : m # produced' => text'[m] = text[m]
          /\ text'[produced'] \in texts
      BY <3>2, <3>3 DEF TypeOK
    <3>5. /\ InUse' = InUse /\ msg' = msg
          /\ agentPc' = "pushed" => \/ agentPc = "pushed" /\ agentMsg' = agentMsg
                                    \/ agentMsg' = produced' /\ texts = {"none"}
      BY <2>15, <3>1, <3>2 DEF AgentPush, AgentGoto, InUse
    <3>6. \A m \in Messages : m <= produced => m <= produced' /\ m # produced'
      BY <3>2 DEF TypeOK, Messages
    <3>7. \A m \in Messages : m > produced' => m > produced /\ m # produced'
      BY <3>2 DEF TypeOK, Messages
    <3>8. produced' <= produced' /\ ~(produced' > produced')
      BY <3>2 DEF TypeOK
    <3>. QED BY <2>Q, <3>1, <3>2, <3>4, <3>5, <3>6, <3>7, <3>8
         DEF OwnershipInv, InUse, MessagesInv
  <2>16. CASE AgentPushWithoutMutex
    BY <2>16, <2>0 DEF AgentPushWithoutMutex, OwnershipInv, InUse
  <2>17. CASE AgentDestroysMessage
    <3>1. text' = text
      BY <2>17 DEF AgentDestroysMessage, AgentGoto, OwnershipInv, Release
    <3>. QED BY <2>17, <3>1, <2>0 DEF AgentDestroysMessage, AgentGoto, OwnershipInv, InUse
  <2>18. CASE AgentLosesClient
    BY <2>18, <2>0 DEF AgentLosesClient, AgentGoto, OwnershipInv, InUse
  <2>19. CASE AgentEnds
    BY <2>19, <2>0 DEF AgentEnds, AgentGoto, OwnershipInv, InUse
  <2>20. CASE Sleep
    BY <2>20, <2>0 DEF Sleep, ConsumerGoto, OwnershipInv, InUse
  <2>21. CASE WakeUp
    BY <2>21, <2>0 DEF WakeUp, ConsumerGoto, OwnershipInv, InUse
  <2>22. CASE SpuriousWakeUp
    BY <2>22, <2>0 DEF SpuriousWakeUp, OwnershipInv, InUse
  <2>23. CASE ExitStopped
    BY <2>23, <2>0 DEF ExitStopped, ConsumerGoto, OwnershipInv, InUse
  <2>24. CASE TakeMessage
    <3>1. /\ CbufItem(queue) \in Messages
          /\ Queued = Queued' \cup {CbufItem(queue)}
          /\ CbufItem(queue) \notin Queued'
          /\ Distinct(Contents(queue))'
      BY <2>24, QueuedAfterTaking DEF TakeMessage
    <3>. QED BY <2>24, <3>1 DEF TakeMessage, ConsumerGoto, OwnershipInv, InUse
  <2>25. CASE SendInOneGo
    BY <2>25, <2>0 DEF SendInOneGo, ConsumerGoto, OwnershipInv, InUse
  <2>26. CASE SendInChunks
    BY <2>26, <2>0 DEF SendInChunks, ConsumerGoto, OwnershipInv, InUse
  <2>27. CASE SendFails
    BY <2>27, <2>0 DEF SendFails, ConsumerGoto, OwnershipInv, InUse
  <2>28. CASE DestroyMessage
    <3>1. /\ msg \in Messages /\ InUse /\ ~InUse'
          /\ text' = Release(msg) /\ Queued' = Queued
          /\ Distinct(Contents(queue))' = Distinct(Contents(queue))
      BY <2>28, <2>0 DEF DestroyMessage, ConsumerGoto, InUse, MessagesInv
    <3>2. /\ text' \in [Messages -> {"none", "freed", "live"}]
          /\ \A m \in Messages : m # msg => text'[m] = text[m]
          /\ text'[msg] = IF text[msg] = "live" THEN "freed" ELSE text[msg]
      BY <3>1 DEF Release, OwnershipInv, TypeOK
    <3>. QED BY <2>28, <2>Q, <3>1, <3>2 DEF DestroyMessage, ConsumerGoto, OwnershipInv
  <2>29. CASE UNCHANGED vars
    BY <2>29, <2>0 DEF vars, OwnershipInv, InUse
  <2>. QED
    BY <2>1, <2>2, <2>3, <2>4, <2>5, <2>6, <2>7, <2>8, <2>9, <2>10, <2>11, <2>12, <2>13, <2>14, <2>15, <2>16, <2>17, <2>18, <2>19, <2>20, <2>21, <2>22, <2>23, <2>24, <2>25, <2>26, <2>27, <2>28, <2>29
    DEF Next, ConsumerStep, Send, MainStep, AgentStep
<1>. QED BY <1>1, <1>2, Typing, ThreadInvariance, PTL DEF Spec

\* The controller thread never serialises or frees a text that is freed already,
\* as long as the agent's client sends no message with a text.
THEOREM TextsStayAlive ==
  ASSUME ~AgentSendsText
  PROVE  Spec => []NoStaleText
<1>1. TypeOK /\ MessagesInv /\ OwnershipInv => NoStaleText
  <2>. SUFFICES ASSUME TypeOK, MessagesInv, OwnershipInv
                PROVE  NoStaleText
    OBVIOUS
  <2>1. \A i \in DOMAIN Contents(queue) : Contents(queue)[i] \in Queued
    BY LenProperties DEF Queued, Range, MessagesInv
  <2>. QED BY <2>1 DEF NoStaleText, OwnershipInv, InUse
<1>. QED BY <1>1, Typing, OwnershipInvariance, PTL

\* Controller::Destroy runs after the thread has been joined and empties the queue.
LEMMA EndInvariance == Spec => []EndInv
<1>. USE DEF consumerVars, mainVars, agentVars
<1>1. Init => EndInv
  BY DEF Init, EndInv
<1>2. TypeOK /\ EndInv /\ [Next]_vars => EndInv'
  <2>. SUFFICES ASSUME TypeOK, EndInv, [Next]_vars
                PROVE  EndInv'
    OBVIOUS
  <2>. USE DEF EndInv
  <2>1. CASE InitController
    BY <2>1 DEF InitController, MainGoto
  <2>2. CASE CreateThread
    BY <2>2 DEF CreateThread, MainGoto
  <2>3. CASE StartReceiver
    BY <2>3 DEF StartReceiver, MainGoto
  <2>4. CASE StartReceiverFails
    BY <2>4 DEF StartReceiverFails, MainGoto
  <2>5. CASE UndoStart
    BY <2>5 DEF UndoStart, MainGoto
  <2>6. CASE MainPush
    BY <2>6 DEF MainPush
  <2>7. CASE Stop
    BY <2>7 DEF Stop, MainGoto
  <2>8. CASE StopServer
    BY <2>8 DEF StopServer, MainGoto
  <2>9. CASE JoinController
    BY <2>9 DEF JoinController, MainGoto
  <2>10. CASE JoinTwiceCrashes
    BY <2>10 DEF JoinTwiceCrashes, MainGoto
  <2>11. CASE JoinAgent
    BY <2>11 DEF JoinAgent, MainGoto
  <2>12. CASE Destroy
    <3>1. CASE mainPc' = "destroyed"
      <4>1. queue' = queue /\ Contents(queue) = <<>>
        BY <2>12, <3>1, Nothing DEF Destroy, MainGoto, TypeOK
      <4>. QED BY <2>12, <3>1, <4>1 DEF Destroy, MainGoto
    <3>2. CASE mainPc' # "destroyed"
      BY <2>12, <3>2 DEF Destroy, MainGoto
    <3>. QED BY <3>1, <3>2
  <2>13. CASE AgentAccepts
    BY <2>13 DEF AgentAccepts, AgentGoto
  <2>14. CASE AgentStoresSocket
    BY <2>14 DEF AgentStoresSocket, AgentGoto
  <2>15. CASE ~Over /\ AgentPush
    BY <2>15 DEF AgentPush, AgentGoto, Over
  <2>16. CASE AgentPushWithoutMutex
    BY <2>16 DEF AgentPushWithoutMutex
  <2>17. CASE AgentDestroysMessage
    BY <2>17 DEF AgentDestroysMessage, AgentGoto
  <2>18. CASE AgentLosesClient
    BY <2>18 DEF AgentLosesClient, AgentGoto
  <2>19. CASE AgentEnds
    BY <2>19 DEF AgentEnds, AgentGoto
  <2>20. CASE Sleep
    BY <2>20 DEF Sleep, ConsumerGoto
  <2>21. CASE WakeUp
    BY <2>21 DEF WakeUp, ConsumerGoto
  <2>22. CASE SpuriousWakeUp
    BY <2>22 DEF SpuriousWakeUp
  <2>23. CASE ExitStopped
    BY <2>23 DEF ExitStopped, ConsumerGoto
  <2>24. CASE TakeMessage
    BY <2>24 DEF TakeMessage, ConsumerGoto
  <2>25. CASE SendInOneGo
    BY <2>25 DEF SendInOneGo, ConsumerGoto
  <2>26. CASE SendInChunks
    BY <2>26 DEF SendInChunks, ConsumerGoto
  <2>27. CASE SendFails
    BY <2>27 DEF SendFails, ConsumerGoto
  <2>28. CASE DestroyMessage
    BY <2>28 DEF DestroyMessage, ConsumerGoto
  <2>29. CASE UNCHANGED vars
    BY <2>29 DEF vars
  <2>. QED
    BY <2>1, <2>2, <2>3, <2>4, <2>5, <2>6, <2>7, <2>8, <2>9, <2>10, <2>11, <2>12, <2>13, <2>14, <2>15, <2>16, <2>17, <2>18, <2>19, <2>20, <2>21, <2>22, <2>23, <2>24, <2>25, <2>26, <2>27, <2>28, <2>29
    DEF Next, ConsumerStep, Send, MainStep, AgentStep
<1>. QED BY <1>1, <1>2, Typing, PTL DEF Spec

\* Once Controller::Destroy has run, no text is leaked and none was freed twice.
THEOREM TextsAreFreed ==
  ASSUME ~AgentSendsText
  PROVE  Spec => []TextsFreedOnce
<1>1. TypeOK /\ OwnershipInv /\ EndInv => TextsFreedOnce
  <2>. SUFFICES ASSUME TypeOK, OwnershipInv, EndInv, mainPc = "destroyed",
                       NEW m \in Messages
                PROVE  text[m] \in {"none", "freed"}
    BY DEF TextsFreedOnce
  <2>1. Queued = {} /\ ~InUse
    BY DEF EndInv, Queued, Range, InUse
  <2>2. text[m] \in {"none", "live", "freed", "corrupt"}
    BY DEF TypeOK
  <2>. QED BY <2>1, <2>2 DEF OwnershipInv
<1>. QED BY <1>1, Typing, OwnershipInvariance, EndInvariance, PTL

----------------------------------------------------------------------------
(* The socket.  The argument for what the device sends: the texts lie in   *)
(* the stream one behind the other, and the bytes that the receiver is not *)
(* done with are the end of that stream (StreamInv); while every segment   *)
(* ends where a message does, what is in front of ProcessMessages is the   *)
(* first message it has not copied (WholeInv, NextMessage).  For what is   *)
(* sent to the device: the bytes of the messages it has not read stand in  *)
(* line (InLine), and it reads each kind of message from its own bytes     *)
(* alone (Understood), because both clipboards hold whole characters.      *)

\* What the device sends: a text of at most TextMax bytes.
DeviceTexts == {words \in Seq(Unsigned8) : IsText(words) /\ Len(words) <= TextMax}

\* The bytes the receiver is not done with, and where in the stream they and
\* those to come start.
Arriving == buffer \o incoming
Written == StreamLength - Len(Arriving)
Received == StreamLength - Len(incoming)

ReceiverTyped ==
  /\ pc \in {"receive", "process", "stopped"}
  /\ head \in 0..(BufSize - 1)
  /\ buffer \in Seq(Unsigned8) /\ Len(buffer) <= BufSize
  /\ at \in 0..Len(buffer)
  /\ incoming \in Seq(Unsigned8)
  /\ copied \in Seq(Seq(Unsigned8))
  /\ sent \in Seq(DeviceTexts)
  /\ ends \in Seq(Nat) /\ Len(ends) = Len(sent) + 1
  /\ closed \in BOOLEAN /\ whole \in BOOLEAN

\* ProcessMessages runs while there are bytes in the buffer.
BufferInv ==
  /\ pc = "receive" => buffer = <<>>
  /\ pc = "process" => at < Len(buffer)

\* The messages lie in the stream one behind the other; of their bytes, those
\* the receiver is not done with are in the buffer and on their way.
StreamInv ==
  /\ \A i \in 1..Len(sent) : ends[i + 1] = ends[i] + 3 + Len(sent[i])
  /\ \A i, j \in 1..Len(ends) : i < j => ends[i] < ends[j]
  /\ Written \in Nat
  /\ \A i \in 1..Len(sent) : \A k \in 1..(3 + Len(sent[i])) :
       ends[i] + k > Written => Arriving[ends[i] + k - Written] = DeviceBytes(sent[i])[k]

WholeInv == whole => AtBoundary(Received) /\ CopiedWhenWhole

ReceiverInv == ReceiverTyped /\ BufferInv /\ StreamInv /\ WholeInv

----------------------------------------------------------------------------
(* Sequences of bytes. *)

\* Where the elements of two sequences are when one follows the other.
Joined(r, s, t) ==
  /\ Len(r) = Len(s) + Len(t)
  /\ \A i \in 1..Len(s) : r[i] = s[i]
  /\ \A i \in 1..Len(t) : r[Len(s) + i] = t[i]

\* Two sequences of bytes, one behind the other.
LEMMA Concatenation ==
  ASSUME NEW S, NEW s \in Seq(S), NEW t \in Seq(S)
  PROVE  s \o t \in Seq(S) /\ Joined(s \o t, s, t)
<1>. DEFINE m == Len(s)  n == Len(t)  r == s \o t
<1>1. m \in Nat /\ n \in Nat
  OBVIOUS
<1>2. /\ r \in Seq(S) /\ Len(r) = m + n
      /\ \A i \in 1..m + n : r[i] = IF i <= m THEN s[i] ELSE t[i - m]
  BY ConcatProperties
<1>. HIDE DEF m, n, r
<1>3. ASSUME NEW i \in 1..m PROVE r[i] = s[i]
  <2>1. i \in 1..m + n /\ i <= m
    BY <1>1
  <2>. QED BY <1>2, <2>1, Zenon
<1>4. ASSUME NEW i \in 1..n PROVE r[m + i] = t[i]
  <2>. DEFINE j == m + i
  <2>1. j \in 1..m + n /\ ~(j <= m) /\ j - m = i
    BY <1>1
  <2>. HIDE DEF j
  <2>2. r[j] = t[j - m]
    BY <1>2, <2>1, Zenon
  <2>. QED BY <2>1, <2>2, Zenon DEF j
<1>. QED BY <1>2, <1>3, <1>4, Zenon DEF m, n, r, Joined

----------------------------------------------------------------------------
(* The device's messages. *)

\* A length of 16 bits and its two bytes.
LEMMA TwoBytes ==
  ASSUME NEW n \in Unsigned16
  PROVE  /\ n \div 256 \in Unsigned8 /\ n % 256 \in Unsigned8
         /\ (n \div 256) * 256 + (n % 256) = n
<1>1. n \in Nat /\ n < 256 * 256
  BY DEF Unsigned16
<1>2. n \div 256 \in Nat /\ n \div 256 < 256 /\ n % 256 \in Nat /\ n % 256 < 256
  BY <1>1
<1>3. (n \div 256) * 256 + (n % 256) = n
  BY <1>1
<1>. QED BY <1>2, <1>3 DEF Unsigned8

\* What the device writes for a text: the type, the length, the text.
LEMMA DeviceBytesOfText ==
  ASSUME NEW words \in DeviceTexts
  PROVE  /\ DeviceBytes(words) \in Seq(Unsigned8)
         /\ Len(DeviceBytes(words)) = 3 + Len(words)
         /\ DeviceBytes(words)[1] = CLIPBOARD
         /\ DeviceBytes(words)[2] * 256 + DeviceBytes(words)[3] = Len(words)
         /\ \A k \in 1..Len(words) : DeviceBytes(words)[3 + k] = words[k]
<1>. DEFINE first == <<CLIPBOARD, Len(words) \div 256, Len(words) % 256>>
<1>1. words \in Seq(Unsigned8) /\ Len(words) \in Nat /\ Len(words) \in Unsigned16
  <2>1. words \in Seq(Unsigned8) /\ Len(words) <= TextMax
    BY DEF DeviceTexts
  <2>2. Len(words) \in Nat
    BY <2>1
  <2>. QED BY <2>1, <2>2, ReceiverAssumption DEF Unsigned16
<1>2. /\ Len(words) \div 256 \in Unsigned8 /\ Len(words) % 256 \in Unsigned8
      /\ (Len(words) \div 256) * 256 + (Len(words) % 256) = Len(words)
  BY <1>1, TwoBytes
<1>3. CLIPBOARD \in Unsigned8
  BY DEF CLIPBOARD, Unsigned8
<1>4. /\ first \in Seq(Unsigned8) /\ Len(first) = 3
      /\ first[1] = CLIPBOARD /\ first[2] = Len(words) \div 256 /\ first[3] = Len(words) % 256
  BY <1>2, <1>3
<1>5. DeviceBytes(words) = first \o words
  BY DEF DeviceBytes
<1>. HIDE DEF first
<1>6. /\ first \o words \in Seq(Unsigned8) /\ Len(first \o words) = 3 + Len(words)
      /\ \A i \in 1..3 : (first \o words)[i] = first[i]
      /\ \A i \in 1..Len(words) : (first \o words)[3 + i] = words[i]
  <2>1. first \o words \in Seq(Unsigned8) /\ Joined(first \o words, first, words)
    BY <1>1, <1>4, Concatenation
  <2>. QED BY <1>4, <2>1, Zenon DEF Joined
<1>7. 1 \in 1..3 /\ 2 \in 1..3 /\ 3 \in 1..3
  OBVIOUS
<1>8. /\ (first \o words)[1] = CLIPBOARD
      /\ (first \o words)[2] * 256 + (first \o words)[3] = Len(words)
  BY <1>2, <1>4, <1>6, <1>7, Zenon
<1>. QED BY <1>5, <1>6, <1>8, Zenon

----------------------------------------------------------------------------
(* The receiver. *)

\* Before anything is sent.
LEMMA ReceiverStarts == ReceiverInit => ReceiverInv
<1>. SUFFICES ASSUME ReceiverInit PROVE ReceiverInv
  OBVIOUS
<1>1. ReceiverTyped /\ BufferInv
  <2>1. /\ <<>> \in Seq(Unsigned8) /\ <<>> \in Seq(DeviceTexts) /\ <<>> \in Seq(Seq(Unsigned8))
        /\ <<0>> \in Seq(Nat) /\ Len(<<0>>) = Len(<<>>) + 1
    OBVIOUS
  <2>2. 0 \in 0..(BufSize - 1) /\ 0 \in 0..Len(<<>>) /\ Len(<<>>) <= BufSize
    BY ReceiverAssumption DEF BufSize
  <2>. QED BY <2>1, <2>2, Zenon DEF ReceiverInit, ReceiverTyped, BufferInv
<1>2. /\ ends = <<0>> /\ Len(ends) = 1 /\ ends[1] = 0
      /\ StreamLength = 0 /\ Received = 0 /\ Written = 0
      /\ Len(sent) = 0
  BY DEF ReceiverInit, StreamLength, Received, Written, Arriving
<1>3. StreamInv
  BY <1>2 DEF StreamInv
<1>4. AtBoundary(Received)
  BY <1>2 DEF AtBoundary
<1>5. CopiedWhenWhole
  <2>1. copied = SubSeq(sent, 1, 0) /\ Len(buffer) = 0 /\ at = 0 /\ Len(incoming) = 0
    BY DEF ReceiverInit
  <2>. QED BY <1>2, <2>1 DEF CopiedWhenWhole
<1>. QED BY <1>1, <1>3, <1>4, <1>5 DEF ReceiverInv, WholeInv

\* What the invariant says of the lengths.
LEMMA Lengths ==
  ASSUME ReceiverInv
  PROVE  /\ Len(sent) \in Nat /\ Len(ends) = Len(sent) + 1
         /\ StreamLength = ends[Len(sent) + 1]
         /\ \A i \in 1..Len(ends) : ends[i] \in Nat /\ ends[i] <= StreamLength
         /\ Len(buffer) \in Nat /\ Len(incoming) \in Nat /\ at \in Nat
         /\ Arriving \in Seq(Unsigned8)
         /\ Len(Arriving) = Len(buffer) + Len(incoming)
         /\ Received = Written + Len(buffer) /\ Written \in Nat /\ Received \in Nat
<1>1. ReceiverTyped /\ StreamInv
  BY DEF ReceiverInv
<1>2. /\ Len(sent) \in Nat /\ Len(ends) = Len(sent) + 1
      /\ StreamLength = ends[Len(sent) + 1]
      /\ \A i \in 1..Len(ends) : ends[i] \in Nat
      /\ Len(buffer) \in Nat /\ Len(incoming) \in Nat /\ at \in Nat
  BY <1>1 DEF ReceiverTyped, StreamLength
<1>3. \A i \in 1..Len(ends) : ends[i] <= StreamLength
  <2>. SUFFICES ASSUME NEW i \in 1..Len(ends) PROVE ends[i] <= StreamLength
    OBVIOUS
  <2>1. CASE i = Len(ends)
    BY <1>2, <2>1
  <2>2. CASE i < Len(ends)
    <3>1. Len(ends) \in 1..Len(ends)
      BY <1>2
    <3>2. ends[i] < ends[Len(ends)]
      BY <1>1, <2>2, <3>1, Zenon DEF StreamInv
    <3>. DEFINE place == ends[i]  end == ends[Len(ends)]
    <3>3. place \in Nat /\ end \in Nat /\ end = StreamLength /\ place < end
      BY <1>2, <3>1, <3>2, Zenon
    <3>. HIDE DEF place, end
    <3>4. place <= end
      BY <3>3
    <3>. QED BY <3>3, <3>4, Zenon DEF place
  <2>. QED BY <1>2, <2>1, <2>2
<1>4. Arriving \in Seq(Unsigned8) /\ Len(Arriving) = Len(buffer) + Len(incoming)
  BY <1>1, ConcatProperties DEF ReceiverTyped, Arriving
<1>5. Written \in Nat /\ StreamLength \in Nat
  BY <1>1, <1>2 DEF StreamInv
<1>6. Received = Written + Len(buffer)
  BY <1>2, <1>4, <1>5 DEF Received, Written
<1>. QED BY <1>2, <1>3, <1>4, <1>5, <1>6

\* The device writes behind what is there.
LEMMA DeviceSendsKeepsReceiver ==
  ASSUME ReceiverInv, NEW words \in DeviceTexts, DeviceSends(words)
  PROVE  ReceiverInv'
<1>. DEFINE n == Len(sent)  size == 3 + Len(words)  total == StreamLength  here == Written
            away == Len(Arriving)  bytes == DeviceBytes(words)  more == Arriving'  marks == ends'
<1>1. /\ UNCHANGED <<pc, head, buffer, at, copied, closed, whole>>
      /\ sent' = Append(sent, words)
      /\ ends' = Append(ends, StreamLength + Len(bytes))
      /\ incoming' = incoming \o bytes
  BY DEF DeviceSends
<1>2. ReceiverTyped /\ BufferInv /\ StreamInv /\ WholeInv
  BY DEF ReceiverInv
<1>3. /\ bytes \in Seq(Unsigned8) /\ Len(bytes) = size /\ size \in Nat /\ size > 0
  BY DeviceBytesOfText DEF DeviceTexts
<1>4. /\ n \in Nat /\ total \in Nat /\ here \in Nat /\ away \in Nat /\ total = here + away
      /\ ends[n + 1] = total
      /\ \A i \in 1..(n + 1) : ends[i] \in Nat /\ ends[i] <= total
  BY Lengths DEF Written
<1>5. Len(ends) = n + 1 /\ Len(sent) = n /\ sent \in Seq(DeviceTexts) /\ ends \in Seq(Nat)
  BY <1>2 DEF ReceiverTyped
<1>6. /\ \A i \in 1..n : sent[i] \in DeviceTexts /\ Len(sent[i]) \in Nat
      /\ \A i \in 1..n : ends[i + 1] = ends[i] + 3 + Len(sent[i])
      /\ \A i, j \in 1..(n + 1) : i < j => ends[i] < ends[j]
      /\ \A i \in 1..n : \A k \in 1..(3 + Len(sent[i])) :
           ends[i] + k > here => Arriving[ends[i] + k - here] = DeviceBytes(sent[i])[k]
  <2>1. \A i \in 1..n : sent[i] \in DeviceTexts
    BY <1>5
  <2>2. \A i \in 1..n : Len(sent[i]) \in Nat
    BY <2>1 DEF DeviceTexts
  <2>. QED BY <1>2, <1>5, <2>1, <2>2, Zenon DEF StreamInv
<1>. HIDE DEF n, size, total, here, away, bytes, more, marks
<1>7. incoming' \in Seq(Unsigned8) /\ Len(incoming') = Len(incoming) + size
  BY <1>1, <1>2, <1>3, ConcatProperties DEF ReceiverTyped
<1>8. /\ Len(more) = away + size
      /\ \A i \in 1..away : more[i] = Arriving[i]
      /\ \A i \in 1..size : more[away + i] = bytes[i]
  <2>1. more = Arriving \o bytes
    <3>1. buffer \in Seq(Unsigned8) /\ incoming \in Seq(Unsigned8)
      BY <1>2 DEF ReceiverTyped
    <3>2. (buffer \o incoming) \o bytes = buffer \o (incoming \o bytes)
      BY <1>3, <3>1, ConcatAssociative
    <3>3. more = buffer \o (incoming \o bytes)
      BY <1>1, Zenon DEF Arriving, more
    <3>. QED BY <3>2, <3>3, Zenon DEF Arriving
  <2>2. Arriving \in Seq(Unsigned8) /\ Len(Arriving) = away
    BY Lengths DEF away
  <2>3. Joined(Arriving \o bytes, Arriving, bytes)
    BY <2>2, <1>3, Concatenation
  <2>. QED BY <2>1, <2>2, <2>3, <1>3, Zenon DEF Joined
<1>9. /\ Len(sent') = n + 1 /\ sent' \in Seq(DeviceTexts)
      /\ \A i \in 1..n : sent'[i] = sent[i]
      /\ sent'[n + 1] = words
  BY <1>1, <1>5
<1>10. /\ Len(marks) = n + 2 /\ marks \in Seq(Nat)
       /\ \A i \in 1..(n + 1) : marks[i] = ends[i]
       /\ marks[n + 2] = total + size
  BY <1>1, <1>3, <1>4, <1>5 DEF marks, total
<1>11. StreamLength' = total + size
  BY <1>4, <1>10 DEF marks, StreamLength
<1>12. Received' = Received /\ Written' = here
  <2>1. Received' = (total + size) - (Len(incoming) + size)
    <3>1. Received' = StreamLength' - Len(incoming')
      BY DEF Received
    <3>. QED BY <1>7, <1>11, <3>1
  <2>2. Written' = (total + size) - (away + size)
    <3>1. Written' = StreamLength' - Len(more)
      BY DEF Written, more
    <3>. QED BY <1>8, <1>11, <3>1
  <2>3. Len(incoming) \in Nat /\ Received = total - Len(incoming)
    BY <1>2 DEF ReceiverTyped, Received, total
  <2>. QED BY <1>3, <1>4, <2>1, <2>2, <2>3
<1>13. ReceiverTyped'
  BY <1>1, <1>2, <1>4, <1>7, <1>9, <1>10 DEF ReceiverTyped, marks
<1>14. BufferInv'
  BY <1>1, <1>2 DEF BufferInv
<1>15. StreamInv'
  <2>1. ASSUME NEW i \in 1..(n + 1) PROVE marks[i + 1] = marks[i] + 3 + Len(sent'[i])
    <3>1. CASE i \in 1..n
      <4>1. i \in 1..(n + 1) /\ i + 1 \in 1..(n + 1)
        BY <1>4, <3>1
      <4>2. /\ marks[i + 1] = ends[i + 1] /\ marks[i] = ends[i] /\ sent'[i] = sent[i]
            /\ ends[i + 1] = ends[i] + 3 + Len(sent[i])
        BY <1>6, <1>9, <1>10, <3>1, <4>1, Zenon
      <4>. QED BY <4>2, Zenon
    <3>2. CASE i = n + 1
      <4>1. i \in 1..(n + 1) /\ i + 1 = n + 2
        BY <1>4, <3>2
      <4>2. marks[i + 1] = total + size /\ marks[i] = total /\ sent'[i] = words
        BY <1>4, <1>9, <1>10, <3>2, <4>1, Zenon
      <4>3. Len(words) \in Nat /\ total + size = total + 3 + Len(words)
        BY <1>4 DEF size, DeviceTexts
      <4>. QED BY <4>2, <4>3, Zenon
    <3>. QED BY <3>1, <3>2, <1>4
  <2>2. ASSUME NEW i \in 1..(n + 2), NEW j \in 1..(n + 2), i < j
        PROVE  marks[i] < marks[j]
    <3>1. CASE j <= n + 1
      <4>1. i \in 1..(n + 1) /\ j \in 1..(n + 1)
        BY <1>4, <2>2, <3>1
      <4>. QED BY <1>6, <1>10, <2>2, <4>1, Zenon
    <3>2. CASE j = n + 2
      <4>1. i \in 1..(n + 1)
        BY <1>4, <2>2, <3>2
      <4>. DEFINE place == ends[i]
      <4>2. marks[i] = place /\ marks[j] = total + size /\ place \in Nat /\ place <= total
        BY <1>4, <1>10, <3>2, <4>1, Zenon
      <4>. HIDE DEF place
      <4>3. place < total + size
        BY <1>3, <1>4, <4>2
      <4>. QED BY <4>2, <4>3, Zenon
    <3>. QED BY <3>1, <3>2, <1>4
  <2>3. ASSUME NEW i \in 1..(n + 1), NEW k \in 1..(3 + Len(sent'[i])), marks[i] + k > here
        PROVE  more[marks[i] + k - here] = DeviceBytes(sent'[i])[k]
    <3>1. CASE i \in 1..n
      <4>1. /\ sent'[i] = sent[i] /\ marks[i] = ends[i] /\ ends[i] \in Nat
            /\ Len(sent[i]) \in Nat
            /\ ends[i + 1] = ends[i] + 3 + Len(sent[i]) /\ ends[i + 1] <= total
        BY <1>4, <1>6, <1>9, <1>10, <3>1
      <4>2. k \in 1..(3 + Len(sent[i])) /\ ends[i] + k > here
        BY <2>3, <4>1
      <4>3. Arriving[ends[i] + k - here] = DeviceBytes(sent[i])[k]
        BY <1>6, <3>1, <4>2
      <4>4. ends[i] + k - here \in 1..away
        <5>. DEFINE e == ends[i]  l == Len(sent[i])
        <5>1. e \in Nat /\ l \in Nat /\ e + 3 + l <= total /\ k \in 1..(3 + l) /\ e + k > here
          BY <4>1, <4>2, Zenon
        <5>. HIDE DEF e, l
        <5>2. e + k - here \in 1..away
          BY <1>4, <5>1
        <5>. QED BY <5>2 DEF e
      <4>5. more[ends[i] + k - here] = Arriving[ends[i] + k - here]
        BY <1>8, <4>4
      <4>. QED BY <4>1, <4>3, <4>5
    <3>2. CASE i = n + 1
      <4>1. sent'[i] = words /\ marks[i] = total
        BY <1>4, <1>9, <1>10, <3>2
      <4>2. k \in 1..size /\ marks[i] + k - here = away + k
        BY <1>4, <2>3, <4>1 DEF size
      <4>. QED BY <1>8, <4>1, <4>2 DEF bytes
    <3>. QED BY <3>1, <3>2, <1>4
  <2>. HIDE DEF StreamInv
  <2>4. StreamInv' <=>
          /\ \A i \in 1..(n + 1) : marks[i + 1] = marks[i] + 3 + Len(sent'[i])
          /\ \A i, j \in 1..(n + 2) : i < j => marks[i] < marks[j]
          /\ here \in Nat
          /\ \A i \in 1..(n + 1) : \A k \in 1..(3 + Len(sent'[i])) :
               marks[i] + k > here => more[marks[i] + k - here] = DeviceBytes(sent'[i])[k]
    BY <1>9, <1>10, <1>12, Zenon DEF StreamInv, marks, more
  <2>. QED BY <1>4, <2>1, <2>2, <2>3, <2>4
<1>16. WholeInv'
  <2>. SUFFICES ASSUME whole PROVE AtBoundary(Received)' /\ CopiedWhenWhole'
    BY <1>1 DEF WholeInv
  <2>1. AtBoundary(Received)'
    <3>1. PICK i \in 1..(n + 1) : Received = ends[i]
      BY <1>2, <1>5 DEF WholeInv, AtBoundary
    <3>2. i \in 1..(n + 2) /\ Received' = marks[i]
      BY <1>4, <1>10, <1>12, <3>1
    <3>. QED BY <1>10, <3>2 DEF AtBoundary, marks
  <2>2. PICK m \in 0..n : /\ copied = SubSeq(sent, 1, m)
                          /\ ends[m + 1] + (Len(buffer) - at) + Len(incoming) = total
    BY <1>2, <1>5 DEF WholeInv, CopiedWhenWhole, total
  <2>3. SubSeq(sent', 1, m) = SubSeq(sent, 1, m)
    BY <1>1, <1>4, <1>5, <2>2
  <2>4. m \in 0..(n + 1) /\ ends[m + 1] \in Nat /\ marks[m + 1] = ends[m + 1]
    BY <1>4, <1>10
  <2>5. Len(buffer) \in Nat /\ at \in Nat /\ Len(incoming) \in Nat
    BY Lengths
  <2>6. marks[m + 1] + (Len(buffer') - at') + Len(incoming') = total + size
    <3>. DEFINE e == ends[m + 1]  b == Len(buffer)  c == Len(incoming)
    <3>1. /\ e \in Nat /\ b \in Nat /\ c \in Nat /\ at \in Nat /\ e + (b - at) + c = total
          /\ marks[m + 1] = e /\ Len(buffer') = b /\ at' = at /\ Len(incoming') = c + size
      BY <1>1, <1>7, <2>2, <2>4, <2>5, Zenon
    <3>. HIDE DEF e, b, c
    <3>2. e + (b - at) + (c + size) = total + size
      BY <1>3, <1>4, <3>1
    <3>. QED BY <3>1, <3>2, Zenon
  <2>. QED BY <1>1, <1>9, <1>11, <2>1, <2>2, <2>3, <2>4, <2>6 DEF CopiedWhenWhole, marks
<1>. QED BY <1>13, <1>14, <1>15, <1>16 DEF ReceiverInv

\* The stream is the same, wherever its bytes are.
LEMMA StreamStays ==
  ASSUME StreamInv, UNCHANGED <<sent, ends>>, Arriving' = Arriving
  PROVE  StreamInv' /\ Written' = Written
<1>1. sent' = sent /\ ends' = ends
  OBVIOUS
<1>2. StreamLength' = StreamLength
  BY <1>1, Zenon DEF StreamLength
<1>3. Written' = Written
  BY <1>2, Zenon DEF Written
<1>. QED BY <1>1, <1>3, Zenon DEF StreamInv

\* ProcessMessages returns: the bytes in its buffer are done with.
LEMMA BufferDone ==
  ASSUME ReceiverInv, UNCHANGED <<sent, ends, incoming>>, buffer' = <<>>
  PROVE  StreamInv' /\ Received' = Received
<1>. DEFINE b == Len(buffer)  here == Written  there == Written'
<1>1. sent' = sent /\ ends' = ends /\ incoming' = incoming
  OBVIOUS
<1>2. StreamLength' = StreamLength
  BY <1>1, Zenon DEF StreamLength
<1>3. Received' = Received
  BY <1>1, <1>2, Zenon DEF Received
<1>4. ReceiverTyped /\ StreamInv
  BY DEF ReceiverInv
<1>5. buffer \in Seq(Unsigned8) /\ incoming \in Seq(Unsigned8)
  BY <1>4 DEF ReceiverTyped
<1>6. Arriving' = incoming
  <2>1. Arriving' = <<>> \o incoming
    BY <1>1, Zenon DEF Arriving
  <2>. QED BY <1>5, <2>1
<1>7. Joined(Arriving, buffer, incoming)
  BY <1>5, Concatenation DEF Arriving
<1>8. b \in Nat /\ here \in Nat /\ there = here + b
  <2>1. there = Received
    BY <1>2, <1>6, Zenon DEF Written, Received
  <2>. QED BY <2>1, Lengths
<1>9. ASSUME NEW i \in 1..Len(sent), NEW k \in 1..(3 + Len(sent[i])), ends[i] + k > there
      PROVE  incoming[ends[i] + k - there] = DeviceBytes(sent[i])[k]
  <2>. DEFINE e == ends[i]  l == Len(sent[i])  c == Len(incoming)  p == e + k - there
  <2>1. e \in Nat /\ l \in Nat /\ c \in Nat /\ e + 3 + l <= StreamLength /\ StreamLength \in Nat
    <3>1. i + 1 \in 1..Len(ends) /\ i \in 1..Len(ends) /\ Len(ends) \in 1..Len(ends)
      BY Lengths
    <3>2. ends[i + 1] = e + 3 + l
      BY <1>4, Zenon DEF StreamInv
    <3>3. sent[i] \in DeviceTexts
      BY <1>4 DEF ReceiverTyped
    <3>4. l \in Nat
      BY <3>3 DEF DeviceTexts
    <3>5. e \in Nat /\ ends[i + 1] <= StreamLength /\ StreamLength \in Nat /\ c \in Nat
      BY <3>1, Lengths, Zenon DEF StreamLength
    <3>. QED BY <3>2, <3>4, <3>5
  <2>2. StreamLength = here + (b + c)
    BY Lengths, <1>8, <2>1 DEF Received
  <2>3. k \in 1..(3 + l) /\ e + k > there
    BY <1>9
  <2>4. /\ e + k > here /\ p \in 1..c /\ e + k - here = b + p
    <3>. HIDE DEF e, l, c, b, here, there
    <3>. QED BY <1>8, <2>1, <2>2, <2>3
  <2>5. Arriving[e + k - here] = DeviceBytes(sent[i])[k]
    BY <1>4, <2>4, Zenon DEF StreamInv
  <2>6. Arriving[b + p] = incoming[p]
    BY <1>7, <2>4, Zenon DEF Joined
  <2>. QED BY <2>4, <2>5, <2>6, Zenon
<1>10. there \in Nat
  BY <1>8
<1>. QED BY <1>1, <1>3, <1>4, <1>6, <1>9, <1>10, Zenon DEF StreamInv

\* What ProcessMessages has in front of it.
LEMMA RestOfBuffer ==
  ASSUME ReceiverInv
  PROVE  /\ Rest \in Seq(Unsigned8) /\ Len(Rest) = Len(buffer) - at
         /\ \A k \in 1..(Len(buffer) - at) : Rest[k] = buffer[at + k] /\ Rest[k] \in Unsigned8
<1>1. buffer \in Seq(Unsigned8) /\ Len(buffer) \in Nat /\ at \in 0..Len(buffer)
  BY DEF ReceiverInv, ReceiverTyped
<1>2. \A i \in (at + 1)..Len(buffer) : buffer[i] \in Unsigned8
  BY <1>1
<1>3. /\ Rest \in Seq(Unsigned8)
      /\ Len(Rest) = IF at + 1 <= Len(buffer) THEN Len(buffer) - (at + 1) + 1 ELSE 0
      /\ \A k \in 1..(Len(buffer) - (at + 1) + 1) : Rest[k] = buffer[at + 1 + k - 1]
  BY <1>1, <1>2, SubSeqProperties DEF Rest
<1>4. Len(Rest) = Len(buffer) - at
  BY <1>1, <1>3
<1>5. ASSUME NEW k \in 1..(Len(buffer) - at)
      PROVE  Rest[k] = buffer[at + k] /\ Rest[k] \in Unsigned8
  <2>1. /\ k \in 1..(Len(buffer) - (at + 1) + 1) /\ at + 1 + k - 1 = at + k
        /\ at + k \in (at + 1)..Len(buffer)
    BY <1>1
  <2>2. Rest[k] = buffer[at + k]
    BY <1>3, <2>1, Zenon
  <2>. QED BY <1>2, <2>1, <2>2, Zenon
<1>. QED BY <1>3, <1>4, <1>5, Zenon

\* A complete message ends in the buffer.
LEMMA CompleteMessage ==
  ASSUME ReceiverInv, Complete(Rest)
  PROVE  MessageLength(Rest) \in 3..(Len(buffer) - at)
<1>. DEFINE x == Rest[2]  y == Rest[3]  l == Len(buffer) - at
<1>1. l \in Nat /\ l >= 3 /\ x * 256 + y <= l - 3
  <2>1. Len(Rest) = l /\ l \in Int
    BY RestOfBuffer, Lengths
  <2>2. Len(Rest) >= 3 /\ x * 256 + y <= Len(Rest) - 3
    BY Zenon DEF Complete
  <2>. QED BY <2>1, <2>2
<1>2. x \in Nat /\ y \in Nat
  <2>1. 2 \in 1..l /\ 3 \in 1..l
    BY <1>1
  <2>2. x \in Unsigned8 /\ y \in Unsigned8
    BY <2>1, RestOfBuffer, Zenon
  <2>. QED BY <2>2 DEF Unsigned8
<1>3. MessageLength(Rest) = 3 + x * 256 + y
  BY DEF MessageLength
<1>. HIDE DEF x, y, l
<1>4. 3 + x * 256 + y \in 3..l
  BY <1>1, <1>2
<1>. QED BY <1>3, <1>4, Zenon DEF l

\* While no segment has ended inside a message, what ProcessMessages has in front
\* of it is the whole of the first message whose text has not been copied.
LEMMA NextMessage ==
  ASSUME ReceiverInv, whole, pc = "process"
  PROVE  /\ Complete(Rest)
         /\ \E n \in 0..(Len(sent) - 1) :
              /\ copied = SubSeq(sent, 1, n)
              /\ ends[n + 1] + (Len(buffer) - at) + Len(incoming) = StreamLength
              /\ MessageLength(Rest) = 3 + Len(sent[n + 1])
              /\ SubSeq(buffer, at + 4, at + MessageLength(Rest)) = sent[n + 1]
<1>. DEFINE b == Len(buffer)  c == Len(incoming)  here == Written  total == StreamLength
<1>1. ReceiverTyped /\ BufferInv /\ StreamInv /\ AtBoundary(Received) /\ CopiedWhenWhole
  BY Zenon DEF ReceiverInv, WholeInv
<1>2. /\ b \in Nat /\ c \in Nat /\ here \in Nat /\ at \in Nat /\ at < b /\ total = here + b + c
      /\ Len(sent) \in Nat /\ Len(ends) = Len(sent) + 1
  <2>1. at < b
    BY <1>1 DEF BufferInv
  <2>2. /\ Received = here + b /\ b \in Nat /\ c \in Nat /\ here \in Nat /\ at \in Nat
        /\ Len(sent) \in Nat /\ Len(ends) = Len(sent) + 1 /\ Received = total - c
        /\ total \in Nat
    <3>1. total = ends[Len(ends)] /\ Len(ends) \in 1..Len(ends)
      BY Lengths DEF StreamLength
    <3>. QED BY <3>1, Lengths, Zenon DEF Received
  <2>. HIDE DEF b, c, here, total
  <2>. QED BY <2>1, <2>2
<1>3. \A i \in 1..Len(ends) : ends[i] \in Nat
  BY Lengths, Zenon
<1>4. PICK n \in 0..Len(sent) : /\ copied = SubSeq(sent, 1, n)
                                /\ ends[n + 1] + (b - at) + c = total
  BY <1>1, Zenon DEF CopiedWhenWhole
<1>5. PICK j \in 1..Len(ends) : ends[j] = here + b
  <2>1. Received = here + b
    BY Lengths
  <2>. QED BY <1>1, <2>1, Zenon DEF AtBoundary
<1>6. ends[n + 1] = here + at
  <2>. DEFINE e == ends[n + 1]
  <2>1. e \in Nat /\ e + (b - at) + c = total
    <3>1. n + 1 \in 1..Len(ends)
      BY <1>2
    <3>. QED BY <1>3, <1>4, <3>1, Zenon
  <2>. HIDE DEF e, b, c, here, total
  <2>2. e = here + at
    BY <1>2, <2>1
  <2>. QED BY <2>2 DEF e
<1>7. n \in 0..(Len(sent) - 1) /\ n + 1 < j
  <2>1. n + 1 < j
    <3>. SUFFICES ASSUME ~(n + 1 < j) PROVE FALSE
      OBVIOUS
    <3>1. CASE j = n + 1
      <4>1. here + at = here + b
        BY <1>5, <1>6, <3>1, Zenon
      <4>. HIDE DEF b, here
      <4>. QED BY <1>2, <4>1
    <3>2. CASE j < n + 1
      <4>1. n + 1 \in 1..Len(ends)
        BY <1>2
      <4>2. ends[j] < ends[n + 1]
        BY <1>1, <3>2, <4>1, Zenon DEF StreamInv
      <4>3. here + b < here + at
        BY <1>5, <1>6, <4>2, Zenon
      <4>. HIDE DEF b, here
      <4>. QED BY <1>2, <4>3
    <3>3. n \in Nat /\ j \in Nat
      BY <1>2
    <3>. QED BY <3>1, <3>2, <3>3
  <2>. QED BY <1>2, <2>1
<1>. DEFINE words == sent[n + 1]  l == Len(words)
<1>8. words \in DeviceTexts /\ words \in Seq(Unsigned8) /\ l \in Nat
  <2>1. n + 1 \in 1..Len(sent)
    BY <1>2, <1>7
  <2>2. words \in DeviceTexts
    BY <1>1, <2>1 DEF ReceiverTyped
  <2>. QED BY <2>2 DEF DeviceTexts
<1>9. at + 3 + l <= b
  <2>. DEFINE e == ends[n + 1]  f == ends[n + 2]
  <2>1. n + 1 \in 1..Len(sent) /\ n + 2 \in 1..Len(ends) /\ (n + 2 = j \/ n + 2 < j) /\ (n + 1) + 1 = n + 2
    BY <1>2, <1>7
  <2>2. f = e + 3 + l
    BY <1>1, <2>1, Zenon DEF StreamInv
  <2>3. f = here + b \/ f < here + b
    BY <1>1, <1>5, <2>1, Zenon DEF StreamInv
  <2>4. e = here + at
    BY <1>6
  <2>. HIDE DEF e, f, b, here, l
  <2>. QED BY <1>2, <1>8, <2>2, <2>3, <2>4
<1>10. ASSUME NEW k \in 1..(3 + l) PROVE buffer[at + k] = DeviceBytes(words)[k]
  <2>1. /\ n + 1 \in 1..Len(sent) /\ at + k \in 1..b /\ (here + at) + k > here
        /\ (here + at) + k - here = at + k
    <3>1. n + 1 \in 1..Len(sent)
      BY <1>2, <1>7
    <3>. HIDE DEF b, here, l
    <3>. QED BY <1>2, <1>8, <1>9, <3>1
  <2>2. Arriving[(here + at) + k - here] = DeviceBytes(words)[k]
    BY <1>1, <1>6, <2>1, Zenon DEF StreamInv
  <2>3. Joined(Arriving, buffer, incoming)
    BY <1>1, Concatenation DEF ReceiverTyped, Arriving
  <2>4. Arriving[at + k] = buffer[at + k]
    BY <2>1, <2>3, Zenon DEF Joined
  <2>. QED BY <2>1, <2>2, <2>4, Zenon
<1>11. /\ Len(Rest) = b - at /\ b - at >= 3 + l /\ b - at \in Nat
       /\ Rest[1] = CLIPBOARD /\ Rest[2] * 256 + Rest[3] = l
  <2>1. /\ 1 \in 1..(3 + l) /\ 2 \in 1..(3 + l) /\ 3 \in 1..(3 + l)
        /\ 1 \in 1..(b - at) /\ 2 \in 1..(b - at) /\ 3 \in 1..(b - at)
        /\ b - at >= 3 + l /\ b - at \in Nat
    <3>. HIDE DEF b, l
    <3>. QED BY <1>2, <1>8, <1>9
  <2>2. /\ Rest[1] = DeviceBytes(words)[1] /\ Rest[2] = DeviceBytes(words)[2]
        /\ Rest[3] = DeviceBytes(words)[3]
    <3>1. \A k \in 1..(b - at) : Rest[k] = buffer[at + k]
      BY RestOfBuffer, Zenon
    <3>2. Rest[1] = buffer[at + 1] /\ Rest[2] = buffer[at + 2] /\ Rest[3] = buffer[at + 3]
      BY <2>1, <3>1, Zenon
    <3>3. /\ buffer[at + 1] = DeviceBytes(words)[1] /\ buffer[at + 2] = DeviceBytes(words)[2]
          /\ buffer[at + 3] = DeviceBytes(words)[3]
      BY <1>10, <2>1, Zenon
    <3>. QED BY <3>2, <3>3, Zenon
  <2>3. DeviceBytes(words)[1] = CLIPBOARD /\ DeviceBytes(words)[2] * 256 + DeviceBytes(words)[3] = l
    BY <1>8, DeviceBytesOfText
  <2>4. Rest[1] = CLIPBOARD /\ Rest[2] * 256 + Rest[3] = l
    BY <2>2, <2>3, Zenon
  <2>. QED BY <2>1, <2>4, RestOfBuffer, Zenon
<1>12. Complete(Rest)
  <2>1. Len(Rest) >= 3 /\ l <= Len(Rest) - 3
    <3>. HIDE DEF b, l
    <3>. QED BY <1>8, <1>11
  <2>. QED BY <1>11, <2>1, Zenon DEF Complete
<1>13. MessageLength(Rest) = 3 + l
  <2>1. Rest[2] \in Nat /\ Rest[3] \in Nat
    <3>1. 2 \in 1..(b - at) /\ 3 \in 1..(b - at)
      <4>. HIDE DEF b, l
      <4>. QED BY <1>8, <1>11
    <3>2. Rest[2] \in Unsigned8 /\ Rest[3] \in Unsigned8
      BY <3>1, RestOfBuffer, Zenon
    <3>. QED BY <3>2 DEF Unsigned8
  <2>2. MessageLength(Rest) = 3 + Rest[2] * 256 + Rest[3]
    BY DEF MessageLength
  <2>. DEFINE x == Rest[2]  y == Rest[3]
  <2>3. x \in Nat /\ y \in Nat /\ x * 256 + y = l
    BY <1>11, <2>1, Zenon
  <2>. HIDE DEF x, y, l
  <2>4. 3 + x * 256 + y = 3 + l
    BY <1>8, <2>3
  <2>. QED BY <2>2, <2>4, Zenon DEF x, y
<1>14. SubSeq(buffer, at + 4, at + (3 + l)) = words
  <2>. DEFINE t == SubSeq(buffer, at + 4, at + (3 + l))
  <2>1. \A i \in (at + 4)..(at + (3 + l)) : buffer[i] \in Unsigned8
    <3>1. buffer \in Seq(Unsigned8) /\ \A i \in (at + 4)..(at + (3 + l)) : i \in 1..b
      <4>1. buffer \in Seq(Unsigned8)
        BY <1>1 DEF ReceiverTyped
      <4>. HIDE DEF b, l
      <4>. QED BY <1>2, <1>8, <1>9, <4>1
    <3>. QED BY <3>1
  <2>2. /\ t \in Seq(Unsigned8)
        /\ Len(t) = IF at + 4 <= at + (3 + l) THEN (at + (3 + l)) - (at + 4) + 1 ELSE 0
        /\ \A i \in 1..((at + (3 + l)) - (at + 4) + 1) : t[i] = buffer[at + 4 + i - 1]
    <3>. DEFINE first == at + 4  last == at + (3 + l)
    <3>1. first \in Int /\ last \in Int
      BY <1>2, <1>8
    <3>0. \A i \in first..last : buffer[i] \in Unsigned8
      BY <2>1
    <3>. HIDE DEF first, last
    <3>2. /\ SubSeq(buffer, first, last) \in Seq(Unsigned8)
          /\ Len(SubSeq(buffer, first, last)) = IF first <= last THEN last - first + 1 ELSE 0
          /\ \A i \in 1..(last - first + 1) : SubSeq(buffer, first, last)[i] = buffer[first + i - 1]
      BY <3>0, <3>1, SubSeqProperties
    <3>. QED BY <3>2, Zenon DEF first, last
  <2>3. Len(t) = l
    <3>. HIDE DEF t, l
    <3>. QED BY <1>2, <1>8, <2>2
  <2>4. ASSUME NEW i \in 1..l PROVE t[i] = words[i]
    <3>1. /\ i \in 1..((at + (3 + l)) - (at + 4) + 1) /\ at + 4 + i - 1 = at + (3 + i)
          /\ 3 + i \in 1..(3 + l)
      <4>. HIDE DEF l
      <4>. QED BY <1>2, <1>8
    <3>2. t[i] = buffer[at + (3 + i)]
      BY <2>2, <3>1, Zenon
    <3>3. buffer[at + (3 + i)] = DeviceBytes(words)[3 + i]
      BY <1>10, <3>1, Zenon
    <3>4. DeviceBytes(words)[3 + i] = words[i]
      BY <1>8, DeviceBytesOfText
    <3>. QED BY <3>2, <3>3, <3>4, Zenon
  <2>. HIDE DEF t, words
  <2>5. t = words
    BY <1>8, <2>2, <2>3, <2>4, SeqEqual
  <2>. QED BY <2>5 DEF t
<1>. QED BY <1>4, <1>7, <1>12, <1>13, <1>14, Zenon

\* recv moves bytes into the buffer.
LEMMA ReceiveKeepsReceiver ==
  ASSUME ReceiverInv, Receive
  PROVE  ReceiverInv'
<1>. DEFINE c == Len(incoming)  total == StreamLength
<1>1. PICK n \in 1..(BufSize - head) :
        /\ n <= c
        /\ buffer' = SubSeq(incoming, 1, n)
        /\ incoming' = SubSeq(incoming, n + 1, c)
  BY Zenon DEF Receive
<1>2. /\ pc = "receive" /\ pc' = "process" /\ at' = 0
      /\ UNCHANGED <<head, copied, sent, ends, closed>>
      /\ whole' = (whole /\ AtBoundary(total - Len(incoming')))
  BY Zenon DEF Receive, streamVars
<1>3. ReceiverTyped /\ BufferInv /\ StreamInv /\ WholeInv
  BY DEF ReceiverInv
<1>4. /\ buffer = <<>> /\ at = 0 /\ incoming \in Seq(Unsigned8) /\ c \in Nat
      /\ head \in 0..(BufSize - 1) /\ BufSize \in Nat
  BY <1>2, <1>3, ReceiverAssumption DEF ReceiverTyped, BufferInv, BufSize
<1>5. n \in 1..c /\ n \in Nat /\ n <= BufSize
  BY <1>1, <1>4
<1>6. /\ buffer' \in Seq(Unsigned8) /\ Len(buffer') = n
      /\ incoming' \in Seq(Unsigned8) /\ Len(incoming') = c - n
      /\ buffer' \o incoming' = incoming
  <2>1. SubSeq(incoming, 1, n) \o SubSeq(incoming, n + 1, c) = SubSeq(incoming, 1, c)
    BY <1>4, <1>5, ConcatAdjacentSubSeq
  <2>2. SubSeq(incoming, 1, c) = incoming
    BY <1>4
  <2>3. SubSeq(incoming, 1, n) \in Seq(Unsigned8) /\ Len(SubSeq(incoming, 1, n)) = n
    BY <1>4, <1>5
  <2>4. SubSeq(incoming, n + 1, c) \in Seq(Unsigned8) /\ Len(SubSeq(incoming, n + 1, c)) = c - n
    BY <1>4, <1>5
  <2>. QED BY <1>1, <2>1, <2>2, <2>3, <2>4, Zenon
<1>7. Arriving' = Arriving
  <2>1. Arriving' = incoming
    BY <1>6, Zenon DEF Arriving
  <2>2. Arriving = <<>> \o incoming
    BY <1>4, Zenon DEF Arriving
  <2>. QED BY <1>4, <2>1, <2>2
<1>8. StreamLength' = total
  BY <1>2, Zenon DEF StreamLength
<1>9. ReceiverTyped'
  <2>1. at' \in 0..Len(buffer') /\ Len(buffer') <= BufSize
    BY <1>2, <1>5, <1>6
  <2>2. whole' \in BOOLEAN
    BY <1>2, Zenon
  <2>. QED BY <1>2, <1>3, <1>6, <2>1, <2>2, Zenon DEF ReceiverTyped
<1>10. BufferInv'
  <2>1. at' < Len(buffer')
    BY <1>2, <1>5, <1>6
  <2>. QED BY <1>2, <2>1 DEF BufferInv
<1>11. StreamInv'
  BY <1>2, <1>3, <1>7, StreamStays
<1>12. WholeInv'
  <2>. SUFFICES ASSUME whole' PROVE AtBoundary(Received)' /\ CopiedWhenWhole'
    BY DEF WholeInv
  <2>1. whole /\ AtBoundary(total - Len(incoming'))
    BY <1>2, Zenon
  <2>2. AtBoundary(Received)'
    BY <1>2, <1>8, <2>1, Zenon DEF AtBoundary, Received
  <2>3. PICK m \in 0..Len(sent) : /\ copied = SubSeq(sent, 1, m)
                                  /\ ends[m + 1] + (Len(buffer) - at) + c = total
    BY <1>3, <2>1, Zenon DEF WholeInv, CopiedWhenWhole
  <2>4. ends[m + 1] + (Len(buffer') - at') + Len(incoming') = total
    <3>. DEFINE e == ends[m + 1]
    <3>1. e \in Nat
      <4>1. m + 1 \in 1..Len(ends)
        BY Lengths
      <4>. QED BY <4>1, Lengths, Zenon
    <3>2. e + (0 - 0) + c = total /\ Len(buffer') = n /\ at' = 0 /\ Len(incoming') = c - n
      <4>1. Len(buffer) = 0
        BY <1>4
      <4>. QED BY <1>2, <1>4, <1>6, <2>3, <4>1, Zenon
    <3>. HIDE DEF e, c, total
    <3>3. e + (n - 0) + (c - n) = total
      BY <1>4, <1>5, <3>1, <3>2
    <3>. QED BY <3>2, <3>3, Zenon DEF e
  <2>. QED BY <1>2, <1>8, <2>2, <2>3, <2>4, Zenon DEF CopiedWhenWhole
<1>. QED BY <1>9, <1>10, <1>11, <1>12, Zenon DEF ReceiverInv

\* ProcessMessages returns: whatever it has consumed, there is room in the buffer.
LEMMA ReturningKeepsRoom ==
  ASSUME ReceiverInv, NEW consumed \in at..Len(buffer), ReturnConsumed(consumed)
  PROVE  head' \in 0..(BufSize - 1) /\ pc' = "receive" /\ buffer' = <<>> /\ at' = 0
<1>. DEFINE b == Len(buffer)
<1>1. /\ pc' = "receive" /\ buffer' = <<>> /\ at' = 0
      /\ head' = IF consumed # 0 THEN b - consumed ELSE head
  BY Zenon DEF ReturnConsumed, NewHead
<1>2. /\ b \in Nat /\ at \in Nat /\ b <= BufSize /\ BufSize \in Nat
      /\ head \in 0..(BufSize - 1)
  BY ReceiverAssumption DEF ReceiverInv, ReceiverTyped, BufSize
<1>. HIDE DEF b
<1>3. CASE consumed = 0
  BY <1>1, <1>2, <1>3
<1>4. CASE consumed # 0
  BY <1>1, <1>2, <1>4 DEF b
<1>. QED BY <1>3, <1>4

\* A text is taken out of the buffer.
LEMMA TakeTextKeepsReceiver ==
  ASSUME ReceiverInv, TakeText
  PROVE  ReceiverInv'
<1>. DEFINE next == at + MessageLength(Rest)  words == SubSeq(buffer, at + 4, next)
            b == Len(buffer)  c == Len(incoming)  total == StreamLength
<1>1. /\ pc = "process" /\ Complete(Rest)
      /\ copied' = Append(copied, words)
      /\ UNCHANGED <<incoming, sent, ends, closed, whole>>
      /\ \/ next = b /\ ReturnConsumed(next)
         \/ next # b /\ at' = next /\ UNCHANGED <<pc, head, buffer>>
  BY Zenon DEF TakeText, streamVars
<1>2. ReceiverTyped /\ BufferInv /\ StreamInv /\ WholeInv
  BY DEF ReceiverInv
<1>3. /\ b \in Nat /\ at \in Nat /\ next \in Nat /\ at + 3 <= next /\ next <= b
      /\ next \in at..b /\ c \in Nat
  <2>. DEFINE l == MessageLength(Rest)
  <2>1. b \in Nat /\ at \in Nat /\ c \in Nat /\ l \in 3..(b - at)
    BY <1>1, CompleteMessage, Lengths
  <2>. HIDE DEF l, b, c
  <2>2. at + l \in Nat /\ at + 3 <= at + l /\ at + l <= b
    BY <2>1
  <2>. QED BY <2>1, <2>2 DEF l
<1>4. words \in Seq(Unsigned8)
  <2>1. \A i \in (at + 4)..next : buffer[i] \in Unsigned8
    <3>1. buffer \in Seq(Unsigned8) /\ \A i \in (at + 4)..next : i \in 1..b
      <4>1. buffer \in Seq(Unsigned8)
        BY <1>2 DEF ReceiverTyped
      <4>. HIDE DEF b, next
      <4>. QED BY <1>3, <4>1
    <3>. QED BY <3>1
  <2>2. at + 4 \in Int /\ next \in Int
    BY <1>3
  <2>. HIDE DEF next
  <2>. QED BY <2>1, <2>2, SubSeqProperties
<1>. HIDE DEF next, words, b, c, total
<1>5. copied' \in Seq(Seq(Unsigned8))
  BY <1>1, <1>2, <1>4 DEF ReceiverTyped
<1>6. StreamLength' = total
  BY <1>1, Zenon DEF StreamLength, total
\* Where the buffer ends for the next turn.
<1>7. /\ Received' = Received /\ StreamInv' /\ BufferInv' /\ ReceiverTyped'
      /\ Len(buffer') - at' = b - next
  <2>1. CASE next = b /\ ReturnConsumed(next)
    <3>1. head' \in 0..(BufSize - 1) /\ pc' = "receive" /\ buffer' = <<>> /\ at' = 0
      BY <1>3, <2>1, ReturningKeepsRoom DEF b
    <3>2. StreamInv' /\ Received' = Received
      BY <1>1, <3>1, BufferDone
    <3>3. /\ <<>> \in Seq(Unsigned8) /\ Len(<<>>) <= BufSize /\ 0 \in 0..Len(<<>>)
          /\ Len(<<>>) - 0 = b - next
      BY <1>3, <2>1, ReceiverAssumption DEF BufSize
    <3>4. ReceiverTyped'
      BY <1>1, <1>2, <1>5, <3>1, <3>3, Zenon DEF ReceiverTyped
    <3>5. BufferInv'
      BY <3>1 DEF BufferInv
    <3>. QED BY <3>1, <3>2, <3>3, <3>4, <3>5, Zenon
  <2>2. CASE next # b /\ at' = next /\ UNCHANGED <<pc, head, buffer>>
    <3>1. /\ pc' = pc /\ head' = head /\ buffer' = buffer /\ at' = next
          /\ sent' = sent /\ ends' = ends /\ incoming' = incoming
      BY <1>1, <2>2
    <3>2. Arriving' = Arriving
      BY <3>1, Zenon DEF Arriving
    <3>3. StreamInv'
      BY <1>2, <3>1, <3>2, StreamStays
    <3>4. Received' = Received
      BY <3>1, Zenon DEF Received, StreamLength
    <3>5. next \in 0..b /\ next < b
      BY <1>3, <2>2
    <3>6. ReceiverTyped'
      BY <1>1, <1>2, <1>5, <3>1, <3>5, Zenon DEF ReceiverTyped, b
    <3>7. BufferInv'
      BY <1>1, <3>1, <3>5 DEF BufferInv, b
    <3>. QED BY <3>1, <3>3, <3>4, <3>6, <3>7, Zenon DEF b
  <2>. QED BY <1>1, <2>1, <2>2, Zenon
<1>8. WholeInv'
  <2>. SUFFICES ASSUME whole PROVE AtBoundary(Received)' /\ CopiedWhenWhole'
    BY <1>1, Zenon DEF WholeInv
  <2>1. AtBoundary(Received)'
    BY <1>1, <1>2, <1>7, Zenon DEF WholeInv, AtBoundary
  <2>2. PICK n \in 0..(Len(sent) - 1) :
          /\ copied = SubSeq(sent, 1, n)
          /\ ends[n + 1] + (b - at) + c = total
          /\ MessageLength(Rest) = 3 + Len(sent[n + 1])
          /\ words = sent[n + 1]
    BY <1>1, NextMessage, Zenon DEF b, c, total, words, next
  <2>3. n + 1 \in 0..Len(sent) /\ n + 1 \in 1..Len(sent) /\ n \in Nat /\ sent \in Seq(DeviceTexts)
    BY <1>2 DEF ReceiverTyped
  <2>4. copied' = SubSeq(sent, 1, n + 1)
    <3>1. SubSeq(sent, 1, n + 1) = Append(SubSeq(sent, 1, n), sent[n + 1])
      BY <2>3
    <3>. QED BY <1>1, <2>2, <3>1, Zenon
  <2>5. ends[n + 2] + (b - next) + c = total
    <3>. DEFINE e == ends[n + 1]  l == Len(sent[n + 1])
    <3>1. (n + 1) + 1 = n + 2 /\ n + 1 \in 1..Len(ends)
      BY <2>3, Lengths
    <3>2. ends[n + 2] = e + 3 + l
      BY <1>2, <2>3, <3>1, Zenon DEF StreamInv
    <3>3. sent[n + 1] \in DeviceTexts
      BY <2>3
    <3>4. l \in Nat
      BY <3>3 DEF DeviceTexts
    <3>5. next = at + (3 + l) /\ e + (b - at) + c = total
      BY <2>2, Zenon DEF next
    <3>6. e \in Nat
      BY <3>1, Lengths, Zenon
    <3>. HIDE DEF e, l
    <3>7. (e + 3 + l) + (b - (at + (3 + l))) + c = total
      BY <1>3, <3>4, <3>5, <3>6
    <3>. QED BY <3>2, <3>5, <3>7, Zenon
  <2>6. /\ sent' = sent /\ ends' = ends /\ incoming' = incoming
        /\ Len(buffer') - at' = b - next /\ StreamLength' = total /\ (n + 1) + 1 = n + 2
    BY <1>1, <1>6, <1>7, <2>3
  <2>7. ends'[(n + 1) + 1] + (Len(buffer') - at') + Len(incoming') = StreamLength'
    BY <2>5, <2>6, Zenon DEF c
  <2>8. copied' = SubSeq(sent', 1, n + 1) /\ n + 1 \in 0..Len(sent')
    BY <2>3, <2>4, <2>6, Zenon
  <2>. QED BY <2>1, <2>7, <2>8, Zenon DEF CopiedWhenWhole
<1>. QED BY <1>7, <1>8, Zenon DEF ReceiverInv

\* The message in front is not complete: that is so only after a cut.
LEMMA AwaitMoreKeepsReceiver ==
  ASSUME ReceiverInv, AwaitMore
  PROVE  ReceiverInv'
<1>1. /\ pc = "process" /\ ~Complete(Rest) /\ ReturnConsumed(at)
      /\ copied' = copied /\ incoming' = incoming /\ sent' = sent /\ ends' = ends
      /\ closed' = closed /\ whole' = whole
  BY Zenon DEF AwaitMore, streamVars
<1>2. ReceiverTyped
  BY DEF ReceiverInv
<1>3. at \in at..Len(buffer)
  BY <1>2 DEF ReceiverTyped
<1>4. head' \in 0..(BufSize - 1) /\ pc' = "receive" /\ buffer' = <<>> /\ at' = 0
  BY <1>1, <1>3, ReturningKeepsRoom
<1>5. StreamInv'
  BY <1>1, <1>4, BufferDone
<1>6. <<>> \in Seq(Unsigned8) /\ Len(<<>>) <= BufSize /\ 0 \in 0..Len(<<>>)
  BY ReceiverAssumption DEF BufSize
<1>7. ReceiverTyped'
  BY <1>1, <1>2, <1>4, <1>6, Zenon DEF ReceiverTyped
<1>8. BufferInv'
  BY <1>4 DEF BufferInv
<1>9. ~whole
  BY <1>1, NextMessage, Zenon
<1>10. WholeInv'
  BY <1>1, <1>9, Zenon DEF WholeInv
<1>. QED BY <1>5, <1>7, <1>8, <1>10, Zenon DEF ReceiverInv

\* The thread ends, or the connection: the bytes stay where they are.
LEMMA BytesStay ==
  ASSUME ReceiverInv, UNCHANGED <<head, buffer, at, copied, incoming, sent, ends, whole>>,
         closed' \in BOOLEAN, pc' = pc \/ pc' = "stopped"
  PROVE  ReceiverInv'
<1>1. /\ head' = head /\ buffer' = buffer /\ at' = at /\ copied' = copied /\ incoming' = incoming
      /\ sent' = sent /\ ends' = ends /\ whole' = whole
  OBVIOUS
<1>2. ReceiverTyped /\ BufferInv /\ StreamInv /\ WholeInv
  BY DEF ReceiverInv
<1>3. Arriving' = Arriving
  BY <1>1, Zenon DEF Arriving
<1>4. StreamInv'
  BY <1>1, <1>2, <1>3, StreamStays
<1>5. pc' \in {"receive", "process", "stopped"}
  BY <1>2 DEF ReceiverTyped
<1>6. ReceiverTyped'
  BY <1>1, <1>2, <1>5, Zenon DEF ReceiverTyped
<1>7. BufferInv'
  BY <1>1, <1>2 DEF BufferInv
<1>8. WholeInv'
  <2>1. StreamLength' = StreamLength
    BY <1>1, Zenon DEF StreamLength
  <2>2. Received' = Received
    BY <1>1, <2>1, Zenon DEF Received
  <2>3. AtBoundary(Received)' <=> AtBoundary(Received)
    BY <1>1, <2>2, Zenon DEF AtBoundary
  <2>. SUFFICES ASSUME whole PROVE AtBoundary(Received)' /\ CopiedWhenWhole'
    BY <1>1 DEF WholeInv
  <2>4. PICK n \in 0..Len(sent) :
          /\ copied = SubSeq(sent, 1, n)
          /\ ends[n + 1] + (Len(buffer) - at) + Len(incoming) = StreamLength
    BY <1>2, Zenon DEF WholeInv, CopiedWhenWhole
  <2>5. CopiedWhenWhole'
    BY <1>1, <2>1, <2>4, Zenon DEF CopiedWhenWhole
  <2>. QED BY <1>2, <2>3, <2>5, Zenon DEF WholeInv
<1>. QED BY <1>4, <1>6, <1>7, <1>8, Zenon DEF ReceiverInv

\* A step of the receiver's thread, or the end of the connection.
LEMMA ReceivingKeepsReceiver ==
  ASSUME ReceiverInv, Receiving
  PROVE  ReceiverInv'
<1>0. closed \in BOOLEAN
  BY DEF ReceiverInv, ReceiverTyped
<1>1. CASE Receive
  BY <1>1, ReceiveKeepsReceiver
<1>2. CASE TakeText
  BY <1>2, TakeTextKeepsReceiver
<1>3. CASE AwaitMore
  BY <1>3, AwaitMoreKeepsReceiver
<1>4. CASE GiveUp
  BY <1>0, <1>4, BytesStay DEF GiveUp, streamVars
<1>5. CASE Close
  BY <1>5, BytesStay DEF Close
<1>6. CASE StopReceiving
  BY <1>0, <1>6, BytesStay DEF StopReceiving, streamVars
<1>. QED BY <1>1, <1>2, <1>3, <1>4, <1>5, <1>6 DEF Receiving

\* A step of somebody else.
LEMMA ReceiverRests ==
  ASSUME ReceiverInv, UNCHANGED receiverVars
  PROVE  ReceiverInv'
<1>0. closed \in BOOLEAN
  BY DEF ReceiverInv, ReceiverTyped
<1>. QED BY <1>0, BytesStay DEF receiverVars, streamVars

----------------------------------------------------------------------------
(* Bytes and numbers. *)

\* Some bytes, and where they stand among others.
IsBytes(part, n) == part \in Seq(Unsigned8) /\ Len(part) = n /\ n \in Nat
Stands(part, bytes, place) == \A k \in 1..Len(part) : bytes[place + k] = part[k]

\* When two parts stand one behind the other, each stands where it does.
LEMMA Parts ==
  ASSUME NEW a, NEW b, NEW m, NEW n, IsBytes(a, m), IsBytes(b, n),
         NEW bytes, NEW place \in Nat, Stands(a \o b, bytes, place)
  PROVE  Stands(a, bytes, place) /\ Stands(b, bytes, place + m)
<1>. DEFINE ab == a \o b
<1>1. m \in Nat /\ n \in Nat /\ Len(a) = m /\ Len(b) = n /\ a \in Seq(Unsigned8) /\ b \in Seq(Unsigned8)
  BY DEF IsBytes
<1>2. /\ Len(ab) = m + n
      /\ \A i \in 1..m + n : ab[i] = IF i <= m THEN a[i] ELSE b[i - m]
  BY <1>1, ConcatProperties
<1>3. \A k \in 1..(m + n) : bytes[place + k] = ab[k]
  BY <1>2, Zenon DEF Stands
<1>. HIDE DEF ab
<1>4. ASSUME NEW k \in 1..m PROVE bytes[place + k] = a[k]
  <2>1. k \in 1..(m + n) /\ k <= m
    BY <1>1
  <2>. QED BY <1>2, <1>3, <2>1
<1>5. ASSUME NEW k \in 1..n PROVE bytes[(place + m) + k] = b[k]
  <2>1. m + k \in 1..(m + n) /\ ~(m + k <= m) /\ (m + k) - m = k /\ place + (m + k) = (place + m) + k
    BY <1>1
  <2>2. bytes[place + (m + k)] = ab[m + k] /\ ab[m + k] = b[(m + k) - m]
    BY <1>2, <1>3, <2>1
  <2>. QED BY <2>1, <2>2, Zenon
<1>. QED BY <1>1, <1>4, <1>5, Zenon DEF Stands

\* The bytes of two parts together.
LEMMA PartsAreBytes ==
  ASSUME NEW a, NEW b, NEW m, NEW n, IsBytes(a, m), IsBytes(b, n)
  PROVE  IsBytes(a \o b, m + n)
<1>1. m \in Nat /\ n \in Nat /\ Len(a) = m /\ Len(b) = n /\ a \in Seq(Unsigned8) /\ b \in Seq(Unsigned8)
  BY DEF IsBytes
<1>2. a \o b \in Seq(Unsigned8) /\ Len(a \o b) = m + n
  BY <1>1, ConcatProperties
<1>3. m + n \in Nat
  BY <1>1
<1>. QED BY <1>2, <1>3, Zenon DEF IsBytes

\* A number is put together again from its last byte and the rest.
LEMMA HighAndLow ==
  ASSUME NEW value \in Int
  PROVE  High(value) \in Int /\ Low(value) \in Unsigned8 /\ value = High(value) * 256 + Low(value)
<1>1. value \div 256 \in Int /\ value % 256 \in Nat /\ value % 256 < 256
      /\ value = (value \div 256) * 256 + (value % 256)
  OBVIOUS
<1>. QED BY <1>1 DEF High, Low, Unsigned8

\* A byte is written as it is.
LEMMA OneByte ==
  ASSUME NEW x \in Unsigned8
  PROVE  IsBytes(<<x>>, 1)
<1>1. <<x>> \in Seq(Unsigned8) /\ Len(<<x>>) = 1 /\ 1 \in Nat
  OBVIOUS
<1>. QED BY <1>1, Zenon DEF IsBytes

\* How many bytes a number takes: one of 16 bits,
LEMMA Bytes16 ==
  ASSUME NEW value \in Int
  PROVE  IsBytes(Write16(value), 2)
<1>1. Low(High(value)) \in Unsigned8 /\ Low(value) \in Unsigned8
  BY HighAndLow
<1>2. \A x, y \in Unsigned8 : <<x, y>> \in Seq(Unsigned8) /\ Len(<<x, y>>) = 2 /\ 2 \in Nat
  OBVIOUS
<1>. QED BY <1>1, <1>2, Zenon DEF IsBytes, Write16

\* 32 bits,
LEMMA Bytes32 ==
  ASSUME NEW value \in Int
  PROVE  IsBytes(Write32(value), 4)
<1>1. High(High(value)) \in Int
  BY HighAndLow
<1>2. IsBytes(Write16(High(High(value))), 2) /\ IsBytes(Write16(value), 2)
  BY <1>1, Bytes16
<1>3. IsBytes(Write16(High(High(value))) \o Write16(value), 2 + 2)
  BY <1>2, PartsAreBytes
<1>4. 2 + 2 = 4
  OBVIOUS
<1>. QED BY <1>3, <1>4, Zenon DEF Write32

\* and 64.
LEMMA Bytes64 ==
  ASSUME NEW value \in Int
  PROVE  IsBytes(Write64(value), 8)
<1>1. High(High(High(High(value)))) \in Int
  BY HighAndLow
<1>2. IsBytes(Write32(High(High(High(High(value))))), 4) /\ IsBytes(Write32(value), 4)
  BY <1>1, Bytes32
<1>3. IsBytes(Write32(High(High(High(High(value))))) \o Write32(value), 4 + 4)
  BY <1>2, PartsAreBytes
<1>4. 4 + 4 = 8
  OBVIOUS
<1>. QED BY <1>3, <1>4, Zenon DEF Write64

\* What stands where a number was written.
LEMMA Stands16 ==
  ASSUME NEW value \in Int, NEW bytes, NEW place \in Nat, Stands(Write16(value), bytes, place)
  PROVE  bytes[place + 1] = Low(High(value)) /\ bytes[place + 2] = Low(value)
<1>1. \A x, y : Len(<<x, y>>) = 2 /\ <<x, y>>[1] = x /\ <<x, y>>[2] = y
  OBVIOUS
<1>2. 1 \in 1..2 /\ 2 \in 1..2
  OBVIOUS
<1>. QED BY <1>1, <1>2, Zenon DEF Stands, Write16

\* See Stands16.
LEMMA Stands32 ==
  ASSUME NEW value \in Int, NEW bytes, NEW place \in Nat, Stands(Write32(value), bytes, place)
  PROVE  /\ bytes[place + 1] = Low(High(High(High(value))))
         /\ bytes[place + 2] = Low(High(High(value)))
         /\ bytes[place + 3] = Low(High(value))
         /\ bytes[place + 4] = Low(value)
<1>. DEFINE top == High(High(value))
<1>1. top \in Int /\ place + 2 \in Nat
  BY HighAndLow
<1>2. Stands(Write16(top) \o Write16(value), bytes, place)
  BY Zenon DEF Write32
<1>3. Stands(Write16(top), bytes, place) /\ Stands(Write16(value), bytes, place + 2)
  BY <1>1, <1>2, Bytes16, Parts
<1>4. bytes[place + 1] = Low(High(top)) /\ bytes[place + 2] = Low(top)
  BY <1>1, <1>3, Stands16
<1>5. bytes[(place + 2) + 1] = Low(High(value)) /\ bytes[(place + 2) + 2] = Low(value)
  BY <1>1, <1>3, Stands16
<1>6. (place + 2) + 1 = place + 3 /\ (place + 2) + 2 = place + 4
  OBVIOUS
<1>. QED BY <1>4, <1>5, <1>6, Zenon

\* A number that was written is read back: 16 bits without a sign,
LEMMA Reading16 ==
  ASSUME NEW value \in Unsigned16, NEW bytes, NEW place \in Nat,
         Stands(Write16(value), bytes, place)
  PROVE  ReadUnsigned16(bytes, place) = value
<1>1. value \in Int /\ High(value) \in Int
  BY HighAndLow DEF Unsigned16
<1>2. bytes[place + 1] = Low(High(value)) /\ bytes[place + 2] = Low(value)
  BY <1>1, Stands16
<1>3. Low(High(value)) * 256 + Low(value) = value
  BY DEF Unsigned16, Low, High
<1>. QED BY <1>2, <1>3, Zenon DEF ReadUnsigned16

\* the first byte of a number with a sign,
LEMMA Signs ==
  ASSUME NEW x \in Signed8
  PROVE  Sign(Low(x)) = x
BY DEF Signed8, Sign, Low

\* 32 bits with a sign,
LEMMA Reading32 ==
  ASSUME NEW value \in Signed32, NEW bytes, NEW place \in Nat,
         Stands(Write32(value), bytes, place)
  PROVE  Read32(bytes, place) = value
<1>1. value \in Int /\ High(High(High(value))) \in Signed8
  BY DEF Signed32
<1>2. /\ bytes[place + 1] = Low(High(High(High(value))))
      /\ bytes[place + 2] = Low(High(High(value)))
      /\ bytes[place + 3] = Low(High(value))
      /\ bytes[place + 4] = Low(value)
  BY <1>1, Stands32
<1>3. Sign(bytes[place + 1]) = High(High(High(value)))
  BY <1>1, <1>2, Signs
<1>4. High(value) \in Int /\ High(High(value)) \in Int
  BY <1>1, HighAndLow
<1>5. High(High(High(value))) * 256 + Low(High(High(value))) = High(High(value))
  BY <1>4, HighAndLow
<1>6. High(High(value)) * 256 + Low(High(value)) = High(value)
  BY <1>4, HighAndLow
<1>7. High(value) * 256 + Low(value) = value
  BY <1>1, HighAndLow
<1>. QED BY <1>2, <1>3, <1>5, <1>6, <1>7, Zenon DEF Read32

\* and 64 bits with a sign.
LEMMA Reading64 ==
  ASSUME NEW value \in Signed64, NEW bytes, NEW place \in Nat,
         Stands(Write64(value), bytes, place)
  PROVE  Read64(bytes, place) = value
<1>. DEFINE top == High(High(High(High(value))))
<1>1. value \in Int /\ High(High(High(top))) \in Signed8
  BY DEF Signed64
<1>2. /\ High(value) \in Int /\ High(High(value)) \in Int /\ High(High(High(value))) \in Int
      /\ top \in Int /\ place + 4 \in Nat
  BY <1>1, HighAndLow
<1>3. top \in Signed32
  BY <1>1, <1>2 DEF Signed32
<1>4. Stands(Write32(top) \o Write32(value), bytes, place)
  BY Zenon DEF Write64
<1>5. Stands(Write32(top), bytes, place) /\ Stands(Write32(value), bytes, place + 4)
  BY <1>1, <1>2, <1>4, Bytes32, Parts
<1>6. Read32(bytes, place) = top
  BY <1>3, <1>5, Reading32
<1>7. /\ bytes[(place + 4) + 1] = Low(High(High(High(value))))
      /\ bytes[(place + 4) + 2] = Low(High(High(value)))
      /\ bytes[(place + 4) + 3] = Low(High(value))
      /\ bytes[(place + 4) + 4] = Low(value)
  BY <1>1, <1>2, <1>5, Stands32
<1>8. /\ (place + 4) + 1 = place + 5 /\ (place + 4) + 2 = place + 6
      /\ (place + 4) + 3 = place + 7 /\ (place + 4) + 4 = place + 8
  OBVIOUS
<1>9. /\ top * 256 + Low(High(High(High(value)))) = High(High(High(value)))
      /\ High(High(High(value))) * 256 + Low(High(High(value))) = High(High(value))
      /\ High(High(value)) * 256 + Low(High(value)) = High(value)
      /\ High(value) * 256 + Low(value) = value
  BY <1>1, <1>2, HighAndLow
<1>10. /\ bytes[place + 5] = Low(High(High(High(value)))) /\ bytes[place + 6] = Low(High(High(value)))
       /\ bytes[place + 7] = Low(High(value)) /\ bytes[place + 8] = Low(value)
  BY <1>7, <1>8, Zenon
<1>11. Read32(bytes, place) * 256 + bytes[place + 5] = High(High(High(value)))
  <2>. HIDE DEF top
  <2>. QED BY <1>6, <1>9, <1>10, Zenon
<1>12. (Read32(bytes, place) * 256 + bytes[place + 5]) * 256 + bytes[place + 6] = High(High(value))
  BY <1>9, <1>10, <1>11, Zenon
<1>. QED BY <1>9, <1>10, <1>12, Zenon DEF Read64

----------------------------------------------------------------------------
(* Texts in UTF-8.  A text may be cut in front of any byte that starts a   *)
(* character, and one of the last four does: the loop that goes back from  *)
(* the limit finds the longest beginning that has whole characters.        *)

\* The Max of the community modules.
LEMMA Greatest ==
  ASSUME NEW S, S \subseteq Int, NEW m \in S, \A n \in S : n <= m
  PROVE  Max(S) = m
<1>1. \A n \in S : m >= n
  OBVIOUS
<1>2. PICK x \in S : x = Max(S) /\ \A n \in S : x >= n
  BY <1>1, Zenon DEF Max
<1>3. x >= m /\ m >= x /\ x \in Int /\ m \in Int
  BY <1>1, <1>2
<1>. QED BY <1>2, <1>3

\* The beginning of a sequence of bytes.
LEMMA Beginnings ==
  ASSUME NEW t \in Seq(Unsigned8), NEW n \in 0..Len(t)
  PROVE  /\ SubSeq(t, 1, n) \in Seq(Unsigned8) /\ Len(SubSeq(t, 1, n)) = n
         /\ \A i \in 1..n : SubSeq(t, 1, n)[i] = t[i]
<1>. DEFINE s == SubSeq(t, 1, n)
<1>1. Len(t) \in Nat /\ n \in Int /\ 1 \in Int
  OBVIOUS
<1>2. \A i \in 1..n : t[i] \in Unsigned8
  OBVIOUS
<1>3. /\ s \in Seq(Unsigned8)
      /\ Len(s) = IF 1 <= n THEN n - 1 + 1 ELSE 0
      /\ \A i \in 1..(n - 1 + 1) : s[i] = t[1 + i - 1]
  BY <1>1, <1>2, SubSeqProperties
<1>. HIDE DEF s
<1>4. Len(s) = n
  BY <1>1, <1>3
<1>5. \A i \in 1..n : i \in 1..(n - 1 + 1) /\ 1 + i - 1 = i
  BY <1>1
<1>. QED BY <1>3, <1>4, <1>5, Zenon DEF s

\* A character has at most four bytes.
LEMMA Widths == \A byte : Width(byte) \in Nat /\ Width(byte) <= 4
BY DEF Width

\* A beginning of a text is a text when the next byte starts a character.
LEMMA WholeCharacters ==
  ASSUME NEW t, IsText(t), NEW n \in 0..(Len(t) - 1)
  PROVE  IsText(SubSeq(t, 1, n)) <=> ~Continues(t[n + 1])
<1>. DEFINE s == SubSeq(t, 1, n)  l == Len(t)
<1>1. t \in Seq(Unsigned8 \ {0}) /\ t \in Seq(Unsigned8) /\ l \in Nat /\ n \in 0..l /\ n \in Nat /\ n < l
  <2>1. t \in Seq(Unsigned8 \ {0})
    BY DEF IsText
  <2>. QED BY <2>1
<1>2. /\ s \in Seq(Unsigned8) /\ Len(s) = n /\ \A i \in 1..n : s[i] = t[i]
  BY <1>1, Beginnings
<1>3. \A i \in 1..l :
        IF Continues(t[i])
        THEN \E k \in 1..3 : k < i /\ ~Continues(t[i - k]) /\ k < Width(t[i - k])
        ELSE \A k \in 1..3 : k < Width(t[i]) => i + k <= l /\ Continues(t[i + k])
  BY DEF IsText
<1>4. s \in Seq(Unsigned8 \ {0})
  <2>1. \A i \in 1..n : s[i] \in Unsigned8 \ {0}
    BY <1>1, <1>2
  <2>. QED BY <1>2, <2>1
<1>. HIDE DEF s, l
<1>5. ASSUME ~Continues(t[n + 1])  PROVE IsText(s)
  <2>1. ASSUME NEW i \in 1..n, Continues(s[i])
        PROVE  \E k \in 1..3 : k < i /\ ~Continues(s[i - k]) /\ k < Width(s[i - k])
    <3>1. i \in 1..l /\ i \in Nat /\ s[i] = t[i]
      BY <1>1, <1>2
    <3>2. PICK k \in 1..3 : k < i /\ ~Continues(t[i - k]) /\ k < Width(t[i - k])
      BY <1>3, <2>1, <3>1, Zenon
    <3>3. i - k \in 1..n
      BY <1>1, <3>2
    <3>4. s[i - k] = t[i - k]
      BY <1>2, <3>3, Zenon
    <3>. QED BY <3>2, <3>4, Zenon
  <2>2. ASSUME NEW i \in 1..n, ~Continues(s[i]), NEW k \in 1..3, k < Width(s[i])
        PROVE  i + k <= n /\ Continues(s[i + k])
    <3>1. i \in 1..l /\ i \in Nat /\ k \in Nat /\ s[i] = t[i]
      BY <1>1, <1>2
    <3>. DEFINE w == Width(t[i])
    <3>2. w \in Nat /\ k < w
      BY <2>2, <3>1, Widths, Zenon
    <3>3. \A j \in 1..3 : j < w => i + j <= l /\ Continues(t[i + j])
      BY <1>3, <2>2, <3>1, Zenon
    <3>. HIDE DEF w
    <3>4. i + k <= n
      <4>. SUFFICES ASSUME n < i + k PROVE FALSE
        BY <1>1, <3>1
      <4>1. (n + 1) - i \in 1..3 /\ (n + 1) - i < w /\ i + ((n + 1) - i) = n + 1
        BY <1>1, <3>1, <3>2
      <4>2. Continues(t[n + 1])
        BY <3>3, <4>1
      <4>. QED BY <1>5, <4>2
    <3>5. i + k \in 1..n
      BY <1>1, <3>1, <3>4
    <3>6. s[i + k] = t[i + k] /\ Continues(t[i + k])
      BY <1>2, <3>2, <3>3, <3>5, Zenon
    <3>. QED BY <3>4, <3>6, Zenon
  <2>. QED BY <1>2, <1>4, <2>1, <2>2, Zenon DEF IsText
<1>6. ASSUME IsText(s), Continues(t[n + 1])  PROVE FALSE
  <2>1. n + 1 \in 1..l
    BY <1>1
  <2>2. PICK k \in 1..3 : k < n + 1 /\ ~Continues(t[(n + 1) - k]) /\ k < Width(t[(n + 1) - k])
    BY <1>3, <1>6, <2>1, Zenon
  <2>. DEFINE i == (n + 1) - k
  <2>3. i \in 1..n /\ i + k = n + 1 /\ k \in 1..3
    BY <1>1, <2>2
  <2>4. s[i] = t[i]
    BY <1>2, <2>3, Zenon
  <2>5. ~Continues(s[i]) /\ k < Width(s[i])
    BY <2>2, <2>4, Zenon
  <2>. HIDE DEF i
  <2>6. i + k <= Len(s)
    BY <1>2, <1>6, <2>3, <2>5, Zenon DEF IsText
  <2>. QED BY <1>1, <1>2, <2>3, <2>6
<1>. QED BY <1>5, <1>6, Zenon DEF s

\* utf8_truncation_index finds the longest beginning that has whole characters.
LEMMA CutAtCharacter ==
  ASSUME NEW t, IsText(t), NEW max \in Nat
  PROVE  /\ TruncationIndex(t, max) \in 0..Len(t) /\ TruncationIndex(t, max) <= max
         /\ Cut(t, max) = SubSeq(t, 1, TruncationIndex(t, max))
         /\ IsText(Cut(t, max)) /\ Len(Cut(t, max)) = TruncationIndex(t, max)
<1>. DEFINE l == Len(t)
            fits == {n \in 0..l : n <= max /\ IsText(SubSeq(t, 1, n))}
            starts == {n \in 0..max : ~Continues(t[n + 1])}
<1>1. t \in Seq(Unsigned8) /\ l \in Nat
  <2>1. t \in Seq(Unsigned8 \ {0})
    BY DEF IsText
  <2>. QED BY <2>1
<1>. SUFFICES ASSUME NEW m \in fits, TruncationIndex(t, max) = m, \A n \in fits : n <= m
              PROVE  /\ m \in 0..l /\ m <= max
                     /\ Cut(t, max) = SubSeq(t, 1, m)
                     /\ IsText(SubSeq(t, 1, m)) /\ Len(SubSeq(t, 1, m)) = m
  <2>1. CASE l <= max
    <3>1. SubSeq(t, 1, l) = t
      BY <1>1, SubSeqFull
    <3>2. l \in 0..l
      BY <1>1
    <3>3. l \in fits
      BY <2>1, <3>1, <3>2, Zenon
    <3>4. \A n \in fits : n <= l
      BY <1>1
    <3>5. TruncationIndex(t, max) = l
      BY <2>1, Zenon DEF TruncationIndex
    <3>. QED BY <3>3, <3>4, <3>5, Zenon
  <2>2. CASE max < l
    <3>1. \E m \in starts : \A n \in starts : n <= m
      <4>1. CASE ~Continues(t[max + 1])
        <5>1. max \in starts
          BY <4>1
        <5>2. \A n \in starts : n <= max
          OBVIOUS
        <5>. QED BY <5>1, <5>2, Zenon
      <4>2. CASE Continues(t[max + 1])
        <5>1. max + 1 \in 1..l
          BY <1>1, <2>2
        <5>2. PICK k \in 1..3 : k < max + 1 /\ ~Continues(t[(max + 1) - k]) /\ k < Width(t[(max + 1) - k])
          BY <4>2, <5>1, Zenon DEF IsText
        <5>. DEFINE i == (max + 1) - k
        <5>3. i \in 1..l /\ k \in Nat /\ i \in Nat /\ max - k \in 0..max /\ (max - k) + 1 = i
          BY <1>1, <5>1, <5>2
        <5>. DEFINE w == Width(t[i])
        <5>4. w \in Nat /\ k < w /\ ~Continues(t[i])
          BY <5>2, Widths, Zenon
        <5>5. \A j \in 1..3 : j < w => Continues(t[i + j])
          BY <5>3, <5>4, Zenon DEF IsText
        <5>6. max - k \in starts
          BY <5>3, <5>4, Zenon
        <5>7. ASSUME NEW n \in starts PROVE n <= max - k
          <6>1. n \in 0..max /\ ~Continues(t[n + 1])
            OBVIOUS
          <6>. HIDE DEF w
          <6>. SUFFICES ASSUME max - k < n PROVE FALSE
            BY <5>3, <6>1
          <6>2. (n + 1) - i \in 1..3 /\ (n + 1) - i < w /\ i + ((n + 1) - i) = n + 1
            BY <5>2, <5>3, <5>4, <6>1
          <6>. QED BY <5>5, <6>1, <6>2
        <5>. QED BY <5>6, <5>7, Zenon
      <4>. QED BY <4>1, <4>2
    <3>2. PICK m \in starts : \A n \in starts : n <= m
      BY <3>1, Zenon
    <3>3. Max(starts) = m
      <4>1. starts \subseteq Int
        OBVIOUS
      <4>. HIDE DEF starts
      <4>. QED BY <3>2, <4>1, Greatest
    <3>4. TruncationIndex(t, max) = m
      BY <1>1, <2>2, <3>3 DEF TruncationIndex
    <3>5. ASSUME NEW n, n \in 0..max PROVE n \in starts <=> n \in fits
      <4>1. n \in 0..(l - 1) /\ n \in 0..l /\ n <= max
        BY <1>1, <2>2, <3>5
      <4>2. IsText(SubSeq(t, 1, n)) <=> ~Continues(t[n + 1])
        BY <4>1, WholeCharacters
      <4>. QED BY <3>5, <4>1, <4>2, Zenon
    <3>6. m \in fits
      BY <3>2, <3>5, Zenon
    <3>7. \A n \in fits : n \in 0..max
      BY <1>1
    <3>8. \A n \in fits : n <= m
      BY <3>2, <3>5, <3>7, Zenon
    <3>. QED BY <3>4, <3>6, <3>8, Zenon
  <2>. QED BY <1>1, <2>1, <2>2
<1>2. m \in 0..l /\ m <= max /\ IsText(SubSeq(t, 1, m))
  OBVIOUS
<1>3. Len(SubSeq(t, 1, m)) = m
  BY <1>1, <1>2, Beginnings
<1>4. Max(fits) = m
  <2>1. fits \subseteq Int
    OBVIOUS
  <2>. HIDE DEF fits
  <2>. QED BY <2>1, Greatest
<1>5. Cut(t, max) = SubSeq(t, 1, m)
  BY <1>4, Zenon DEF Cut
<1>. QED BY <1>2, <1>3, <1>5, Zenon

----------------------------------------------------------------------------
(* The messages, one kind after the other.                                 *)

\* A byte is read back.
LEMMA ByteThere ==
  ASSUME NEW x, NEW bytes, NEW place, Stands(<<x>>, bytes, place)
  PROVE  bytes[place + 1] = x
<1>1. 1 \in 1..Len(<<x>>) /\ <<x>>[1] = x
  OBVIOUS
<1>. QED BY <1>1, Zenon DEF Stands

\* The types are different numbers.
LEMMA Types ==
  /\ INJECT_KEYCODE = 0 /\ INJECT_TEXT = 1 /\ INJECT_TOUCH_EVENT = 2 /\ INJECT_SCROLL_EVENT = 3
  /\ BACK_OR_SCREEN_ON = 4 /\ EXPAND_NOTIFICATION_PANEL = 5 /\ COLLAPSE_NOTIFICATION_PANEL = 6
  /\ GET_CLIPBOARD = 7 /\ SET_CLIPBOARD = 8 /\ SET_SCREEN_POWER_MODE = 9 /\ ROTATE_DEVICE = 10
BY DEF INJECT_KEYCODE, INJECT_TEXT, INJECT_TOUCH_EVENT, INJECT_SCROLL_EVENT, BACK_OR_SCREEN_ON,
       EXPAND_NOTIFICATION_PANEL, COLLAPSE_NOTIFICATION_PANEL, GET_CLIPBOARD, SET_CLIPBOARD,
       SET_SCREEN_POWER_MODE, ROTATE_DEVICE

\* The type is the first byte, and the payload is behind it.
LEMMA FirstByte ==
  ASSUME NEW message, message.type \in Unsigned8, NEW n, IsBytes(Payload(message), n),
         NEW bytes, Stands(Serialize(message), bytes, 0)
  PROVE  /\ bytes[1] = message.type /\ Stands(Payload(message), bytes, 1)
         /\ IsBytes(Serialize(message), 1 + n)
<1>. DEFINE fst == <<message.type>>
<1>1. IsBytes(fst, 1)
  BY OneByte
<1>2. Stands(fst \o Payload(message), bytes, 0)
  BY Zenon DEF Serialize
<1>3. 0 \in Nat /\ 0 + 1 = 1
  OBVIOUS
<1>4. Stands(fst, bytes, 0) /\ Stands(Payload(message), bytes, 1)
  <2>. HIDE DEF fst
  <2>1. Stands(fst, bytes, 0) /\ Stands(Payload(message), bytes, 0 + 1)
    BY <1>1, <1>2, <1>3, Parts, Zenon
  <2>. QED BY <1>3, <2>1, Zenon
<1>5. bytes[0 + 1] = message.type
  BY <1>4, ByteThere, Zenon
<1>6. IsBytes(fst \o Payload(message), 1 + n)
  <2>. HIDE DEF fst
  <2>. QED BY <1>1, PartsAreBytes, Zenon
<1>. QED BY <1>3, <1>4, <1>5, <1>6, Zenon DEF Serialize

\* The device reads what the bytes stand for.
Understood(message, bytes) ==
  /\ IsBytes(Serialize(message), Length(bytes)) /\ Length(bytes) >= 1
  /\ Parse(bytes) = Expected(message) /\ Expected(message) \in ControlMessages

\* A part of some bytes is read back from where it stands.
LEMMA PositionUnderstood ==
  ASSUME NEW p \in Positions, NEW bytes, NEW place \in Nat,
         Stands(WritePosition(p), bytes, place)
  PROVE  ReadPosition(bytes, place) = p
<1>. DEFINE fst == Write32(p.x)  snd == Write32(p.y)  third == Write16(p.width)
            fourth == Write16(p.height)
<1>1. /\ p.x \in Signed32 /\ p.y \in Signed32 /\ p.x \in Int /\ p.y \in Int
      /\ p.width \in Unsigned16 /\ p.height \in Unsigned16 /\ p.width \in Int /\ p.height \in Int
      /\ p = [x |-> p.x, y |-> p.y, width |-> p.width, height |-> p.height]
  BY DEF Positions, Signed32, Unsigned16
<1>2. IsBytes(fst, 4) /\ IsBytes(snd, 4) /\ IsBytes(third, 2) /\ IsBytes(fourth, 2)
  BY <1>1, Bytes16, Bytes32
<1>3. Stands(((fst \o snd) \o third) \o fourth, bytes, place)
  BY Zenon DEF WritePosition
<1>4. place + 4 \in Nat /\ place + 8 \in Nat /\ place + 10 \in Nat /\ 4 + 4 = 8 /\ 8 + 2 = 10
  OBVIOUS
<1>. HIDE DEF fst, snd, third, fourth
<1>5. IsBytes(fst \o snd, 8) /\ IsBytes((fst \o snd) \o third, 10)
  <2>1. IsBytes(fst \o snd, 8)
    BY <1>2, <1>4, PartsAreBytes, Zenon
  <2>. QED BY <1>2, <1>4, <2>1, PartsAreBytes, Zenon
<1>6. Stands((fst \o snd) \o third, bytes, place) /\ Stands(fourth, bytes, place + 10)
  BY <1>2, <1>3, <1>5, Parts, Zenon
<1>7. Stands(fst \o snd, bytes, place) /\ Stands(third, bytes, place + 8)
  BY <1>2, <1>5, <1>6, Parts, Zenon
<1>8. Stands(fst, bytes, place) /\ Stands(snd, bytes, place + 4)
  BY <1>2, <1>7, Parts, Zenon
<1>9. Read32(bytes, place) = p.x /\ Read32(bytes, place + 4) = p.y
  BY <1>1, <1>4, <1>8, Reading32 DEF fst, snd
<1>10. ReadUnsigned16(bytes, place + 8) = p.width /\ ReadUnsigned16(bytes, place + 10) = p.height
  BY <1>1, <1>4, <1>6, <1>7, Reading16 DEF third, fourth
<1>. QED BY <1>1, <1>9, <1>10, Zenon DEF ReadPosition

\* How many bytes a position takes.
LEMMA BytesOfPosition ==
  ASSUME NEW p \in Positions
  PROVE  IsBytes(WritePosition(p), 12)
<1>1. p.x \in Int /\ p.y \in Int /\ p.width \in Int /\ p.height \in Int
  BY DEF Positions, Signed32, Unsigned16
<1>2. /\ IsBytes(Write32(p.x), 4) /\ IsBytes(Write32(p.y), 4)
      /\ IsBytes(Write16(p.width), 2) /\ IsBytes(Write16(p.height), 2)
  BY <1>1, Bytes16, Bytes32
<1>3. 4 + 4 = 8 /\ 8 + 2 = 10 /\ 10 + 2 = 12
  OBVIOUS
<1>4. IsBytes(Write32(p.x) \o Write32(p.y), 8)
  BY <1>2, <1>3, PartsAreBytes, Zenon
<1>5. IsBytes((Write32(p.x) \o Write32(p.y)) \o Write16(p.width), 10)
  BY <1>2, <1>3, <1>4, PartsAreBytes, Zenon
<1>6. IsBytes(((Write32(p.x) \o Write32(p.y)) \o Write16(p.width)) \o Write16(p.height), 12)
  BY <1>2, <1>3, <1>5, PartsAreBytes, Zenon
<1>. QED BY <1>6, Zenon DEF WritePosition

\* A key:
LEMMA KeycodeUnderstood ==
  ASSUME NEW message \in KeycodeMessages, NEW bytes, Stands(Serialize(message), bytes, 0)
  PROVE  Understood(message, bytes)
<1>. DEFINE fst == <<message.action>>  snd == Write32(message.keycode)  third == Write32(message.metastate)
<1>1. /\ message.type = INJECT_KEYCODE /\ message.action \in Unsigned8
      /\ message.keycode \in Signed32 /\ message.metastate \in Signed32
      /\ message.keycode \in Int /\ message.metastate \in Int
      /\ message = [type |-> INJECT_KEYCODE, action |-> message.action, keycode |-> message.keycode,
                metastate |-> message.metastate]
  BY DEF KeycodeMessages, Signed32
<1>2. Payload(message) = (fst \o snd) \o third
  BY <1>1, Types DEF Payload
<1>3. IsBytes(fst, 1) /\ IsBytes(snd, 4) /\ IsBytes(third, 4)
  BY <1>1, Bytes32, OneByte
<1>4. /\ 1 + 4 = 5 /\ 5 + 4 = 9 /\ 1 + 9 = 10 /\ 1 + 1 = 2 /\ 1 + 5 = 6
      /\ 1 \in Nat /\ 2 \in Nat /\ 6 \in Nat /\ 10 >= 1 /\ message.type \in Unsigned8
  BY <1>1, Types DEF Unsigned8
<1>. HIDE DEF fst, snd, third
<1>5. IsBytes(fst \o snd, 5)
  BY <1>3, <1>4, PartsAreBytes, Zenon
<1>6. IsBytes(Payload(message), 9)
  BY <1>2, <1>3, <1>4, <1>5, PartsAreBytes, Zenon
<1>7. bytes[1] = INJECT_KEYCODE /\ Stands(Payload(message), bytes, 1) /\ IsBytes(Serialize(message), 10)
  BY <1>1, <1>4, <1>6, FirstByte, Zenon
<1>8. Stands(fst \o snd, bytes, 1) /\ Stands(third, bytes, 1 + 5)
  <2>1. Stands((fst \o snd) \o third, bytes, 1) /\ 1 \in Nat
    BY <1>2, <1>4, <1>7, Zenon
  <2>. QED BY <1>3, <1>5, <2>1, Parts, Zenon
<1>9. Stands(fst, bytes, 1) /\ Stands(snd, bytes, 1 + 1)
  BY <1>3, <1>4, <1>8, Parts, Zenon
<1>10. bytes[2] = message.action /\ Read32(bytes, 2) = message.keycode /\ Read32(bytes, 6) = message.metastate
  <2>1. bytes[1 + 1] = message.action
    BY <1>9, ByteThere, Zenon DEF fst
  <2>2. Stands(Write32(message.keycode), bytes, 2) /\ Stands(Write32(message.metastate), bytes, 6)
    BY <1>4, <1>8, <1>9, Zenon DEF snd, third
  <2>. QED BY <1>1, <1>4, <2>1, <2>2, Reading32
<1>11. Length(bytes) = 10
  BY <1>7, Types DEF Length
<1>12. Parse(bytes) = message
  <2>1. Parse(bytes) = [type |-> bytes[1], action |-> bytes[2], keycode |-> Read32(bytes, 2),
                        metastate |-> Read32(bytes, 6)]
    BY <1>7, Types DEF Parse
  <2>. QED BY <1>1, <1>7, <1>10, <2>1, Zenon
<1>13. Expected(message) = message
  BY <1>1, Types DEF Expected
<1>14. message \in ControlMessages
  BY Zenon DEF ControlMessages
<1>. QED BY <1>4, <1>7, <1>11, <1>12, <1>13, <1>14, Zenon DEF Understood

\* the wheel:
LEMMA ScrollUnderstood ==
  ASSUME NEW message \in ScrollMessages, NEW bytes, Stands(Serialize(message), bytes, 0)
  PROVE  Understood(message, bytes)
<1>. DEFINE fst == WritePosition(message.position)  snd == Write32(message.hscroll)
            third == Write32(message.vscroll)
<1>1. /\ message.type = INJECT_SCROLL_EVENT /\ message.position \in Positions
      /\ message.hscroll \in Signed32 /\ message.vscroll \in Signed32
      /\ message.hscroll \in Int /\ message.vscroll \in Int
      /\ message = [type |-> INJECT_SCROLL_EVENT, position |-> message.position,
                hscroll |-> message.hscroll, vscroll |-> message.vscroll]
  BY DEF ScrollMessages, Signed32
<1>2. Payload(message) = (fst \o snd) \o third
  BY <1>1, Types DEF Payload
<1>3. IsBytes(fst, 12) /\ IsBytes(snd, 4) /\ IsBytes(third, 4)
  BY <1>1, Bytes32, BytesOfPosition
<1>4. /\ 12 + 4 = 16 /\ 16 + 4 = 20 /\ 1 + 20 = 21 /\ 1 + 12 = 13 /\ 1 + 16 = 17
      /\ 1 \in Nat /\ 13 \in Nat /\ 17 \in Nat /\ 21 >= 1 /\ message.type \in Unsigned8
  BY <1>1, Types DEF Unsigned8
<1>. HIDE DEF fst, snd, third
<1>5. IsBytes(fst \o snd, 16)
  BY <1>3, <1>4, PartsAreBytes, Zenon
<1>6. IsBytes(Payload(message), 20)
  BY <1>2, <1>3, <1>4, <1>5, PartsAreBytes, Zenon
<1>7. /\ bytes[1] = INJECT_SCROLL_EVENT /\ Stands(Payload(message), bytes, 1)
      /\ IsBytes(Serialize(message), 21)
  BY <1>1, <1>4, <1>6, FirstByte, Zenon
<1>8. Stands(fst \o snd, bytes, 1) /\ Stands(third, bytes, 1 + 16)
  <2>1. Stands((fst \o snd) \o third, bytes, 1) /\ 1 \in Nat
    BY <1>2, <1>4, <1>7, Zenon
  <2>. QED BY <1>3, <1>5, <2>1, Parts, Zenon
<1>9. Stands(fst, bytes, 1) /\ Stands(snd, bytes, 1 + 12)
  BY <1>3, <1>4, <1>8, Parts, Zenon
<1>10. /\ ReadPosition(bytes, 1) = message.position
       /\ Read32(bytes, 13) = message.hscroll /\ Read32(bytes, 17) = message.vscroll
  <2>1. /\ Stands(WritePosition(message.position), bytes, 1)
        /\ Stands(Write32(message.hscroll), bytes, 13) /\ Stands(Write32(message.vscroll), bytes, 17)
    BY <1>4, <1>8, <1>9, Zenon DEF fst, snd, third
  <2>. QED BY <1>1, <1>4, <2>1, Reading32, PositionUnderstood
<1>11. Length(bytes) = 21
  BY <1>7, Types DEF Length
<1>12. Parse(bytes) = message
  <2>1. Parse(bytes) = [type |-> bytes[1], position |-> ReadPosition(bytes, 1),
                        hscroll |-> Read32(bytes, 13), vscroll |-> Read32(bytes, 17)]
    BY <1>7, Types DEF Parse
  <2>. QED BY <1>1, <1>7, <1>10, <2>1, Zenon
<1>13. Expected(message) = message
  BY <1>1, Types DEF Expected
<1>14. message \in ControlMessages
  BY Zenon DEF ControlMessages
<1>. QED BY <1>4, <1>7, <1>11, <1>12, <1>13, <1>14, Zenon DEF Understood

\* a finger or the mouse, where a pressure of 1 is cut down to 16 bits:
LEMMA TouchUnderstood ==
  ASSUME NEW message \in TouchMessages, NEW bytes, Stands(Serialize(message), bytes, 0)
  PROVE  Understood(message, bytes)
<1>. DEFINE pressure == ToFixedPoint16(message.pressure)
            fst == <<message.action>>  snd == Write64(message.pointer_id)
            third == WritePosition(message.position)  fourth == Write16(pressure)
            fifth == Write32(message.buttons)
<1>1. /\ message.type = INJECT_TOUCH_EVENT /\ message.action \in Unsigned8
      /\ message.pointer_id \in Signed64 /\ message.pointer_id \in Int /\ message.position \in Positions
      /\ message.pressure \in Nat /\ message.pressure <= 256 * 256
      /\ message.buttons \in Signed32 /\ message.buttons \in Int
      /\ message = [type |-> INJECT_TOUCH_EVENT, action |-> message.action,
                pointer_id |-> message.pointer_id, position |-> message.position,
                pressure |-> message.pressure, buttons |-> message.buttons]
  BY DEF TouchMessages, Signed32, Signed64
<1>2. /\ pressure \in Unsigned16 /\ pressure \in Int /\ pressure \in Nat /\ pressure <= 256 * 256
      /\ pressure = IF message.pressure > Unsigned16Max THEN Unsigned16Max ELSE message.pressure
  BY <1>1 DEF ToFixedPoint16, Unsigned16, Unsigned16Max
<1>3. Payload(message) = (((fst \o snd) \o third) \o fourth) \o fifth
  <2>. HIDE DEF pressure
  <2>1. message.type = INJECT_TOUCH_EVENT
    BY <1>1
  <2>. QED BY <2>1, Types DEF Payload, pressure
<1>4. /\ IsBytes(fst, 1) /\ IsBytes(snd, 8) /\ IsBytes(third, 12) /\ IsBytes(fourth, 2)
      /\ IsBytes(fifth, 4)
  BY <1>1, <1>2, Bytes16, Bytes32, Bytes64, OneByte, BytesOfPosition
<1>5. /\ 1 + 8 = 9 /\ 9 + 12 = 21 /\ 21 + 2 = 23 /\ 23 + 4 = 27 /\ 1 + 27 = 28
      /\ 1 + 1 = 2 /\ 1 + 9 = 10 /\ 1 + 21 = 22 /\ 1 + 23 = 24
      /\ 1 \in Nat /\ 2 \in Nat /\ 10 \in Nat /\ 22 \in Nat /\ 24 \in Nat /\ 28 >= 1
      /\ message.type \in Unsigned8
  BY <1>1, Types DEF Unsigned8
<1>. HIDE DEF pressure, fst, snd, third, fourth, fifth
<1>6. IsBytes(fst \o snd, 9)
  BY <1>4, <1>5, PartsAreBytes, Zenon
<1>7. IsBytes((fst \o snd) \o third, 21)
  BY <1>4, <1>5, <1>6, PartsAreBytes, Zenon
<1>8. IsBytes(((fst \o snd) \o third) \o fourth, 23)
  BY <1>4, <1>5, <1>7, PartsAreBytes, Zenon
<1>9. IsBytes(Payload(message), 27)
  BY <1>3, <1>4, <1>5, <1>8, PartsAreBytes, Zenon
<1>10. /\ bytes[1] = INJECT_TOUCH_EVENT /\ Stands(Payload(message), bytes, 1)
       /\ IsBytes(Serialize(message), 28)
  BY <1>1, <1>5, <1>9, FirstByte, Zenon
<1>11. Stands(((fst \o snd) \o third) \o fourth, bytes, 1) /\ Stands(fifth, bytes, 1 + 23)
  <2>1. Stands((((fst \o snd) \o third) \o fourth) \o fifth, bytes, 1) /\ 1 \in Nat
    BY <1>3, <1>5, <1>10, Zenon
  <2>. QED BY <1>4, <1>8, <2>1, Parts, Zenon
<1>12. Stands((fst \o snd) \o third, bytes, 1) /\ Stands(fourth, bytes, 1 + 21)
  BY <1>4, <1>5, <1>7, <1>11, Parts, Zenon
<1>13. Stands(fst \o snd, bytes, 1) /\ Stands(third, bytes, 1 + 9)
  <2>1. 1 \in Nat /\ IsBytes(third, 12) /\ Stands((fst \o snd) \o third, bytes, 1)
    BY <1>4, <1>5, <1>12
  <2>. QED BY <1>6, <2>1, Parts
<1>14. Stands(fst, bytes, 1) /\ Stands(snd, bytes, 1 + 1)
  BY <1>4, <1>5, <1>13, Parts, Zenon
<1>15. /\ bytes[2] = message.action /\ Read64(bytes, 2) = message.pointer_id
       /\ ReadPosition(bytes, 10) = message.position /\ ReadUnsigned16(bytes, 22) = pressure
       /\ Read32(bytes, 24) = message.buttons
  <2>1. bytes[1 + 1] = message.action
    BY <1>14, ByteThere, Zenon DEF fst
  <2>2. /\ Stands(Write64(message.pointer_id), bytes, 2)
        /\ Stands(WritePosition(message.position), bytes, 10)
        /\ Stands(Write16(pressure), bytes, 22) /\ Stands(Write32(message.buttons), bytes, 24)
    BY <1>5, <1>11, <1>12, <1>13, <1>14, Zenon DEF snd, third, fourth, fifth
  <2>3. Read64(bytes, 2) = message.pointer_id /\ ReadPosition(bytes, 10) = message.position
    BY <1>1, <1>5, <2>2, Reading64, PositionUnderstood
  <2>4. ReadUnsigned16(bytes, 22) = pressure /\ Read32(bytes, 24) = message.buttons
    BY <1>1, <1>2, <1>5, <2>2, Reading16, Reading32
  <2>. QED BY <1>5, <2>1, <2>3, <2>4, Zenon
<1>16. Length(bytes) = 28
  BY <1>10, Types DEF Length
<1>. DEFINE read == [type |-> INJECT_TOUCH_EVENT, action |-> message.action,
                     pointer_id |-> message.pointer_id, position |-> message.position,
                     pressure |-> pressure, buttons |-> message.buttons]
<1>17. Parse(bytes) = read
  <2>1. Parse(bytes) = [type |-> bytes[1], action |-> bytes[2], pointer_id |-> Read64(bytes, 2),
          position |-> ReadPosition(bytes, 10), pressure |-> ReadUnsigned16(bytes, 22),
          buttons |-> Read32(bytes, 24)]
    BY <1>10, Types DEF Parse
  <2>. QED BY <1>10, <1>15, <2>1, Zenon
<1>18. Expected(message) = read
  <2>1. Expected(message) = IF message.pressure > Unsigned16Max
                        THEN [message EXCEPT !.pressure = Unsigned16Max] ELSE message
    BY <1>1, Types DEF Expected
  <2>2. CASE message.pressure > Unsigned16Max
    <3>1. [message EXCEPT !.pressure = Unsigned16Max]
            = [type |-> INJECT_TOUCH_EVENT, action |-> message.action,
               pointer_id |-> message.pointer_id, position |-> message.position,
               pressure |-> Unsigned16Max, buttons |-> message.buttons]
      BY <1>1
    <3>. QED BY <1>2, <2>1, <2>2, <3>1, Zenon
  <2>3. CASE ~(message.pressure > Unsigned16Max)
    BY <1>1, <1>2, <2>1, <2>3, Zenon
  <2>. QED BY <2>2, <2>3
<1>19. read \in ControlMessages
  <2>1. read \in TouchMessages
    BY <1>1, <1>2 DEF TouchMessages
  <2>. QED BY <2>1, Zenon DEF ControlMessages
<1>. QED BY <1>5, <1>10, <1>16, <1>17, <1>18, <1>19, Zenon DEF Understood

\* the power:
LEMMA PowerUnderstood ==
  ASSUME NEW message \in PowerMessages, NEW bytes, Stands(Serialize(message), bytes, 0)
  PROVE  Understood(message, bytes)
<1>1. /\ message.type = SET_SCREEN_POWER_MODE /\ message.mode \in Unsigned8
      /\ message = [type |-> SET_SCREEN_POWER_MODE, mode |-> message.mode]
  BY DEF PowerMessages
<1>2. Payload(message) = <<message.mode>>
  BY <1>1, Types DEF Payload
<1>3. IsBytes(Payload(message), 1)
  BY <1>1, <1>2, OneByte
<1>4. 1 + 1 = 2 /\ 2 >= 1 /\ message.type \in Unsigned8
  BY <1>1, Types DEF Unsigned8
<1>5. /\ bytes[1] = SET_SCREEN_POWER_MODE /\ Stands(<<message.mode>>, bytes, 1)
      /\ IsBytes(Serialize(message), 2)
  BY <1>1, <1>2, <1>3, <1>4, FirstByte, Zenon
<1>6. bytes[1 + 1] = message.mode
  BY <1>5, ByteThere, Zenon
<1>7. Length(bytes) = 2
  BY <1>5, Types DEF Length
<1>8. Parse(bytes) = [type |-> bytes[1], mode |-> bytes[2]]
  BY <1>5, Types DEF Parse
<1>9. Parse(bytes) = message
  BY <1>1, <1>4, <1>5, <1>6, <1>8, Zenon
<1>10. Expected(message) = message
  BY <1>1, Types DEF Expected
<1>11. message \in ControlMessages
  BY Zenon DEF ControlMessages
<1>. QED BY <1>4, <1>5, <1>7, <1>9, <1>10, <1>11, Zenon DEF Understood

\* the messages without a payload:
LEMMA PlainUnderstood ==
  ASSUME NEW message \in PlainMessages, NEW bytes, Stands(Serialize(message), bytes, 0)
  PROVE  Understood(message, bytes)
<1>1. /\ message.type \in {BACK_OR_SCREEN_ON, EXPAND_NOTIFICATION_PANEL, COLLAPSE_NOTIFICATION_PANEL,
                       GET_CLIPBOARD, ROTATE_DEVICE}
      /\ message = [type |-> message.type]
  BY DEF PlainMessages
<1>2. Payload(message) = <<>>
  BY <1>1, Types DEF Payload
<1>3. IsBytes(<<>>, 0)
  BY DEF IsBytes
<1>4. 1 + 0 = 1 /\ 1 >= 1 /\ message.type \in Unsigned8
  BY <1>1, Types DEF Unsigned8
<1>5. bytes[1] = message.type /\ IsBytes(Serialize(message), 1)
  BY <1>2, <1>3, <1>4, FirstByte, Zenon
<1>6. Length(bytes) = 1
  BY <1>1, <1>5, Types DEF Length
<1>7. Parse(bytes) = [type |-> bytes[1]]
  BY <1>1, <1>5, Types DEF Parse
<1>8. Parse(bytes) = message
  BY <1>1, <1>5, <1>7, Zenon
<1>9. Expected(message) = message
  BY <1>1, Types DEF Expected
<1>10. message \in ControlMessages
  BY Zenon DEF ControlMessages
<1>. QED BY <1>4, <1>5, <1>6, <1>8, <1>9, <1>10, Zenon DEF Understood

\* and those with a text, cut where it no longer fits.
LEMMA TextUnderstood ==
  ASSUME NEW message \in TextMessages, NEW bytes \in Seq(Unsigned8), Stands(Serialize(message), bytes, 0),
         Len(Serialize(message)) <= Len(bytes)
  PROVE  Understood(message, bytes)
<1>. DEFINE t == message.text  max == IF message.type = INJECT_TEXT THEN InjectMax ELSE ClipboardMax
            n == TruncationIndex(t, max)  fst == Write16(n)  snd == Cut(t, max)
<1>1. /\ message.type \in {INJECT_TEXT, SET_CLIPBOARD} /\ IsText(t)
      /\ message = [type |-> message.type, text |-> t]
  BY DEF TextMessages
<1>2. max \in Unsigned16 /\ max \in Nat /\ max < 256 * 256
  BY ControlMessageAssumption DEF Unsigned16
<1>. HIDE DEF max
<1>3. /\ n \in 0..Len(t) /\ n <= max /\ snd = SubSeq(t, 1, n) /\ IsText(snd) /\ Len(snd) = n
  BY <1>1, <1>2, CutAtCharacter
<1>4. snd \in Seq(Unsigned8)
  <2>1. snd \in Seq(Unsigned8 \ {0})
    BY <1>3, Zenon DEF IsText
  <2>. QED BY <2>1
<1>5. n \in Nat /\ n \in Int /\ n \in Unsigned16 /\ n < 256 * 256
  BY <1>2, <1>3 DEF Unsigned16
<1>6. Payload(message) = fst \o snd
  <2>1. Payload(message) = WriteString(t, max)
    BY <1>1, Types DEF Payload, max
  <2>. QED BY <1>3, <2>1, Zenon DEF WriteString
<1>7. IsBytes(fst, 2) /\ IsBytes(snd, n)
  BY <1>3, <1>4, <1>5, Bytes16, Zenon DEF IsBytes
<1>. HIDE DEF n, snd, fst
<1>8. /\ 1 + (2 + n) = 3 + n /\ 1 \in Nat /\ 1 + 2 = 3 /\ message.type \in Unsigned8 /\ 3 + n >= 1
  BY <1>1, <1>5, Types DEF Unsigned8
<1>9. IsBytes(Payload(message), 2 + n)
  BY <1>6, <1>7, PartsAreBytes, Zenon
<1>10. /\ bytes[1] = message.type /\ Stands(Payload(message), bytes, 1)
       /\ IsBytes(Serialize(message), 3 + n)
  BY <1>8, <1>9, FirstByte, Zenon
<1>11. Stands(fst, bytes, 1) /\ Stands(snd, bytes, 1 + 2)
  <2>1. Stands(fst \o snd, bytes, 1)
    BY <1>6, <1>10, Zenon
  <2>. QED BY <1>7, <1>8, <2>1, Parts, Zenon
<1>12. ReadUnsigned16(bytes, 1) = n
  <2>1. Stands(Write16(n), bytes, 1)
    BY <1>11, Zenon DEF fst
  <2>. QED BY <1>5, <1>8, <2>1, Reading16
<1>13. Length(bytes) = 3 + n
  <2>1. Length(bytes) = 3 + ReadUnsigned16(bytes, 1)
    BY <1>1, <1>10, Types DEF Length
  <2>. QED BY <1>12, <2>1, Zenon
<1>14. SubSeq(bytes, 4, 3 + n) = snd
  <2>. DEFINE s == SubSeq(bytes, 4, 3 + n)  l == Len(bytes)
  <2>1. l \in Nat /\ 3 + n <= l
    BY <1>8, <1>10 DEF IsBytes
  <2>2. \A i \in 4..(3 + n) : bytes[i] \in Unsigned8
    <3>1. \A i \in 4..(3 + n) : i \in 1..l
      BY <1>5, <2>1
    <3>. QED BY <3>1
  <2>. HIDE DEF l
  <2>3. /\ s \in Seq(Unsigned8)
        /\ Len(s) = IF 4 <= 3 + n THEN (3 + n) - 4 + 1 ELSE 0
        /\ \A i \in 1..((3 + n) - 4 + 1) : s[i] = bytes[4 + i - 1]
    <3>1. 4 \in Int /\ 3 + n \in Int
      BY <1>5
    <3>. QED BY <2>2, <3>1, SubSeqProperties
  <2>. HIDE DEF s
  <2>4. Len(s) = n
    BY <1>5, <2>3
  <2>5. ASSUME NEW i \in 1..n PROVE s[i] = snd[i]
    <3>1. i \in 1..((3 + n) - 4 + 1) /\ 4 + i - 1 = (1 + 2) + i
      BY <1>5
    <3>2. bytes[(1 + 2) + i] = snd[i]
      BY <1>3, <1>11, Zenon DEF Stands
    <3>. QED BY <2>3, <3>1, <3>2, Zenon
  <2>. QED BY <1>3, <1>4, <2>3, <2>4, <2>5, SeqEqual DEF s
<1>15. Parse(bytes) = [type |-> message.type, text |-> snd]
  <2>1. Parse(bytes) = [type |-> bytes[1], text |-> SubSeq(bytes, 4, Length(bytes))]
    BY <1>1, <1>10, Types DEF Parse
  <2>. QED BY <1>10, <1>13, <1>14, <2>1, Zenon
<1>16. Expected(message) = [type |-> message.type, text |-> snd]
  <2>1. Expected(message) = [message EXCEPT !.text = snd]
    BY <1>1, Types DEF Expected, max, snd
  <2>. QED BY <1>1, <2>1
<1>17. [type |-> message.type, text |-> snd] \in ControlMessages
  <2>1. [type |-> message.type, text |-> snd] \in TextMessages
    BY <1>1, <1>3, <1>4 DEF TextMessages
  <2>. QED BY <2>1, Zenon DEF ControlMessages
<1>. QED BY <1>8, <1>10, <1>13, <1>15, <1>16, <1>17, Zenon DEF Understood

\* Whatever the message, the device reads from its bytes what it must read, and
\* goes on behind them.
LEMMA MessageUnderstood ==
  ASSUME NEW message \in ControlMessages, NEW bytes \in Seq(Unsigned8),
         Stands(Serialize(message), bytes, 0), Len(Serialize(message)) <= Len(bytes)
  PROVE  Understood(message, bytes)
BY KeycodeUnderstood, TouchUnderstood, ScrollUnderstood, PowerUnderstood, PlainUnderstood,
   TextUnderstood, Zenon DEF ControlMessages

\* A message is never empty on the wire.
LEMMA MessageHasBytes ==
  ASSUME NEW message \in ControlMessages
  PROVE  Serialize(message) \in Seq(Unsigned8) /\ Len(Serialize(message)) >= 1
<1>. DEFINE s == Serialize(message)
<1>1. Stands(s, s, 0)
  <2>1. \A k \in 1..Len(s) : 0 + k = k
    OBVIOUS
  <2>. QED BY <2>1, Zenon DEF Stands
<1>2. CASE message \in TextMessages
  <2>. DEFINE max == IF message.type = INJECT_TEXT THEN InjectMax ELSE ClipboardMax
              n == TruncationIndex(message.text, max)
  <2>1. message.type \in {INJECT_TEXT, SET_CLIPBOARD} /\ IsText(message.text)
    BY <1>2 DEF TextMessages
  <2>2. max \in Nat
    BY ControlMessageAssumption DEF Unsigned16
  <2>3. Payload(message) = Write16(n) \o SubSeq(message.text, 1, n)
    <3>1. Payload(message) = WriteString(message.text, max)
      BY <2>1, Types DEF Payload
    <3>. QED BY <3>1, Zenon DEF WriteString
  <2>. HIDE DEF max
  <2>4. n \in Nat /\ n \in 0..Len(message.text) /\ message.text \in Seq(Unsigned8)
    <3>1. n \in 0..Len(message.text)
      BY <2>1, <2>2, CutAtCharacter
    <3>2. message.text \in Seq(Unsigned8 \ {0})
      BY <2>1, Zenon DEF IsText
    <3>. QED BY <3>1, <3>2
  <2>. HIDE DEF n
  <2>5. IsBytes(SubSeq(message.text, 1, n), n) /\ IsBytes(Write16(n), 2)
    BY <2>4, Beginnings, Bytes16 DEF IsBytes
  <2>6. IsBytes(Payload(message), 2 + n)
    BY <2>3, <2>5, PartsAreBytes, Zenon
  <2>7. message.type \in Unsigned8 /\ 1 + (2 + n) >= 1
    BY <2>1, <2>4, Types DEF Unsigned8
  <2>8. IsBytes(s, 1 + (2 + n))
    BY <1>1, <2>6, <2>7, FirstByte, Zenon
  <2>. QED BY <2>7, <2>8, Zenon DEF IsBytes
<1>3. CASE message \notin TextMessages
  <2>1. Understood(message, s)
    BY <1>1, <1>3, KeycodeUnderstood, TouchUnderstood, ScrollUnderstood, PowerUnderstood,
       PlainUnderstood, Zenon DEF ControlMessages
  <2>. QED BY <2>1, Zenon DEF Understood, IsBytes
<1>. QED BY <1>2, <1>3

----------------------------------------------------------------------------
(* The stream to the device, which has no marks: where each message ends   *)
(* follows from its own bytes.                                             *)

\* The bytes of the messages behind the first `done` stand one behind the other.
InLine(bytes, messages, done, marks) ==
  /\ bytes \in Seq(Unsigned8)
  /\ messages \in Seq(ControlMessages) /\ done \in 0..Len(messages)
  /\ marks \in Seq(Nat) /\ Len(marks) = Len(messages) + 1
  /\ \A i \in 1..Len(messages) : marks[i + 1] = marks[i] + Len(Serialize(messages[i]))
  /\ \A i, j \in 1..(Len(messages) + 1) : i <= j => marks[i] <= marks[j]
  /\ Len(bytes) = marks[Len(messages) + 1] - marks[done + 1]
  /\ \A i \in (done + 1)..Len(messages) :
       Stands(Serialize(messages[i]), bytes, marks[i] - marks[done + 1])

\* What the device has in front of it is the first message it has not read.
LEMMA FirstInLine ==
  ASSUME NEW bytes, NEW messages, NEW done, NEW marks, InLine(bytes, messages, done, marks),
         bytes # <<>>
  PROVE  /\ done + 1 \in 1..Len(messages) /\ messages[done + 1] \in ControlMessages
         /\ Stands(Serialize(messages[done + 1]), bytes, 0)
         /\ Len(Serialize(messages[done + 1])) <= Len(bytes)
<1>. DEFINE n == Len(messages)  l == Len(bytes)  s == Serialize(messages[done + 1])
            here == marks[done + 1]  there == marks[done + 2]  end == marks[n + 1]
<1>1. /\ bytes \in Seq(Unsigned8) /\ l \in Nat /\ l # 0 /\ n \in Nat /\ done \in 0..n
      /\ marks \in Seq(Nat) /\ Len(marks) = n + 1
      /\ messages \in Seq(ControlMessages)
  BY DEF InLine
<1>2. l = end - here /\ here \in Nat /\ end \in Nat
  <2>1. l = end - here
    BY Zenon DEF InLine
  <2>2. done + 1 \in 1..(n + 1) /\ n + 1 \in 1..(n + 1)
    BY <1>1
  <2>. QED BY <1>1, <2>1, <2>2
<1>3. done # n
  <2>. SUFFICES ASSUME done = n PROVE FALSE
    OBVIOUS
  <2>1. here = end
    BY Zenon
  <2>. HIDE DEF here, end, l
  <2>. QED BY <1>1, <1>2, <2>1
<1>4. done + 1 \in 1..n /\ done + 2 \in 1..(n + 1) /\ (done + 1) + 1 = done + 2 /\ n + 1 \in 1..(n + 1)
      /\ done + 2 <= n + 1 /\ done + 1 \in (done + 1)..n
  BY <1>1, <1>3
<1>5. there = here + Len(s) /\ there <= end /\ Stands(s, bytes, here - here)
  BY <1>4, Zenon DEF InLine
<1>6. messages[done + 1] \in ControlMessages /\ there \in Nat
  BY <1>1, <1>4
<1>7. Len(s) \in Nat
  BY <1>6, MessageHasBytes
<1>. HIDE DEF here, there, end, l, n, s
<1>8. here - here = 0 /\ Len(s) <= l
  BY <1>2, <1>5, <1>6, <1>7
<1>9. Stands(s, bytes, 0)
  BY <1>5, <1>8, Zenon
<1>. QED BY <1>4, <1>6, <1>8, <1>9, Zenon DEF n, l, s

\* A message is sent: its bytes stand behind all others.
LEMMA OneMoreInLine ==
  ASSUME NEW bytes, NEW messages, NEW done, NEW marks, InLine(bytes, messages, done, marks),
         NEW message \in ControlMessages
  PROVE  \E more : InLine(bytes \o Serialize(message), Append(messages, message), done, more)
<1>. DEFINE n == Len(messages)  l == Len(bytes)  s == Serialize(message)  size == Len(s)
            all == bytes \o s  longer == Append(messages, message)  here == marks[done + 1]
            end == marks[n + 1]  more == Append(marks, end + size)
<1>1. /\ bytes \in Seq(Unsigned8) /\ l \in Nat /\ n \in Nat /\ done \in 0..n
      /\ marks \in Seq(Nat) /\ Len(marks) = n + 1
      /\ messages \in Seq(ControlMessages)
  BY DEF InLine
<1>2. s \in Seq(Unsigned8) /\ size \in Nat
  BY MessageHasBytes
<1>3. l = end - here
  BY Zenon DEF InLine
<1>4. /\ \A i \in 1..n : marks[i + 1] = marks[i] + Len(Serialize(messages[i]))
      /\ \A i, j \in 1..(n + 1) : i <= j => marks[i] <= marks[j]
      /\ \A i \in (done + 1)..n : Stands(Serialize(messages[i]), bytes, marks[i] - here)
  BY Zenon DEF InLine
<1>5. \A i \in 1..(n + 1) : marks[i] \in Nat
  BY <1>1
<1>6. done + 1 \in 1..(n + 1) /\ n + 1 \in 1..(n + 1) /\ (n + 1) + 1 = n + 2
  BY <1>1
<1>7. here \in Nat /\ end \in Nat
  BY <1>5, <1>6, Zenon
<1>. HIDE DEF size, l, end, here
<1>8. /\ more \in Seq(Nat) /\ Len(more) = (n + 1) + 1
      /\ more[(n + 1) + 1] = end + size /\ \A i \in 1..(n + 1) : more[i] = marks[i]
  <2>1. end + size \in Nat
    BY <1>2, <1>7
  <2>. QED BY <1>1, <2>1, AppendProperties
<1>9. /\ longer \in Seq(ControlMessages) /\ Len(longer) = n + 1
      /\ longer[n + 1] = message /\ \A i \in 1..n : longer[i] = messages[i]
  BY <1>1, AppendProperties
<1>10. all \in Seq(Unsigned8) /\ Joined(all, bytes, s)
  BY <1>1, <1>2, Concatenation
<1>11. /\ Len(all) = l + size /\ \A i \in 1..l : all[i] = bytes[i]
       /\ \A i \in 1..size : all[l + i] = s[i]
  BY <1>10, Zenon DEF Joined, l, size
<1>. HIDE DEF more, longer, all, n
<1>12. more[n + 1] = end /\ more[done + 1] = here
  BY <1>6, <1>8, Zenon DEF end, here
<1>13. done \in 0..(n + 1)
  BY <1>1
<1>14. ASSUME NEW i \in 1..(n + 1)
       PROVE  more[i + 1] = more[i] + Len(Serialize(longer[i]))
  <2>1. CASE i = n + 1
    <3>1. longer[i] = message /\ more[i] = end /\ more[i + 1] = end + size
      BY <1>8, <1>9, <1>12, <2>1, Zenon
    <3>. QED BY <3>1, Zenon DEF size, s
  <2>2. CASE i # n + 1
    <3>1. i \in 1..n /\ i + 1 \in 1..(n + 1)
      BY <1>1, <2>2
    <3>. QED BY <1>4, <1>8, <1>9, <3>1, Zenon
  <2>. QED BY <2>1, <2>2
<1>15. ASSUME NEW i \in 1..((n + 1) + 1), NEW j \in 1..((n + 1) + 1), i <= j
       PROVE  more[i] <= more[j]
  <2>1. CASE j = (n + 1) + 1 /\ i # (n + 1) + 1
    <3>1. i \in 1..(n + 1) /\ i <= n + 1
      BY <1>1, <2>1
    <3>. DEFINE place == marks[i]
    <3>2. more[i] = place /\ place <= end /\ place \in Nat /\ more[j] = end + size
      BY <1>4, <1>5, <1>6, <1>8, <2>1, <3>1, Zenon DEF end
    <3>. HIDE DEF place
    <3>3. place <= end + size
      BY <1>2, <1>7, <3>2
    <3>. QED BY <3>2, <3>3, Zenon
  <2>2. CASE j = (n + 1) + 1 /\ i = (n + 1) + 1
    <3>1. more[i] = end + size /\ more[j] = end + size /\ end + size <= end + size
      <4>1. end + size <= end + size
        BY <1>2, <1>7
      <4>. QED BY <1>8, <2>2, <4>1, Zenon
    <3>. QED BY <3>1, Zenon
  <2>3. CASE j # (n + 1) + 1
    <3>1. i \in 1..(n + 1) /\ j \in 1..(n + 1)
      BY <1>1, <1>15, <2>3
    <3>. QED BY <1>4, <1>8, <1>15, <3>1, Zenon
  <2>. QED BY <2>1, <2>2, <2>3
<1>16. Len(all) = more[(n + 1) + 1] - more[done + 1]
  <2>1. l + size = (end + size) - here
    BY <1>1, <1>2, <1>3, <1>7
  <2>. QED BY <1>8, <1>11, <1>12, <2>1, Zenon
<1>17. ASSUME NEW i \in (done + 1)..(n + 1)
       PROVE  Stands(Serialize(longer[i]), all, more[i] - more[done + 1])
  <2>1. CASE i = n + 1
    <3>1. longer[i] = message /\ more[i] = end /\ end - here = l
      BY <1>3, <1>9, <1>12, <2>1, Zenon
    <3>2. Stands(s, all, l)
      BY <1>11, Zenon DEF Stands, size
    <3>. QED BY <1>12, <3>1, <3>2, Zenon DEF s
  <2>2. CASE i # n + 1
    <3>. DEFINE place == marks[i]  after == marks[i + 1]  piece == Serialize(messages[i])
                m == Len(piece)
    <3>1. i \in 1..n /\ i \in (done + 1)..n /\ i + 1 \in 1..(n + 1) /\ i \in 1..(n + 1)
          /\ done + 1 <= i /\ i + 1 <= n + 1
      BY <1>1, <2>2
    <3>2. /\ longer[i] = messages[i] /\ more[i] = place /\ Stands(piece, bytes, place - here)
          /\ after = place + m /\ here <= place /\ after <= end /\ place \in Nat
      BY <1>4, <1>5, <1>6, <1>8, <1>9, <3>1, Zenon DEF here, end
    <3>3. m \in Nat
      <4>1. messages[i] \in ControlMessages
        BY <1>1, <3>1 DEF n
      <4>. QED BY <4>1, MessageHasBytes
    <3>. HIDE DEF place, after, m
    <3>4. ASSUME NEW k \in 1..m PROVE all[(place - here) + k] = piece[k]
      <4>1. (place - here) + k \in 1..l
        BY <1>1, <1>3, <1>7, <3>2, <3>3
      <4>2. bytes[(place - here) + k] = piece[k]
        BY <3>2, Zenon DEF Stands, m
      <4>. QED BY <1>11, <4>1, <4>2, Zenon
    <3>5. Stands(piece, all, place - here)
      BY <3>4, Zenon DEF Stands, m
    <3>. QED BY <1>12, <3>2, <3>5, Zenon
  <2>. QED BY <2>1, <2>2
<1>18. InLine(all, longer, done, more)
  BY <1>8, <1>9, <1>10, <1>13, <1>14, <1>15, <1>16, <1>17, Zenon DEF InLine
<1>. QED BY <1>18, Zenon DEF all, longer, s

\* A message is read: the next one is in front.
LEMMA OneLessInLine ==
  ASSUME NEW bytes, NEW messages, NEW done, NEW marks, InLine(bytes, messages, done, marks),
         bytes # <<>>
  PROVE  LET size == Len(Serialize(messages[done + 1]))
         IN  InLine(SubSeq(bytes, size + 1, Len(bytes)), messages, done + 1, marks)
<1>. DEFINE n == Len(messages)  l == Len(bytes)  s == Serialize(messages[done + 1])
            size == Len(s)  rest == SubSeq(bytes, size + 1, l)
            here == marks[done + 1]  there == marks[(done + 1) + 1]  end == marks[n + 1]
<1>1. /\ bytes \in Seq(Unsigned8) /\ l \in Nat /\ n \in Nat /\ done \in 0..n /\ done \in Nat
      /\ marks \in Seq(Nat) /\ Len(marks) = n + 1
      /\ messages \in Seq(ControlMessages)
  BY DEF InLine
<1>2. done + 1 \in 1..n /\ messages[done + 1] \in ControlMessages /\ size <= l
  BY FirstInLine
<1>3. size \in Nat
  BY <1>2, MessageHasBytes
<1>4. l = end - here
  BY Zenon DEF InLine
<1>5. /\ \A i \in 1..n : marks[i + 1] = marks[i] + Len(Serialize(messages[i]))
      /\ \A i, j \in 1..(n + 1) : i <= j => marks[i] <= marks[j]
      /\ \A i \in (done + 1)..n : Stands(Serialize(messages[i]), bytes, marks[i] - here)
  BY Zenon DEF InLine
<1>6. \A i \in 1..(n + 1) : marks[i] \in Nat
  BY <1>1
<1>7. /\ done + 1 \in 1..(n + 1) /\ n + 1 \in 1..(n + 1) /\ (done + 1) + 1 \in 1..(n + 1)
      /\ done + 1 \in 0..n /\ done + 1 \in (done + 1)..n
  BY <1>1, <1>2
<1>8. here \in Nat /\ end \in Nat /\ there \in Nat /\ there = here + size
  BY <1>2, <1>5, <1>6, <1>7, Zenon
<1>. HIDE DEF size, l, end, here, there, s
<1>9. /\ rest \in Seq(Unsigned8) /\ Len(rest) = l - size
      /\ \A k \in 1..(l - size) : rest[k] = bytes[size + k]
  <2>1. \A i \in (size + 1)..l : bytes[i] \in Unsigned8
    <3>1. \A i \in (size + 1)..l : i \in 1..Len(bytes)
      BY <1>3 DEF l
    <3>. QED BY <1>1, <3>1
  <2>2. /\ rest \in Seq(Unsigned8)
        /\ Len(rest) = IF size + 1 <= l THEN l - (size + 1) + 1 ELSE 0
        /\ \A k \in 1..(l - (size + 1) + 1) : rest[k] = bytes[(size + 1) + k - 1]
    <3>1. size + 1 \in Int /\ l \in Int
      BY <1>1, <1>3
    <3>. QED BY <2>1, <3>1, SubSeqProperties
  <2>. HIDE DEF rest
  <2>3. Len(rest) = l - size
    BY <1>1, <1>2, <1>3, <2>2
  <2>4. ASSUME NEW k \in 1..(l - size) PROVE rest[k] = bytes[size + k]
    <3>1. k \in 1..(l - (size + 1) + 1) /\ (size + 1) + k - 1 = size + k
      BY <1>1, <1>3
    <3>. QED BY <2>2, <3>1, Zenon
  <2>. QED BY <2>2, <2>3, <2>4
<1>. HIDE DEF rest, n
<1>10. Len(rest) = end - there
  <2>1. l - size = end - there
    BY <1>1, <1>3, <1>4, <1>8
  <2>. QED BY <1>9, <2>1, Zenon
<1>11. ASSUME NEW i \in ((done + 1) + 1)..n
       PROVE  Stands(Serialize(messages[i]), rest, marks[i] - there)
  <2>. DEFINE place == marks[i]  after == marks[i + 1]  piece == Serialize(messages[i])
              m == Len(piece)
  <2>1. /\ i \in 1..n /\ i \in (done + 1)..n /\ i + 1 \in 1..(n + 1) /\ i \in 1..(n + 1)
        /\ (done + 1) + 1 <= i /\ i + 1 <= n + 1
    BY <1>1
  <2>2. /\ Stands(piece, bytes, place - here)
        /\ after = place + m /\ there <= place /\ after <= end /\ place \in Nat
    BY <1>5, <1>6, <1>7, <2>1, Zenon DEF there, end
  <2>3. m \in Nat
    <3>1. messages[i] \in ControlMessages
      BY <1>1, <2>1 DEF n
    <3>. QED BY <3>1, MessageHasBytes
  <2>. HIDE DEF place, after, m
  <2>4. ASSUME NEW k \in 1..m PROVE rest[(place - there) + k] = piece[k]
    <3>1. /\ (place - there) + k \in 1..(l - size)
          /\ size + ((place - there) + k) = (place - here) + k
      BY <1>1, <1>3, <1>4, <1>8, <2>2, <2>3
    <3>2. bytes[(place - here) + k] = piece[k]
      BY <2>2, Zenon DEF Stands, m
    <3>. QED BY <1>9, <3>1, <3>2, Zenon
  <2>. QED BY <2>4, Zenon DEF Stands, m, place, piece
<1>12. InLine(rest, messages, done + 1, marks)
  BY <1>1, <1>5, <1>7, <1>9, <1>10, <1>11, Zenon DEF InLine, n, there, end
<1>. QED BY <1>12, Zenon DEF rest, size, s, l

----------------------------------------------------------------------------
(* Both directions. *)

Outgoing == \E marks : InLine(outgoing, pushed, Len(executed), marks)

SocketInv ==
  /\ ReceiverInv
  /\ IsText(clipboard) /\ IsText(device_clipboard)
  /\ executed \in Seq(ControlMessages)
  /\ \A i \in 1..Len(executed) : executed[i] = Expected(pushed[i])
  /\ Outgoing

\* Before anything is sent, both ways.
LEMMA SocketStarts == SocketInit => SocketInv
<1>. SUFFICES ASSUME SocketInit PROVE SocketInv
  OBVIOUS
<1>1. /\ ReceiverInit /\ clipboard = <<>> /\ device_clipboard = <<>> /\ outgoing = <<>>
      /\ pushed = <<>> /\ executed = <<>>
  BY DEF SocketInit, NoText
<1>2. IsText(<<>>)
  BY DEF IsText
<1>3. InLine(<<>>, <<>>, 0, <<0>>)
  <2>1. /\ <<>> \in Seq(Unsigned8) /\ <<>> \in Seq(ControlMessages) /\ 0 \in 0..Len(<<>>)
        /\ <<0>> \in Seq(Nat) /\ Len(<<0>>) = Len(<<>>) + 1
    OBVIOUS
  <2>2. 1..Len(<<>>) = {} /\ 1..(Len(<<>>) + 1) = {1} /\ (0 + 1)..Len(<<>>) = {}
    OBVIOUS
  <2>3. Len(<<>>) = <<0>>[Len(<<>>) + 1] - <<0>>[0 + 1]
    OBVIOUS
  <2>4. <<0>>[1] <= <<0>>[1]
    OBVIOUS
  <2>5. \A i, j \in 1..(Len(<<>>) + 1) : i <= j => <<0>>[i] <= <<0>>[j]
    BY <2>2, <2>4
  <2>. QED BY <2>1, <2>2, <2>3, <2>5 DEF InLine
<1>4. Outgoing
  <2>1. Len(<<>>) = 0
    OBVIOUS
  <2>. QED BY <1>1, <1>3, <2>1, Zenon DEF Outgoing
<1>5. executed \in Seq(ControlMessages) /\ \A i \in 1..Len(executed) : executed[i] = Expected(pushed[i])
  BY <1>1
<1>. QED BY <1>1, <1>2, <1>4, <1>5, ReceiverStarts, Zenon DEF SocketInv

\* The controller sends a message.
LEMMA ProcessMessageKeepsSocket ==
  ASSUME SocketInv, NEW message \in ControlMessages, ProcessMessage(message)
  PROVE  SocketInv'
<1>1. /\ pushed' = Append(pushed, message) /\ outgoing' = outgoing \o Serialize(message)
      /\ UNCHANGED receiverVars /\ clipboard' = clipboard /\ device_clipboard' = device_clipboard
      /\ executed' = executed
  BY DEF ProcessMessage, clipboards
<1>2. ReceiverInv'
  BY <1>1, ReceiverRests DEF SocketInv
<1>3. PICK marks : InLine(outgoing, pushed, Len(executed), marks)
  BY Zenon DEF SocketInv, Outgoing
<1>4. PICK more : InLine(outgoing', pushed', Len(executed'), more)
  <2>1. \E more : InLine(outgoing \o Serialize(message), Append(pushed, message), Len(executed), more)
    BY <1>3, OneMoreInLine, Zenon
  <2>. QED BY <1>1, <2>1, Zenon
<1>5. Outgoing'
  BY <1>4, Zenon DEF Outgoing
<1>6. executed \in Seq(ControlMessages) /\ \A i \in 1..Len(executed) : executed[i] = Expected(pushed[i])
  BY Zenon DEF SocketInv
<1>7. \A i \in 1..Len(executed) : pushed'[i] = pushed[i]
  <2>1. pushed \in Seq(ControlMessages) /\ Len(executed) \in 0..Len(pushed)
    BY <1>3, Zenon DEF InLine
  <2>2. \A i \in 1..Len(pushed) : pushed'[i] = pushed[i]
    BY <1>1, <2>1, AppendProperties
  <2>3. \A i \in 1..Len(executed) : i \in 1..Len(pushed)
    BY <2>1
  <2>. QED BY <2>2, <2>3, Zenon
<1>8. \A i \in 1..Len(executed) : executed'[i] = Expected(pushed'[i])
  BY <1>1, <1>6, <1>7, Zenon
<1>. QED BY <1>1, <1>2, <1>5, <1>6, <1>8, Zenon DEF SocketInv

\* The messages that carry the computer's clipboard, or ask for the device's.
LEMMA ClipboardMessages ==
  /\ [type |-> GET_CLIPBOARD] \in ControlMessages
  /\ \A type \in {INJECT_TEXT, SET_CLIPBOARD} : \A words :
       IsText(words) => [type |-> type, text |-> words] \in ControlMessages
<1>1. [type |-> GET_CLIPBOARD] \in PlainMessages
  BY DEF PlainMessages
<1>2. ASSUME NEW type \in {INJECT_TEXT, SET_CLIPBOARD}, NEW words, IsText(words)
      PROVE  [type |-> type, text |-> words] \in TextMessages
  <2>1. words \in Seq(Unsigned8 \ {0})
    BY <1>2, Zenon DEF IsText
  <2>2. words \in Seq(Unsigned8)
    BY <2>1
  <2>. QED BY <1>2, <2>2 DEF TextMessages
<1>. QED BY <1>1, <1>2, Zenon DEF ControlMessages

\* Only the messages with a text set the clipboard.
LEMMA TextOfMessage ==
  ASSUME NEW message \in ControlMessages, message.type = SET_CLIPBOARD
  PROVE  IsText(message.text)
<1>1. message \in TextMessages
  BY Types DEF ControlMessages, KeycodeMessages, TouchMessages, ScrollMessages, PowerMessages,
               PlainMessages
<1>. QED BY <1>1 DEF TextMessages

\* The device reads a message, and answers or sets its clipboard.
LEMMA DeviceReadsKeepsSocket ==
  ASSUME SocketInv, DeviceReads
  PROVE  SocketInv'
<1>. DEFINE message == Parse(outgoing)  e == Len(executed)  size == Length(outgoing)
<1>1. /\ outgoing # <<>>
      /\ executed' = Append(executed, message)
      /\ outgoing' = SubSeq(outgoing, size + 1, Len(outgoing))
      /\ device_clipboard' = IF message.type = SET_CLIPBOARD THEN message.text ELSE device_clipboard
      /\ \/ DeviceSends(Cut(device_clipboard, TextMax))
         \/ UNCHANGED receiverVars
      /\ clipboard' = clipboard /\ pushed' = pushed
  BY Zenon DEF DeviceReads
<1>2. /\ ReceiverInv /\ IsText(clipboard) /\ IsText(device_clipboard)
      /\ executed \in Seq(ControlMessages)
      /\ \A i \in 1..e : executed[i] = Expected(pushed[i])
  BY Zenon DEF SocketInv
<1>3. PICK marks : InLine(outgoing, pushed, e, marks)
  BY Zenon DEF SocketInv, Outgoing
<1>4. /\ pushed[e + 1] \in ControlMessages /\ Stands(Serialize(pushed[e + 1]), outgoing, 0)
      /\ Len(Serialize(pushed[e + 1])) <= Len(outgoing)
  BY <1>1, <1>3, FirstInLine, Zenon
<1>5. outgoing \in Seq(Unsigned8)
  BY <1>3, Zenon DEF InLine
<1>6. Understood(pushed[e + 1], outgoing)
  BY <1>4, <1>5, MessageUnderstood, Zenon
<1>7. /\ message = Expected(pushed[e + 1]) /\ message \in ControlMessages
      /\ size = Len(Serialize(pushed[e + 1]))
  BY <1>6, Zenon DEF Understood, IsBytes
<1>. HIDE DEF message, size
<1>8. /\ executed' \in Seq(ControlMessages) /\ Len(executed') = e + 1
      /\ executed'[e + 1] = message /\ \A i \in 1..e : executed'[i] = executed[i]
  BY <1>1, <1>2, <1>7, AppendProperties
<1>9. \A i \in 1..Len(executed') : executed'[i] = Expected(pushed'[i])
  <2>1. \A i \in 1..(e + 1) : i \in 1..e \/ i = e + 1
    BY <1>2
  <2>. QED BY <1>1, <1>2, <1>7, <1>8, <2>1, Zenon
<1>10. Outgoing'
  <2>1. InLine(SubSeq(outgoing, size + 1, Len(outgoing)), pushed, e + 1, marks)
    BY <1>1, <1>3, <1>7, OneLessInLine, Zenon
  <2>2. InLine(outgoing', pushed', Len(executed'), marks)
    BY <1>1, <1>8, <2>1, Zenon
  <2>. QED BY <2>2, Zenon DEF Outgoing
<1>11. IsText(device_clipboard')
  BY <1>1, <1>2, <1>7, TextOfMessage, Zenon
<1>12. ReceiverInv'
  <2>1. CASE DeviceSends(Cut(device_clipboard, TextMax))
    <3>. DEFINE words == Cut(device_clipboard, TextMax)
    <3>1. TextMax \in Nat
      BY ReceiverAssumption
    <3>2. IsText(words) /\ Len(words) <= TextMax
      BY <1>2, <3>1, CutAtCharacter, Zenon
    <3>3. words \in Seq(Unsigned8)
      <4>1. words \in Seq(Unsigned8 \ {0})
        BY <3>2, Zenon DEF IsText
      <4>. HIDE DEF words
      <4>. QED BY <4>1
    <3>4. words \in DeviceTexts
      BY <3>2, <3>3, Zenon DEF DeviceTexts
    <3>. QED BY <1>2, <2>1, <3>4, DeviceSendsKeepsReceiver, Zenon
  <2>2. CASE UNCHANGED receiverVars
    BY <1>2, <2>2, ReceiverRests
  <2>. QED BY <1>1, <2>1, <2>2, Zenon
<1>. QED BY <1>1, <1>2, <1>8, <1>9, <1>10, <1>11, <1>12, Zenon DEF SocketInv

\* Steps that leave the way to the device alone.
LEMMA OutgoingRests ==
  ASSUME SocketInv, UNCHANGED outVars, ReceiverInv', IsText(clipboard'), IsText(device_clipboard')
  PROVE  SocketInv'
<1>1. outgoing' = outgoing /\ pushed' = pushed /\ executed' = executed
  BY DEF outVars
<1>2. Outgoing'
  BY <1>1, Zenon DEF SocketInv, Outgoing
<1>. QED BY <1>1, <1>2, Zenon DEF SocketInv

\* A user fills one of the clipboards.
LEMMA UserCopiesKeepsSocket ==
  ASSUME SocketInv, UserCopies
  PROVE  SocketInv'
<1>1. UNCHANGED receiverVars /\ UNCHANGED outVars
  BY DEF UserCopies
<1>2. ReceiverInv'
  BY <1>1, ReceiverRests DEF SocketInv
<1>3. IsText(clipboard') /\ IsText(device_clipboard')
  BY ControlSocketAssumption, Zenon DEF SocketInv, UserCopies, ControlSocketAssumption
<1>. QED BY <1>1, <1>2, <1>3, OutgoingRests

\* The receiver's thread runs, and may put a text into the clipboard.
LEMMA ReceiverRunsKeepsSocket ==
  ASSUME SocketInv, ReceiverRuns
  PROVE  SocketInv'
<1>1. /\ Receiving /\ UNCHANGED outVars /\ device_clipboard' = device_clipboard
      /\ \/ clipboard' = clipboard
         \/ \E bytes : clipboard' \in Clipboards(bytes)
  BY Zenon DEF ReceiverRuns
<1>2. ReceiverInv'
  BY <1>1, ReceivingKeepsReceiver DEF SocketInv
<1>3. IsText(clipboard')
  <2>1. CASE clipboard' = clipboard
    BY <2>1, Zenon DEF SocketInv
  <2>2. ASSUME NEW bytes, clipboard' \in Clipboards(bytes) PROVE IsText(clipboard')
    <3>1. \/ clipboard' \in {bytes} /\ IsText(bytes)
          \/ clipboard' \in UserTexts \/ clipboard' = clipboard
      BY <2>2 DEF Clipboards
    <3>. QED BY <3>1, ControlSocketAssumption, Zenon DEF SocketInv, ControlSocketAssumption
  <2>. QED BY <1>1, <2>1, <2>2, Zenon
<1>4. IsText(device_clipboard')
  BY <1>1, Zenon DEF SocketInv
<1>. QED BY <1>1, <1>2, <1>3, <1>4, OutgoingRests

\* Every step keeps the invariant.
LEMMA SocketSteps == SocketInv /\ [SocketNext]_socketVars => SocketInv'
<1>. SUFFICES ASSUME SocketInv, [SocketNext]_socketVars PROVE SocketInv'
  OBVIOUS
<1>1. IsText(clipboard) /\ IsText(device_clipboard) /\ ReceiverInv
  BY Zenon DEF SocketInv
<1>2. CASE SendInput
  <2>1. PICK message \in Inputs : ProcessMessage(message)
    BY <1>2, Zenon DEF SendInput
  <2>2. message \in ControlMessages
    BY ControlSocketAssumption DEF ControlSocketAssumption
  <2>. QED BY <2>1, <2>2, ProcessMessageKeepsSocket, Zenon
<1>3. CASE RequestDeviceClipboard
  BY <1>3, ClipboardMessages, ProcessMessageKeepsSocket, Zenon DEF RequestDeviceClipboard
<1>4. CASE SetDeviceClipboard
  <2>1. [type |-> SET_CLIPBOARD, text |-> clipboard] \in ControlMessages
    BY <1>1, ClipboardMessages
  <2>. QED BY <1>4, <2>1, ProcessMessageKeepsSocket, Zenon DEF SetDeviceClipboard
<1>5. CASE PasteClipboard
  <2>1. [type |-> INJECT_TEXT, text |-> clipboard] \in ControlMessages
    BY <1>1, ClipboardMessages
  <2>. QED BY <1>5, <2>1, ProcessMessageKeepsSocket, Zenon DEF PasteClipboard
<1>6. CASE UserCopies
  BY <1>6, UserCopiesKeepsSocket
<1>7. CASE DeviceReads
  BY <1>7, DeviceReadsKeepsSocket
<1>8. CASE ReceiverRuns
  BY <1>8, ReceiverRunsKeepsSocket
<1>9. CASE UNCHANGED socketVars
  <2>1. /\ UNCHANGED receiverVars /\ UNCHANGED outVars /\ clipboard' = clipboard
        /\ device_clipboard' = device_clipboard
    BY <1>9 DEF socketVars, clipboards
  <2>2. ReceiverInv'
    BY <1>1, <2>1, ReceiverRests
  <2>3. IsText(clipboard') /\ IsText(device_clipboard')
    BY <1>1, <2>1, Zenon
  <2>. QED BY <2>1, <2>2, <2>3, OutgoingRests
<1>. QED BY <1>2, <1>3, <1>4, <1>5, <1>6, <1>7, <1>8, <1>9 DEF SocketNext, Finished

\* The invariant of both directions.
LEMMA SocketInvariant == SocketSpec => []SocketInv
BY SocketStarts, SocketSteps, PTL DEF SocketSpec

\* Whatever the segments, recv never finds the receiver's buffer full.
THEOREM AlwaysRoomInBuffer == SocketSpec => []RoomInBuffer
<1>1. SocketInv => RoomInBuffer
  <2>. SUFFICES ASSUME SocketInv PROVE RoomInBuffer
    OBVIOUS
  <2>1. head \in 0..(BufSize - 1)
    BY Zenon DEF SocketInv, ReceiverInv, ReceiverTyped
  <2>2. BufSize \in Nat
    BY ReceiverAssumption DEF BufSize
  <2>. QED BY <2>1, <2>2 DEF RoomInBuffer
<1>. QED BY <1>1, SocketInvariant, PTL

\* As long as no segment ends inside a message, the texts of the device reach the
\* computer's clipboard once and in order.
THEOREM TextsCopiedWhenWhole == SocketSpec => []CopiedWhenWhole
<1>1. SocketInv => CopiedWhenWhole
  BY Zenon DEF SocketInv, ReceiverInv, WholeInv, CopiedWhenWhole
<1>. QED BY <1>1, SocketInvariant, PTL

\* The device reads what the controller was given: every message, every number with
\* its sign, every text cut between two characters.
THEOREM DeviceReadsThePushed == SocketSpec => []DeviceReadsWhatWasPushed
<1>1. SocketInv => DeviceReadsWhatWasPushed
  <2>. SUFFICES ASSUME SocketInv PROVE DeviceReadsWhatWasPushed
    OBVIOUS
  <2>1. /\ executed \in Seq(ControlMessages)
        /\ \A i \in 1..Len(executed) : executed[i] = Expected(pushed[i])
    BY Zenon DEF SocketInv
  <2>2. executed = [i \in DOMAIN executed |-> executed[i]] /\ DOMAIN executed = 1..Len(executed)
    BY <2>1
  <2>3. [i \in DOMAIN executed |-> executed[i]] = [i \in DOMAIN executed |-> Expected(pushed[i])]
    BY <2>1, <2>2, Zenon
  <2>. QED BY <2>2, <2>3, Zenon DEF DeviceReadsWhatWasPushed
<1>. QED BY <1>1, SocketInvariant, PTL
=============================================================================
