-------------------------- MODULE FileHandlerProofs --------------------------
(***************************************************************************)
(* The file handler for every capacity of its queue and any number of      *)
(* files.                                                                  *)
(*                                                                         *)
(* The argument: the mutex says which thread is between which two steps    *)
(* (LockInv), so that the pid which Stop reads is the one of the request   *)
(* in hand or of the last one executed (PidInv); a request is pushed at    *)
(* one end of the contents and taken at the other (CBufProofs), so that    *)
(* what was accepted is what was executed and what is queued; a file is in *)
(* one place at most (PlaceInv), which says who frees its name (FileInv)   *)
(* and what its process may be (ProcessInv).                               *)
(***************************************************************************)
EXTENDS FileHandler, CBufProofs, SequenceTheorems

\* The thread holds a request that it has taken from the queue.
InHand == threadPc \in {"read", "wait process", "destroy"}

Last(s) == s[Len(s)]

TypeInv ==
  /\ queue \in CBufs
  /\ Contents(queue) \in Seq(Items)
  /\ executed \in Seq(Items)
  /\ accepted \in Seq(Items)
  /\ mainPc \in {"loop", "request", "stop", "wait", "join", "destroy", "ended"}
  /\ threadPc \in {"unborn", "lock", "check", "wait", "read", "wait process", "destroy", "ended"}
  /\ dropped \in 0..MaxRequests
  /\ mainPc = "request" => dropped \in Items

----------------------------------------------------------------------------
(* The queue. *)

\* Request adds the file to the contents, or nothing when the queue is full.
LEMMA Requesting ==
  ASSUME TypeInv, Request
  PROVE  /\ dropped \in Items
         /\ queue' \in CBufs
         /\ \/ /\ Contents(queue') = Contents(queue)
               /\ accepted' = accepted
            \/ /\ Contents(queue') = Append(Contents(queue), dropped)
               /\ accepted' = Append(accepted, dropped)
         /\ Contents(queue') \in Seq(Items)
         /\ accepted' \in Seq(Items)
<1>1. /\ dropped \in Items /\ queue \in CBufs /\ queue' = CbufPush(queue, dropped)
      /\ Contents(queue) \in Seq(Items) /\ accepted \in Seq(Items)
      /\ accepted' = IF CbufIsFull(queue) THEN accepted ELSE Append(accepted, dropped)
  BY DEF TypeInv, Request, MainGoto
<1>2. CASE CbufIsFull(queue)
  <2>1. queue' = queue
    BY <1>1, <1>2 DEF CbufPush
  <2>. QED BY <1>1, <1>2, <2>1
<1>3. CASE ~CbufIsFull(queue)
  <2>1. /\ queue' \in CBufs
        /\ Contents(queue') = Append(Contents(queue), dropped)
    BY <1>1, <1>3, Push
  <2>2. Append(Contents(queue), dropped) \in Seq(Items) /\ Append(accepted, dropped) \in Seq(Items)
    BY <1>1
  <2>. QED BY <1>1, <1>3, <2>1, <2>2
<1>. QED BY <1>2, <1>3

\* Fork takes the first request.
LEMMA Taking ==
  ASSUME TypeInv, Fork
  PROVE  /\ queue' \in CBufs
         /\ Contents(queue) # <<>>
         /\ req' = Head(Contents(queue))
         /\ req' \in Items
         /\ Contents(queue') = Tail(Contents(queue))
         /\ Contents(queue') \in Seq(Items)
         /\ executed' = Append(executed, req')
         /\ executed' \in Seq(Items)
<1>1. /\ queue \in CBufs /\ ~CbufIsEmpty(queue) /\ queue' = CbufTake(queue)
      /\ req' = CbufItem(queue) /\ executed' = Append(executed, req')
      /\ Contents(queue) \in Seq(Items) /\ executed \in Seq(Items)
  BY DEF TypeInv, Fork
<1>2. /\ queue' \in CBufs
      /\ Contents(queue) # <<>>
      /\ req' = Head(Contents(queue))
      /\ Contents(queue') = Tail(Contents(queue))
  BY <1>1, Take
<1>3. Head(Contents(queue)) \in Items /\ Tail(Contents(queue)) \in Seq(Items)
  BY <1>1, <1>2
<1>4. Append(executed, req') \in Seq(Items)
  BY <1>1, <1>2, <1>3
<1>. QED BY <1>1, <1>2, <1>3, <1>4

\* The steps that leave the queue and the two histories alone.
QuietStep ==
  \/ DropFile \/ Quit \/ Stop \/ WaitForProcess \/ Join
  \/ Lock \/ Sleep \/ WakeUp \/ SpuriousWakeUp \/ ExitStopped \/ Execute \/ CheckSuccess \/ FreeRequest
  \/ \E r \in Items : ChildExecs(r) \/ ChildFails(r) \/ ProcessExits(r)

LEMMA Steps ==
  /\ [Next]_vars => QuietStep \/ Request \/ Fork \/ Destroy \/ UNCHANGED vars
  /\ QuietStep => UNCHANGED <<queue, executed, accepted>>
BY DEF Next, vars, MainStep, ThreadStep, QuietStep, DropFile, Quit, Stop, WaitForProcess, Join,
       Lock, Sleep, WakeUp, SpuriousWakeUp, ExitStopped, Execute, CheckSuccess, FreeRequest,
       ChildExecs, ChildFails, ProcessExits, ThreadGoto, mainVars, threadVars

THEOREM Typing == Spec => []TypeInv
<1>1. Init => TypeInv
  <2>. SUFFICES ASSUME Init PROVE TypeInv
    OBVIOUS
  <2>1. queue \in CBufs /\ Contents(queue) \in Seq(Items)
    BY Emptiness DEF Init
  <2>. QED BY <2>1, FileHandlerAssumption DEF Init, TypeInv
<1>2. TypeInv /\ [Next]_vars => TypeInv'
  <2>. SUFFICES ASSUME TypeInv, [Next]_vars PROVE TypeInv'
    OBVIOUS
  <2>1. CASE QuietStep
    <3>1. UNCHANGED <<queue, executed, accepted>>
      BY <2>1, Steps
    <3>2. CASE DropFile
      <4>0. dropped < MaxRequests /\ dropped' = dropped + 1
        BY <3>2, Zenon DEF DropFile
      <4>1. mainPc' \in {"loop", "request"} /\ threadPc' \in {threadPc, "lock"}
        BY <3>2, Zenon DEF DropFile, MainGoto
      <4>2. dropped' \in 0..MaxRequests /\ dropped' \in Items
        <5>1. dropped \in 0..MaxRequests
          BY DEF TypeInv
        <5>. QED BY <4>0, <5>1, FileHandlerAssumption
      <4>3. queue' \in CBufs /\ Contents(queue') \in Seq(Items)
        BY <3>1 DEF TypeInv
      <4>. QED BY <3>1, <4>1, <4>2, <4>3 DEF TypeInv
    <3>3. CASE Quit \/ Stop \/ WaitForProcess \/ Join
      BY <3>1, <3>3 DEF TypeInv, Quit, Stop, WaitForProcess, Join, MainGoto, threadVars
    <3>4. CASE Lock \/ Sleep \/ WakeUp \/ SpuriousWakeUp \/ ExitStopped
      BY <3>1, <3>4 DEF TypeInv, Lock, Sleep, WakeUp, SpuriousWakeUp, ExitStopped, ThreadGoto,
                        mainVars, threadVars
    <3>5. CASE Execute \/ CheckSuccess \/ FreeRequest
      BY <3>1, <3>5 DEF TypeInv, Execute, CheckSuccess, FreeRequest, ThreadGoto, mainVars
    <3>6. CASE \E r \in Items : ChildExecs(r) \/ ChildFails(r) \/ ProcessExits(r)
      BY <3>1, <3>6 DEF TypeInv, ChildExecs, ChildFails, ProcessExits, mainVars, threadVars
    <3>. QED BY <2>1, <3>2, <3>3, <3>4, <3>5, <3>6 DEF QuietStep
  <2>2. CASE Request
    BY <2>2, Requesting DEF TypeInv, Request, MainGoto, threadVars
  <2>3. CASE Fork
    BY <2>3, Taking DEF TypeInv, Fork, ThreadGoto, mainVars
  <2>4. CASE Destroy
    <3>1. queue' \in CBufs /\ Contents(queue') = <<>>
      BY <2>4, Emptiness DEF Destroy, TypeInv
    <3>2. mainPc' = "ended" /\ UNCHANGED <<dropped, threadPc, executed, accepted>>
      BY <2>4, Zenon DEF Destroy, MainGoto, threadVars
    <3>3. Contents(queue') \in Seq(Items)
      BY <3>1
    <3>. QED BY <3>1, <3>2, <3>3 DEF TypeInv
  <2>5. CASE UNCHANGED vars
    BY <2>5 DEF TypeInv, vars, mainVars, threadVars
  <2>. QED BY <2>1, <2>2, <2>3, <2>4, <2>5, Steps
<1>. QED BY <1>1, <1>2, PTL DEF Spec

----------------------------------------------------------------------------
(* The pids. *)

\* The thread is created once.
BirthInv == threadPc # "unborn" <=> initialized

\* Who has the mutex locked, by where the threads are, and which thread exists.
LockInv ==
  /\ mutex = "main" <=> mainPc = "wait"
  /\ mutex = "thread" <=> threadPc \in {"check", "read"}
  /\ threadPc = "unborn" => mainPc # "request" /\ executed = <<>>
  /\ mainPc \in {"destroy", "ended"} => threadPc \in {"unborn", "ended"}

\* The request in hand is the last one executed, and so is current_process, from the
\* start of the process to the next lock.
PidInv ==
  /\ InHand => executed # <<>> /\ req \in Items /\ req = Last(executed)
  /\ current_process # None =>
       /\ executed # <<>>
       /\ current_process = Last(executed)
       /\ threadPc \in {"wait process", "destroy", "lock"}
  /\ mainPc = "wait" => current_process # None

\* What dropping a file does to the threads.
LEMMA Dropping ==
  ASSUME DropFile
  PROVE  /\ mainPc = "loop" /\ UNCHANGED <<mutex, executed>>
         /\ \/ ~initialized /\ initialized' = TRUE /\ threadPc' = "lock" /\ mainPc' = "request"
            \/ ~initialized /\ UNCHANGED <<initialized, threadPc, mainPc>>
            \/ initialized /\ UNCHANGED <<initialized, threadPc>> /\ mainPc' = "request"
BY Zenon DEF DropFile, MainGoto

\* initialized is set with the thread, and never reset.
LEMMA BornOnce == Spec => []BirthInv
<1>1. Init => BirthInv
  BY Zenon DEF Init, BirthInv
<1>2. BirthInv /\ [Next]_vars => BirthInv'
  <2>. SUFFICES ASSUME BirthInv, [Next]_vars PROVE BirthInv'
    OBVIOUS
  <2>1. CASE DropFile
    BY <2>1, Dropping, Zenon DEF BirthInv
  <2>2. CASE MainStep \/ Quit
    BY <2>2, Zenon DEF BirthInv, MainStep, Quit, Request, Stop, WaitForProcess, Join, Destroy, threadVars
  <2>3. CASE ThreadStep
    <3>1. threadPc # "unborn" /\ threadPc' # "unborn" /\ UNCHANGED initialized
      BY <2>3, Zenon DEF ThreadStep, Lock, Sleep, WakeUp, ExitStopped, Fork, Execute, CheckSuccess,
                 FreeRequest, ThreadGoto, mainVars
    <3>. QED BY <3>1, Zenon DEF BirthInv
  <2>4. CASE SpuriousWakeUp \/ \E r \in Items : ChildExecs(r) \/ ChildFails(r) \/ ProcessExits(r)
    BY <2>4, Zenon DEF BirthInv, SpuriousWakeUp, ChildExecs, ChildFails, ProcessExits, mainVars, threadVars
  <2>5. CASE UNCHANGED vars
    BY <2>5, Zenon DEF BirthInv, vars, mainVars, threadVars
  <2>. QED BY <2>1, <2>2, <2>3, <2>4, <2>5 DEF Next
<1>. QED BY <1>1, <1>2, PTL DEF Spec

\* A thread that needs the mutex does not step while the other has it.
LEMMA Locking == Spec => []LockInv
<1>1. Init => LockInv
  BY DEF Init, LockInv
<1>2. TypeInv /\ BirthInv /\ LockInv /\ [Next]_vars => LockInv'
  <2>. SUFFICES ASSUME TypeInv, BirthInv, LockInv, [Next]_vars PROVE LockInv'
    OBVIOUS
  <2>1. CASE DropFile
    <3>1. /\ mainPc = "loop" /\ UNCHANGED <<mutex, executed>>
          /\ \/ threadPc = "unborn" /\ threadPc' = "lock" /\ mainPc' = "request"
             \/ threadPc' = threadPc /\ mainPc' = "loop"
             \/ threadPc # "unborn" /\ threadPc' = threadPc /\ mainPc' = "request"
      BY <2>1, Dropping, Zenon DEF BirthInv
    <3>. QED BY <3>1 DEF LockInv
  <2>2. CASE Quit \/ Join
    BY <2>2 DEF LockInv, Quit, Join, MainGoto, threadVars
  <2>3. CASE Request
    <3>1. /\ mainPc = "request" /\ mainPc' = "loop"
          /\ UNCHANGED <<mutex, threadPc, executed>>
      BY <2>3, Zenon DEF Request, MainGoto, threadVars
    <3>. QED BY <3>1 DEF LockInv
  <2>4. CASE Stop
    BY <2>4 DEF LockInv, Stop, MainGoto, threadVars
  <2>5. CASE WaitForProcess
    BY <2>5 DEF LockInv, WaitForProcess, MainGoto, threadVars
  <2>6. CASE Destroy
    <3>1. /\ mainPc = "destroy" /\ mainPc' = "ended"
          /\ UNCHANGED <<mutex, threadPc, executed>>
      BY <2>6, Zenon DEF Destroy, MainGoto, threadVars
    <3>. QED BY <3>1 DEF LockInv
  <2>7. CASE Lock \/ Sleep \/ WakeUp \/ ExitStopped
    BY <2>7 DEF LockInv, TypeInv, Lock, Sleep, WakeUp, ExitStopped, ThreadGoto, mainVars
  <2>8. CASE Fork
    <3>1. /\ threadPc = "check"
          /\ \/ threadPc' = "read" /\ mutex' = mutex
             \/ threadPc' = "destroy" /\ mutex' = "free"
          /\ mainPc' = mainPc
      BY <2>8, Zenon DEF Fork, ThreadGoto, mainVars
    <3>. QED BY <3>1 DEF LockInv
  <2>9. CASE Execute \/ CheckSuccess \/ FreeRequest
    BY <2>9 DEF LockInv, Execute, CheckSuccess, FreeRequest, ThreadGoto, mainVars
  <2>10. CASE SpuriousWakeUp \/ \E r \in Items : ChildExecs(r) \/ ChildFails(r) \/ ProcessExits(r)
    BY <2>10 DEF LockInv, SpuriousWakeUp, ChildExecs, ChildFails, ProcessExits, mainVars, threadVars
  <2>11. CASE UNCHANGED vars
    BY <2>11 DEF LockInv, vars, mainVars, threadVars
  <2>. QED BY <2>1, <2>2, <2>3, <2>4, <2>5, <2>6, <2>7, <2>8, <2>9, <2>10, <2>11
           DEF Next, MainStep, ThreadStep
<1>. QED BY <1>1, <1>2, Typing, BornOnce, PTL DEF Spec

\* What is appended is last.
LEMMA LastOfAppend ==
  ASSUME NEW s \in Seq(Items), NEW r \in Items
  PROVE  Append(s, r) # <<>> /\ Last(Append(s, r)) = r
BY DEF Last

LEMMA Pids == Spec => []PidInv
<1>1. Init => PidInv
  BY DEF Init, PidInv, InHand
<1>2. TypeInv /\ BirthInv /\ LockInv /\ PidInv /\ [Next]_vars => PidInv'
  <2>. SUFFICES ASSUME TypeInv, BirthInv, LockInv, PidInv, [Next]_vars PROVE PidInv'
    OBVIOUS
  <2>1. CASE DropFile
    <3>1. /\ mainPc' \in {"loop", "request"} /\ UNCHANGED <<req, executed, current_process>>
          /\ threadPc' = threadPc \/ (threadPc = "unborn" /\ threadPc' = "lock")
      <4>1. UNCHANGED <<req, current_process>>
        BY <2>1, Zenon DEF DropFile
      <4>2. mainPc' \in {"loop", "request"} /\ UNCHANGED executed
        BY <2>1, Dropping, Zenon
      <4>3. threadPc' = threadPc \/ (threadPc = "unborn" /\ threadPc' = "lock")
        BY <2>1, Dropping, Zenon DEF BirthInv
      <4>. QED BY <4>1, <4>2, <4>3
    <3>. QED BY <3>1 DEF PidInv, InHand
  <2>2. CASE Quit \/ Join
    BY <2>2 DEF PidInv, InHand, Quit, Join, MainGoto, threadVars
  <2>3. CASE Request \/ Destroy
    <3>1. /\ mainPc' \in {"loop", "ended"}
          /\ UNCHANGED <<threadPc, req, executed, current_process>>
      BY <2>3, Zenon DEF Request, Destroy, MainGoto, threadVars
    <3>. QED BY <3>1 DEF PidInv, InHand
  <2>4. CASE Stop
    BY <2>4 DEF PidInv, InHand, Stop, MainGoto, threadVars
  <2>5. CASE WaitForProcess
    BY <2>5 DEF PidInv, InHand, WaitForProcess, MainGoto, threadVars
  <2>6. CASE Lock
    BY <2>6 DEF PidInv, InHand, LockInv, Lock, ThreadGoto, mainVars
  <2>7. CASE Sleep \/ WakeUp \/ ExitStopped
    BY <2>7 DEF PidInv, InHand, Sleep, WakeUp, ExitStopped, ThreadGoto, mainVars
  <2>8. CASE Fork
    <3>1. /\ threadPc = "check" /\ threadPc' \in {"read", "destroy"}
          /\ UNCHANGED <<mainPc, current_process>>
      BY <2>8, Zenon DEF Fork, ThreadGoto, mainVars
    <3>2. current_process = None
      BY <3>1 DEF PidInv
    <3>3. req' \in Items /\ executed' # <<>> /\ req' = Last(executed')
      BY <2>8, Taking, LastOfAppend DEF TypeInv
    <3>. QED BY <3>1, <3>2, <3>3 DEF PidInv, InHand
  <2>9. CASE Execute
    BY <2>9 DEF PidInv, InHand, LockInv, Execute, ThreadGoto, mainVars
  <2>10. CASE CheckSuccess \/ FreeRequest
    BY <2>10 DEF PidInv, InHand, CheckSuccess, FreeRequest, ThreadGoto, mainVars
  <2>11. CASE SpuriousWakeUp \/ \E r \in Items : ChildExecs(r) \/ ChildFails(r) \/ ProcessExits(r)
    BY <2>11 DEF PidInv, InHand, SpuriousWakeUp, ChildExecs, ChildFails, ProcessExits, mainVars, threadVars
  <2>12. CASE UNCHANGED vars
    BY <2>12 DEF PidInv, InHand, vars, mainVars, threadVars
  <2>. QED BY <2>1, <2>2, <2>3, <2>4, <2>5, <2>6, <2>7, <2>8, <2>9, <2>10, <2>11, <2>12
           DEF Next, MainStep, ThreadStep
<1>. QED BY <1>1, <1>2, Typing, BornOnce, Locking, PTL DEF Spec

\* Stop sends its SIGTERM to the process of the request in hand, or of the last one until
\* the thread has locked the mutex again, and to no older one.
THEOREM PidsAreCurrent == Spec => []PidIsCurrent
<1>1. PidInv => PidIsCurrent
  BY DEF PidInv, PidIsCurrent, InHand, Last
<1>. QED BY <1>1, Pids, PTL

----------------------------------------------------------------------------
(* The order. *)

\* What is queued last is accepted last.
LEMMA AppendToQueued ==
  ASSUME NEW p \in Seq(Items), NEW q \in Seq(Items), NEW r \in Items
  PROVE  p \o Append(q, r) = Append(p \o q, r)
<1>1. Append(q, r) = q \o <<r>> /\ <<r>> \in Seq(Items) /\ p \o q \in Seq(Items)
  BY ConcatProperties
<1>2. (p \o q) \o <<r>> = p \o (q \o <<r>>)
  BY <1>1, ConcatAssociative
<1>. QED BY <1>1, <1>2

\* The first that is queued becomes the last that is executed.
LEMMA MoveToExecuted ==
  ASSUME NEW p \in Seq(Items), NEW q \in Seq(Items), q # <<>>
  PROVE  Append(p, Head(q)) \o Tail(q) = p \o q
<1>1. /\ Head(q) \in Items /\ Tail(q) \in Seq(Items)
      /\ q = <<Head(q)>> \o Tail(q) /\ <<Head(q)>> \in Seq(Items)
      /\ Append(p, Head(q)) = p \o <<Head(q)>>
  BY HeadTailProperties, ConcatProperties
<1>2. (p \o <<Head(q)>>) \o Tail(q) = p \o (<<Head(q)>> \o Tail(q))
  BY <1>1, ConcatAssociative
<1>. QED BY <1>1, <1>2

\* Files are handled in the order in which they were dropped, each once, and until the
\* end none that was accepted is lost.
THEOREM HandledInOrder == Spec => []ExecutedInOrder
<1>1. Init => ExecutedInOrder
  <2>. SUFFICES ASSUME Init PROVE executed \o Contents(queue) = accepted
    BY DEF ExecutedInOrder
  <2>1. executed = <<>> /\ Contents(queue) = <<>> /\ accepted = <<>>
    BY Emptiness DEF Init
  <2>. QED BY <2>1
<1>2. TypeInv /\ ExecutedInOrder /\ [Next]_vars => ExecutedInOrder'
  <2>. SUFFICES ASSUME TypeInv, ExecutedInOrder, [Next]_vars PROVE ExecutedInOrder'
    OBVIOUS
  <2>1. Over => Over'
    BY DEF Over, Next, vars, mainVars, MainStep, ThreadStep, DropFile, Quit, Request, Stop, WaitForProcess,
       Join, Destroy, Lock, Sleep, WakeUp, SpuriousWakeUp, ExitStopped, Fork, Execute, CheckSuccess,
       FreeRequest, ChildExecs, ChildFails, ProcessExits, MainGoto, ThreadGoto
  <2>2. CASE QuietStep \/ UNCHANGED vars
    <3>1. UNCHANGED <<queue, executed, accepted>>
      BY <2>2, Steps, Zenon DEF vars, threadVars
    <3>. QED BY <2>1, <3>1 DEF ExecutedInOrder
  <2>3. CASE Request
    <3>1. executed' = executed /\ ~Over
      BY <2>3 DEF Request, threadVars, MainGoto, Over
    <3>2. executed \o Contents(queue) = accepted
      BY <3>1 DEF ExecutedInOrder
    <3>3. CASE Contents(queue') = Contents(queue) /\ accepted' = accepted
      BY <3>1, <3>2, <3>3 DEF ExecutedInOrder
    <3>4. CASE /\ Contents(queue') = Append(Contents(queue), dropped)
               /\ accepted' = Append(accepted, dropped)
      <4>1. executed \o Append(Contents(queue), dropped) = Append(accepted, dropped)
        BY <2>3, <3>2, Requesting, AppendToQueued DEF TypeInv
      <4>. QED BY <3>1, <3>4, <4>1 DEF ExecutedInOrder
    <3>. QED BY <2>3, <3>3, <3>4, Requesting
  <2>4. CASE Fork
    <3>1. accepted' = accepted
      BY <2>4, Zenon DEF Fork, ThreadGoto
    <3>2. executed' \o Contents(queue') = executed \o Contents(queue)
      BY <2>4, Taking, MoveToExecuted DEF TypeInv
    <3>. QED BY <2>1, <3>1, <3>2 DEF ExecutedInOrder
  <2>5. CASE Destroy
    BY <2>5, Zenon DEF Destroy, MainGoto, Over, ExecutedInOrder
  <2>. QED BY <2>2, <2>3, <2>4, <2>5, Steps
<1>. QED BY <1>1, <1>2, Typing, PTL DEF Spec

----------------------------------------------------------------------------
(* What is left behind. *)

Queued == Range(Contents(queue))
Executed == Range(executed)

\* A file is in one place at most: not dropped yet, about to be queued, queued, or
\* executed.
PlaceInv ==
  /\ Distinct(Contents(queue))
  /\ \A r \in Queued : r \notin Executed
  /\ \A r \in Items : r > dropped => r \notin Queued /\ r \notin Executed
  /\ mainPc = "request" => dropped \notin Queued /\ dropped \notin Executed

ProcessStates == {"none", "forked", "running", "exited", "failed", "reaped"}
FileStates == {"none", "live", "freed", "corrupt"}

\* Nobody needs to wait for such a process any more.
Settled(r) == process[r] \in {"none", "failed", "reaped"}

\* The process of the request in hand, by where the thread is.
ProcessInv ==
  /\ process \in [Items -> ProcessStates]
  /\ \A r \in Items : r \notin Executed => process[r] = "none"
  /\ \A r \in Executed : Settled(r) \/ (InHand /\ r = req)
  /\ threadPc = "read" => process[req] \in {"forked", "running", "exited", "failed"}
  /\ threadPc = "wait process" => process[req] \in {"running", "exited", "reaped"}
  /\ threadPc = "destroy" => Settled(req)

\* The name of a file lives from the drop until the request was executed, or until
\* Destroy when it is still queued.
FileInv ==
  /\ file \in [Items -> FileStates]
  /\ \A r \in Items : file[r] # "corrupt"
  /\ \A r \in Items : r > dropped => file[r] = "none"
  /\ mainPc = "request" => file[dropped] = "live"
  /\ \A r \in Queued : file[r] = "live"
  /\ \A r \in Executed : file[r] = "freed" \/ (InHand /\ r = req)
  /\ InHand => file[req] = "live"
  /\ Over => \A r \in Range(accepted) : file[r] = "freed"

\* What a request does to the places: nothing when the queue is full.
LEMMA PlacesAfterRequest ==
  ASSUME TypeInv, PlaceInv, Request
  PROVE  /\ dropped \in Items /\ dropped \notin Queued /\ dropped \notin Executed
         /\ Queued' = Queued \/ Queued' = Queued \cup {dropped}
         /\ Executed' = Executed
         /\ Distinct(Contents(queue))'
<1>1. /\ mainPc = "request" /\ executed' = executed
  BY DEF Request, MainGoto, threadVars
<1>2. /\ dropped \notin Queued /\ dropped \notin Executed /\ Distinct(Contents(queue))
      /\ dropped \in Items /\ Contents(queue) \in Seq(Items)
  BY <1>1, Requesting DEF PlaceInv, TypeInv
<1>3. CASE Contents(queue') = Contents(queue)
  BY <1>1, <1>2, <1>3 DEF Queued, Executed
<1>4. CASE Contents(queue') = Append(Contents(queue), dropped)
  BY <1>1, <1>2, <1>4, Appending DEF Queued, Executed
<1>. QED BY <1>3, <1>4, Requesting

\* What Fork does to them.
LEMMA PlacesAfterFork ==
  ASSUME TypeInv, PlaceInv, Fork
  PROVE  /\ req' \in Items /\ req' \in Queued /\ req' \notin Executed
         /\ Queued = Queued' \cup {req'} /\ req' \notin Queued'
         /\ Executed' = Executed \cup {req'}
         /\ Distinct(Contents(queue))'
<1>1. /\ Contents(queue) \in Seq(Items) /\ Distinct(Contents(queue)) /\ executed \in Seq(Items)
      /\ \A r \in Queued : r \notin Executed
  BY DEF TypeInv, PlaceInv
<1>2. /\ Queued = Queued' \cup {req'} /\ req' \notin Queued'
      /\ Distinct(Contents(queue))'
  <2>1. Contents(queue) # <<>> /\ req' = Head(Contents(queue)) /\ Contents(queue') = Tail(Contents(queue))
    BY Taking
  <2>. QED BY <1>1, <2>1, Removing DEF Queued
<1>3. Executed' = Executed \cup {req'}
  BY <1>1, Taking, Appending DEF Executed
<1>4. req' \in Items /\ req' \in Queued
  BY <1>2, Taking
<1>. QED BY <1>1, <1>2, <1>3, <1>4

\* The steps of the other kinds leave them as they are.
LEMMA PlacesAfterQuietStep ==
  ASSUME QuietStep \/ UNCHANGED vars
  PROVE  UNCHANGED <<queue, executed, accepted>> /\ UNCHANGED <<Queued, Executed>>
<1>1. UNCHANGED <<queue, executed, accepted>>
  BY Steps, Zenon DEF vars, threadVars
<1>. QED BY <1>1 DEF Queued, Executed

LEMMA PlacesAreApart == Spec => []PlaceInv
<1>1. Init => PlaceInv
  <2>. SUFFICES ASSUME Init PROVE PlaceInv
    OBVIOUS
  <2>1. Contents(queue) = <<>> /\ executed = <<>> /\ mainPc = "loop"
    BY Emptiness DEF Init
  <2>2. Queued = {} /\ Executed = {}
    BY <2>1 DEF Queued, Executed, Range
  <2>3. Distinct(Contents(queue))
    BY <2>1 DEF Distinct
  <2>. QED BY <2>1, <2>2, <2>3 DEF PlaceInv
<1>2. TypeInv /\ PlaceInv /\ [Next]_vars => PlaceInv'
  <2>. SUFFICES ASSUME TypeInv, PlaceInv, [Next]_vars PROVE PlaceInv'
    OBVIOUS
  <2>0. dropped \in Nat
    <3>1. dropped \in 0..MaxRequests
      BY DEF TypeInv
    <3>. QED BY <3>1, FileHandlerAssumption
  <2>1. CASE DropFile
    <3>1. /\ dropped < MaxRequests /\ dropped' = dropped + 1
      BY <2>1, Zenon DEF DropFile
    <3>2. UNCHANGED <<queue, executed, accepted>> /\ UNCHANGED <<Queued, Executed>>
      BY <2>1, PlacesAfterQuietStep DEF QuietStep
    <3>3. dropped' \in Items /\ dropped' > dropped
          /\ \A r \in Items : r > dropped' => r > dropped
      BY <2>0, <3>1, FileHandlerAssumption
    <3>. QED BY <3>2, <3>3 DEF PlaceInv
  <2>2. CASE (QuietStep /\ ~DropFile) \/ UNCHANGED vars
    <3>1. UNCHANGED <<queue, executed, accepted>> /\ UNCHANGED <<Queued, Executed>>
      BY <2>2, PlacesAfterQuietStep
    <3>2. dropped' = dropped /\ (mainPc' = "request" => mainPc = "request")
      BY <2>2 DEF QuietStep, Quit, Stop, WaitForProcess, Join, Lock, Sleep, WakeUp, SpuriousWakeUp,
                  ExitStopped, Execute, CheckSuccess, FreeRequest, ChildExecs, ChildFails, ProcessExits,
                  MainGoto, ThreadGoto, mainVars, vars
    <3>. QED BY <3>1, <3>2 DEF PlaceInv
  <2>3. CASE Request
    <3>1. mainPc' = "loop" /\ dropped' = dropped
      BY <2>3, Zenon DEF Request, MainGoto
    <3>2. \A r \in Items : r > dropped => r # dropped
      BY <2>0, FileHandlerAssumption
    <3>. QED BY <2>3, <3>1, <3>2, PlacesAfterRequest DEF PlaceInv
  <2>4. CASE Fork
    <3>1. UNCHANGED <<mainPc, dropped>>
      BY <2>4, Zenon DEF Fork, ThreadGoto, mainVars
    <3>. QED BY <2>4, <3>1, PlacesAfterFork DEF PlaceInv
  <2>5. CASE Destroy
    <3>1. Contents(queue') = <<>>
      BY <2>5, Emptiness DEF Destroy, TypeInv
    <3>2. Queued' = {} /\ Distinct(Contents(queue'))
      BY <3>1 DEF Queued, Range, Distinct
    <3>3. mainPc' = "ended" /\ UNCHANGED <<dropped, executed>>
      BY <2>5, Zenon DEF Destroy, MainGoto, threadVars
    <3>. QED BY <3>2, <3>3 DEF PlaceInv, Executed
  <2>. QED BY <2>1, <2>2, <2>3, <2>4, <2>5, Steps
<1>. QED BY <1>1, <1>2, Typing, PTL DEF Spec

\* The last request executed is one that was executed.
LEMMA LastWasExecuted ==
  ASSUME TypeInv, executed # <<>>
  PROVE  Last(executed) \in Executed /\ Executed \subseteq Items
<1>1. executed \in Seq(Items)
  BY DEF TypeInv
<1>2. Len(executed) \in DOMAIN executed
  BY <1>1
<1>3. Executed \subseteq Items
  BY <1>1, RangeOfSeq DEF Executed
<1>. QED BY <1>2, <1>3 DEF Executed, Range, Last

\* The request in hand was executed, and is no longer queued.
LEMMA RequestInHand ==
  ASSUME TypeInv, PidInv, InHand
  PROVE  req \in Items /\ req \in Executed
BY LastWasExecuted DEF PidInv

\* What a change of one process leaves alone.
LEMMA OneProcess ==
  ASSUME process \in [Items -> ProcessStates], NEW r \in Items, NEW s \in ProcessStates,
         process' = [process EXCEPT ![r] = s]
  PROVE  /\ process' \in [Items -> ProcessStates]
         /\ process'[r] = s
         /\ \A q \in Items : q # r => process'[q] = process[q]
OBVIOUS

LEMMA Processes == Spec => []ProcessInv
<1>1. Init => ProcessInv
  <2>. SUFFICES ASSUME Init PROVE ProcessInv
    OBVIOUS
  <2>1. Executed = {}
    BY DEF Init, Executed, Range
  <2>. QED BY <2>1 DEF Init, ProcessInv, ProcessStates
<1>2. TypeInv /\ BirthInv /\ LockInv /\ PidInv /\ PlaceInv /\ ProcessInv /\ [Next]_vars => ProcessInv'
  <2>. SUFFICES ASSUME TypeInv, BirthInv, LockInv, PidInv, PlaceInv, ProcessInv, [Next]_vars
                PROVE  ProcessInv'
    OBVIOUS
  <2>0. ASSUME QuietStep \/ UNCHANGED vars
        PROVE  Executed' = Executed
    BY <2>0, PlacesAfterQuietStep
  <2>1. CASE DropFile
    <3>1. UNCHANGED <<process, req>>
      BY <2>1, Zenon DEF DropFile
    <3>2. threadPc' = threadPc \/ (threadPc = "unborn" /\ threadPc' = "lock")
      BY <2>1, Dropping, Zenon DEF BirthInv
    <3>3. Executed' = Executed
      BY <2>0, <2>1 DEF QuietStep
    <3>. QED BY <3>1, <3>2, <3>3 DEF ProcessInv, InHand, Settled
  <2>2. CASE Quit \/ Stop \/ Join \/ SpuriousWakeUp \/ UNCHANGED vars
    <3>1. UNCHANGED <<process, req, threadPc>>
      BY <2>2, Zenon DEF Quit, Stop, Join, SpuriousWakeUp, vars, threadVars
    <3>2. Executed' = Executed
      BY <2>0, <2>2 DEF QuietStep
    <3>. QED BY <3>1, <3>2 DEF ProcessInv, InHand, Settled
  <2>3. CASE Request \/ Destroy
    <3>1. UNCHANGED <<process, req, threadPc, executed>>
      BY <2>3, Zenon DEF Request, Destroy, threadVars
    <3>. QED BY <3>1 DEF ProcessInv, InHand, Settled, Executed
  <2>4. CASE WaitForProcess
    <3>1. /\ process[current_process] \in {"exited", "reaped"}
          /\ process' = [process EXCEPT ![current_process] = "reaped"]
          /\ UNCHANGED <<req, threadPc>>
      BY <2>4 DEF WaitForProcess, WaitFor, threadVars
    <3>2. Executed' = Executed
      BY <2>0, <2>4 DEF QuietStep
    <3>3. threadPc # "read" /\ current_process \in Executed /\ Executed \subseteq Items
      <4>1. current_process # None /\ executed # <<>> /\ current_process = Last(executed)
        BY <2>4 DEF PidInv, WaitForProcess, MainGoto
      <4>. QED BY <4>1, LastWasExecuted DEF PidInv
    <3>4. "reaped" \in ProcessStates /\ process \in [Items -> ProcessStates]
      BY DEF ProcessStates, ProcessInv
    <3>5. /\ process' \in [Items -> ProcessStates]
          /\ process'[current_process] = "reaped"
          /\ \A q \in Items : q # current_process => process'[q] = process[q]
      BY <3>1, <3>3, <3>4, OneProcess
    <3>6. InHand => req \in Items
      BY RequestInHand
    <3>. QED BY <3>1, <3>2, <3>3, <3>5, <3>6 DEF ProcessInv, InHand, Settled
  <2>5. CASE Lock \/ Sleep \/ WakeUp \/ ExitStopped
    <3>1. UNCHANGED <<process, req>> /\ ~InHand /\ ~InHand'
      BY <2>5 DEF Lock, Sleep, WakeUp, ExitStopped, ThreadGoto, InHand
    <3>2. Executed' = Executed
      BY <2>0, <2>5 DEF QuietStep
    <3>. QED BY <3>1, <3>2 DEF ProcessInv, InHand, Settled
  <2>6. CASE Fork
    <3>1. /\ ~InHand
          /\ \/ threadPc' = "read" /\ process' = [process EXCEPT ![req'] = "forked"]
             \/ threadPc' = "destroy" /\ process' = process
      BY <2>6, Zenon DEF Fork, ThreadGoto, InHand
    <3>2. req' \in Items /\ req' \notin Executed /\ Executed' = Executed \cup {req'}
      BY <2>6, PlacesAfterFork
    <3>3. process[req'] = "none" /\ \A r \in Executed : Settled(r)
      BY <3>1, <3>2 DEF ProcessInv
    <3>4. "forked" \in ProcessStates /\ process \in [Items -> ProcessStates]
      BY DEF ProcessStates, ProcessInv
    <3>5. CASE threadPc' = "read" /\ process' = [process EXCEPT ![req'] = "forked"]
      <4>1. /\ process' \in [Items -> ProcessStates]
            /\ process'[req'] = "forked"
            /\ \A q \in Items : q # req' => process'[q] = process[q]
        BY <3>2, <3>4, <3>5, OneProcess
      <4>2. \A r \in Executed : r \in Items /\ r # req'
        BY <3>2, PlacesAfterFork, <2>6, RangeOfSeq DEF TypeInv, Executed
      <4>. QED BY <3>2, <3>3, <3>5, <4>1, <4>2 DEF ProcessInv, InHand, Settled
    <3>6. CASE threadPc' = "destroy" /\ process' = process
      BY <3>2, <3>3, <3>4, <3>6 DEF ProcessInv, InHand, Settled
    <3>. QED BY <3>1, <3>5, <3>6
  <2>7. CASE Execute
    <3>1. /\ threadPc = "read" /\ process[req] # "forked" /\ UNCHANGED <<process, req>>
          /\ \/ process[req] # "failed" /\ threadPc' = "wait process"
             \/ process[req] = "failed" /\ threadPc' = "destroy"
      BY <2>7, Zenon DEF Execute, PipeClosed, ThreadGoto
    <3>2. Executed' = Executed
      BY <2>0, <2>7 DEF QuietStep
    <3>. QED BY <3>1, <3>2 DEF ProcessInv, InHand, Settled
  <2>8. CASE CheckSuccess
    <3>1. /\ threadPc = "wait process" /\ threadPc' = "destroy" /\ req' = req
          /\ process' = [process EXCEPT ![req] = "reaped"]
      BY <2>8, Zenon DEF CheckSuccess, WaitFor, ThreadGoto
    <3>2. Executed' = Executed
      BY <2>0, <2>8 DEF QuietStep
    <3>3. req \in Items /\ req \in Executed
      BY <3>1, RequestInHand DEF InHand
    <3>4. "reaped" \in ProcessStates /\ process \in [Items -> ProcessStates]
      BY DEF ProcessStates, ProcessInv
    <3>5. /\ process' \in [Items -> ProcessStates]
          /\ process'[req] = "reaped"
          /\ \A q \in Items : q # req => process'[q] = process[q]
      BY <3>1, <3>3, <3>4, OneProcess
    <3>6. Executed \subseteq Items
      BY RangeOfSeq DEF TypeInv, Executed
    <3>. QED BY <3>1, <3>2, <3>3, <3>5, <3>6 DEF ProcessInv, InHand, Settled
  <2>9. CASE FreeRequest
    <3>1. threadPc = "destroy" /\ threadPc' = "lock" /\ process' = process
      BY <2>9, Zenon DEF FreeRequest, ThreadGoto
    <3>2. Executed' = Executed
      BY <2>0, <2>9 DEF QuietStep
    <3>. QED BY <3>1, <3>2 DEF ProcessInv, InHand, Settled
  <2>10. ASSUME NEW r \in Items, ChildExecs(r) \/ ChildFails(r) \/ ProcessExits(r)
         PROVE  ProcessInv'
    <3>1. /\ \/ process[r] = "forked" /\ process' = [process EXCEPT ![r] = "running"]
             \/ process[r] = "forked" /\ process' = [process EXCEPT ![r] = "failed"]
             \/ process[r] = "running" /\ process' = [process EXCEPT ![r] = "exited"]
          /\ UNCHANGED <<req, threadPc>>
      BY <2>10, Zenon DEF ChildExecs, ChildFails, ProcessExits, threadVars
    <3>2. Executed' = Executed
      BY <2>0, <2>10 DEF QuietStep
    <3>3. r \in Executed /\ InHand /\ r = req
      BY <3>1 DEF ProcessInv, Settled
    <3>4. /\ {"running", "failed", "exited"} \subseteq ProcessStates
          /\ process \in [Items -> ProcessStates]
      BY DEF ProcessStates, ProcessInv
    <3>5. /\ process' \in [Items -> ProcessStates]
          /\ \A q \in Items : q # r => process'[q] = process[q]
      BY <3>1, <3>4, OneProcess
    <3>6. \/ process[r] = "forked" /\ process'[r] \in {"running", "failed"}
          \/ process[r] = "running" /\ process'[r] = "exited"
      BY <3>1, <3>4, OneProcess
    <3>7. Executed \subseteq Items
      BY RangeOfSeq DEF TypeInv, Executed
    <3>. QED BY <3>1, <3>2, <3>3, <3>5, <3>6, <3>7 DEF ProcessInv, InHand, Settled
  <2>. QED BY <2>1, <2>2, <2>3, <2>4, <2>5, <2>6, <2>7, <2>8, <2>9, <2>10
           DEF Next, MainStep, ThreadStep
<1>. QED BY <1>1, <1>2, Typing, BornOnce, Locking, Pids, PlacesAreApart, PTL DEF Spec

\* Releasing a name that lives frees it, and nothing else.
LEMMA Releasing ==
  ASSUME file \in [Items -> FileStates], NEW r \in Items, file[r] = "live"
  PROVE  Release(r) = [file EXCEPT ![r] = "freed"]
BY DEF Release

LEMMA OneFile ==
  ASSUME file \in [Items -> FileStates], NEW r \in Items, NEW s \in FileStates,
         file' = [file EXCEPT ![r] = s]
  PROVE  /\ file' \in [Items -> FileStates]
         /\ file'[r] = s
         /\ \A q \in Items : q # r => file'[q] = file[q]
OBVIOUS

\* The names of the files.
LEMMA Files == Spec => []FileInv
<1>1. Init => FileInv
  <2>. SUFFICES ASSUME Init PROVE FileInv
    OBVIOUS
  <2>1. Executed = {} /\ Queued = {}
    BY Emptiness DEF Init, Executed, Queued, Range
  <2>. QED BY <2>1 DEF Init, FileInv, FileStates, InHand, Over
<1>2. TypeInv /\ BirthInv /\ LockInv /\ PidInv /\ PlaceInv /\ ExecutedInOrder /\ FileInv /\ [Next]_vars => FileInv'
  <2>. SUFFICES ASSUME TypeInv, BirthInv, LockInv, PidInv, PlaceInv, ExecutedInOrder, FileInv, [Next]_vars
                PROVE  FileInv'
    OBVIOUS
  <2>0. /\ dropped \in Nat
        /\ Executed \subseteq Items /\ Queued \subseteq Items /\ Range(accepted) \subseteq Items
        /\ file \in [Items -> FileStates] /\ {"live", "freed"} \subseteq FileStates
    <3>1. dropped \in 0..MaxRequests
      BY DEF TypeInv
    <3>2. Executed \subseteq Items /\ Queued \subseteq Items /\ Range(accepted) \subseteq Items
      BY RangeOfSeq DEF TypeInv, Executed, Queued
    <3>. QED BY <3>1, <3>2, FileHandlerAssumption DEF FileInv, FileStates
  <2>1. CASE DropFile
    <3>1. /\ dropped < MaxRequests /\ dropped' = dropped + 1
          /\ file' = [file EXCEPT ![dropped + 1] = "live"]
          /\ UNCHANGED req
      BY <2>1, Zenon DEF DropFile
    <3>2. /\ threadPc' = threadPc \/ (threadPc = "unborn" /\ threadPc' = "lock")
          /\ mainPc = "loop" /\ mainPc' \in {"loop", "request"}
      BY <2>1, Dropping, Zenon DEF BirthInv
    <3>3. /\ Executed' = Executed /\ Queued' = Queued
      BY <2>1, PlacesAfterQuietStep DEF QuietStep
    <3>4. dropped' \in Items /\ dropped' > dropped /\ dropped + 1 \in Items
          /\ \A r \in Items : r > dropped' => r > dropped /\ r # dropped'
      BY <2>0, <3>1, FileHandlerAssumption
    <3>5. /\ file' \in [Items -> FileStates]
          /\ file'[dropped'] = "live"
          /\ \A q \in Items : q # dropped' => file'[q] = file[q]
      BY <2>0, <3>1, <3>4, OneFile
    <3>6. /\ \A r \in Executed : r # dropped'
          /\ \A r \in Queued : r # dropped'
          /\ InHand => req # dropped' /\ req \in Items
      BY <3>4, RequestInHand DEF PlaceInv
    <3>7. (InHand' <=> InHand) /\ req' = req
      BY <3>1, <3>2 DEF InHand
    <3>8. \A r \in Items : file'[r] # "corrupt" /\ (r > dropped' => file'[r] = "none")
      BY <3>4, <3>5 DEF FileInv
    <3>9. /\ \A r \in Queued' : file'[r] = "live"
          /\ \A r \in Executed' : file'[r] = "freed" \/ (InHand' /\ r = req')
          /\ InHand' => file'[req'] = "live"
      BY <2>0, <3>3, <3>5, <3>6, <3>7 DEF FileInv
    <3>10. mainPc' # "ended"
      BY <3>2
    <3>. QED BY <3>5, <3>8, <3>9, <3>10 DEF FileInv, Over
  <2>2. CASE Quit \/ Stop \/ WaitForProcess \/ Join \/ SpuriousWakeUp
    <3>1. UNCHANGED <<file, req, threadPc, dropped, accepted>>
      BY <2>2, Zenon DEF Quit, Stop, WaitForProcess, Join, SpuriousWakeUp, mainVars, threadVars
    <3>2. Executed' = Executed /\ Queued' = Queued
      BY <2>2, PlacesAfterQuietStep DEF QuietStep
    <3>3. (mainPc' = "request" => mainPc = "request") /\ (mainPc' = "ended" => mainPc = "ended")
      BY <2>2 DEF Quit, Stop, WaitForProcess, Join, SpuriousWakeUp, MainGoto, mainVars
    <3>. QED BY <3>1, <3>2, <3>3 DEF FileInv, InHand, Over
  <2>3. CASE Request
    <3>1. UNCHANGED <<file, req, threadPc, dropped>> /\ mainPc = "request" /\ mainPc' = "loop"
      BY <2>3, Zenon DEF Request, MainGoto, threadVars
    <3>. QED BY <2>3, <3>1, PlacesAfterRequest DEF FileInv, InHand, Over
  <2>4. CASE Destroy
    <3>1. /\ mainPc = "destroy" /\ mainPc' = "ended"
          /\ UNCHANGED <<req, threadPc, dropped, accepted, executed>>
          /\ file' = [r \in Items |-> IF r \in Queued THEN Release(r)[r] ELSE file[r]]
      BY <2>4, Zenon DEF Destroy, MainGoto, threadVars, Queued
    <3>2. ~InHand /\ ~InHand'
      BY <3>1 DEF LockInv, InHand
    <3>3. Executed' = Executed /\ Queued' = {}
      <4>1. Contents(queue') = <<>>
        BY <2>4, Emptiness DEF Destroy, TypeInv
      <4>. QED BY <3>1, <4>1 DEF Executed, Queued, Range
    <3>4. \A r \in Queued : file[r] = "live" /\ Release(r)[r] = "freed"
      <4>1. \A r \in Queued : file[r] = "live"
        BY DEF FileInv
      <4>. QED BY <2>0, <4>1, Releasing
    <3>5. /\ \A r \in Queued : file'[r] = "freed"
          /\ \A r \in Items : r \notin Queued => file'[r] = file[r]
          /\ file' \in [Items -> FileStates]
      <4>1. \A r \in Items : (IF r \in Queued THEN Release(r)[r] ELSE file[r]) \in FileStates
        BY <2>0, <3>4
      <4>. QED BY <2>0, <3>1, <3>4, <4>1
    <3>6. Range(accepted) = Executed \cup Queued
      <4>1. executed \o Contents(queue) = accepted
        BY <3>1 DEF ExecutedInOrder, Over
      <4>. QED BY <4>1, RangeConcatenation DEF TypeInv, Executed, Queued
    <3>7. \A r \in Executed : r \notin Queued
      BY DEF PlaceInv
    <3>8. \A r \in Items : r > dropped => r \notin Queued
      BY DEF PlaceInv
    <3>9. /\ \A r \in Executed : file[r] = "freed"
          /\ \A r \in Items : file[r] # "corrupt"
          /\ \A r \in Items : r > dropped => file[r] = "none"
      BY <3>2 DEF FileInv
    <3>10. \A r \in Executed : file'[r] = "freed"
      BY <2>0, <3>5, <3>7, <3>9
    <3>11. \A r \in Items : file'[r] # "corrupt"
      BY <3>5, <3>9
    <3>12. \A r \in Items : r > dropped' => file'[r] = "none"
      BY <3>1, <3>5, <3>8, <3>9
    <3>13. \A r \in Range(accepted)' : file'[r] = "freed"
      BY <3>1, <3>5, <3>6, <3>10
    <3>. QED BY <3>1, <3>2, <3>3, <3>5, <3>10, <3>11, <3>12, <3>13 DEF FileInv
  <2>5. CASE Lock \/ Sleep \/ WakeUp \/ ExitStopped \/ Execute \/ CheckSuccess
    <3>1. UNCHANGED <<file, req, mainPc, dropped, accepted>>
      BY <2>5, Zenon DEF Lock, Sleep, WakeUp, ExitStopped, Execute, CheckSuccess, ThreadGoto, mainVars
    <3>2. Executed' = Executed /\ Queued' = Queued
      BY <2>5, PlacesAfterQuietStep DEF QuietStep
    <3>3. InHand' <=> InHand
      BY <2>5 DEF Lock, Sleep, WakeUp, ExitStopped, Execute, CheckSuccess, ThreadGoto, InHand
    <3>. QED BY <3>1, <3>2, <3>3 DEF FileInv, Over
  <2>6. CASE Fork
    <3>1. UNCHANGED <<file, mainPc, dropped, accepted>> /\ ~InHand /\ InHand'
      BY <2>6, Zenon DEF Fork, ThreadGoto, InHand, mainVars
    <3>. QED BY <2>0, <2>6, <3>1, PlacesAfterFork DEF FileInv, Over
  <2>7. CASE FreeRequest
    <3>1. InHand /\ ~InHand' /\ UNCHANGED <<mainPc, dropped, accepted>> /\ file' = Release(req)
      BY <2>7, Zenon DEF FreeRequest, ThreadGoto, InHand, mainVars
    <3>2. Executed' = Executed /\ Queued' = Queued
      BY <2>7, PlacesAfterQuietStep DEF QuietStep
    <3>3. req \in Items /\ req \in Executed /\ file[req] = "live"
      BY <3>1, RequestInHand DEF FileInv
    <3>4. /\ file' \in [Items -> FileStates]
          /\ file'[req] = "freed"
          /\ \A q \in Items : q # req => file'[q] = file[q]
      BY <2>0, <3>1, <3>3, Releasing, OneFile
    <3>5. req \notin Queued /\ ~(req > dropped) /\ (mainPc = "request" => req # dropped)
      BY <3>3 DEF PlaceInv
    <3>6. mainPc = "request" => dropped \in Items
      BY DEF TypeInv
    <3>. QED BY <2>0, <3>1, <3>2, <3>3, <3>4, <3>5, <3>6 DEF FileInv, Over
  <2>8. CASE UNCHANGED vars \/ \E r \in Items : ChildExecs(r) \/ ChildFails(r) \/ ProcessExits(r)
    <3>1. UNCHANGED <<file, req, threadPc, mainPc, dropped, accepted>>
      BY <2>8, Zenon DEF ChildExecs, ChildFails, ProcessExits, vars, mainVars, threadVars
    <3>2. Executed' = Executed /\ Queued' = Queued
      BY <2>8, PlacesAfterQuietStep DEF QuietStep
    <3>. QED BY <3>1, <3>2 DEF FileInv, InHand, Over
  <2>. QED BY <2>1, <2>2, <2>3, <2>4, <2>5, <2>6, <2>7, <2>8 DEF Next, MainStep, ThreadStep
<1>. QED BY <1>1, <1>2, Typing, BornOnce, Locking, Pids, PlacesAreApart, HandledInOrder, PTL DEF Spec

\* Once the handler has ended nothing is left behind: the name of every file that was
\* queued is freed, once and not before its process has ended, and no process is left
\* running or unwaited for, except a child that could not run adb.
THEOREM NothingIsLeft == Spec => []NothingLeft
<1>1. TypeInv /\ LockInv /\ ProcessInv /\ FileInv => NothingLeft
  <2>. SUFFICES ASSUME TypeInv, LockInv, ProcessInv, FileInv PROVE NothingLeft
    OBVIOUS
  <2>1. ASSUME NEW r \in Items, process[r] \in {"forked", "running", "exited"}
        PROVE  file[r] = "live"
    <3>1. r \in Executed /\ ~Settled(r)
      BY <2>1 DEF ProcessInv, Settled
    <3>. QED BY <3>1 DEF ProcessInv, FileInv
  <2>2. ASSUME Over, NEW r \in Items
        PROVE  process[r] \in {"none", "failed", "reaped"}
    <3>1. ~InHand
      BY <2>2 DEF Over, LockInv, InHand
    <3>. QED BY <3>1 DEF ProcessInv, Settled
  <2>3. QueuedFilesFreed
    BY <2>1 DEF QueuedFilesFreed, FileInv
  <2>4. NoProcessLeft
    BY <2>2 DEF NoProcessLeft
  <2>. QED BY <2>3, <2>4 DEF NothingLeft
<1>. QED BY <1>1, Typing, Locking, Processes, Files, PTL
=============================================================================
