----------------------------- MODULE FileHandler -----------------------------
(***************************************************************************)
(* Installing and pushing dropped files: src/android/file_handler.cpp, and *)
(* the processes it runs (adb install, adb push) through                   *)
(* src/platform/unix/command.cpp.  The main thread makes the requests and  *)
(* stops the handler; RunFileHandler runs one process after the other.     *)
(* Starting one is a fork, an exec in the child, and a pipe that tells the *)
(* parent whether the exec failed.                                         *)
(*                                                                         *)
(* Stop waits for the process with the mutex locked: the mutex is          *)
(* explicit.  A request, its file and its process have the same number.    *)
(***************************************************************************)
EXTENDS CBuf, Functions

CONSTANTS
  None,          \* PROCESS_NONE
  MaxRequests    \* bound: files dropped

ASSUME FileHandlerAssumption ==
  /\ None \notin Items
  /\ MaxRequests \in Nat
  /\ Items = 1..MaxRequests

VARIABLES
  queue,             \* a CBuf of requests
  mutex,             \* who has it locked between two steps
  initialized, stopped,
  sleeping,          \* the thread sleeps in cond_wait, not signalled
  current_process,
  mainPc,            \* where the main thread is
  dropped,           \* number of files dropped
  file,              \* the memory of a file name
  threadPc,          \* where RunFileHandler is
  req,               \* its request
  process,           \* external: the processes
  accepted,          \* history: the requests that were queued
  executed,          \* history: the requests whose process was started, or could not be
  killed             \* history: the processes that were sent a SIGTERM

mainVars == <<mainPc, dropped, initialized>>
threadVars == <<threadPc, req, executed>>
vars == <<queue, mutex, stopped, sleeping, current_process, mainVars, file, threadVars, process,
          accepted, killed>>

Init ==
  /\ queue = EmptyCBuf
  /\ mutex = "free"
  /\ initialized = FALSE
  /\ stopped = FALSE
  /\ sleeping = FALSE
  /\ current_process = None
  /\ mainPc = "loop"
  /\ dropped = 0
  /\ file = [r \in Items |-> "none"]
  /\ threadPc = "unborn"
  /\ req = NoItem
  /\ process = [r \in Items |-> "none"]
  /\ accepted = <<>>
  /\ executed = <<>>
  /\ killed = {}

\* FileHandlerRequest::destroy
Release(r) == CASE file[r] = "live"  -> [file EXCEPT ![r] = "freed"]
                [] file[r] = "freed" -> [file EXCEPT ![r] = "corrupt"]
                [] OTHER             -> file
----------------------------------------------------------------------------
(* The processes.  waitpid() returns when the process has exited, and at   *)
(* once, with an error, when somebody else has waited for it.              *)

ProcessExits(r) ==
  /\ process[r] = "running"
  /\ process' = [process EXCEPT ![r] = "exited"]
  /\ UNCHANGED <<queue, mutex, stopped, sleeping, current_process, mainVars, file, threadVars,
                 accepted, killed>>

\* The child of a fork runs adb, or exits without it.
ChildExecs(r) ==
  /\ process[r] = "forked"
  /\ process' = [process EXCEPT ![r] = "running"]
  /\ UNCHANGED <<queue, mutex, stopped, sleeping, current_process, mainVars, file, threadVars,
                 accepted, killed>>

ChildFails(r) ==
  /\ process[r] = "forked"
  /\ process' = [process EXCEPT ![r] = "failed"]
  /\ UNCHANGED <<queue, mutex, stopped, sleeping, current_process, mainVars, file, threadVars,
                 accepted, killed>>

BugPipeClosed(r) == process[r] \in {"exited", "failed"}   \* a bug: no FD_CLOEXEC

\* The write side of the pipe is closed: adb does not inherit it.
PipeClosed(r) == process[r] # "forked"

WaitFor(r) ==
  /\ process[r] \in {"exited", "reaped"}
  /\ process' = [process EXCEPT ![r] = "reaped"]
----------------------------------------------------------------------------
(* The main thread. *)

MainGoto(from, to) == mainPc = from /\ mainPc' = to

\* A file is dropped; the thread is started for the first one.
DropFile ==
  /\ dropped < MaxRequests
  /\ dropped' = dropped + 1
  /\ file' = [file EXCEPT ![dropped + 1] = "live"]
  /\ \/ /\ ~initialized
        /\ MainGoto("loop", "request")
        /\ initialized' = TRUE
        /\ threadPc' = "lock"
     \/ /\ ~initialized          \* the thread cannot be created
        /\ mainPc = "loop"
        /\ UNCHANGED <<mainPc, initialized, threadPc>>
     \/ /\ initialized
        /\ MainGoto("loop", "request")
        /\ UNCHANGED <<initialized, threadPc>>
  /\ UNCHANGED <<queue, mutex, stopped, sleeping, current_process, req, executed, process,
                 accepted, killed>>

\* Request: the thread is signalled when the queue was empty.
Request ==
  /\ mutex = "free"
  /\ MainGoto("request", "loop")
  /\ queue' = CbufPush(queue, dropped)
  /\ sleeping' = (sleeping /\ ~CbufIsEmpty(queue))
  /\ accepted' = IF CbufIsFull(queue) THEN accepted ELSE Append(accepted, dropped)
  /\ UNCHANGED <<mutex, stopped, current_process, dropped, initialized, file, threadVars,
                 process, killed>>

\* The program quits.
Quit ==
  /\ MainGoto("loop", "stop")
  /\ UNCHANGED <<queue, mutex, stopped, sleeping, current_process, dropped, initialized, file,
                 threadVars, process, accepted, killed>>

\* Stop: the current process is terminated ...
Stop ==
  /\ mutex = "free"
  /\ stopped' = TRUE
  /\ sleeping' = FALSE
  /\ IF current_process = None
     THEN MainGoto("stop", "join") /\ UNCHANGED <<mutex, killed>>
     ELSE /\ MainGoto("stop", "wait")
          /\ mutex' = "main"
          /\ killed' = killed \cup {current_process}
  /\ UNCHANGED <<queue, current_process, dropped, initialized, file, threadVars, process,
                 accepted>>

\* ... and waited for, with the mutex locked.
WaitForProcess ==
  /\ MainGoto("wait", "join")
  /\ WaitFor(current_process)
  /\ current_process' = None
  /\ mutex' = "free"
  /\ UNCHANGED <<queue, stopped, sleeping, dropped, initialized, file, threadVars, accepted,
                 killed>>

Join ==
  /\ threadPc \in {"unborn", "ended"}
  /\ MainGoto("join", "destroy")
  /\ UNCHANGED <<queue, mutex, stopped, sleeping, current_process, dropped, initialized, file,
                 threadVars, process, accepted, killed>>

\* Destroy takes and frees what is left in the queue.
Destroy ==
  /\ MainGoto("destroy", "ended")
  /\ queue' = [queue EXCEPT !.tail = queue.head]
  /\ file' = [r \in Items |-> IF r \in Range(Contents(queue)) THEN Release(r)[r] ELSE file[r]]
  /\ UNCHANGED <<mutex, stopped, sleeping, current_process, dropped, initialized, threadVars,
                 process, accepted, killed>>
----------------------------------------------------------------------------
(* The thread: RunFileHandler. *)

ThreadGoto(from, to) ==
  /\ threadPc = from
  /\ threadPc' = to
  /\ UNCHANGED <<mainVars, accepted, killed>>

BugLock ==   \* a bug: the process of the last request is not forgotten
  /\ mutex = "free"
  /\ ThreadGoto("lock", "check")
  /\ mutex' = "thread"
  /\ UNCHANGED <<current_process, queue, stopped, sleeping, file, req, executed, process>>

\* The mutex is locked until the thread sleeps, exits, or has executed a request.
Lock ==
  /\ mutex = "free"
  /\ ThreadGoto("lock", "check")
  /\ mutex' = "thread"
  /\ current_process' = None
  /\ UNCHANGED <<queue, stopped, sleeping, file, req, executed, process>>

Sleep ==
  /\ ~stopped
  /\ CbufIsEmpty(queue)
  /\ ThreadGoto("check", "wait")
  /\ mutex' = "free"
  /\ sleeping' = TRUE
  /\ UNCHANGED <<queue, stopped, current_process, file, req, executed, process>>

WakeUp ==
  /\ mutex = "free"
  /\ ~sleeping
  /\ ThreadGoto("wait", "check")
  /\ mutex' = "thread"
  /\ UNCHANGED <<queue, stopped, sleeping, current_process, file, req, executed, process>>

SpuriousWakeUp ==
  /\ sleeping
  /\ sleeping' = FALSE
  /\ UNCHANGED <<queue, mutex, stopped, current_process, mainVars, file, threadVars, process,
                 accepted, killed>>

ExitStopped ==
  /\ stopped
  /\ ThreadGoto("check", "ended")
  /\ mutex' = "free"
  /\ UNCHANGED <<queue, stopped, sleeping, current_process, file, req, executed, process>>

\* There is a request: cmd_execute makes a pipe and forks, or cannot.
Fork ==
  /\ ~stopped
  /\ ~CbufIsEmpty(queue)
  /\ queue' = CbufTake(queue)
  /\ req' = CbufItem(queue)
  /\ executed' = Append(executed, req')
  /\ \/ /\ ThreadGoto("check", "read")
        /\ process' = [process EXCEPT ![req'] = "forked"]
        /\ UNCHANGED mutex
     \/ /\ ThreadGoto("check", "destroy")
        /\ mutex' = "free"
        /\ UNCHANGED process
  /\ UNCHANGED <<stopped, sleeping, current_process, file>>

\* The thread reads from the pipe, with the mutex still locked: the child has
\* started the program, or says why not; nobody waits for that child.
Execute ==
  /\ threadPc = "read"
  /\ PipeClosed(req)
  /\ \/ process[req] # "failed" /\ ThreadGoto("read", "wait process") /\ current_process' = req
     \/ process[req] = "failed" /\ ThreadGoto("read", "destroy") /\ current_process' = None
  /\ mutex' = "free"
  /\ UNCHANGED <<queue, stopped, sleeping, file, req, executed, process>>

BugNoWait ==   \* a bug: the process is not waited for
  /\ ThreadGoto("wait process", "destroy")
  /\ UNCHANGED <<queue, mutex, stopped, sleeping, current_process, file, req, executed, process>>

\* process_check_success; whether it was one is only logged.
CheckSuccess ==
  /\ ThreadGoto("wait process", "destroy")
  /\ WaitFor(req)
  /\ UNCHANGED <<queue, mutex, stopped, sleeping, current_process, file, req, executed>>

FreeRequest ==
  /\ ThreadGoto("destroy", "lock")
  /\ file' = Release(req)
  /\ req' = NoItem
  /\ UNCHANGED <<queue, mutex, stopped, sleeping, current_process, executed, process>>
----------------------------------------------------------------------------
MainStep == Request \/ Stop \/ WaitForProcess \/ Join \/ Destroy

ThreadStep ==
  \/ Lock \/ Sleep \/ WakeUp \/ ExitStopped \/ Fork \/ Execute \/ CheckSuccess \/ FreeRequest

Over == mainPc = "ended"

Next ==
  \/ MainStep \/ ThreadStep
  \/ DropFile \/ Quit \/ SpuriousWakeUp
  \/ \E r \in Items : ChildExecs(r) \/ ChildFails(r) \/ ProcessExits(r)
  \/ Over /\ UNCHANGED vars

Spec == Init /\ [][Next]_vars

\* The threads run when they can, and get a mutex that is unlocked again and again;
\* the child of a fork has no loop; a process that was sent a SIGTERM exits.  A
\* process may run for ever otherwise.
Fairness ==
  /\ SF_vars(MainStep) /\ WF_vars(ThreadStep)
  /\ \A r \in Items : WF_vars(ChildExecs(r) \/ ChildFails(r))
  /\ \A r \in Items : WF_vars(r \in killed /\ ProcessExits(r))

FairSpec == Spec /\ Fairness

----------------------------------------------------------------------------
\* The requests that were queued are executed in the order of the drops, each once.
ExecutedInOrder == executed \o Contents(queue) = accepted \/ Over

\* file_handler.hpp:48, for the requests that were queued: the file is freed, once, and
\* not before its process has ended.
QueuedFilesFreed ==
  /\ \A r \in Items : file[r] # "corrupt"
  /\ \A r \in Items : process[r] \in {"forked", "running", "exited"} => file[r] = "live"
  /\ Over => \A r \in Range(accepted) : file[r] = "freed"

\* A pid outlives its process only until the thread locks the mutex again: Stop can
\* terminate the process of the request in hand, and no older one.
PidIsCurrent ==
  current_process # None =>
    \/ current_process = req
    \/ threadPc = "lock" /\ current_process = executed[Len(executed)]

\* When the program ends no process was left running, nor unwaited for, except the
\* children that could not run adb.
NoProcessLeft == Over => \A r \in Items : process[r] \in {"none", "failed", "reaped"}

\* Nothing is left behind: no name of a file, and no process.
NothingLeft == QueuedFilesFreed /\ NoProcessLeft

\* The handler can be stopped whatever its process does, which it may do for ever.
StopTerminates == mainPc = "stop" ~> Over

=============================================================================
