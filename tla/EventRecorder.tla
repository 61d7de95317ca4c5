---------------------------- MODULE EventRecorder ----------------------------
(***************************************************************************)
(* The recording of the user's inputs in events.json: StartRecordEvents,   *)
(* StopRecordEvents and PushDeviceControlMessage of agent_manager.cpp.     *)
(* The main thread calls them, and the agent controller's thread the first *)
(* two.  fp_events is shared without a lock, so that a step is what a      *)
(* thread does with one access to it.                                      *)
(*                                                                         *)
(* Each opening of the file has a number; 0 is nullptr.  They all open the *)
(* same path, for writing, so that each truncates what was there; what is  *)
(* written through one arrives when it is closed, or when the program      *)
(* exits (a full buffer only does earlier what the close would do).  Only  *)
(* the last one is ever written through or closed.                         *)
(***************************************************************************)
EXTENDS JsonMessage, Sequences

CONSTANTS MaxFiles    \* bound: how many times the file is opened

ASSUME EventRecorderAssumption == MaxFiles \in Nat

Threads == {"main", "agent"}
Files == 1..MaxFiles
NoFile == 0

VARIABLES
  fp_events,
  opened,     \* how many times the file was opened
  closed,     \* the numbers of the openings that were closed
  written,    \* what was written through each
  disk,       \* what is in the file
  doing,      \* the next step of each thread in one of the three functions
  pushing,    \* the message of PushDeviceControlMessage
  crashed,    \* the program has ended in an exception or a bad access
  raced,      \* history: a thread began while the other was at it
  noFile,     \* history: the file could not be opened
  misused,    \* history: the end of a recording was asked for when there was none
  inputs      \* history: the messages that were pushed while a file was recorded

fileVars == <<fp_events, opened, closed, written>>
recorderHistory == <<raced, noFile, misused, inputs>>
recorderVars == <<fileVars, disk, doing, pushing, crashed, recorderHistory>>

Start == [json |-> "start"]    \* "["
End == [json |-> "end"]        \* an object of an unknown type, and "]"

RecorderInit ==
  /\ fp_events = NoFile
  /\ opened = 0
  /\ closed = {}
  /\ written = [f \in Files |-> <<>>]
  /\ disk = <<>>
  /\ doing = [t \in Threads |-> "idle"]
  /\ pushing = NoBody
  /\ crashed = FALSE
  /\ raced = FALSE
  /\ noFile = FALSE
  /\ misused = FALSE
  /\ inputs = [f \in Files |-> <<>>]

\* A thread enters one of the functions, at a given step.
Begin(t, step) ==
  /\ doing[t] = "idle"
  /\ doing' = [doing EXCEPT ![t] = step]
  /\ raced' = (raced \/ \E u \in Threads \ {t} : doing[u] # "idle")

StartRecordEvents(t) ==
  /\ Begin(t, "open")
  /\ UNCHANGED <<fileVars, disk, pushing, crashed, noFile, misused, inputs>>

StopRecordEvents(t) ==
  /\ Begin(t, "write end")
  /\ misused' = (misused \/ fp_events = NoFile)
  /\ UNCHANGED <<fileVars, disk, pushing, crashed, noFile, inputs>>

\* Ctrl+e tests fp_events.
ToggleRecording ==
  IF fp_events = NoFile THEN StartRecordEvents("main") ELSE StopRecordEvents("main")

BugPushInput(msg) ==   \* a bug: a message without a body is not recorded
  IF fp_events = NoFile \/ msg.type \notin WithBody
  THEN /\ doing["main"] = "idle"
       /\ inputs' = [f \in Files |-> IF f = fp_events THEN Append(inputs[f], msg) ELSE inputs[f]]
       /\ UNCHANGED <<fileVars, disk, doing, pushing, crashed, raced, noFile, misused>>
  ELSE /\ Begin("main", "write event")
       /\ pushing' = msg
       /\ inputs' = [inputs EXCEPT ![fp_events] = Append(@, msg)]
       /\ UNCHANGED <<fileVars, disk, crashed, noFile, misused>>

\* PushDeviceControlMessage tests fp_events and writes to it afterwards.  The
\* push to the controller that follows is Controller's.
PushInput(msg) ==
  IF fp_events = NoFile
  THEN doing["main"] = "idle" /\ UNCHANGED recorderVars
  ELSE /\ Begin("main", "write event")
       /\ pushing' = msg
       /\ inputs' = [inputs EXCEPT ![fp_events] = Append(@, msg)]
       /\ UNCHANGED <<fileVars, disk, crashed, noFile, misused>>

Goes(t, from, to) == doing[t] = from /\ doing' = [doing EXCEPT ![t] = to]

\* SDL_RWFromFile with "w", which truncates the file.  An opening that was not
\* closed stays so, and nobody will close it.
OpenFile(t) ==
  /\ Goes(t, "open", "write start")
  /\ \/ /\ opened < MaxFiles
        /\ opened' = opened + 1 /\ fp_events' = opened' /\ disk' = <<>>
        /\ UNCHANGED noFile
     \/ fp_events' = NoFile /\ noFile' = TRUE /\ UNCHANGED <<opened, disk>>
  /\ UNCHANGED <<closed, written, pushing, crashed, raced, misused, inputs>>

\* SDL_RWwrite and SDL_RWclose through a null pointer crash; once the file is
\* closed they are undefined: they crash, or do nothing.
Access(effect, none) ==
  \/ fp_events \in Files \ closed /\ effect /\ UNCHANGED crashed
  \/ fp_events \notin Files \ closed /\ crashed' = TRUE /\ none
  \/ fp_events \in closed /\ none /\ UNCHANGED crashed

Write(t, from, to, what) ==
  /\ Goes(t, from, to)
  /\ Access(written' = [written EXCEPT ![fp_events] = Append(@, what)], UNCHANGED written)
  /\ UNCHANGED <<fp_events, opened, closed, disk, pushing, recorderHistory>>

WriteStart(t) == Write(t, "write start", "idle", Start)
WriteEnd(t) == Write(t, "write end", "close", End)
WriteEvent == Write("main", "write event", "idle", JsonSerialize(pushing))

\* JsonSerialize overwrites its stack with a text that is too long, and may end there.
OverflowTemp ==
  /\ doing["main"] = "write event" /\ pushing = Text(TooLong)
  /\ crashed' = TRUE
  /\ UNCHANGED <<fileVars, disk, doing, pushing, recorderHistory>>

CloseFile(t) ==
  /\ Goes(t, "close", "clear")
  /\ Access(closed' = closed \cup {fp_events} /\ disk' = written[fp_events], UNCHANGED <<closed, disk>>)
  /\ UNCHANGED <<fp_events, opened, written, pushing, recorderHistory>>

BugClearFile(t) ==   \* a bug: fp_events keeps the pointer to the closed file
  /\ Goes(t, "clear", "idle")
  /\ UNCHANGED <<fileVars, disk, pushing, crashed, recorderHistory>>

ClearFile(t) ==
  /\ Goes(t, "clear", "idle")
  /\ fp_events' = NoFile
  /\ UNCHANGED <<opened, closed, written, disk, pushing, crashed, recorderHistory>>

RecorderStep(t) ==
  \/ OpenFile(t) \/ WriteStart(t) \/ WriteEnd(t) \/ CloseFile(t) \/ ClearFile(t)
  \/ t = "main" /\ (WriteEvent \/ OverflowTemp)

\* The openings that nobody can close any more.
Lost == {f \in 1..opened : f \notin closed /\ f # fp_events}

Mixed == <<[json |-> "mixed"]>>

\* What was not closed is written at the exit, each from the place in the file where it
\* had got to.
FlushFiles ==
  LET unclosed == (1..opened) \ closed IN
  /\ disk' \in IF unclosed = {} THEN {disk}
               ELSE {written[opened]} \cup (IF unclosed = {opened} THEN {} ELSE {Mixed})
  /\ UNCHANGED <<fileVars, doing, pushing, crashed, recorderHistory>>
----------------------------------------------------------------------------
\* Once a recording has ended, events.json holds the messages that were pushed since
\* the last start, all of them and in their order, between the two ends
\* (agent_manager.cpp:86-103, 252-259), also after the program has exited: as long as
\* the two threads did not use the pointer at the same time and no recording was
\* begun while another one was on, neither of which anything prevents.  What was
\* recorded before the last start is gone.
RecordingWellFormed ==
  ~raced /\ Lost = {} /\ opened \in closed =>
    disk = <<Start>> \o [i \in DOMAIN inputs[opened] |-> JsonSerialize(inputs[opened][i])] \o <<End>>
=============================================================================
