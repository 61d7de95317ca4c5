------------------------------ MODULE Receiver ------------------------------
(***************************************************************************)
(* The thread that receives the device's messages (android/receiver.cpp,   *)
(* message/device_msg.cpp): TCP delivers the bytes in segments that ignore *)
(* where a message ends; the thread takes the messages out of its buffer.  *)
(*                                                                         *)
(* A byte is a natural number; the only type of message is 0, CLIPBOARD,   *)
(* with a text behind a length of two bytes.  What makes the device send   *)
(* one, and what becomes of the texts, is in ControlSocket.                *)
(***************************************************************************)
EXTENDS Integers, Sequences

CONSTANT TextMax    \* DEVICE_MSG_TEXT_MAX_LENGTH: 4093 in the code

\* A message fits into a buffer whose size has 16 bits.
ASSUME ReceiverAssumption == TextMax \in Nat /\ 3 + TextMax < 256 * 256

BufSize == 3 + TextMax    \* DEVICE_MSG_SERIALIZED_MAX_SIZE

VARIABLES
  pc,        \* "receive", "process", "stopped"
  head,      \* RunReceiver's local
  buffer,    \* what recv wrote last; empty when ProcessMessages has returned
  at,        \* ProcessMessages' local head
  copied,    \* the texts copied to the clipboard, in order
  incoming,  \* bytes of the stream not received yet
  closed,    \* the socket is shut down
  sent,      \* the texts the device has sent
  ends,      \* history: how long the stream was before them and after each
  whole      \* history: every segment so far ended where a message ends

streamVars == <<sent, ends, closed>>
receiverVars == <<pc, head, buffer, at, copied, incoming, streamVars, whole>>

CLIPBOARD == 0

\* What the device writes for a text.
DeviceBytes(text) == <<CLIPBOARD, Len(text) \div 256, Len(text) % 256>> \o text

StreamLength == ends[Len(ends)]

ReceiverInit ==
  /\ pc = "receive"
  /\ head = 0
  /\ buffer = <<>> /\ at = 0
  /\ copied = <<>>
  /\ sent = <<>> /\ ends = <<0>>
  /\ incoming = <<>>
  /\ closed = FALSE
  /\ whole = TRUE

\* The device sends a text.
DeviceSends(text) ==
  /\ ~closed
  /\ sent' = Append(sent, text)
  /\ ends' = Append(ends, StreamLength + Len(DeviceBytes(text)))
  /\ incoming' = incoming \o DeviceBytes(text)
  /\ UNCHANGED <<pc, head, buffer, at, copied, closed, whole>>

\* The bytes received so far end where a message ends.
AtBoundary(bytes) == \E i \in 1..Len(ends) : bytes = ends[i]

\* recv writes at the start of the buffer, not at head, and ProcessMessages
\* gets only what it has just written.
Receive ==
  /\ pc = "receive"
  /\ \E n \in 1..(BufSize - head) :
       /\ n <= Len(incoming)
       /\ buffer' = SubSeq(incoming, 1, n)
       /\ incoming' = SubSeq(incoming, n + 1, Len(incoming))
  /\ at' = 0
  /\ pc' = "process"
  /\ whole' = (whole /\ AtBoundary(StreamLength - Len(incoming')))
  /\ UNCHANGED <<head, copied, streamVars>>

\* DeviceMessage::Deserialize: what is found at some place of the buffer.
Complete(bytes) ==
  /\ Len(bytes) >= 3 /\ bytes[1] = CLIPBOARD
  /\ bytes[2] * 256 + bytes[3] <= Len(bytes) - 3

UnknownType(bytes) == Len(bytes) >= 3 /\ bytes[1] # CLIPBOARD

BugMessageLength(bytes) == bytes[2] * 256 + bytes[3]   \* a bug: the header is not counted

\* How many bytes a complete message takes.
MessageLength(bytes) == 3 + bytes[2] * 256 + bytes[3]

Rest == SubSeq(buffer, at + 1, Len(buffer))

BugNewHead(received, consumed) == received   \* a bug: what was consumed is counted

\* What is left over is moved to the front of the buffer, and head tells how
\* much that is: an "if (consumed)" keeps the old head when nothing was read.
NewHead(received, consumed) == IF consumed # 0 THEN received - consumed ELSE head

\* ProcessMessages returns how many bytes it has consumed.
ReturnConsumed(consumed) ==
  /\ pc' = "receive"
  /\ head' = NewHead(Len(buffer), consumed)
  /\ buffer' = <<>>
  /\ at' = 0

\* One turn of ProcessMessages' loop: a text is taken,
TakeText ==
  /\ pc = "process"
  /\ Complete(Rest)
  /\ LET next == at + MessageLength(Rest) IN
     /\ copied' = Append(copied, SubSeq(buffer, at + 4, next))
     /\ IF next = Len(buffer)
        THEN ReturnConsumed(next)
        ELSE at' = next /\ UNCHANGED <<pc, head, buffer>>
  /\ UNCHANGED <<incoming, streamVars, whole>>

\* or the message is not complete,
AwaitMore ==
  /\ pc = "process"
  /\ ~Complete(Rest) /\ ~UnknownType(Rest)
  /\ ReturnConsumed(at)
  /\ UNCHANGED <<copied, incoming, streamVars, whole>>

\* or its type is unknown, or there is no memory for its text: the thread ends.
GiveUp ==
  /\ pc = "process"
  /\ Complete(Rest) \/ UnknownType(Rest)
  /\ pc' = "stopped"
  /\ UNCHANGED <<head, buffer, at, copied, incoming, streamVars, whole>>

\* The device, or DeviceServer::Stop, closes the connection.
Close ==
  /\ ~closed
  /\ closed' = TRUE
  /\ UNCHANGED <<pc, head, buffer, at, copied, incoming, sent, ends, whole>>

\* recv returns 0 or -1.
StopReceiving ==
  /\ pc = "receive" /\ closed
  /\ pc' = "stopped"
  /\ UNCHANGED <<head, buffer, at, copied, incoming, streamVars, whole>>

Receiving == Receive \/ TakeText \/ AwaitMore \/ GiveUp \/ Close \/ StopReceiving
----------------------------------------------------------------------------
\* The assertion before recv (receiver.cpp:75): there is always room in the
\* buffer, although head survives the turns in which nothing is consumed.
RoomInBuffer == head < BufSize

\* While no segment has ended inside a message, each text reaches the
\* clipboard once and in order, several messages in one segment included: what
\* has not been looked at yet is the stream behind the texts that were copied.
CopiedWhenWhole ==
  whole => \E n \in 0..Len(sent) :
             /\ copied = SubSeq(sent, 1, n)
             /\ ends[n + 1] + (Len(buffer) - at) + Len(incoming) = StreamLength
============================================================================
