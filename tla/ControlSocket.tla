---------------------------- MODULE ControlSocket ----------------------------
(***************************************************************************)
(* The control socket, both ways: the messages the controller sends and    *)
(* what the device makes of them (ControlMessage), the texts it sends back *)
(* (Receiver), and the two clipboards that they carry to each other (the   *)
(* shortcuts of input_manager.cpp).                                        *)
(***************************************************************************)
EXTENDS Receiver, ControlMessage

CONSTANTS
  Inputs,        \* bound: the messages the user's other inputs make
  UserTexts,     \* bound: the texts a user copies
  MaxPushed,     \* bound: how many messages are pushed
  MaxCopies      \* bound: how often a clipboard is filled by its user

\* In the code both limits of a clipboard are the same.
ASSUME ControlSocketAssumption ==
  /\ ClipboardMax = TextMax
  /\ Inputs \subseteq ControlMessages
  /\ \A text \in UserTexts : IsText(text)
  /\ {MaxPushed, MaxCopies} \subseteq Nat

VARIABLES
  clipboard,         \* the computer's
  device_clipboard,
  outgoing,          \* bytes sent and not yet read by the device
  pushed,            \* history: the messages
  executed,          \* history: what the device read
  copies

clipboards == <<clipboard, device_clipboard, copies>>
outVars == <<outgoing, pushed, executed>>
socketVars == <<receiverVars, clipboards, outVars>>

NoText == <<>>

SocketInit ==
  /\ ReceiverInit
  /\ clipboard = NoText
  /\ device_clipboard = NoText
  /\ outgoing = <<>>
  /\ pushed = <<>>
  /\ executed = <<>>
  /\ copies = 0

\* The message is queued, serialised and sent (Controller).
ProcessMessage(msg) ==
  /\ Len(pushed) < MaxPushed
  /\ pushed' = Append(pushed, msg)
  /\ outgoing' = outgoing \o Serialize(msg)
  /\ UNCHANGED <<receiverVars, clipboards, executed>>

SendInput == \E msg \in Inputs : ProcessMessage(msg)

RequestDeviceClipboard == ProcessMessage([type |-> GET_CLIPBOARD])

\* An empty clipboard is not sent.
SetDeviceClipboard ==
  clipboard # NoText /\ ProcessMessage([type |-> SET_CLIPBOARD, text |-> clipboard])

PasteClipboard ==
  clipboard # NoText /\ ProcessMessage([type |-> INJECT_TEXT, text |-> clipboard])

UserCopies ==
  /\ copies < MaxCopies
  /\ copies' = copies + 1
  /\ \E text \in UserTexts :
       \/ clipboard' = text /\ UNCHANGED device_clipboard
       \/ device_clipboard' = text /\ UNCHANGED clipboard
  /\ UNCHANGED <<receiverVars, outVars>>

\* The longest beginning of a text that has whole characters and fits.
Cut(text, max) ==
  LET fits == {n \in 0..Len(text) : n <= max /\ IsText(SubSeq(text, 1, n))}
  IN SubSeq(text, 1, Max(fits))

\* The device reads a message, and answers if it was asked for its clipboard.
DeviceReads ==
  /\ outgoing # <<>>
  /\ LET msg == Parse(outgoing) IN
     /\ executed' = Append(executed, msg)
     /\ outgoing' = SubSeq(outgoing, Length(outgoing) + 1, Len(outgoing))
     /\ device_clipboard' = IF msg.type = SET_CLIPBOARD THEN msg.text ELSE device_clipboard
     /\ IF msg.type = GET_CLIPBOARD /\ ~closed
        THEN DeviceSends(Cut(device_clipboard, TextMax)) ELSE UNCHANGED receiverVars
  /\ UNCHANGED <<clipboard, copies, pushed>>

\* What a clipboard holds that is given some bytes: SDL takes a text in UTF-8;
\* what it makes of another depends on the platform.
Clipboards(bytes) == IF IsText(bytes) THEN {bytes} ELSE UserTexts \cup {clipboard}

\* The receiver puts each text into the clipboard.
ReceiverRuns ==
  /\ Receiving
  /\ IF copied' # copied
     THEN clipboard' \in Clipboards(copied'[Len(copied')])
     ELSE UNCHANGED clipboard
  /\ UNCHANGED <<device_clipboard, copies, outVars>>

Finished == pc = "stopped" /\ UNCHANGED socketVars

SocketNext ==
  \/ SendInput \/ RequestDeviceClipboard \/ SetDeviceClipboard \/ PasteClipboard
  \/ UserCopies \/ DeviceReads \/ ReceiverRuns
  \/ Finished

SocketSpec == SocketInit /\ [][SocketNext]_socketVars
----------------------------------------------------------------------------
\* What the device must read for a message: the same, except that a text is cut
\* in front of the first character that does not fit, and that a pressure of 1 is
\* the greatest of 16 bits.
Expected(msg) ==
  CASE msg.type = INJECT_TEXT   -> [msg EXCEPT !.text = Cut(@, InjectMax)]
    [] msg.type = SET_CLIPBOARD -> [msg EXCEPT !.text = Cut(@, ClipboardMax)]
    [] msg.type = INJECT_TOUCH_EVENT /\ msg.pressure > Unsigned16Max ->
         [msg EXCEPT !.pressure = Unsigned16Max]
    [] OTHER -> msg

\* The device reads the messages that were pushed, in their order: the stream
\* has no marks, so that one wrong length would shift all that follows; numbers
\* keep their sign and no character is cut in two, wherever the texts of the
\* clipboards came from (control_msg.cpp:24-74, 374-396, str_util.cpp:125-138).
DeviceReadsWhatWasPushed ==
  executed = [i \in DOMAIN executed |-> Expected(pushed[i])]
=============================================================================
