--------------------------- MODULE ControlMessage ---------------------------
(***************************************************************************)
(* A control message as bytes (ControlMessage::Serialize, buffer_util.hpp, *)
(* utf8_truncation_index), and how the server on the device takes one from *)
(* the front of what it has received.                                      *)
(*                                                                         *)
(* A text is a sequence of bytes in UTF-8; a pressure is a multiple of     *)
(* 2^-16.                                                                  *)
(***************************************************************************)
EXTENDS Integers, Sequences, FiniteSetsExt

CONSTANTS
  InjectMax,      \* CONTROL_MSG_TEXT_MAX_LENGTH: 300 in the code
  ClipboardMax    \* CONTROL_MSG_CLIPBOARD_TEXT_MAX_LENGTH: 4093

\* Numbers of 8 and of 16 bits.
Unsigned8 == {value \in Nat : value < 256}
Unsigned16 == {value \in Nat : value < 256 * 256}
Unsigned16Max == 256 * 256 - 1

ASSUME ControlMessageAssumption == {InjectMax, ClipboardMax} \subseteq Unsigned16

\* The types, in the order of the enumeration.
INJECT_KEYCODE == 0
INJECT_TEXT == 1
INJECT_TOUCH_EVENT == 2
INJECT_SCROLL_EVENT == 3
BACK_OR_SCREEN_ON == 4
EXPAND_NOTIFICATION_PANEL == 5
COLLAPSE_NOTIFICATION_PANEL == 6
GET_CLIPBOARD == 7
SET_CLIPBOARD == 8
SET_SCREEN_POWER_MODE == 9
ROTATE_DEVICE == 10

\* A number without its last byte, and that byte.  Division rounds down, so
\* that negative numbers appear in two's complement.
High(value) == value \div 256
Low(value) == value % 256

Write16(value) == <<Low(High(value)), Low(value)>>
Write32(value) == Write16(High(High(value))) \o Write16(value)
Write64(value) == Write32(High(High(High(High(value))))) \o Write32(value)

\* Not the first byte of a character.
Continues(byte) == 128 <= byte /\ byte < 192

BugTruncationIndex(utf8, max) ==   \* a bug: characters are cut in two
  IF Len(utf8) <= max THEN Len(utf8) ELSE max

\* The loop goes back from max to where a character starts.
TruncationIndex(utf8, max) ==
  IF Len(utf8) <= max THEN Len(utf8)
  ELSE Max({n \in 0..max : ~Continues(utf8[n + 1])})

WriteString(utf8, max) ==
  LET length == TruncationIndex(utf8, max) IN Write16(length) \o SubSeq(utf8, 1, length)

WritePosition(p) == Write32(p.x) \o Write32(p.y) \o Write16(p.width) \o Write16(p.height)

\* 1.0 would be 2^16, which 16 bits do not hold.
ToFixedPoint16(pressure) == IF pressure >= Unsigned16Max THEN Unsigned16Max ELSE pressure

Payload(msg) ==
  CASE msg.type = INJECT_KEYCODE ->
         <<msg.action>> \o Write32(msg.keycode) \o Write32(msg.metastate)
    [] msg.type = INJECT_TEXT -> WriteString(msg.text, InjectMax)
    [] msg.type = INJECT_TOUCH_EVENT ->
         <<msg.action>> \o Write64(msg.pointer_id) \o WritePosition(msg.position)
         \o Write16(ToFixedPoint16(msg.pressure)) \o Write32(msg.buttons)
    [] msg.type = INJECT_SCROLL_EVENT ->
         WritePosition(msg.position) \o Write32(msg.hscroll) \o Write32(msg.vscroll)
    [] msg.type = SET_CLIPBOARD -> WriteString(msg.text, ClipboardMax)
    [] msg.type = SET_SCREEN_POWER_MODE -> <<msg.mode>>
    [] OTHER -> <<>>

Serialize(msg) == <<msg.type>> \o Payload(msg)

----------------------------------------------------------------------------
(* The messages the program makes.                                         *)

\* How many bytes a character has that starts with this one.
Width(byte) ==
  IF byte < 192 THEN 1 ELSE IF byte < 224 THEN 2 ELSE IF byte < 240 THEN 3 ELSE 4

\* Whole characters: what a first byte promises follows it, and nothing else
\* is there.  No text of C has a byte 0.
IsText(bytes) ==
  /\ bytes \in Seq(Unsigned8 \ {0})
  /\ \A i \in 1..Len(bytes) :
       IF Continues(bytes[i])
       THEN \E k \in 1..3 : k < i /\ ~Continues(bytes[i - k]) /\ k < Width(bytes[i - k])
       ELSE \A k \in 1..3 : k < Width(bytes[i]) => i + k <= Len(bytes) /\ Continues(bytes[i + k])

\* Numbers of 32 and of 64 bits with a sign: their first byte has it.
Signed8 == {value \in Int : -128 <= value /\ value < 128}
Signed32 == {value \in Int : High(High(High(value))) \in Signed8}
Signed64 == {value \in Int : High(High(High(High(High(High(High(value))))))) \in Signed8}

Positions == [x : Signed32, y : Signed32, width : Unsigned16, height : Unsigned16]

KeycodeMessages ==
  [type : {INJECT_KEYCODE}, action : Unsigned8, keycode : Signed32, metastate : Signed32]
TouchMessages ==
  [type : {INJECT_TOUCH_EVENT}, action : Unsigned8, pointer_id : Signed64, position : Positions,
   pressure : {value \in Nat : value <= 256 * 256}, buttons : Signed32]
ScrollMessages ==
  [type : {INJECT_SCROLL_EVENT}, position : Positions, hscroll : Signed32, vscroll : Signed32]
PowerMessages == [type : {SET_SCREEN_POWER_MODE}, mode : Unsigned8]
PlainMessages ==
  [type : {BACK_OR_SCREEN_ON, EXPAND_NOTIFICATION_PANEL, COLLAPSE_NOTIFICATION_PANEL,
           GET_CLIPBOARD, ROTATE_DEVICE}]
TextMessages ==
  [type : {INJECT_TEXT, SET_CLIPBOARD}, text : {bytes \in Seq(Unsigned8) : IsText(bytes)}]

ControlMessages ==
  KeycodeMessages \cup TouchMessages \cup ScrollMessages \cup PowerMessages \cup PlainMessages
  \cup TextMessages

----------------------------------------------------------------------------
(* The device: the fields in their order, numbers with the highest byte    *)
(* first, and a text behind its length in two bytes.                       *)

Sign(byte) == IF byte >= 128 THEN byte - 256 ELSE byte

\* The number in the bytes after the first `at`: two bytes without a sign, four
\* or eight with one.
ReadUnsigned16(bytes, at) == bytes[at + 1] * 256 + bytes[at + 2]
Read32(bytes, at) ==
  ((Sign(bytes[at + 1]) * 256 + bytes[at + 2]) * 256 + bytes[at + 3]) * 256 + bytes[at + 4]
Read64(bytes, at) ==
  (((Read32(bytes, at) * 256 + bytes[at + 5]) * 256 + bytes[at + 6]) * 256 + bytes[at + 7]) * 256
  + bytes[at + 8]

ReadPosition(bytes, at) ==
  [x |-> Read32(bytes, at), y |-> Read32(bytes, at + 4),
   width |-> ReadUnsigned16(bytes, at + 8), height |-> ReadUnsigned16(bytes, at + 10)]

\* How many bytes the message at the front takes.
Length(bytes) ==
  CASE bytes[1] = INJECT_KEYCODE -> 10
    [] bytes[1] \in {INJECT_TEXT, SET_CLIPBOARD} -> 3 + ReadUnsigned16(bytes, 1)
    [] bytes[1] = INJECT_TOUCH_EVENT -> 28
    [] bytes[1] = INJECT_SCROLL_EVENT -> 21
    [] bytes[1] = SET_SCREEN_POWER_MODE -> 2
    [] OTHER -> 1

Parse(bytes) ==
  CASE bytes[1] = INJECT_KEYCODE ->
         [type |-> bytes[1], action |-> bytes[2], keycode |-> Read32(bytes, 2),
          metastate |-> Read32(bytes, 6)]
    [] bytes[1] \in {INJECT_TEXT, SET_CLIPBOARD} ->
         [type |-> bytes[1], text |-> SubSeq(bytes, 4, Length(bytes))]
    [] bytes[1] = INJECT_TOUCH_EVENT ->
         [type |-> bytes[1], action |-> bytes[2], pointer_id |-> Read64(bytes, 2),
          position |-> ReadPosition(bytes, 10), pressure |-> ReadUnsigned16(bytes, 22),
          buttons |-> Read32(bytes, 24)]
    [] bytes[1] = INJECT_SCROLL_EVENT ->
         [type |-> bytes[1], position |-> ReadPosition(bytes, 1), hscroll |-> Read32(bytes, 13),
          vscroll |-> Read32(bytes, 17)]
    [] bytes[1] = SET_SCREEN_POWER_MODE -> [type |-> bytes[1], mode |-> bytes[2]]
    [] OTHER -> [type |-> bytes[1]]
=============================================================================
