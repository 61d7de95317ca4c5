----------------------------- MODULE JsonMessage -----------------------------
(***************************************************************************)
(* Control messages as JSON: what AgentManager writes into events.json and *)
(* what AgentController makes of a document that an agent sends            *)
(* (message/control_msg.cpp:76-357).                                       *)
(*                                                                         *)
(* A document is a record: either it is no JSON, or JSON that is no        *)
(* object, or it has a msg_type (perhaps none) and a body.  Names, times   *)
(* and layout are left out.                                                *)
(*                                                                         *)
(* A pressure is a float, written with six decimals.  It is counted in a   *)
(* unit that divides both the distance of the floats from one half to one, *)
(* 2^-24 (smaller ones are closer), and the distance of the decimals.      *)
(***************************************************************************)
EXTENDS Integers

CONSTANTS
  IntModulus,    \* 2^32 in the code: what an int can tell apart
  FloatStep,     \* 15625 in the code: the distance of two floats
  DecimalStep    \* 262144 in the code: 0.000001

ASSUME JsonAssumption ==
  /\ IntModulus \in Nat \ {0} /\ IntModulus % 2 = 0
  /\ {FloatStep, DecimalStep} \subseteq Nat \ {0} /\ FloatStep < DecimalStep

One == 64 * FloatStep * DecimalStep   \* 2^24 floats, 10^6 decimals

\* The multiple of a step that is nearest to a value, the even one of two.
Nearest(value, step) ==
  LET n == value \div step
      rest == 2 * (value % step) IN
  step * (IF rest < step \/ (rest = step /\ n % 2 = 0) THEN n ELSE n + 1)

\* Messages.  A text has a character that JSON wants escaped, or does not fit into
\* temp[256] with its name (control_msg.cpp:78, 118), or neither.
Keycode(action) == [type |-> "INJECT_KEYCODE", action |-> action]
Text(text) == [type |-> "INJECT_TEXT", text |-> text]
Touch(pointer, pressure) ==
  [type |-> "INJECT_TOUCH_EVENT", pointer_id |-> pointer, pressure |-> pressure]
Scroll(amount) == [type |-> "INJECT_SCROLL_EVENT", vscroll |-> amount]
Plain(type) == [type |-> type]

Quoted == "quoted"
TooLong == "overlong"
NullText == "null"
POINTER_ID_MOUSE == -1

\* Documents.  A body is partial that lacks a field, or has one of another type.
Garbage == [json |-> "no"]
Undefined == [json |-> "undefined"]   \* whatever a text that overflows temp leaves
Array == [json |-> "array"]
Object(type, body) == [json |-> "object", msg_type |-> type, body |-> body]
NoBody == [type |-> "none"]
Partial == [type |-> "partial"]
Absent == "absent"

\* The types with a case in JsonSerialize; the first four have a body.
WithBody == {"INJECT_KEYCODE", "INJECT_TEXT", "INJECT_TOUCH_EVENT", "INJECT_SCROLL_EVENT"}
WithCase == WithBody \cup {"EXPAND_NOTIFICATION_PANEL", "COLLAPSE_NOTIFICATION_PANEL", "ROTATE_DEVICE"}

\* A text is written without escapes, a pressure with "%f".  For the other types
\* the object ends after its event_time and a comma, which is no JSON either.
JsonSerialize(msg) ==
  CASE msg.type \notin WithCase \/ msg = Text(Quoted) -> Garbage
    [] msg = Text(TooLong) -> Undefined
    [] msg.type = "INJECT_TOUCH_EVENT" ->
         Object(msg.type, [msg EXCEPT !.pressure = Nearest(@, DecimalStep)])
    [] msg.type \in WithBody \ {"INJECT_TOUCH_EVENT"} /\ msg \notin {Text(Quoted), Text(TooLong)} ->
         Object(msg.type, msg)
    [] msg.type \in WithCase \ WithBody -> Object(msg.type, NoBody)

BugNarrow(value) == value % IntModulus   \* a bug: by way of an unsigned int

\* "(int) touch_event["pointer"]", stored in 64 bits.
Narrow(value) ==
  LET low == value % IntModulus IN IF low < IntModulus \div 2 THEN low ELSE low - IntModulus

\* The types that JsonDeserialize knows.
Known == WithCase \cup {"BACK_OR_SCREEN_ON", "GET_CLIPBOARD", "SET_CLIPBOARD",
                        "SET_SCREEN_POWER_MODE", "START_RECORDING", "END_RECORDING"}

Nothing == [type |-> "nothing"]   \* 0 is returned: there is no message
Thrown == [type |-> "thrown"]     \* the JSON library throws, and nobody catches

\* A field that is missing throws, except that inject_text is looked for first
\* and leaves a null pointer when there is none.
JsonDeserialize(doc) ==
  CASE doc.json \in {"no", "undefined"} -> Nothing
    [] doc.json = "array" -> Thrown
    [] doc.json = "object" ->
       LET type == doc.msg_type
           body == doc.body IN
       CASE type = Absent -> Thrown
         [] type \notin Known \cup {Absent} -> Nothing
         [] type \in Known \ WithBody -> Plain(type)
         [] type = "INJECT_TEXT" /\ body = NoBody -> Text(NullText)
         [] type \in WithBody /\ body \in {NoBody, Partial} /\ ~(type = "INJECT_TEXT" /\ body = NoBody) ->
              Thrown
         [] type = "INJECT_TOUCH_EVENT" /\ body \notin {NoBody, Partial} ->
              Touch(Narrow(body.pointer_id), Nearest(body.pressure, FloatStep))
         [] type \in WithBody \ {"INJECT_TOUCH_EVENT"} /\ body \notin {NoBody, Partial} -> body

\* The messages that survive a recording; of the pressures, those that six decimals
\* name.
Replayable(msg) ==
  /\ msg.type \in WithCase
  /\ msg \notin {Text(Quoted), Text(TooLong)}
  /\ msg.type = "INJECT_TOUCH_EVENT" =>
       /\ msg.pointer_id \in -(IntModulus \div 2)..(IntModulus \div 2 - 1)
       /\ \E n \in Int : msg.pressure = Nearest(n * DecimalStep, FloatStep)
=============================================================================
