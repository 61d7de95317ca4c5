------------------------- MODULE AgentControllerProofs -------------------------
(***************************************************************************)
(* The agent's control connection, for any number of clients, documents    *)
(* and recordings and every width of an int.  What a recording keeps:      *)
(* JsonDeserialize inverts JsonSerialize on the messages that Replayable   *)
(* describes, and on no others, and a pressure stays near.  What is in     *)
(* events.json, what ends the program, and what the device is told.        *)
(***************************************************************************)
EXTENDS AgentController, SequenceTheorems, TLAPS

Half == IntModulus \div 2

\* The values of an int.
Ints == -Half..(Half - 1)

LEMMA TwoHalves == Half \in Nat \ {0} /\ IntModulus = 2 * Half
BY JsonAssumption DEF Half

\* The remainder of a value that is less than a modulus away from zero.
LEMMA Remainder ==
  ASSUME NEW m \in Nat \ {0}, NEW n \in Int, -m <= n, n < m
  PROVE  n % m = IF n >= 0 THEN n ELSE n + m
<1>1. CASE n >= 0
  BY <1>1
<1>2. CASE n < 0
  <2>1. n = m * (-1) + (n + m) /\ n + m \in 0..(m - 1)
    BY <1>2
  <2>. QED BY <1>2, <2>1
<1>. QED BY <1>1, <1>2

\* An int survives the conversion.
LEMMA IntsStay ==
  ASSUME NEW value \in Ints
  PROVE  Narrow(value) = value
<1>1. /\ Half \in Nat \ {0} /\ IntModulus \in Nat \ {0} /\ IntModulus = 2 * Half
      /\ value \in Int /\ -Half <= value /\ value < Half
  BY TwoHalves DEF Ints
<1>2. value % IntModulus = IF value >= 0 THEN value ELSE value + IntModulus
  <2>1. -IntModulus <= value /\ value < IntModulus
    BY <1>1
  <2>. QED BY <1>1, <2>1, Remainder
<1>3. Narrow(value) = IF value % IntModulus < Half THEN value % IntModulus
                      ELSE (value % IntModulus) - IntModulus
  BY DEF Narrow, Half
<1>. QED BY <1>1, <1>2, <1>3

\* The result of the conversion is an int, so that no other value survives.
LEMMA NarrowIsInt ==
  ASSUME NEW value \in Int
  PROVE  Narrow(value) \in Ints
<1>. DEFINE low == value % IntModulus
<1>1. Half \in Nat \ {0} /\ IntModulus = 2 * Half /\ low \in 0..(IntModulus - 1)
  BY TwoHalves
<1>2. Narrow(value) = IF low < Half THEN low ELSE low - IntModulus
  BY DEF Narrow, Half
<1>. HIDE DEF low
<1>. QED BY <1>1, <1>2 DEF Ints

\* What a value is made of.
LEMMA Division ==
  ASSUME NEW value \in Int, NEW step \in Nat \ {0}
  PROVE  /\ value \div step \in Int /\ value % step \in 0..(step - 1)
         /\ value = step * (value \div step) + (value % step)
OBVIOUS

\* The nearest multiple of a step is a multiple, and near.
LEMMA NearestIsNear ==
  ASSUME NEW value \in Int, NEW step \in Nat \ {0}
  PROVE  \E n \in Int : /\ Nearest(value, step) = step * n
                        /\ 2 * (value - step * n) <= step
                        /\ 2 * (step * n - value) <= step
<1>. DEFINE q == value \div step
            m == value % step
<1>1. q \in Int /\ m \in 0..(step - 1) /\ value = step * q + m
  BY Division
<1>2. \/ Nearest(value, step) = step * q /\ 2 * m <= step
      \/ Nearest(value, step) = step * (q + 1) /\ 2 * m >= step
  <2>1. Nearest(value, step) =
          step * (IF 2 * m < step \/ (2 * m = step /\ q % 2 = 0) THEN q ELSE q + 1)
    BY Zenon DEF Nearest
  <2>. HIDE DEF q, m
  <2>. QED BY <1>1, <2>1
<1>. HIDE DEF q, m
<1>3. CASE Nearest(value, step) = step * q /\ 2 * m <= step
  BY <1>1, <1>3
<1>4. CASE Nearest(value, step) = step * (q + 1) /\ 2 * m >= step
  <2>1. step * (q + 1) = step * q + step /\ step * q \in Int /\ q + 1 \in Int
    BY <1>1
  <2>2. 2 * (value - step * (q + 1)) <= step /\ 2 * (step * (q + 1) - value) <= step
    BY <1>1, <1>4, <2>1
  <2>. QED BY <1>4, <2>1, <2>2
<1>. QED BY <1>2, <1>3, <1>4

\* Multiples that are less than a step apart are the same.
LEMMA MultiplesApart ==
  ASSUME NEW step \in Nat \ {0}, NEW m \in Int, NEW n \in Int,
         step * m - step * n < step, step * n - step * m < step
  PROVE  m = n
<1>1. step * m - step * n = step * (m - n) /\ m - n \in Int
  OBVIOUS
<1>2. ASSUME NEW d \in Int, d >= 1
      PROVE  step * d >= step
  <2>1. step * d = step + step * (d - 1) /\ d - 1 \in Nat
    BY <1>2
  <2>2. \A a, b \in Nat : a * b >= 0
    OBVIOUS
  <2>3. step * (d - 1) >= 0 /\ step * (d - 1) \in Int
    BY <2>1, <2>2
  <2>. QED BY <2>1, <2>3
<1>3. ~(m - n >= 1)
  BY <1>1, <1>2
<1>4. ~(n - m >= 1)
  <2>1. step * n - step * m = step * (n - m) /\ n - m \in Int
    OBVIOUS
  <2>. QED BY <1>2, <2>1
<1>. QED BY <1>3, <1>4

\* A multiple that is less than half a step away is the nearest.
LEMMA NearestIs ==
  ASSUME NEW value \in Int, NEW step \in Nat \ {0}, NEW n \in Int,
         2 * (value - step * n) < step, 2 * (step * n - value) < step
  PROVE  Nearest(value, step) = step * n
<1>1. PICK k \in Int : /\ Nearest(value, step) = step * k
                       /\ 2 * (value - step * k) <= step
                       /\ 2 * (step * k - value) <= step
  BY NearestIsNear
<1>2. step * k \in Int /\ step * n \in Int
  OBVIOUS
<1>3. step * k - step * n < step /\ step * n - step * k < step
  BY <1>1, <1>2
<1>4. k = n
  BY <1>3, MultiplesApart
<1>. QED BY <1>1, <1>4

\* What lies between zero and a multiple stays there.
LEMMA NearestStays ==
  ASSUME NEW step \in Nat \ {0}, NEW k \in Nat, NEW value \in 0..(step * k)
  PROVE  Nearest(value, step) \in 0..(step * k)
<1>0. step * k \in Nat /\ value \in Int
  OBVIOUS
<1>1. PICK n \in Int : /\ Nearest(value, step) = step * n
                       /\ 2 * (value - step * n) <= step
                       /\ 2 * (step * n - value) <= step
  BY <1>0, NearestIsNear
<1>2. step * n \in Int
  OBVIOUS
<1>3. step * n >= 0
  <2>1. CASE -step < step * n
    <3>1. CASE step * n < 0
      <4>1. step * 0 = 0
        OBVIOUS
      <4>2. n = 0
        BY <1>2, <2>1, <3>1, <4>1, MultiplesApart
      <4>. QED BY <3>1, <4>1, <4>2
    <3>. QED BY <1>2, <3>1
  <2>2. CASE step * n <= -step
    BY <1>0, <1>1, <1>2, <2>2
  <2>. QED BY <1>2, <2>1, <2>2
<1>4. step * n <= step * k
  <2>1. CASE step * n < step * k + step
    <3>1. CASE step * n > step * k
      <4>1. n = k
        BY <1>0, <1>2, <2>1, <3>1, MultiplesApart
      <4>. QED BY <1>0, <1>2, <3>1, <4>1
    <3>. QED BY <1>0, <1>2, <3>1
  <2>2. CASE step * n >= step * k + step
    BY <1>0, <1>1, <1>2, <2>2
  <2>. QED BY <1>0, <1>2, <2>1, <2>2
<1>. QED BY <1>0, <1>1, <1>2, <1>3, <1>4

\* The two steps, and the largest pressure.
LEMMA Pressures ==
  /\ FloatStep \in Nat \ {0} /\ DecimalStep \in Nat \ {0} /\ FloatStep < DecimalStep
  /\ One \in Nat \ {0}
  /\ One = FloatStep * (64 * DecimalStep) /\ 64 * DecimalStep \in Nat
  /\ One = DecimalStep * (64 * FloatStep) /\ 64 * FloatStep \in Nat
<1>1. FloatStep \in Nat \ {0} /\ DecimalStep \in Nat \ {0} /\ FloatStep < DecimalStep
  BY JsonAssumption
<1>2. \A a, b \in Nat \ {0} : 64 * a * b = a * (64 * b) /\ 64 * a * b = b * (64 * a)
                              /\ 64 * a * b \in Nat \ {0}
  <2>1. \A a, b \in Nat \ {0} : a * b \in Nat \ {0}
    OBVIOUS
  <2>. QED BY <2>1
<1>. QED BY <1>1, <1>2 DEF One

LEMMA PressuresStay ==
  ASSUME NEW pressure \in 0..One
  PROVE  Nearest(pressure, DecimalStep) \in 0..One /\ Nearest(pressure, FloatStep) \in 0..One
<1>1. pressure \in 0..(DecimalStep * (64 * FloatStep)) /\ pressure \in 0..(FloatStep * (64 * DecimalStep))
  BY Pressures, Zenon
<1>2. Nearest(pressure, DecimalStep) \in 0..(DecimalStep * (64 * FloatStep))
  BY <1>1, Pressures, NearestStays
<1>3. Nearest(pressure, FloatStep) \in 0..(FloatStep * (64 * DecimalStep))
  BY <1>1, Pressures, NearestStays
<1>. QED BY <1>2, <1>3, Pressures, Zenon

\* The pressure that is read for one that was written.
Reread(pressure) == Nearest(Nearest(pressure, DecimalStep), FloatStep)

\* The pressures that are the nearest float to some decimals are the ones that are
\* read as they were written.
LEMMA PressureReread ==
  ASSUME NEW pressure \in Int
  PROVE  Reread(pressure) = pressure <=> \E n \in Int : pressure = Nearest(n * DecimalStep, FloatStep)
<1>1. ASSUME Reread(pressure) = pressure
      PROVE  \E n \in Int : pressure = Nearest(n * DecimalStep, FloatStep)
  <2>1. PICK n \in Int : Nearest(pressure, DecimalStep) = DecimalStep * n
    BY Pressures, NearestIsNear
  <2>2. DecimalStep * n = n * DecimalStep
    BY Pressures
  <2>. QED BY <1>1, <2>1, <2>2 DEF Reread
<1>2. ASSUME NEW n \in Int, pressure = Nearest(n * DecimalStep, FloatStep)
      PROVE  Reread(pressure) = pressure
  <2>1. DecimalStep * n = n * DecimalStep /\ DecimalStep * n \in Int
    BY Pressures
  <2>2. PICK k \in Int : /\ pressure = FloatStep * k
                         /\ 2 * (DecimalStep * n - FloatStep * k) <= FloatStep
                         /\ 2 * (FloatStep * k - DecimalStep * n) <= FloatStep
    BY <1>2, <2>1, Pressures, NearestIsNear
  <2>3. 2 * (pressure - DecimalStep * n) < DecimalStep /\ 2 * (DecimalStep * n - pressure) < DecimalStep
    BY <2>1, <2>2, Pressures
  <2>4. Nearest(pressure, DecimalStep) = DecimalStep * n
    BY <2>3, Pressures, NearestIs
  <2>. QED BY <1>2, <2>1, <2>4 DEF Reread
<1>. QED BY <1>1, <1>2

\* What six decimals and the floats make of a pressure: one that is at most half a
\* decimal and half a float away, and that the controller does not refuse if it did
\* not refuse the one that was recorded (control_msg.cpp:150, 289, 389-396).
THEOREM PressuresStayNear ==
  ASSUME NEW pressure \in 0..One
  PROVE  /\ Reread(pressure) \in 0..One
         /\ 2 * (pressure - Reread(pressure)) <= DecimalStep + FloatStep
         /\ 2 * (Reread(pressure) - pressure) <= DecimalStep + FloatStep
<1>. DEFINE written1 == Nearest(pressure, DecimalStep)
<1>1. written1 \in 0..One /\ written1 \in Int /\ pressure \in Int
  <2>1. written1 \in 0..One
    BY PressuresStay
  <2>. QED BY <2>1, Pressures
<1>2. Reread(pressure) = Nearest(written1, FloatStep)
  BY DEF Reread
<1>3. 2 * (pressure - written1) <= DecimalStep /\ 2 * (written1 - pressure) <= DecimalStep
  BY <1>1, Pressures, NearestIsNear
<1>. HIDE DEF written1
<1>4. Reread(pressure) \in 0..One
  BY <1>1, <1>2, PressuresStay
<1>5. 2 * (written1 - Reread(pressure)) <= FloatStep /\ 2 * (Reread(pressure) - written1) <= FloatStep
  BY <1>1, <1>2, Pressures, NearestIsNear
<1>. QED BY <1>1, <1>3, <1>4, <1>5, Pressures

\* The messages that AgentManager may record, whatever their data.
Messages ==
  {Keycode(action) : action \in Int} \cup {Text(text) : text \in STRING}
  \cup {Touch(pointer, pressure) : pointer \in Int, pressure \in Int} \cup {Scroll(amount) : amount \in Int}
  \cup {Plain(type) : type \in Known \ WithBody}

LEMMA QuotedIsGarbage == JsonSerialize(Text(Quoted)) = Garbage
BY SMT DEF JsonSerialize, Text, Quoted, TooLong, WithCase, WithBody

\* The texts of which JsonSerialize makes no JSON.
BadTexts == {Text(Quoted), Text(TooLong)}

\* What JsonSerialize writes for a message that has a case, JsonDeserialize
\* reads back, but for the two conversions of a finger.
LEMMA WithoutLoss ==
  ASSUME NEW msg \in Messages, msg.type \in WithCase, msg \notin BadTexts
  PROVE  JsonDeserialize(JsonSerialize(msg)) =
           IF msg.type = "INJECT_TOUCH_EVENT" THEN Touch(Narrow(msg.pointer_id), Reread(msg.pressure)) ELSE msg
<1>. USE DEF BadTexts
<1>1. CASE msg.type \notin WithBody
  <2>1. PICK type \in Known : msg = Plain(type)
    BY <1>1 DEF Messages, WithBody, Keycode, Text, Touch, Scroll, Plain
  <2>2. JsonSerialize(msg) = Object(msg.type, NoBody) /\ msg.type \in Known \ WithBody
    BY <1>1, <2>1, SMT DEF JsonSerialize, WithCase, WithBody, Plain
  <2>3. JsonDeserialize(Object(msg.type, NoBody)) = Plain(msg.type)
    BY <2>2, SMT DEF JsonDeserialize, Object, Known, WithCase, WithBody, Absent
  <2>. QED BY <1>1, <2>1, <2>2, <2>3 DEF Plain, WithBody
<1>2. CASE msg.type = "INJECT_TOUCH_EVENT"
  <2>1. PICK pointer \in Int, pressure \in Int : msg = Touch(pointer, pressure)
    BY <1>2 DEF Messages, WithBody, Keycode, Text, Touch, Scroll, Plain
  <2>2. JsonSerialize(msg) = Object("INJECT_TOUCH_EVENT", Touch(pointer, Nearest(pressure, DecimalStep)))
    BY <1>2, <2>1, SMT DEF JsonSerialize, WithCase, WithBody, Touch
  <2>. DEFINE body == Touch(pointer, Nearest(pressure, DecimalStep))
  <2>3. /\ body.pointer_id = pointer /\ body.pressure = Nearest(pressure, DecimalStep)
        /\ body \notin {NoBody, Partial}
    BY DEF Touch, NoBody, Partial
  <2>. HIDE DEF body
  <2>4. JsonDeserialize(Object("INJECT_TOUCH_EVENT", body)) =
          Touch(Narrow(body.pointer_id), Nearest(body.pressure, FloatStep))
    BY <2>3, SMT DEF JsonDeserialize, Object, Known, WithCase, WithBody, Absent
  <2>5. msg.pointer_id = pointer /\ msg.pressure = pressure
    BY <2>1 DEF Touch
  <2>. QED BY <1>2, <2>2, <2>3, <2>4, <2>5 DEF body, Reread
<1>3. CASE msg.type \in WithBody \ {"INJECT_TOUCH_EVENT"}
  <2>1. JsonSerialize(msg) = Object(msg.type, msg)
    BY <1>3, SMT DEF JsonSerialize, WithCase
  <2>2. msg \notin {NoBody, Partial}
    BY <1>3 DEF NoBody, Partial, WithBody
  <2>3. JsonDeserialize(Object(msg.type, msg)) = msg
    BY <1>3, <2>2, SMT DEF JsonDeserialize, Object, Known, WithCase, WithBody, Absent
  <2>. QED BY <1>3, <2>1, <2>3
<1>. QED BY <1>1, <1>2, <1>3

\* A finger comes back exactly when an int holds its identifier and the decimals
\* name its pressure.
LEMMA Fingers ==
  ASSUME NEW pointer \in Int, NEW pressure \in Int
  PROVE  Touch(Narrow(pointer), Reread(pressure)) = Touch(pointer, pressure) <=>
           /\ pointer \in Ints
           /\ \E n \in Int : pressure = Nearest(n * DecimalStep, FloatStep)
<1>1. Narrow(pointer) = pointer <=> pointer \in Ints
  BY IntsStay, NarrowIsInt
<1>2. Touch(Narrow(pointer), Reread(pressure)) = Touch(pointer, pressure) <=>
        Narrow(pointer) = pointer /\ Reread(pressure) = pressure
  BY DEF Touch
<1>. QED BY <1>1, <1>2, PressureReread, Zenon

\* A recorded message is read back as it was exactly if it is Replayable
\* (control_msg.cpp:76-357): it has a case in JsonSerialize, no text that wants
\* escapes or does not fit, and no finger that is out of the range of an int or
\* whose pressure is not the nearest to some decimals.
THEOREM RecordedIsReplayed ==
  ASSUME NEW msg \in Messages
  PROVE  JsonDeserialize(JsonSerialize(msg)) = msg <=> Replayable(msg)
<1>1. CASE msg.type \notin WithCase \/ msg \in BadTexts
  <2>1. JsonSerialize(msg) \in {Garbage, Undefined}
    BY <1>1, SMT DEF JsonSerialize, BadTexts, Text, Quoted, TooLong, WithCase, WithBody
  <2>2. JsonDeserialize(JsonSerialize(msg)) = Nothing
    BY <2>1 DEF JsonDeserialize, Garbage, Undefined
  <2>3. msg # Nothing
    BY DEF Messages, Known, WithCase, WithBody, Keycode, Text, Touch, Scroll, Plain, Nothing
  <2>. QED BY <1>1, <2>2, <2>3 DEF Replayable, BadTexts
<1>2. CASE msg.type \in WithCase /\ msg \notin BadTexts
  <2>1. CASE msg.type = "INJECT_TOUCH_EVENT"
    <3>1. PICK pointer \in Int, pressure \in Int : msg = Touch(pointer, pressure)
      BY <2>1 DEF Messages, WithBody, Keycode, Text, Touch, Scroll, Plain
    <3>2. msg.pointer_id = pointer /\ msg.pressure = pressure
      BY <3>1 DEF Touch
    <3>3. JsonDeserialize(JsonSerialize(msg)) = Touch(Narrow(pointer), Reread(pressure))
      BY <1>2, <2>1, <3>2, WithoutLoss
    <3>4. Replayable(msg) <=> /\ pointer \in Ints
                              /\ \E n \in Int : pressure = Nearest(n * DecimalStep, FloatStep)
      BY <1>2, <2>1, <3>2, Zenon DEF Replayable, BadTexts, Ints, Half
    <3>. QED BY <3>1, <3>3, <3>4, Fingers, Zenon
  <2>2. CASE msg.type # "INJECT_TOUCH_EVENT"
    BY <1>2, <2>2, WithoutLoss DEF Replayable, BadTexts
  <2>. QED BY <2>1, <2>2
<1>. QED BY <1>1, <1>2
----------------------------------------------------------------------------
(* The recording of the inputs. *)

\* What the two threads and the clients do with the recorder.
RecorderEffect ==
  \/ \E t \in Threads : StartRecordEvents(t) \/ StopRecordEvents(t) \/ RecorderStep(t)
  \/ fp_events # NoFile /\ \E msg \in UserMessages : PushInput(msg)
  \/ crashed' = TRUE /\ UNCHANGED <<fileVars, disk, doing, pushing, recorderHistory>>
  \/ FlushFiles
  \/ UNCHANGED recorderVars

LEMMA RecorderEffects ==
  ASSUME [Next]_vars
  PROVE  RecorderEffect
<1>. USE Zenon DEF vars
<1>1. CASE AgentRecords
  BY <1>1 DEF AgentRecords, RecorderEffect, Threads
<1>2. CASE MainRecords
  BY <1>2 DEF MainRecords, RecorderEffect, Threads
<1>3. CASE UserToggles
  BY <1>3 DEF UserToggles, ToggleRecording, RecorderEffect, Threads
<1>4. CASE UserPushes
  BY <1>4 DEF UserPushes, PushInput, RecorderEffect
<1>5. CASE ProcessMessages
  BY <1>5 DEF ProcessMessages, RecorderEffect, Threads, recorderVars
<1>6. CASE Accept \/ AcceptFails \/ TestStopped \/ Receive \/ ReceiveFails \/ Recorded
  BY <1>6 DEF Accept, AcceptFails, TestStopped, Receive, ReceiveFails, Recorded, RecorderEffect
<1>7. CASE RunAgentRecorder \/ StartThreads \/ CloseServer \/ Stop \/ Join \/ UserQuits
  BY <1>7 DEF RunAgentRecorder, StartThreads, CloseServer, Stop, Join, UserQuits, RecorderEffect
<1>8. CASE Peers
  BY <1>8 DEF Peers, Connect, Send, Leave, Reset, RecorderEffect
<1>9. CASE SerializePushed \/ Exit
  BY <1>9 DEF SerializePushed, Exit, RecorderEffect
<1>10. CASE UNCHANGED vars
  BY <1>10 DEF RecorderEffect
<1>. QED
  BY <1>1, <1>2, <1>3, <1>4, <1>5, <1>6, <1>7, <1>8, <1>9, <1>10
  DEF Next, AgentThread, MainThread, User, Finished

Steps == {"idle", "open", "write start", "write event", "write end", "close", "clear"}

\* What may be in a file.
Entries == {Start, End} \cup {JsonSerialize(msg) : msg \in UserMessages \cup {NoBody}}

PointerType ==
  /\ opened \in 0..MaxFiles
  /\ fp_events \in 0..opened
  /\ closed \subseteq 1..opened

DoingType ==
  /\ doing \in [Threads -> Steps]
  /\ pushing \in UserMessages \cup {NoBody}

FilesType ==
  /\ written \in [Files -> Seq(Entries)]
  /\ inputs \in [Files -> Seq(UserMessages)]
  /\ \A f \in Files : f > opened => written[f] = <<>> /\ inputs[f] = <<>>

FlagsInv ==
  /\ raced \in BOOLEAN /\ noFile \in BOOLEAN /\ misused \in BOOLEAN
  /\ wasReset \in BOOLEAN /\ unfit \in BOOLEAN

\* At most one thread has something to do with the file, and this is its step.
OneActive == \E t \in Threads : doing[t] = "idle"
Active == IF doing["agent"] = "idle" THEN doing["main"] ELSE doing["agent"]

\* As long as the threads did not meet, the one that is active may rely on the
\* pointer.
TurnsInv ==
  ~raced =>
    /\ OneActive
    /\ Active # "clear" => fp_events \notin closed
    /\ Active = "write start" => fp_events # NoFile \/ noFile
    /\ Active = "write event" => fp_events # NoFile
    /\ Active \in {"write end", "close"} => fp_events # NoFile \/ misused

\* What the recording of some messages begins with, and what it is in the end.
Serial(messages) == [i \in DOMAIN messages |-> JsonSerialize(messages[i])]
Begun(messages) == <<Start>> \o Serial(messages)
Whole(messages) == Begun(messages) \o <<End>>

\* What is in the file that is open.
OpenContents ==
  LET entries == written[fp_events]
      messages == inputs[fp_events] IN
  /\ Active = "write start" => entries = <<>> /\ messages = <<>>
  /\ Active = "write event" => Append(entries, JsonSerialize(pushing)) = Begun(messages)
  /\ Active = "close" => entries = Whole(messages)
  /\ Active \in {"idle", "open", "write end"} => entries = Begun(messages)

ContentsInv ==
  ~raced =>
    /\ \A f \in closed : written[f] = Whole(inputs[f])
    /\ fp_events \in Files \ closed => OpenContents

\* One more entry in one of the files.
LEMMA AppendAt ==
  ASSUME NEW S, NEW F \in [Files -> Seq(S)], NEW f \in Files, NEW entry \in S
  PROVE  /\ [F EXCEPT ![f] = Append(@, entry)] \in [Files -> Seq(S)]
         /\ [F EXCEPT ![f] = Append(@, entry)][f] = Append(F[f], entry)
         /\ \A g \in Files \ {f} : [F EXCEPT ![f] = Append(@, entry)][g] = F[g]
<1>1. Append(F[f], entry) \in Seq(S)
  OBVIOUS
<1>. QED BY <1>1

\* The ways in which the recorder moves.
LEMMA RecorderMoves ==
  ASSUME RecorderEffect
  PROVE  \/ \E t \in Threads : StartRecordEvents(t) \/ StopRecordEvents(t)
         \/ \E t \in Threads : OpenFile(t)
         \/ \E t \in Threads : WriteStart(t) \/ WriteEnd(t) \/ (t = "main" /\ WriteEvent)
         \/ \E t \in Threads : CloseFile(t)
         \/ \E t \in Threads : ClearFile(t)
         \/ fp_events # NoFile /\ \E msg \in UserMessages : PushInput(msg)
         \/ UNCHANGED <<fileVars, doing, pushing, raced, noFile, misused, inputs>>
<1>. USE Zenon DEF recorderHistory
<1>1. CASE FlushFiles
  BY <1>1 DEF FlushFiles
<1>2. ASSUME NEW t \in Threads, RecorderStep(t)
      PROVE  \/ OpenFile(t) \/ WriteStart(t) \/ WriteEnd(t) \/ CloseFile(t) \/ ClearFile(t)
             \/ t = "main" /\ WriteEvent
             \/ UNCHANGED <<fileVars, doing, pushing, raced, noFile, misused, inputs>>
  BY <1>2 DEF RecorderStep, OverflowTemp
<1>. QED BY <1>1, <1>2 DEF RecorderEffect, recorderVars

LEMMA DoingTyped ==
  ASSUME DoingType, RecorderEffect
  PROVE  DoingType'
<1>. USE DEF DoingType, Threads, Steps
<1>1. CASE \E t \in Threads : StartRecordEvents(t) \/ StopRecordEvents(t)
  BY <1>1 DEF StartRecordEvents, StopRecordEvents, Begin
<1>2. CASE \E t \in Threads : OpenFile(t)
  BY <1>2 DEF OpenFile, Goes
<1>3. CASE \E t \in Threads : WriteStart(t) \/ WriteEnd(t) \/ (t = "main" /\ WriteEvent)
  BY <1>3 DEF WriteStart, WriteEnd, WriteEvent, Write, Goes
<1>4. CASE \E t \in Threads : CloseFile(t)
  BY <1>4 DEF CloseFile, Goes
<1>5. CASE \E t \in Threads : ClearFile(t)
  BY <1>5 DEF ClearFile, Goes
<1>6. CASE fp_events # NoFile /\ \E msg \in UserMessages : PushInput(msg)
  BY <1>6 DEF PushInput, Begin
<1>7. CASE UNCHANGED <<fileVars, doing, pushing, raced, noFile, misused, inputs>>
  BY <1>7
<1>. QED BY <1>1, <1>2, <1>3, <1>4, <1>5, <1>6, <1>7, RecorderMoves, Zenon

LEMMA PointerTyped ==
  ASSUME PointerType, RecorderEffect
  PROVE  PointerType'
<1>. USE EventRecorderAssumption DEF PointerType
<1>1. CASE \E t \in Threads : StartRecordEvents(t) \/ StopRecordEvents(t)
  BY <1>1 DEF StartRecordEvents, StopRecordEvents, fileVars
<1>2. CASE \E t \in Threads : OpenFile(t)
  <2>1. /\ closed' = closed
        /\ \/ opened < MaxFiles /\ opened' = opened + 1 /\ fp_events' = opened'
           \/ fp_events' = NoFile /\ opened' = opened
    BY <1>2, Zenon DEF OpenFile
  <2>. QED BY <2>1 DEF NoFile
<1>3. CASE \E t \in Threads : WriteStart(t) \/ WriteEnd(t) \/ (t = "main" /\ WriteEvent)
  BY <1>3 DEF WriteStart, WriteEnd, WriteEvent, Write
<1>4. CASE \E t \in Threads : CloseFile(t)
  <2>1. /\ UNCHANGED <<fp_events, opened>>
        /\ \/ fp_events \in Files /\ closed' = closed \cup {fp_events}
           \/ closed' = closed
    BY <1>4, Zenon DEF CloseFile, Access
  <2>2. fp_events \in Files => fp_events \in 1..opened
    BY DEF Files
  <2>. QED BY <2>1, <2>2
<1>5. CASE \E t \in Threads : ClearFile(t)
  <2>1. fp_events' = 0 /\ UNCHANGED <<opened, closed>>
    BY <1>5 DEF ClearFile, NoFile
  <2>. QED BY <2>1
<1>6. CASE fp_events # NoFile /\ \E msg \in UserMessages : PushInput(msg)
  BY <1>6 DEF PushInput, fileVars
<1>7. CASE UNCHANGED <<fileVars, doing, pushing, raced, noFile, misused, inputs>>
  BY <1>7 DEF fileVars
<1>. QED BY <1>1, <1>2, <1>3, <1>4, <1>5, <1>6, <1>7, RecorderMoves, Zenon

LEMMA FilesTyped ==
  ASSUME PointerType, DoingType, FilesType, RecorderEffect
  PROVE  FilesType'
<1>. USE EventRecorderAssumption
<1>1. CASE \E t \in Threads : OpenFile(t)
  <2>1. /\ UNCHANGED <<written, inputs>>
        /\ opened' = opened + 1 \/ opened' = opened
    BY <1>1, Zenon DEF OpenFile
  <2>. QED BY <2>1 DEF FilesType, PointerType, Files
<1>2. CASE \E t \in Threads : WriteStart(t) \/ WriteEnd(t) \/ (t = "main" /\ WriteEvent)
  <2>1. UNCHANGED <<fp_events, opened, inputs>>
    BY <1>2 DEF WriteStart, WriteEnd, WriteEvent, Write, recorderHistory
  <2>2. Start \in Entries /\ End \in Entries /\ JsonSerialize(pushing) \in Entries
    BY DEF Entries, DoingType
  <2>3. \/ /\ fp_events \in Files \ closed
           /\ \E what \in Entries : written' = [written EXCEPT ![fp_events] = Append(@, what)]
        \/ written' = written
    BY <1>2, <2>2, Zenon DEF WriteStart, WriteEnd, WriteEvent, Write, Access
  <2>4. CASE written' = written
    BY <2>1, <2>4 DEF FilesType
  <2>5. ASSUME fp_events \in Files, NEW what \in Entries,
               written' = [written EXCEPT ![fp_events] = Append(@, what)]
        PROVE  FilesType'
    <3>1. written' \in [Files -> Seq(Entries)] /\ \A f \in Files \ {fp_events} : written'[f] = written[f]
      BY <2>5, AppendAt DEF FilesType
    <3>2. fp_events <= opened
      BY <2>5 DEF PointerType
    <3>. QED BY <2>1, <3>1, <3>2 DEF FilesType, PointerType, Files
  <2>. QED BY <2>3, <2>4, <2>5
<1>3. CASE fp_events # NoFile /\ \E msg \in UserMessages : PushInput(msg)
  <2>1. PICK msg \in UserMessages : PushInput(msg)
    BY <1>3
  <2>2. inputs' = [inputs EXCEPT ![fp_events] = Append(@, msg)] /\ UNCHANGED <<fp_events, opened, written>>
    BY <1>3, <2>1 DEF PushInput, fileVars
  <2>3. fp_events \in Files /\ fp_events <= opened
    BY <1>3 DEF PointerType, Files, NoFile
  <2>4. inputs' \in [Files -> Seq(UserMessages)] /\ \A f \in Files \ {fp_events} : inputs'[f] = inputs[f]
    BY <2>2, <2>3, AppendAt DEF FilesType
  <2>5. \A f \in Files : f > opened' => written'[f] = <<>> /\ inputs'[f] = <<>>
    <3>1. opened' = opened /\ written' = written
      BY <2>2
    <3>2. SUFFICES ASSUME NEW f \in Files, f > opened
                   PROVE  written[f] = <<>> /\ inputs'[f] = <<>>
      BY <3>1, Zenon
    <3>3. f # fp_events
      BY <2>3, <3>2 DEF PointerType, Files
    <3>4. inputs'[f] = inputs[f]
      BY <2>4, <3>3
    <3>. QED BY <3>2, <3>4, Zenon DEF FilesType
  <2>. QED BY <2>2, <2>4, <2>5, Zenon DEF FilesType
<1>4. CASE UNCHANGED <<opened, written, inputs>>
  BY <1>4 DEF FilesType
<1>5. CASE \E t \in Threads : StartRecordEvents(t) \/ StopRecordEvents(t) \/ CloseFile(t) \/ ClearFile(t)
  BY <1>4, <1>5 DEF StartRecordEvents, StopRecordEvents, CloseFile, ClearFile, fileVars, recorderHistory
<1>6. CASE UNCHANGED <<fileVars, doing, pushing, raced, noFile, misused, inputs>>
  BY <1>4, <1>6 DEF fileVars
<1>. QED BY <1>1, <1>2, <1>3, <1>5, <1>6, RecorderMoves, Zenon

\* A thread becomes active, and goes on.
LEMMA Begins ==
  ASSUME doing \in [Threads -> Steps], raced \in BOOLEAN,
         NEW t \in Threads, NEW step \in Steps, Begin(t, step), ~raced'
  PROVE  ~raced /\ Active = "idle" /\ Active' = step /\ OneActive'
<1>1. ~(raced \/ \E u \in Threads \ {t} : doing[u] # "idle")
  BY Zenon DEF Begin
<1>2. ~raced /\ \A u \in Threads : doing[u] = "idle"
  BY <1>1, Zenon DEF Begin
<1>3. doing' = [doing EXCEPT ![t] = step]
  BY DEF Begin
<1>4. Active = "idle" /\ Active' = step
  BY <1>2, <1>3 DEF Active, Threads
<1>5. OneActive'
  BY <1>2, <1>3 DEF OneActive, Threads
<1>. QED BY <1>2, <1>4, <1>5

LEMMA Goings ==
  ASSUME doing \in [Threads -> Steps], OneActive,
         NEW t \in Threads, NEW from \in Steps \ {"idle"}, NEW to \in Steps, Goes(t, from, to)
  PROVE  Active = from /\ Active' = to /\ OneActive'
<1>1. doing[t] = from /\ doing' = [doing EXCEPT ![t] = to]
  BY DEF Goes
<1>2. Active = from /\ Active' = to
  BY <1>1 DEF Active, OneActive, Threads
<1>3. OneActive'
  BY <1>1 DEF OneActive, Threads
<1>. QED BY <1>2, <1>3

\* What happens to the flags of the recorder.
LEMMA Flags ==
  ASSUME RecorderEffect
  PROVE  /\ \/ raced' = raced
            \/ \E t \in Threads : raced' = (raced \/ \E u \in Threads \ {t} : doing[u] # "idle")
         /\ noFile' = noFile \/ noFile' = TRUE
         /\ misused' = misused \/ misused' = (misused \/ fp_events = NoFile)
<1>. USE Zenon
<1>1. ASSUME NEW t \in Threads, StartRecordEvents(t) \/ StopRecordEvents(t)
      PROVE  /\ raced' = (raced \/ \E u \in Threads \ {t} : doing[u] # "idle")
             /\ noFile' = noFile
             /\ misused' = misused \/ misused' = (misused \/ fp_events = NoFile)
  BY <1>1 DEF StartRecordEvents, StopRecordEvents, Begin
<1>2. CASE \E t \in Threads : OpenFile(t)
  BY <1>2 DEF OpenFile
<1>3. CASE \E t \in Threads : WriteStart(t) \/ WriteEnd(t) \/ (t = "main" /\ WriteEvent)
  BY <1>3 DEF WriteStart, WriteEnd, WriteEvent, Write, recorderHistory
<1>4. CASE \E t \in Threads : CloseFile(t)
  BY <1>4 DEF CloseFile, recorderHistory
<1>5. CASE \E t \in Threads : ClearFile(t)
  BY <1>5 DEF ClearFile, recorderHistory
<1>6. CASE fp_events # NoFile /\ \E msg \in UserMessages : PushInput(msg)
  <2>1. "main" \in Threads
    BY DEF Threads
  <2>. QED BY <1>6, <2>1 DEF PushInput, Begin
<1>7. CASE UNCHANGED <<fileVars, doing, pushing, raced, noFile, misused, inputs>>
  BY <1>7
<1>. QED BY <1>1, <1>2, <1>3, <1>4, <1>5, <1>6, <1>7, RecorderMoves

LEMMA FlagsGrow ==
  ASSUME raced \in BOOLEAN, noFile \in BOOLEAN, misused \in BOOLEAN, RecorderEffect
  PROVE  /\ raced' \in BOOLEAN /\ noFile' \in BOOLEAN /\ misused' \in BOOLEAN
         /\ raced => raced'
         /\ noFile => noFile'
         /\ misused => misused'
<1>1. raced' \in BOOLEAN /\ (raced => raced')
  <2>1. CASE raced' = raced
    BY <2>1, Zenon
  <2>2. ASSUME NEW t \in Threads, raced' = (raced \/ \E u \in Threads \ {t} : doing[u] # "idle")
        PROVE  raced' \in BOOLEAN /\ (raced => raced')
    BY <2>2, Zenon
  <2>. QED BY <2>1, <2>2, Flags, Zenon
<1>2. noFile' \in BOOLEAN /\ (noFile => noFile')
  <2>1. CASE noFile' = noFile
    BY <2>1, Zenon
  <2>2. CASE noFile' = TRUE
    BY <2>2, Zenon
  <2>. QED BY <2>1, <2>2, Flags, Zenon
<1>3. misused' \in BOOLEAN /\ (misused => misused')
  <2>1. CASE misused' = misused
    BY <2>1, Zenon
  <2>2. CASE misused' = (misused \/ fp_events = NoFile)
    BY <2>2, Zenon
  <2>. QED BY <2>1, <2>2, Flags, Zenon
<1>. QED BY <1>1, <1>2, <1>3, Zenon

\* Where the recorder is before and after a step, if the threads did not meet.
LEMMA Turns ==
  ASSUME DoingType, raced \in BOOLEAN, OneActive, ~raced', RecorderEffect
  PROVE  /\ OneActive'
         /\ \/ /\ Active = "idle" /\ Active' = "open"
               /\ UNCHANGED <<fp_events, closed>>
            \/ /\ Active = "idle" /\ Active' = "write end"
               /\ UNCHANGED <<fp_events, closed>>
               /\ fp_events = NoFile => misused'
            \/ /\ Active = "idle" /\ Active' = "write event" /\ fp_events # NoFile
               /\ UNCHANGED <<fp_events, closed>>
            \/ /\ Active = "open" /\ Active' = "write start"
               /\ UNCHANGED closed
               /\ fp_events' = opened + 1 \/ (fp_events' = NoFile /\ noFile')
            \/ /\ Active = "close" /\ Active' = "clear"
               /\ UNCHANGED fp_events
            \/ /\ Active = "clear" /\ Active' = "idle"
               /\ fp_events' = NoFile /\ UNCHANGED closed
            \/ /\ Active \in {"write start", "write event"} /\ Active' = "idle"
               /\ UNCHANGED <<fp_events, closed>>
            \/ /\ Active = "write end" /\ Active' = "close"
               /\ UNCHANGED <<fp_events, closed>>
            \/ UNCHANGED <<Active, fp_events, closed>>
<1>. USE DEF DoingType
<1>0. Steps = {"idle", "open", "write start", "write event", "write end", "close", "clear"}
  BY DEF Steps
<1>1. ASSUME NEW t \in Threads, StartRecordEvents(t)
      PROVE  OneActive' /\ Active = "idle" /\ Active' = "open" /\ UNCHANGED <<fp_events, closed>>
  BY <1>0, <1>1, Begins DEF StartRecordEvents, fileVars
<1>2. ASSUME NEW t \in Threads, StopRecordEvents(t)
      PROVE  /\ OneActive' /\ Active = "idle" /\ Active' = "write end" /\ UNCHANGED <<fp_events, closed>>
             /\ fp_events = NoFile => misused'
  <2>1. OneActive' /\ Active = "idle" /\ Active' = "write end" /\ UNCHANGED <<fp_events, closed>>
    BY <1>0, <1>2, Begins DEF StopRecordEvents, fileVars
  <2>2. fp_events = NoFile => misused'
    BY <1>2, Zenon DEF StopRecordEvents
  <2>. QED BY <2>1, <2>2, Zenon
<1>3. ASSUME NEW t \in Threads, OpenFile(t)
      PROVE  /\ OneActive' /\ Active = "open" /\ Active' = "write start" /\ UNCHANGED closed
             /\ fp_events' = opened + 1 \/ (fp_events' = NoFile /\ noFile')
  <2>1. OneActive' /\ Active = "open" /\ Active' = "write start" /\ UNCHANGED closed
    BY <1>0, <1>3, Goings DEF OpenFile
  <2>2. fp_events' = opened + 1 \/ (fp_events' = NoFile /\ noFile')
    BY <1>3, Zenon DEF OpenFile
  <2>. QED BY <2>1, <2>2, Zenon
<1>4. ASSUME NEW t \in Threads, WriteStart(t)
      PROVE  OneActive' /\ Active = "write start" /\ Active' = "idle" /\ UNCHANGED <<fp_events, closed>>
  BY <1>0, <1>4, Goings DEF WriteStart, Write
<1>5. ASSUME NEW t \in Threads, WriteEnd(t)
      PROVE  OneActive' /\ Active = "write end" /\ Active' = "close" /\ UNCHANGED <<fp_events, closed>>
  BY <1>0, <1>5, Goings DEF WriteEnd, Write
<1>6. ASSUME WriteEvent
      PROVE  OneActive' /\ Active = "write event" /\ Active' = "idle" /\ UNCHANGED <<fp_events, closed>>
  BY <1>0, <1>6, Goings DEF WriteEvent, Write, Threads
<1>7. ASSUME NEW t \in Threads, CloseFile(t)
      PROVE  OneActive' /\ Active = "close" /\ Active' = "clear" /\ UNCHANGED fp_events
  BY <1>0, <1>7, Goings DEF CloseFile
<1>8. ASSUME NEW t \in Threads, ClearFile(t)
      PROVE  OneActive' /\ Active = "clear" /\ Active' = "idle" /\ fp_events' = NoFile /\ UNCHANGED closed
  BY <1>0, <1>8, Goings DEF ClearFile
<1>9. ASSUME NEW msg \in UserMessages, PushInput(msg), fp_events # NoFile
      PROVE  OneActive' /\ Active = "idle" /\ Active' = "write event" /\ UNCHANGED <<fp_events, closed>>
  BY <1>0, <1>9, Begins DEF PushInput, fileVars, Threads
<1>10. ASSUME UNCHANGED <<fileVars, doing>>
       PROVE  OneActive' /\ UNCHANGED <<Active, fp_events, closed>>
  BY <1>10 DEF OneActive, Active, fileVars
<1>. QED
  BY <1>1, <1>2, <1>3, <1>4, <1>5, <1>6, <1>7, <1>8, <1>9, <1>10, RecorderMoves, Zenon

LEMMA TurnsKept ==
  ASSUME PointerType, DoingType, raced \in BOOLEAN, noFile \in BOOLEAN, misused \in BOOLEAN,
         TurnsInv, RecorderEffect
  PROVE  TurnsInv'
<1>. SUFFICES ASSUME ~raced'
              PROVE  /\ OneActive'
                     /\ Active' # "clear" => fp_events' \notin closed'
                     /\ Active' = "write start" => fp_events' # NoFile \/ noFile'
                     /\ Active' = "write event" => fp_events' # NoFile
                     /\ Active' \in {"write end", "close"} => fp_events' # NoFile \/ misused'
  BY Zenon DEF TurnsInv
<1>1. /\ ~raced /\ OneActive
      /\ noFile => noFile'
      /\ misused => misused'
  BY FlagsGrow, Zenon DEF TurnsInv
<1>2. /\ Active # "clear" => fp_events \notin closed
      /\ Active = "write start" => fp_events # NoFile \/ noFile
      /\ Active = "write event" => fp_events # NoFile
      /\ Active \in {"write end", "close"} => fp_events # NoFile \/ misused
  BY <1>1, Zenon DEF TurnsInv
<1>3. opened + 1 # NoFile /\ opened + 1 \notin closed /\ NoFile \notin closed
  BY EventRecorderAssumption DEF PointerType, NoFile
<1>. HIDE DEF Active
<1>. QED BY <1>1, <1>2, <1>3, Turns

\* The recorder crashes only for a reason.
LEMMA RecorderCrashes ==
  ASSUME PointerType, DoingType, raced \in BOOLEAN, noFile \in BOOLEAN, misused \in BOOLEAN,
         TurnsInv, ~crashed, NEW t \in Threads, RecorderStep(t), ~OverflowTemp, crashed'
  PROVE  raced \/ noFile \/ misused
<1>. SUFFICES ASSUME ~raced
              PROVE  noFile \/ misused
  BY Zenon
<1>1. /\ OneActive
      /\ Active # "clear" => fp_events \notin closed
      /\ Active = "write start" => fp_events # NoFile \/ noFile
      /\ Active = "write event" => fp_events # NoFile
      /\ Active \in {"write end", "close"} => fp_events # NoFile \/ misused
  BY Zenon DEF TurnsInv
<1>2. fp_events # NoFile => fp_events \in Files
  BY EventRecorderAssumption DEF PointerType, NoFile, Files
<1>3. Steps = {"idle", "open", "write start", "write event", "write end", "close", "clear"}
  BY DEF Steps
<1>4. ~OpenFile(t) /\ ~ClearFile(t)
  BY Zenon DEF OpenFile, ClearFile
<1>5. CASE WriteStart(t)
  <2>1. Active = "write start"
    BY <1>1, <1>3, <1>5, Goings DEF WriteStart, Write, DoingType
  <2>2. fp_events \notin Files \ closed
    BY <1>5, Zenon DEF WriteStart, Write, Access
  <2>. QED BY <1>1, <1>2, <2>1, <2>2
<1>6. CASE WriteEnd(t)
  <2>1. Active = "write end"
    BY <1>1, <1>3, <1>6, Goings DEF WriteEnd, Write, DoingType
  <2>2. fp_events \notin Files \ closed
    BY <1>6, Zenon DEF WriteEnd, Write, Access
  <2>. QED BY <1>1, <1>2, <2>1, <2>2
<1>7. CASE WriteEvent
  <2>1. Active = "write event"
    BY <1>1, <1>3, <1>7, Goings DEF WriteEvent, Write, DoingType, Threads
  <2>2. fp_events \notin Files \ closed
    BY <1>7, Zenon DEF WriteEvent, Write, Access
  <2>. QED BY <1>1, <1>2, <2>1, <2>2
<1>8. CASE CloseFile(t)
  <2>1. Active = "close"
    BY <1>1, <1>3, <1>8, Goings DEF CloseFile, DoingType
  <2>2. fp_events \notin Files \ closed
    BY <1>8, Zenon DEF CloseFile, Access
  <2>. QED BY <1>1, <1>2, <2>1, <2>2
<1>. QED BY <1>4, <1>5, <1>6, <1>7, <1>8, Zenon DEF RecorderStep

\* What a further message adds to a recording.
LEMMA Continues ==
  ASSUME NEW messages \in Seq(UserMessages), NEW msg \in UserMessages
  PROVE  Begun(Append(messages, msg)) = Append(Begun(messages), JsonSerialize(msg))
<1>. DEFINE entry == JsonSerialize(msg)
<1>1. Start \in Entries /\ entry \in Entries /\ \A m \in UserMessages : JsonSerialize(m) \in Entries
  BY DEF Entries
<1>2. Serial(messages) \in Seq(Entries)
  BY <1>1 DEF Serial
<1>3. Serial(Append(messages, msg)) = Append(Serial(messages), entry)
  <2>. DEFINE more == Append(messages, msg)
  <2>1. /\ more \in Seq(UserMessages) /\ Len(more) = Len(messages) + 1
        /\ \A i \in 1..Len(messages) : more[i] = messages[i]
        /\ more[Len(more)] = msg
    OBVIOUS
  <2>. HIDE DEF more
  <2>2. /\ DOMAIN Serial(more) = 1..Len(messages) + 1
        /\ \A i \in 1..Len(messages) : Serial(more)[i] = Serial(messages)[i]
        /\ Serial(more)[Len(messages) + 1] = entry
        /\ Serial(more) \in Seq(Entries)
    BY <1>1, <2>1 DEF Serial
  <2>3. Len(Serial(messages)) = Len(messages)
    BY DEF Serial
  <2>. HIDE DEF entry
  <2>. QED BY <1>1, <1>2, <2>2, <2>3 DEF more
<1>. HIDE DEF entry
<1>4. <<Start>> \o Append(Serial(messages), entry) = Append(<<Start>> \o Serial(messages), entry)
  BY <1>1, <1>2
<1>. QED BY <1>3, <1>4, Zenon DEF Begun, entry

LEMMA Beginning ==
  /\ Append(<<>>, Start) = Begun(<<>>)
  /\ \A messages \in Seq(UserMessages) : Append(Begun(messages), End) = Whole(messages)
<1>1. Start \in Entries /\ End \in Entries /\ \A m \in UserMessages : JsonSerialize(m) \in Entries
  BY DEF Entries
<1>2. Append(<<>>, Start) = Begun(<<>>)
  <2>1. Serial(<<>>) = <<>>
    BY DEF Serial
  <2>. QED BY <2>1 DEF Begun
<1>3. ASSUME NEW messages \in Seq(UserMessages)
      PROVE  Append(Begun(messages), End) = Whole(messages)
  <2>1. Serial(messages) \in Seq(Entries)
    BY <1>1 DEF Serial
  <2>2. Begun(messages) \in Seq(Entries)
    BY <1>1, <2>1 DEF Begun
  <2>. QED BY <1>1, <2>2, AppendIsConcat DEF Whole
<1>. QED BY <1>2, <1>3

\* What happens to the contents, if the threads did not meet.
LEMMA ContentsMove ==
  ASSUME PointerType, DoingType, FilesType, raced \in BOOLEAN, OneActive, ~raced', RecorderEffect,
         Active # "clear" => fp_events \notin closed
  PROVE  \/ /\ Active = "idle" /\ Active' \in {"open", "write end"}
            /\ UNCHANGED <<fp_events, closed, written, inputs>>
         \/ /\ Active = "idle" /\ Active' = "write event"
            /\ fp_events \in Files
            /\ pushing' \in UserMessages
            /\ inputs' = [inputs EXCEPT ![fp_events] = Append(@, pushing')]
            /\ UNCHANGED <<fp_events, closed, written>>
         \/ /\ Active = "open" /\ Active' = "write start"
            /\ fp_events' = opened + 1 \/ fp_events' = NoFile
            /\ UNCHANGED <<closed, written, inputs>>
         \/ /\ \/ Active = "write start" /\ Active' = "idle"
                  /\ written' = [written EXCEPT ![fp_events] = Append(@, Start)]
               \/ Active = "write event" /\ Active' = "idle"
                  /\ written' = [written EXCEPT ![fp_events] = Append(@, JsonSerialize(pushing))]
               \/ Active = "write end" /\ Active' = "close"
                  /\ written' = [written EXCEPT ![fp_events] = Append(@, End)]
            /\ fp_events \in Files
            /\ UNCHANGED <<fp_events, closed, inputs>>
         \/ /\ Active = "close" /\ Active' = "clear"
            /\ closed' = closed \cup {fp_events}
            /\ UNCHANGED <<fp_events, written, inputs>>
         \/ fp_events' \notin Files /\ UNCHANGED <<closed, written, inputs>>
         \/ UNCHANGED <<Active, pushing, fp_events, closed, written, inputs>>
<1>0. /\ Steps = {"idle", "open", "write start", "write event", "write end", "close", "clear"}
      /\ doing \in [Threads -> Steps]
      /\ "main" \in Threads
  BY DEF Steps, DoingType, Threads
<1>1. ASSUME NEW t \in Threads, StartRecordEvents(t) \/ StopRecordEvents(t)
      PROVE  Active = "idle" /\ Active' \in {"open", "write end"}
             /\ UNCHANGED <<fp_events, closed, written, inputs>>
  BY <1>0, <1>1, Begins DEF StartRecordEvents, StopRecordEvents, fileVars
<1>2. ASSUME NEW t \in Threads, OpenFile(t)
      PROVE  /\ Active = "open" /\ Active' = "write start"
             /\ fp_events' = opened + 1 \/ fp_events' = NoFile
             /\ UNCHANGED <<closed, written, inputs>>
  BY <1>0, <1>2, Goings DEF OpenFile
<1>3. ASSUME NEW t \in Threads, NEW from \in Steps \ {"idle", "clear"}, NEW to \in Steps, NEW what,
             Write(t, from, to, what)
      PROVE  /\ Active = from /\ Active' = to
             /\ UNCHANGED <<fp_events, closed, inputs>>
             /\ \/ fp_events \in Files /\ written' = [written EXCEPT ![fp_events] = Append(@, what)]
                \/ fp_events' \notin Files /\ written' = written
  <2>1. Active = from /\ Active' = to
    BY <1>0, <1>3, Goings DEF Write
  <2>2. UNCHANGED <<fp_events, closed, inputs>>
    BY <1>3 DEF Write, recorderHistory
  <2>3. \/ fp_events \in Files /\ written' = [written EXCEPT ![fp_events] = Append(@, what)]
        \/ fp_events \notin Files \ closed /\ written' = written
        \/ fp_events \in closed
    BY <1>3, Zenon DEF Write, Access
  <2>. QED BY <2>1, <2>2, <2>3
<1>4. ASSUME NEW t \in Threads, CloseFile(t)
      PROVE  /\ Active = "close" /\ Active' = "clear"
             /\ UNCHANGED <<fp_events, written, inputs>>
             /\ closed' = closed \cup {fp_events} \/ (fp_events' \notin Files /\ closed' = closed)
  <2>1. Active = "close" /\ Active' = "clear"
    BY <1>0, <1>4, Goings DEF CloseFile
  <2>2. UNCHANGED <<fp_events, written, inputs>>
    BY <1>4 DEF CloseFile, recorderHistory
  <2>3. \/ closed' = closed \cup {fp_events}
        \/ fp_events \notin Files \ closed /\ closed' = closed
        \/ fp_events \in closed
    BY <1>4, Zenon DEF CloseFile, Access
  <2>. QED BY <2>1, <2>2, <2>3
<1>5. ASSUME NEW t \in Threads, ClearFile(t)
      PROVE  fp_events' \notin Files /\ UNCHANGED <<closed, written, inputs>>
  <2>1. NoFile \notin Files
    BY EventRecorderAssumption DEF NoFile, Files
  <2>. QED BY <1>5, <2>1 DEF ClearFile, recorderHistory
<1>6. ASSUME NEW msg \in UserMessages, PushInput(msg), fp_events # NoFile
      PROVE  /\ Active = "idle" /\ Active' = "write event"
             /\ fp_events \in Files
             /\ pushing' \in UserMessages
             /\ inputs' = [inputs EXCEPT ![fp_events] = Append(@, pushing')]
             /\ UNCHANGED <<fp_events, closed, written>>
  <2>1. Active = "idle" /\ Active' = "write event"
    BY <1>0, <1>6, Begins DEF PushInput
  <2>2. fp_events \in Files
    BY <1>6, EventRecorderAssumption DEF PointerType, NoFile, Files
  <2>. QED BY <1>6, <2>1, <2>2, Zenon DEF PushInput, fileVars
<1>7. ASSUME UNCHANGED <<fileVars, doing, pushing, raced, noFile, misused, inputs>>
      PROVE  UNCHANGED <<Active, pushing, fp_events, closed, written, inputs>>
  BY <1>7 DEF Active, fileVars
<1>8. /\ {"write start", "write event", "write end"} \subseteq Steps \ {"idle", "clear"}
      /\ {"idle", "close"} \subseteq Steps
  BY <1>0
<1>9. ASSUME NEW t \in Threads, WriteStart(t) \/ WriteEnd(t) \/ (t = "main" /\ WriteEvent)
      PROVE  \/ /\ \/ Active = "write start" /\ Active' = "idle"
                      /\ written' = [written EXCEPT ![fp_events] = Append(@, Start)]
                   \/ Active = "write event" /\ Active' = "idle"
                      /\ written' = [written EXCEPT ![fp_events] = Append(@, JsonSerialize(pushing))]
                   \/ Active = "write end" /\ Active' = "close"
                      /\ written' = [written EXCEPT ![fp_events] = Append(@, End)]
                /\ fp_events \in Files
                /\ UNCHANGED <<fp_events, closed, inputs>>
             \/ fp_events' \notin Files /\ UNCHANGED <<closed, written, inputs>>
  <2>1. CASE WriteStart(t)
    <3>1. Write(t, "write start", "idle", Start)
      BY <2>1 DEF WriteStart
    <3>. QED BY <1>3, <1>8, <3>1, Zenon
  <2>2. CASE WriteEnd(t)
    <3>1. Write(t, "write end", "close", End)
      BY <2>2 DEF WriteEnd
    <3>. QED BY <1>3, <1>8, <3>1, Zenon
  <2>3. CASE t = "main" /\ WriteEvent
    <3>1. Write(t, "write event", "idle", JsonSerialize(pushing))
      BY <2>3 DEF WriteEvent
    <3>. QED BY <1>3, <1>8, <3>1, Zenon
  <2>. QED BY <1>9, <2>1, <2>2, <2>3
<1>. QED BY <1>1, <1>2, <1>4, <1>5, <1>6, <1>7, <1>9, RecorderMoves, Zenon

LEMMA ContentsKept ==
  ASSUME PointerType, DoingType, FilesType,
         raced \in BOOLEAN, noFile \in BOOLEAN, misused \in BOOLEAN,
         TurnsInv, ContentsInv, RecorderEffect
  PROVE  ContentsInv'
<1>. SUFFICES ASSUME ~raced'
              PROVE  /\ \A f \in closed' : written'[f] = Whole(inputs'[f])
                     /\ fp_events' \in Files \ closed' => OpenContents'
  BY Zenon DEF ContentsInv
<1>1. /\ ~raced /\ OneActive
      /\ Active # "clear" => fp_events \notin closed
  BY FlagsGrow, Zenon DEF TurnsInv
<1>2. /\ \A f \in closed : written[f] = Whole(inputs[f])
      /\ fp_events \in Files \ closed => OpenContents
  BY <1>1, Zenon DEF ContentsInv
<1>4. /\ written \in [Files -> Seq(Entries)] /\ inputs \in [Files -> Seq(UserMessages)]
      /\ JsonSerialize(pushing) \in Entries /\ Start \in Entries /\ End \in Entries
  BY DEF FilesType, DoingType, Entries
<1>5. closed \subseteq Files
  BY EventRecorderAssumption DEF PointerType, Files
<1>. HIDE DEF Active
<1>6. CASE /\ Active = "idle" /\ Active' \in {"open", "write end"}
           /\ UNCHANGED <<fp_events, closed, written, inputs>>
  BY <1>2, <1>6 DEF OpenContents
<1>7. CASE /\ Active = "idle" /\ Active' = "write event"
           /\ fp_events \in Files
           /\ pushing' \in UserMessages
           /\ inputs' = [inputs EXCEPT ![fp_events] = Append(@, pushing')]
           /\ UNCHANGED <<fp_events, closed, written>>
  <2>1. fp_events \notin closed /\ written[fp_events] = Begun(inputs[fp_events])
    BY <1>1, <1>2, <1>7 DEF OpenContents
  <2>2. /\ inputs'[fp_events] = Append(inputs[fp_events], pushing')
        /\ \A f \in closed : inputs'[f] = inputs[f]
    BY <1>4, <1>5, <1>7, <2>1
  <2>3. Begun(inputs'[fp_events]) = Append(Begun(inputs[fp_events]), JsonSerialize(pushing'))
    BY <1>4, <1>7, <2>2, Continues
  <2>4. \A f \in closed' : written'[f] = Whole(inputs'[f])
    BY <1>2, <1>7, <2>2
  <2>5. OpenContents'
    BY <1>7, <2>1, <2>3 DEF OpenContents
  <2>. QED BY <2>4, <2>5
<1>8. CASE /\ Active = "open" /\ Active' = "write start"
           /\ fp_events' = opened + 1 \/ fp_events' = NoFile
           /\ UNCHANGED <<closed, written, inputs>>
  <2>1. fp_events' \in Files => written[fp_events'] = <<>> /\ inputs[fp_events'] = <<>>
    <3>1. NoFile \notin Files /\ opened + 1 > opened
      BY EventRecorderAssumption DEF PointerType, Files, NoFile
    <3>. QED BY <1>8, <3>1 DEF FilesType
  <2>. QED BY <1>2, <1>8, <2>1 DEF OpenContents
<1>9. ASSUME NEW what \in Entries,
             written' = [written EXCEPT ![fp_events] = Append(@, what)],
             fp_events \in Files, UNCHANGED <<fp_events, closed, inputs>>, Active # "clear"
      PROVE  /\ written'[fp_events] = Append(written[fp_events], what)
             /\ \A f \in closed' : written'[f] = Whole(inputs'[f])
             /\ OpenContents
  <2>1. fp_events \notin closed
    BY <1>1, <1>9
  <2>2. \A f \in closed : written'[f] = written[f]
    BY <1>4, <1>5, <1>9, <2>1
  <2>3. written'[fp_events] = Append(written[fp_events], what)
    BY <1>4, <1>9
  <2>. QED BY <1>2, <1>9, <2>1, <2>2, <2>3
<1>10. CASE /\ Active = "write start" /\ Active' = "idle"
            /\ written' = [written EXCEPT ![fp_events] = Append(@, Start)]
            /\ fp_events \in Files
            /\ UNCHANGED <<fp_events, closed, inputs>>
  BY <1>4, <1>9, <1>10, Beginning DEF OpenContents
<1>11. CASE /\ Active = "write event" /\ Active' = "idle"
            /\ written' = [written EXCEPT ![fp_events] = Append(@, JsonSerialize(pushing))]
            /\ fp_events \in Files
            /\ UNCHANGED <<fp_events, closed, inputs>>
  BY <1>4, <1>9, <1>11 DEF OpenContents
<1>12. CASE /\ Active = "write end" /\ Active' = "close"
            /\ written' = [written EXCEPT ![fp_events] = Append(@, End)]
            /\ fp_events \in Files
            /\ UNCHANGED <<fp_events, closed, inputs>>
  BY <1>4, <1>9, <1>12, Beginning DEF OpenContents
<1>13. CASE /\ Active = "close" /\ Active' = "clear"
            /\ closed' = closed \cup {fp_events}
            /\ UNCHANGED <<fp_events, written, inputs>>
  <2>1. fp_events \in Files
    BY <1>13, PointerTyped, EventRecorderAssumption DEF PointerType, Files
  <2>. QED BY <1>1, <1>2, <1>13, <2>1 DEF OpenContents
<1>14. CASE fp_events' \notin Files /\ UNCHANGED <<closed, written, inputs>>
  BY <1>2, <1>14
<1>15. CASE UNCHANGED <<Active, pushing, fp_events, closed, written, inputs>>
  BY <1>2, <1>15 DEF OpenContents
<1>. QED
  BY <1>1, <1>6, <1>7, <1>8, <1>10, <1>11, <1>12, <1>13, <1>14, <1>15, ContentsMove, Zenon

----------------------------------------------------------------------------
(* The file, of which the last opening decides. *)

AllClosed == opened # 0 /\ 1..opened \subseteq closed

DiskInv ==
  /\ fp_events \in {NoFile, opened}
  /\ AllClosed => disk = written[opened]

\* What happens to the file.
LEMMA DiskMoves ==
  ASSUME RecorderEffect
  PROVE  \/ UNCHANGED <<fp_events, opened, closed, written>> /\ (AllClosed => disk' = disk)
         \/ fp_events' = NoFile /\ UNCHANGED <<opened, closed, written, disk>>
         \/ fp_events' = opened' /\ opened' = opened + 1 /\ closed' = closed
         \/ /\ fp_events \in Files \ closed
            /\ \E what : written' = [written EXCEPT ![fp_events] = Append(@, what)]
            /\ UNCHANGED <<fp_events, opened, closed, disk>>
         \/ /\ fp_events \in Files \ closed
            /\ closed' = closed \cup {fp_events} /\ disk' = written[fp_events]
            /\ UNCHANGED <<fp_events, opened, written>>
<1>. USE Zenon DEF fileVars
<1>1. ASSUME NEW t \in Threads, StartRecordEvents(t) \/ StopRecordEvents(t)
      PROVE  UNCHANGED <<fp_events, opened, closed, written, disk>>
  BY <1>1 DEF StartRecordEvents, StopRecordEvents
<1>2. ASSUME NEW t \in Threads, OpenFile(t)
      PROVE  \/ fp_events' = opened' /\ opened' = opened + 1 /\ closed' = closed
             \/ fp_events' = NoFile /\ UNCHANGED <<opened, closed, written, disk>>
  BY <1>2 DEF OpenFile
<1>3. ASSUME NEW t \in Threads, WriteStart(t) \/ WriteEnd(t) \/ WriteEvent
      PROVE  \/ UNCHANGED <<fp_events, opened, closed, written, disk>>
             \/ /\ fp_events \in Files \ closed
                /\ \E what : written' = [written EXCEPT ![fp_events] = Append(@, what)]
                /\ UNCHANGED <<fp_events, opened, closed, disk>>
  BY <1>3 DEF WriteStart, WriteEnd, WriteEvent, Write, Access
<1>4. ASSUME NEW t \in Threads, CloseFile(t)
      PROVE  \/ UNCHANGED <<fp_events, opened, closed, written, disk>>
             \/ /\ fp_events \in Files \ closed
                /\ closed' = closed \cup {fp_events} /\ disk' = written[fp_events]
                /\ UNCHANGED <<fp_events, opened, written>>
  BY <1>4 DEF CloseFile, Access
<1>5. ASSUME NEW t \in Threads, ClearFile(t)
      PROVE  fp_events' = NoFile /\ UNCHANGED <<opened, closed, written, disk>>
  BY <1>5 DEF ClearFile
<1>6. ASSUME OverflowTemp
      PROVE  UNCHANGED <<fp_events, opened, closed, written, disk>>
  BY <1>6 DEF OverflowTemp
<1>7. ASSUME NEW msg \in UserMessages, PushInput(msg), fp_events # NoFile
      PROVE  UNCHANGED <<fp_events, opened, closed, written, disk>>
  BY <1>7 DEF PushInput
<1>8. ASSUME FlushFiles
      PROVE  UNCHANGED <<fp_events, opened, closed, written>> /\ (AllClosed => disk' = disk)
  <2>1. UNCHANGED <<fp_events, opened, closed, written>>
    BY <1>8 DEF FlushFiles
  <2>2. ASSUME AllClosed
        PROVE  disk' = disk
    <3>1. (1..opened) \ closed = {}
      BY <2>2 DEF AllClosed
    <3>2. disk' \in {disk}
      BY <1>8, <3>1 DEF FlushFiles
    <3>. QED BY <3>2
  <2>. QED BY <2>1, <2>2
<1>9. ASSUME UNCHANGED recorderVars
      PROVE  UNCHANGED <<fp_events, opened, closed, written, disk>>
  BY <1>9 DEF recorderVars
<1>. QED
  BY <1>1, <1>2, <1>3, <1>4, <1>5, <1>6, <1>7, <1>8, <1>9 DEF RecorderEffect, RecorderStep

LEMMA DiskKept ==
  ASSUME PointerType, FilesType, DiskInv, RecorderEffect
  PROVE  DiskInv'
<1>1. /\ opened \in Nat /\ closed \subseteq 1..opened /\ Files = 1..MaxFiles /\ NoFile = 0
      /\ fp_events \in {NoFile, opened}
      /\ AllClosed => disk = written[opened]
  BY EventRecorderAssumption DEF PointerType, DiskInv, Files, NoFile
<1>2. CASE UNCHANGED <<fp_events, opened, closed, written>> /\ (AllClosed => disk' = disk)
  BY <1>1, <1>2 DEF DiskInv, AllClosed
<1>3. CASE fp_events' = NoFile /\ UNCHANGED <<opened, closed, written, disk>>
  BY <1>1, <1>3 DEF DiskInv, AllClosed
<1>4. CASE fp_events' = opened' /\ opened' = opened + 1 /\ closed' = closed
  <2>1. opened' \in 1..opened' /\ opened' \notin closed'
    BY <1>1, <1>4
  <2>. QED BY <1>1, <1>4, <2>1 DEF DiskInv, AllClosed
<1>5. CASE /\ fp_events \in Files \ closed
           /\ \E what : written' = [written EXCEPT ![fp_events] = Append(@, what)]
           /\ UNCHANGED <<fp_events, opened, closed, disk>>
  <2>1. fp_events = opened /\ opened \in 1..opened /\ opened \notin closed
    BY <1>1, <1>5
  <2>. QED BY <1>1, <1>5, <2>1 DEF DiskInv, AllClosed
<1>6. CASE /\ fp_events \in Files \ closed
           /\ closed' = closed \cup {fp_events} /\ disk' = written[fp_events]
           /\ UNCHANGED <<fp_events, opened, written>>
  <2>1. fp_events = opened
    BY <1>1, <1>6
  <2>. QED BY <1>1, <1>6, <2>1 DEF DiskInv, AllClosed
<1>. QED BY <1>2, <1>3, <1>4, <1>5, <1>6, DiskMoves, Zenon

----------------------------------------------------------------------------
(* The messages that were recorded. *)

\* One of them is a given one.
IsInput(msg) == \E f \in Files : \E i \in DOMAIN inputs[f] : inputs[f][i] = msg

\* The message that is being recorded is one of them.
PushingInv == doing["main"] = "write event" => IsInput(pushing)

LEMMA InputsGrow ==
  ASSUME PointerType, FilesType, RecorderEffect, NEW msg, IsInput(msg)
  PROVE  IsInput(msg)'
<1>1. CASE inputs' = inputs
  BY <1>1, Zenon DEF IsInput
<1>2. ASSUME NEW new \in UserMessages, PushInput(new), fp_events # NoFile
      PROVE  IsInput(msg)'
  <2>1. fp_events \in Files /\ inputs' = [inputs EXCEPT ![fp_events] = Append(@, new)]
    <3>1. fp_events \in Files
      BY <1>2, EventRecorderAssumption DEF PointerType, Files, NoFile
    <3>. QED BY <1>2, <3>1, Zenon DEF PushInput
  <2>2. PICK f \in Files : \E i \in DOMAIN inputs[f] : inputs[f][i] = msg
    BY Zenon DEF IsInput
  <2>3. inputs[f] \in Seq(UserMessages) /\ inputs \in [Files -> Seq(UserMessages)]
    BY DEF FilesType
  <2>4. PICK i \in DOMAIN inputs[f] : inputs[f][i] = msg
    BY <2>2
  <2>5. i \in DOMAIN inputs'[f] /\ inputs'[f][i] = msg
    BY <1>2, <2>1, <2>3, <2>4
  <2>. QED BY <2>5, Zenon DEF IsInput
<1>3. ASSUME NEW t \in Threads, WriteStart(t) \/ WriteEnd(t) \/ (t = "main" /\ WriteEvent)
             \/ OpenFile(t) \/ CloseFile(t) \/ ClearFile(t)
             \/ StartRecordEvents(t) \/ StopRecordEvents(t)
      PROVE  inputs' = inputs
  BY <1>3, Zenon
  DEF WriteStart, WriteEnd, WriteEvent, Write, OpenFile, CloseFile, ClearFile, StartRecordEvents,
      StopRecordEvents, recorderHistory
<1>. QED BY <1>1, <1>2, <1>3, RecorderMoves, Zenon

LEMMA PushingKept ==
  ASSUME PointerType, DoingType, FilesType, PushingInv, RecorderEffect
  PROVE  PushingInv'
<1>1. ASSUME pushing' = pushing, doing'["main"] = "write event" => doing["main"] = "write event"
      PROVE  PushingInv'
  BY <1>1, InputsGrow, Zenon DEF PushingInv
<1>2. ASSUME NEW msg \in UserMessages, PushInput(msg), fp_events # NoFile
      PROVE  PushingInv'
  <2>1. fp_events \in Files /\ inputs' = [inputs EXCEPT ![fp_events] = Append(@, msg)] /\ pushing' = msg
    <3>1. fp_events \in Files
      BY <1>2, EventRecorderAssumption DEF PointerType, Files, NoFile
    <3>. QED BY <1>2, <3>1, Zenon DEF PushInput
  <2>2. inputs[fp_events] \in Seq(UserMessages) /\ inputs \in [Files -> Seq(UserMessages)]
    BY <2>1 DEF FilesType
  <2>. DEFINE last == Len(inputs[fp_events]) + 1
  <2>3. last \in DOMAIN inputs'[fp_events] /\ inputs'[fp_events][last] = msg
    BY <1>2, <2>1, <2>2
  <2>4. IsInput(pushing)'
    BY <2>1, <2>3, Zenon DEF IsInput
  <2>. QED BY <2>4, Zenon DEF PushingInv
<1>3. ASSUME NEW t \in Threads, NEW step \in Steps \ {"write event"}, doing \in [Threads -> Steps],
             doing' = [doing EXCEPT ![t] = step]
      PROVE  doing'["main"] = "write event" => doing["main"] = "write event"
  BY <1>3 DEF Threads
<1>4. /\ {"idle", "open", "write start", "write end", "close", "clear"} \subseteq Steps \ {"write event"}
      /\ doing \in [Threads -> Steps]
  BY DEF Steps, DoingType
<1>5. ASSUME NEW t \in Threads,
             \/ StartRecordEvents(t) \/ StopRecordEvents(t)
             \/ WriteStart(t) \/ WriteEnd(t) \/ (t = "main" /\ WriteEvent)
             \/ OpenFile(t) \/ CloseFile(t) \/ ClearFile(t)
      PROVE  /\ pushing' = pushing
             /\ \E step \in {"idle", "open", "write start", "write end", "close", "clear"} :
                  doing' = [doing EXCEPT ![t] = step]
  <2>1. pushing' = pushing
    BY <1>5, Zenon
    DEF WriteStart, WriteEnd, WriteEvent, Write, OpenFile, CloseFile, ClearFile, StartRecordEvents,
        StopRecordEvents
  <2>2. \/ doing' = [doing EXCEPT ![t] = "idle"] \/ doing' = [doing EXCEPT ![t] = "open"]
        \/ doing' = [doing EXCEPT ![t] = "write start"] \/ doing' = [doing EXCEPT ![t] = "write end"]
        \/ doing' = [doing EXCEPT ![t] = "close"] \/ doing' = [doing EXCEPT ![t] = "clear"]
    BY <1>5, Zenon
    DEF WriteStart, WriteEnd, WriteEvent, Write, OpenFile, CloseFile, ClearFile, StartRecordEvents,
        StopRecordEvents, Begin, Goes
  <2>. QED BY <2>1, <2>2
<1>6. ASSUME NEW t \in Threads,
             \/ StartRecordEvents(t) \/ StopRecordEvents(t)
             \/ WriteStart(t) \/ WriteEnd(t) \/ (t = "main" /\ WriteEvent)
             \/ OpenFile(t) \/ CloseFile(t) \/ ClearFile(t)
      PROVE  PushingInv'
  BY <1>1, <1>3, <1>4, <1>5, <1>6
<1>7. CASE UNCHANGED <<fileVars, doing, pushing, raced, noFile, misused, inputs>>
  BY <1>1, <1>7, Zenon
<1>. QED BY <1>2, <1>6, <1>7, RecorderMoves, Zenon

----------------------------------------------------------------------------
(* The agents. *)

AllDocuments == Replayed \cup Strange \cup Recording
Pieces == AllDocuments \X {1, 2}

\* Clients that have connected at some time.
Met == {"here", "left", "reset"}

SessionType == session \in {"agents", "stranger", "user"}

PeersType ==
  /\ stream \in [Clients -> Seq(Pieces)]
  /\ buf \in Seq(Pieces)
  /\ client \in [Clients -> {"away"} \cup Met]
  /\ backlog \in Seq(Clients)
  /\ control_socket \in Clients \cup {NoClient}
  /\ r \in Int /\ r >= -1

\* The agent's thread is created by the main thread.
BirthInv == mainPc = "start" => agentPc = "unborn"

\* Nobody has reset a connection.
Unharmed ==
  /\ \A c \in Clients : client[c] \in {"away", "here", "left"}
  /\ r \in Nat

\* A client that waits or is served has connected, and only a client that reset
\* its connection makes recv return -1.
PeersInv ==
  /\ \A i \in DOMAIN backlog : client[backlog[i]] \in Met
  /\ agentPc \in {"loop", "receive", "process", "record"} =>
       control_socket \in Clients /\ client[control_socket] \in Met
  /\ wasReset \/ Unharmed
  /\ agentPc = "accept again" => r <= 0

\* What is left to be processed.
Waiting == agentPc = "process" /\ r > 0

ReceivedInv ==
  Waiting =>
    /\ IsDocument(buf) /\ Unfit(buf[1][1]) => unfit
    /\ alone => IsDocument(buf)

\* Only an unfit document becomes a message that the controller cannot serialise.
PushedInv == \A i \in DOMAIN pushed : Fatal(pushed[i]) => unfit

CrashInv == crashed => raced \/ noFile \/ misused \/ wasReset \/ unfit \/ IsInput(Text(TooLong))

\* What the device is told for a document.
Conforms(msg, doc) ==
  \/ msg = Meant(doc)
  \/ doc = JsonSerialize(FarFinger) /\ msg.pressure = Meant(doc).pressure
  \/ doc.msg_type = "INJECT_TEXT" /\ msg = Text(NullText)

Late == Waiting /\ ForDevice(buf[1][1])

ToldInv ==
  /\ alone \in BOOLEAN
  /\ meant \in Seq(AllDocuments)
  /\ pushed \in Seq({JsonDeserialize(doc) : doc \in AllDocuments})
  /\ alone =>
       /\ Len(meant) = Len(pushed) + (IF Late THEN 1 ELSE 0)
       /\ Late => meant[Len(meant)] = buf[1][1]
       /\ \A i \in DOMAIN pushed : Conforms(pushed[i], meant[i])

\* What JsonDeserialize makes of a document that tells the device something, and of
\* one that does not.
IsTold(doc) ==
  /\ ForDevice(doc)
  /\ Conforms(JsonDeserialize(doc), doc)
  /\ JsonDeserialize(doc) \notin {Nothing, Thrown}
  /\ JsonDeserialize(doc).type \notin {"START_RECORDING", "END_RECORDING"}

IsNotTold(doc) ==
  /\ ~ForDevice(doc)
  /\ \/ JsonDeserialize(doc) \in {Nothing, Thrown}
     \/ JsonDeserialize(doc).type \in {"START_RECORDING", "END_RECORDING"}

\* A finger, as it was written.
LEMMA FingerRead ==
  ASSUME NEW pointer \in Int, NEW pressure \in Int,
         NEW doc, doc = Object("INJECT_TOUCH_EVENT", Touch(pointer, pressure))
  PROVE  /\ JsonDeserialize(doc) = Touch(Narrow(pointer), Nearest(pressure, FloatStep))
         /\ Meant(doc) = Touch(pointer, Nearest(pressure, FloatStep))
         /\ ForDevice(doc)
         /\ JsonDeserialize(doc) \notin {Nothing, Thrown}
         /\ JsonDeserialize(doc).type = "INJECT_TOUCH_EVENT"
         /\ JsonDeserialize(doc).pressure = Meant(doc).pressure
         /\ Fatal(JsonDeserialize(doc)) => Unfit(doc)
<1>. DEFINE body == Touch(pointer, pressure)
<1>1. body.pointer_id = pointer /\ body.pressure = pressure /\ body \notin {NoBody, Partial}
  BY DEF Touch, NoBody, Partial
<1>2. Meant(doc) = Touch(pointer, Nearest(pressure, FloatStep))
  <2>1. Meant(doc) = [body EXCEPT !.pressure = Nearest(@, FloatStep)]
    BY <1>1 DEF Meant, Object
  <2>. QED BY <2>1 DEF Touch
<1>3. doc.json = "object" /\ doc.msg_type = "INJECT_TOUCH_EVENT" /\ doc.body = body
  BY DEF Object
<1>. HIDE DEF body
<1>4. JsonDeserialize(doc) = Touch(Narrow(pointer), Nearest(pressure, FloatStep))
  BY <1>1, <1>3, SMT DEF JsonDeserialize, Known, WithCase, WithBody, Absent
<1>5. ForDevice(doc)
  BY <1>1, <1>3 DEF ForDevice, Known, WithCase, WithBody
<1>6. /\ JsonDeserialize(doc).type = "INJECT_TOUCH_EVENT"
      /\ JsonDeserialize(doc).pressure = Nearest(pressure, FloatStep)
      /\ Meant(doc).pressure = Nearest(pressure, FloatStep)
  BY <1>2, <1>4 DEF Touch
<1>7. JsonDeserialize(doc) \notin {Nothing, Thrown}
  BY <1>6 DEF Nothing, Thrown
<1>8. ASSUME Fatal(JsonDeserialize(doc))
      PROVE  Unfit(doc)
  <2>1. Nearest(pressure, FloatStep) \notin 0..One
    BY <1>6, <1>8 DEF Fatal
  <2>2. pressure \notin 0..One
    BY <2>1, PressuresStay
  <2>. QED BY <1>1, <1>3, <2>2, Zenon DEF Unfit
<1>. QED BY <1>2, <1>4, <1>5, <1>6, <1>7, <1>8, Zenon

\* What JsonDeserialize makes of what the clients send: a document for the device
\* becomes a message that conforms, any other none, and only an unfit one throws or
\* becomes one that the controller cannot serialise.
LEMMA Deserialized ==
  ASSUME NEW doc \in AllDocuments
  PROVE  /\ IsTold(doc) \/ IsNotTold(doc)
         /\ JsonDeserialize(doc) = Thrown => Unfit(doc)
         /\ JsonDeserialize(doc) # Thrown /\ Fatal(JsonDeserialize(doc)) => Unfit(doc)
<1>1. CASE doc = JsonSerialize(Touch(POINTER_ID_MOUSE, One)) \/ doc = JsonSerialize(FarFinger)
           \/ doc = Object("INJECT_TOUCH_EVENT", Touch(POINTER_ID_MOUSE, 2 * One))
  <2>1. ASSUME NEW pointer \in Int, NEW pressure \in Int, doc = JsonSerialize(Touch(pointer, pressure))
        PROVE  \E p \in Int : doc = Object("INJECT_TOUCH_EVENT", Touch(pointer, p))
    <3>1. JsonSerialize(Touch(pointer, pressure)) =
            Object("INJECT_TOUCH_EVENT", Touch(pointer, Nearest(pressure, DecimalStep)))
      BY SMT DEF JsonSerialize, WithCase, WithBody, Touch, Text
    <3>2. Nearest(pressure, DecimalStep) \in Int
      BY NearestIsNear, Pressures
    <3>. QED BY <2>1, <3>1, <3>2
  <2>2. POINTER_ID_MOUSE \in Int /\ IntModulus + 5 \in Int /\ One \in Int /\ 2 * One \in Int
        /\ 3 * FloatStep \in Int
    BY JsonAssumption, Pressures DEF POINTER_ID_MOUSE
  <2>3. PICK pointer \in Int, pressure \in Int :
          /\ doc = Object("INJECT_TOUCH_EVENT", Touch(pointer, pressure))
          /\ pointer = POINTER_ID_MOUSE \/ doc = JsonSerialize(FarFinger)
    <3>1. CASE doc = JsonSerialize(Touch(POINTER_ID_MOUSE, One))
      BY <2>1, <2>2, <3>1
    <3>2. CASE doc = JsonSerialize(FarFinger)
      BY <2>1, <2>2, <3>2 DEF FarFinger
    <3>3. CASE doc = Object("INJECT_TOUCH_EVENT", Touch(POINTER_ID_MOUSE, 2 * One))
      BY <2>2, <3>3
    <3>. QED BY <1>1, <3>1, <3>2, <3>3
  <2>4. /\ JsonDeserialize(doc) = Touch(Narrow(pointer), Nearest(pressure, FloatStep))
        /\ Meant(doc) = Touch(pointer, Nearest(pressure, FloatStep))
        /\ ForDevice(doc)
        /\ JsonDeserialize(doc) \notin {Nothing, Thrown}
        /\ JsonDeserialize(doc).type = "INJECT_TOUCH_EVENT"
        /\ JsonDeserialize(doc).pressure = Meant(doc).pressure
        /\ Fatal(JsonDeserialize(doc)) => Unfit(doc)
    BY <2>3, FingerRead
  <2>5. pointer = POINTER_ID_MOUSE => Narrow(pointer) = pointer
    BY IntsStay, TwoHalves DEF Ints, POINTER_ID_MOUSE
  <2>6. Conforms(JsonDeserialize(doc), doc)
    BY <2>3, <2>4, <2>5, Zenon DEF Conforms
  <2>. QED BY <2>4, <2>6 DEF IsTold
<1>2. CASE doc = JsonSerialize(Text(Quoted))
  <2>1. doc = Garbage
    BY <1>2, QuotedIsGarbage
  <2>2. JsonDeserialize(doc) = Nothing /\ doc.json = "no"
    BY <2>1 DEF JsonDeserialize, Garbage
  <2>. QED BY <2>2 DEF IsNotTold, ForDevice, Nothing, Thrown, Fatal
<1>3. CASE doc = Object("INJECT_TEXT", NoBody)
  <2>1. JsonDeserialize(doc) = Text(NullText)
    BY <1>3, SMT DEF JsonDeserialize, Object, Known, WithCase, WithBody, Absent
  <2>2. doc.json = "object" /\ doc.msg_type = "INJECT_TEXT"
    BY <1>3 DEF Object
  <2>3. ForDevice(doc)
    BY <1>3 DEF ForDevice, Object, Known, WithCase, WithBody, NoBody, Partial
  <2>4. JsonDeserialize(doc).type = "INJECT_TEXT" /\ JsonDeserialize(doc) \notin {Nothing, Thrown}
    BY <2>1 DEF Text, Nothing, Thrown
  <2>5. Conforms(JsonDeserialize(doc), doc) /\ Unfit(doc)
    BY <2>1, <2>2 DEF Conforms, Unfit
  <2>. QED BY <2>3, <2>4, <2>5 DEF IsTold
<1>4. CASE doc = Array
  <2>1. JsonDeserialize(doc) = Thrown /\ doc.json = "array"
    BY <1>4 DEF JsonDeserialize, Array
  <2>. QED BY <2>1 DEF IsNotTold, ForDevice, Unfit
<1>5. ASSUME NEW type \in Known \cup {Absent}, NEW body \in {NoBody, Partial},
             doc = Object(type, body), type = Absent \/ (type \in WithBody /\ ~(type = "INJECT_TEXT" /\ body = NoBody))
      PROVE  IsNotTold(doc) /\ JsonDeserialize(doc) = Thrown /\ Unfit(doc)
  <2>1. doc.json = "object" /\ doc.msg_type = type /\ doc.body = body
    BY <1>5 DEF Object
  <2>2. JsonDeserialize(doc) = Thrown
    BY <1>5, <2>1, SMT DEF JsonDeserialize, Known, WithCase, WithBody, Absent
  <2>3. ~ForDevice(doc)
    BY <1>5, <2>1 DEF ForDevice, Known, WithCase, WithBody, Absent
  <2>4. Unfit(doc)
    BY <1>5, <2>1, Zenon DEF Unfit
  <2>. QED BY <2>2, <2>3, <2>4 DEF IsNotTold
<1>6. CASE \E type \in {"ROTATE_DEVICE", "SET_CLIPBOARD"} : doc = Object(type, NoBody)
  <2>1. PICK type \in {"ROTATE_DEVICE", "SET_CLIPBOARD"} : doc = Object(type, NoBody)
    BY <1>6
  <2>2. doc.json = "object" /\ doc.msg_type = type /\ doc.body = NoBody
    BY <2>1 DEF Object
  <2>3. JsonDeserialize(doc) = Plain(type)
    BY <2>2, SMT DEF JsonDeserialize, Known, WithCase, WithBody, Absent
  <2>4. Meant(doc) = Plain(type)
    BY <2>2 DEF Meant
  <2>5. ForDevice(doc)
    BY <2>2 DEF ForDevice, Known, WithCase, WithBody
  <2>6. JsonDeserialize(doc).type = type
    BY <2>3 DEF Plain
  <2>7. JsonDeserialize(doc) \notin {Nothing, Thrown}
    BY <2>6 DEF Nothing, Thrown
  <2>8. Fatal(JsonDeserialize(doc)) => Unfit(doc)
    BY <2>2, <2>6 DEF Fatal, Unfit
  <2>. QED BY <2>3, <2>4, <2>5, <2>6, <2>7, <2>8 DEF IsTold, Conforms
<1>7. CASE \E text : doc = Object("INJECT_TEXT", Text(text))
  <2>1. PICK text : doc = Object("INJECT_TEXT", Text(text))
    BY <1>7
  <2>2. doc.json = "object" /\ doc.msg_type = "INJECT_TEXT" /\ doc.body = Text(text)
    BY <2>1 DEF Object
  <2>3. Text(text) \notin {NoBody, Partial} /\ Text(text).type = "INJECT_TEXT"
    BY DEF Text, NoBody, Partial
  <2>4. JsonDeserialize(doc) = Text(text)
    BY <2>2, <2>3, SMT DEF JsonDeserialize, Known, WithCase, WithBody, Absent
  <2>5. Meant(doc) = Text(text) /\ ForDevice(doc)
    BY <2>2, <2>3 DEF Meant, ForDevice, Known, WithCase, WithBody
  <2>6. JsonDeserialize(doc) \notin {Nothing, Thrown}
    BY <2>3, <2>4 DEF Nothing, Thrown
  <2>7. Unfit(doc)
    BY <2>2 DEF Unfit
  <2>. QED BY <2>3, <2>4, <2>5, <2>6, <2>7 DEF IsTold, Conforms
<1>8. CASE doc \in Recording
  <2>1. PICK type \in {"START_RECORDING", "END_RECORDING"} : doc = Object(type, NoBody)
    BY <1>8 DEF Recording
  <2>2. doc.json = "object" /\ doc.msg_type = type /\ doc.body = NoBody
    BY <2>1 DEF Object
  <2>3. JsonDeserialize(doc) = Plain(type)
    BY <2>2, SMT DEF JsonDeserialize, Known, WithCase, WithBody, Absent
  <2>4. JsonDeserialize(doc).type = type
    BY <2>3 DEF Plain
  <2>5. JsonDeserialize(doc) # Thrown /\ ~Fatal(JsonDeserialize(doc))
    BY <2>4 DEF Thrown, Fatal
  <2>6. ~ForDevice(doc)
    BY <2>2 DEF ForDevice
  <2>. QED BY <2>4, <2>5, <2>6 DEF IsNotTold
<1>9. JsonSerialize(Plain("ROTATE_DEVICE")) = Object("ROTATE_DEVICE", NoBody)
  BY SMT DEF JsonSerialize, WithCase, WithBody, Plain, Text
<1>10. {"INJECT_TEXT", "INJECT_KEYCODE", "INJECT_SCROLL_EVENT"} \subseteq Known \cap WithBody
  BY DEF Known, WithCase, WithBody
<1>11. NoBody # Partial
  BY DEF NoBody, Partial
<1>12. CASE doc \in {Object(Absent, NoBody), Object("INJECT_TEXT", Partial), Object("INJECT_KEYCODE", NoBody),
                     Object("INJECT_SCROLL_EVENT", Partial)}
  BY <1>5, <1>10, <1>11, <1>12
<1>. QED
  BY <1>1, <1>2, <1>3, <1>4, <1>6, <1>7, <1>8, <1>9, <1>12, Zenon DEF AllDocuments, Replayed, Strange

\* A document that is whole is read, and recv's -1 makes the length invalid.
LEMMA MessageRead ==
  ASSUME r \in Int, r >= -1
  PROVE  /\ r = -1 => Message = Thrown
         /\ r >= 0 /\ ~(r > 0 /\ IsDocument(buf)) => Message = Nothing
         /\ r > 0 /\ IsDocument(buf) => Message = JsonDeserialize(buf[1][1])
BY DEF Message

\* A document that was received is one that was sent.
LEMMA WholeDocument ==
  ASSUME NEW halves \in Seq(Pieces), IsDocument(halves)
  PROVE  halves[1][1] \in AllDocuments
BY DEF IsDocument, Pieces

\* What the agent controller's thread and the clients do.
LEMMA AgentMoves ==
  ASSUME [Next]_vars
  PROVE  \/ \E c \in Clients : Connect(c) \/ Send(c) \/ Leave(c) \/ Reset(c)
         \/ Accept \/ AcceptFails \/ TestStopped \/ Receive \/ ReceiveFails
         \/ ProcessMessages \/ Recorded \/ StartThreads \/ CloseServer
         \/ UNCHANGED <<agentVars, backlog, client, stream, agentHistory>>
<1>1. CASE AgentRecords \/ MainRecords \/ UserToggles \/ UserPushes \/ RunAgentRecorder
           \/ Stop \/ Join \/ UserQuits \/ SerializePushed \/ Exit \/ UNCHANGED vars
  BY <1>1, Zenon
  DEF AgentRecords, MainRecords, UserToggles, UserPushes, RunAgentRecorder, Stop, Join, UserQuits,
      SerializePushed, Exit, vars, peerVars
<1>. QED BY <1>1, Zenon DEF Next, AgentThread, MainThread, User, Peers, Finished

LEMMA SessionTyped ==
  ASSUME SessionType, [Next]_vars
  PROVE  SessionType'
<1>. USE Zenon DEF mainVars
<1>1. CASE session' = session
  BY <1>1 DEF SessionType
<1>2. CASE Accept \/ AcceptFails \/ TestStopped \/ Receive \/ ReceiveFails \/ ProcessMessages \/ Recorded
           \/ AgentRecords \/ SerializePushed \/ RunAgentRecorder
  BY <1>1, <1>2
  DEF Accept, AcceptFails, TestStopped, Receive, ReceiveFails, ProcessMessages, Recorded, AgentRecords,
      SerializePushed, RunAgentRecorder
<1>3. CASE StartThreads \/ MainRecords \/ CloseServer \/ Stop \/ Join \/ Exit
           \/ UserToggles \/ UserPushes \/ UserQuits
  BY <1>1, <1>3
  DEF StartThreads, MainRecords, CloseServer, Stop, Join, Exit, UserToggles, UserPushes, UserQuits
<1>4. CASE Peers
  BY <1>1, <1>4 DEF Peers, Connect, Send, Leave, Reset
<1>5. CASE UNCHANGED vars
  BY <1>1, <1>5 DEF vars
<1>. QED BY <1>2, <1>3, <1>4, <1>5 DEF Next, AgentThread, MainThread, User, Finished

LEMMA PeersTyped ==
  ASSUME SessionType, PeersType, PeersInv, [Next]_vars
  PROVE  PeersType'
<1>0. /\ stream \in [Clients -> Seq(Pieces)] /\ buf \in Seq(Pieces)
      /\ backlog \in Seq(Clients) /\ control_socket \in Clients \cup {NoClient}
  BY DEF PeersType
<1>1. ASSUME NEW c \in Clients, Connect(c) \/ Leave(c)
      PROVE  PeersType'
  <2>1. UNCHANGED <<buf, control_socket, r>> /\ stream' \in [Clients -> Seq(Pieces)]
    <3>1. UNCHANGED <<buf, control_socket, r>>
      BY <1>1 DEF Connect, Leave, agentVars
    <3>2. Halves(Garbage)[1] \in Pieces
      <4>1. Garbage \in AllDocuments
        BY QuotedIsGarbage, Zenon DEF AllDocuments, Replayed
      <4>. QED BY <4>1 DEF Halves, Pieces
    <3>3. stream' = stream \/ stream' = [stream EXCEPT ![c] = Append(@, Halves(Garbage)[1])]
      BY <1>1, Zenon DEF Connect, Leave
    <3>4. [stream EXCEPT ![c] = Append(@, Halves(Garbage)[1])] \in [Clients -> Seq(Pieces)]
      BY <1>0, <3>2
    <3>. QED BY <1>0, <3>1, <3>3, <3>4
  <2>2. backlog' \in Seq(Clients)
    <3>1. backlog' = Append(backlog, c) \/ backlog' = backlog
      BY <1>1, Zenon DEF Connect, Leave
    <3>2. Append(backlog, c) \in Seq(Clients)
      BY <1>0
    <3>. QED BY <1>0, <3>1, <3>2, Zenon
  <2>3. client' = [client EXCEPT ![c] = "here"] \/ client' = [client EXCEPT ![c] = "left"]
    BY <1>1 DEF Connect, Leave
  <2>. QED BY <2>1, <2>2, <2>3 DEF PeersType, Met
<1>2. ASSUME NEW c \in Clients, Send(c)
      PROVE  PeersType'
  <2>1. UNCHANGED <<agentVars, backlog, client>>
    BY <1>2 DEF Send
  <2>2. PICK doc \in AllDocuments : stream' = [stream EXCEPT ![c] = @ \o Halves(doc)]
    <3>1. Documents \subseteq AllDocuments
      <4>1. session = "agents" \/ session = "stranger" \/ session = "user"
        BY DEF SessionType
      <4>. QED BY <4>1 DEF Documents, AllDocuments
    <3>. QED BY <1>2, <3>1, Zenon DEF Send
  <2>3. stream[c] \o Halves(doc) \in Seq(Pieces)
    <3>1. Halves(doc) \in Seq(Pieces)
      BY DEF Halves, Pieces
    <3>. QED BY <1>0, <3>1
  <2>4. stream' \in [Clients -> Seq(Pieces)]
    BY <1>0, <2>2, <2>3
  <2>. QED BY <2>1, <2>4 DEF PeersType, agentVars
<1>3. ASSUME NEW c \in Clients, Reset(c)
      PROVE  PeersType'
  <2>1. stream' \in [Clients -> Seq(Pieces)]
    <3>1. [stream EXCEPT ![c] = <<>>] \in [Clients -> Seq(Pieces)]
      BY <1>0
    <3>. QED BY <1>0, <1>3, <3>1 DEF Reset
  <2>2. client' = [client EXCEPT ![c] = "reset"] /\ UNCHANGED <<agentVars, backlog>>
    BY <1>3 DEF Reset
  <2>. QED BY <2>1, <2>2 DEF PeersType, Met, agentVars
<1>4. CASE Accept
  <2>1. /\ backlog # <<>> /\ control_socket' = Head(backlog) /\ backlog' = Tail(backlog)
        /\ UNCHANGED <<buf, r, client, stream>>
    BY <1>4 DEF Accept
  <2>2. Head(backlog) \in Clients /\ Tail(backlog) \in Seq(Clients)
    BY <1>0, <2>1
  <2>. QED BY <2>1, <2>2 DEF PeersType
<1>5. CASE Receive
  <2>1. control_socket \in Clients
    BY <1>5 DEF Receive, PeersInv
  <2>2. PICK n \in 1..Len(stream[control_socket]) :
          /\ r' = n
          /\ buf' = SubSeq(stream[control_socket], 1, n)
          /\ stream' = [stream EXCEPT ![control_socket] = SubSeq(@, n + 1, Len(@))]
    BY <1>5 DEF Receive
  <2>3. stream[control_socket] \in Seq(Pieces)
    BY <1>0, <2>1
  <2>4. buf' \in Seq(Pieces) /\ SubSeq(stream[control_socket], n + 1, Len(stream[control_socket])) \in Seq(Pieces)
    BY <2>2, <2>3, SubSeqProperties
  <2>5. stream' \in [Clients -> Seq(Pieces)]
    BY <1>0, <2>1, <2>2, <2>4
  <2>6. r' \in Int /\ r' >= -1
    BY <2>2, <2>3
  <2>7. UNCHANGED <<control_socket, backlog, client>>
    BY <1>5 DEF Receive
  <2>. QED BY <2>4, <2>5, <2>6, <2>7 DEF PeersType
<1>6. CASE ReceiveFails
  <2>1. r' \in {0, -1} /\ control_socket' = NoClient /\ UNCHANGED <<buf, backlog, client, stream>>
    BY <1>6, Zenon DEF ReceiveFails, peerVars
  <2>. QED BY <2>1 DEF PeersType
<1>7. CASE CloseServer
  BY <1>7 DEF CloseServer, agentVars, PeersType
<1>8. CASE UNCHANGED <<control_socket, buf, r, backlog, client, stream>>
  BY <1>8 DEF PeersType
<1>9. CASE AcceptFails \/ TestStopped \/ ProcessMessages \/ Recorded \/ StartThreads
  BY <1>8, <1>9, Zenon DEF AcceptFails, TestStopped, ProcessMessages, Recorded, StartThreads, peerVars
<1>10. CASE UNCHANGED <<agentVars, backlog, client, stream, agentHistory>>
  BY <1>8, <1>10 DEF agentVars
<1>. QED BY <1>1, <1>2, <1>3, <1>4, <1>5, <1>6, <1>7, <1>9, <1>10, AgentMoves, Zenon

\* A client that has connected stays one that has.
LEMMA MetStay ==
  ASSUME PeersType, [Next]_vars
  PROVE  \A c \in Clients : client[c] \in Met => client'[c] \in Met
<1>1. ASSUME NEW c \in Clients, Connect(c) \/ Leave(c) \/ Reset(c)
      PROVE  \A d \in Clients : client[d] \in Met => client'[d] \in Met
  <2>1. \E what \in Met : client' = [client EXCEPT ![c] = what]
    BY <1>1 DEF Connect, Leave, Reset, Met
  <2>. QED BY <2>1 DEF PeersType
<1>2. CASE client' = client
  BY <1>2
<1>3. ASSUME NEW c \in Clients, Send(c)
      PROVE  client' = client
  BY <1>3 DEF Send
<1>4. CASE \/ Accept \/ AcceptFails \/ TestStopped \/ Receive \/ ReceiveFails
           \/ ProcessMessages \/ Recorded \/ StartThreads \/ CloseServer
  BY <1>2, <1>4, Zenon
  DEF Accept, AcceptFails, TestStopped, Receive, ReceiveFails, ProcessMessages, Recorded,
      StartThreads, CloseServer, peerVars
<1>. QED BY <1>1, <1>2, <1>3, <1>4, AgentMoves, Zenon

\* The clients in the backlog have connected.
LEMMA BacklogKept ==
  ASSUME PeersType, PeersInv, [Next]_vars
  PROVE  \A i \in DOMAIN backlog' : client'[backlog'[i]] \in Met
<1>0. backlog \in Seq(Clients) /\ \A i \in DOMAIN backlog : client[backlog[i]] \in Met
  BY DEF PeersType, PeersInv
<1>1. \A i \in DOMAIN backlog : client'[backlog[i]] \in Met
  BY <1>0, MetStay
<1>2. ASSUME NEW c \in Clients, Connect(c)
      PROVE  \A i \in DOMAIN backlog' : client'[backlog'[i]] \in Met
  <2>1. client'[c] \in Met /\ backlog' = Append(backlog, c)
    BY <1>2 DEF Connect, Met, PeersType
  <2>. QED BY <1>0, <1>1, <2>1
<1>3. CASE backlog' = backlog
  BY <1>1, <1>3
<1>4. ASSUME NEW c \in Clients, Send(c) \/ Leave(c) \/ Reset(c)
      PROVE  backlog' = backlog
  BY <1>4 DEF Send, Leave, Reset
<1>5. CASE Accept
  <2>1. backlog # <<>> /\ backlog' = Tail(backlog)
    BY <1>5 DEF Accept
  <2>. QED BY <1>0, <1>1, <2>1
<1>6. CASE CloseServer
  BY <1>6 DEF CloseServer
<1>7. CASE \/ AcceptFails \/ TestStopped \/ Receive \/ ReceiveFails
           \/ ProcessMessages \/ Recorded \/ StartThreads
  BY <1>3, <1>7, Zenon
  DEF AcceptFails, TestStopped, Receive, ReceiveFails, ProcessMessages, Recorded, StartThreads, peerVars
<1>. QED BY <1>2, <1>3, <1>4, <1>5, <1>6, <1>7, AgentMoves, Zenon

\* So has the client that is served.
LEMMA ServedKept ==
  ASSUME PeersType, PeersInv, [Next]_vars,
         agentPc' \in {"loop", "receive", "process", "record"}
  PROVE  control_socket' \in Clients /\ client'[control_socket'] \in Met
<1>1. CASE control_socket' = control_socket /\ agentPc \in {"loop", "receive", "process", "record"}
  BY <1>1, MetStay DEF PeersInv
<1>2. CASE Accept
  <2>1. backlog # <<>> /\ control_socket' = Head(backlog)
    BY <1>2 DEF Accept
  <2>2. backlog \in Seq(Clients) /\ \A i \in DOMAIN backlog : client[backlog[i]] \in Met
    BY DEF PeersType, PeersInv
  <2>3. Head(backlog) \in Clients /\ client[Head(backlog)] \in Met
    BY <2>1, <2>2
  <2>. QED BY <2>1, <2>3, MetStay
<1>3. CASE AcceptFails \/ ReceiveFails \/ StartThreads
  BY <1>3 DEF AcceptFails, ReceiveFails, StartThreads
<1>4. CASE TestStopped \/ Receive \/ ProcessMessages \/ Recorded
  <2>1. agentPc \in {"loop", "receive", "process", "record"} /\ control_socket' = control_socket
    BY <1>4, Zenon DEF TestStopped, Receive, ProcessMessages, Recorded
  <2>. QED BY <1>1, <2>1
<1>5. CASE UNCHANGED agentVars
  BY <1>1, <1>5 DEF agentVars
<1>6. ASSUME NEW c \in Clients, Connect(c) \/ Send(c) \/ Leave(c) \/ Reset(c)
      PROVE  UNCHANGED agentVars
  BY <1>6 DEF Connect, Send, Leave, Reset
<1>7. CASE CloseServer
  BY <1>5, <1>7 DEF CloseServer
<1>. QED BY <1>2, <1>3, <1>4, <1>5, <1>6, <1>7, AgentMoves, Zenon

LEMMA ResetsKept ==
  ASSUME PeersType, PeersInv, wasReset \in BOOLEAN, [Next]_vars
  PROVE  /\ wasReset' \in BOOLEAN /\ (wasReset => wasReset')
         /\ wasReset' \/ Unharmed'
<1>0. wasReset \/ Unharmed
  BY Zenon DEF PeersInv
<1>1. ASSUME NEW c \in Clients, Reset(c)
      PROVE  wasReset' = TRUE
  BY <1>1, Zenon DEF Reset
<1>2. ASSUME NEW c \in Clients, Connect(c) \/ Leave(c)
      PROVE  wasReset' = wasReset /\ (Unharmed => Unharmed')
  <2>1. wasReset' = wasReset /\ UNCHANGED agentVars
    BY <1>2, Zenon DEF Connect, Leave, agentHistory
  <2>2. client' = [client EXCEPT ![c] = "here"] \/ client' = [client EXCEPT ![c] = "left"]
    BY <1>2 DEF Connect, Leave
  <2>3. UNCHANGED r
    BY <2>1 DEF agentVars
  <2>4. Unharmed => Unharmed'
    BY <2>2, <2>3 DEF PeersType, Unharmed
  <2>. QED BY <2>1, <2>4, Zenon
<1>3. ASSUME Receive
      PROVE  wasReset' = wasReset /\ (Unharmed => Unharmed')
  <2>1. wasReset' = wasReset
    BY <1>3, Zenon DEF Receive
  <2>2. client' = client /\ r' \in Nat
    <3>1. control_socket \in Clients
      BY <1>3 DEF Receive, PeersInv
    <3>2. stream[control_socket] \in Seq(Pieces)
      BY <3>1 DEF PeersType
    <3>. QED BY <1>3, <3>2 DEF Receive
  <2>3. Unharmed => Unharmed'
    BY <2>2 DEF Unharmed
  <2>. QED BY <2>1, <2>3, Zenon
<1>4. ASSUME ReceiveFails
      PROVE  wasReset' = wasReset /\ (Unharmed => Unharmed')
  <2>1. wasReset' = wasReset /\ client' = client
    BY <1>4, Zenon DEF ReceiveFails, agentHistory, peerVars
  <2>2. Unharmed => r' = 0
    <3>1. control_socket \in Clients
      BY <1>4 DEF ReceiveFails, PeersInv
    <3>2. /\ client[control_socket] # "here"
          /\ r' = IF client[control_socket] = "left" THEN 0 ELSE -1
          /\ client[control_socket] \in Met
      BY <1>4 DEF ReceiveFails, PeersInv
    <3>. QED BY <3>1, <3>2 DEF Met, Unharmed
  <2>3. Unharmed => Unharmed'
    BY <2>1, <2>2 DEF Unharmed
  <2>. QED BY <2>1, <2>3, Zenon
<1>5. ASSUME UNCHANGED <<wasReset, client, r>>
      PROVE  wasReset' = wasReset /\ (Unharmed => Unharmed')
  <2>1. client' = client /\ r' = r
    BY <1>5
  <2>2. Unharmed => Unharmed'
    BY <2>1 DEF Unharmed
  <2>. QED BY <1>5, <2>2, Zenon
<1>6. ASSUME Accept \/ AcceptFails \/ TestStopped \/ ProcessMessages \/ Recorded \/ StartThreads
      PROVE  wasReset' = wasReset /\ (Unharmed => Unharmed')
  BY <1>5, <1>6, Zenon
  DEF Accept, AcceptFails, TestStopped, ProcessMessages, Recorded, StartThreads, agentHistory, peerVars
<1>7. ASSUME NEW c \in Clients, Send(c)
      PROVE  UNCHANGED <<wasReset, client, r>>
  BY <1>7, Zenon DEF Send, agentHistory, agentVars
<1>8. ASSUME CloseServer
      PROVE  wasReset' = wasReset /\ (Unharmed => Unharmed')
  BY <1>5, <1>8, Zenon DEF CloseServer, agentHistory, agentVars
<1>9. ASSUME UNCHANGED <<agentVars, backlog, client, stream, agentHistory>>
      PROVE  wasReset' = wasReset /\ (Unharmed => Unharmed')
  BY <1>5, <1>9, Zenon DEF agentHistory, agentVars
<1>10. wasReset' = TRUE \/ (wasReset' = wasReset /\ (Unharmed => Unharmed'))
  BY <1>1, <1>2, <1>3, <1>4, <1>5, <1>6, <1>7, <1>8, <1>9, AgentMoves, Zenon
<1>. QED BY <1>0, <1>10, Zenon

\* A thread that lost its client goes on with what recv returned.
LEMMA LengthsKept ==
  ASSUME PeersInv, [Next]_vars
  PROVE  agentPc' = "accept again" => r' <= 0
<1>1. CASE Accept \/ AcceptFails \/ TestStopped \/ Receive \/ Recorded \/ StartThreads
  BY <1>1 DEF Accept, AcceptFails, TestStopped, Receive, Recorded, StartThreads, PeersInv
<1>2. CASE ProcessMessages
  <2>1. agentPc' \in {"record", "loop"}
    BY <1>2, Zenon DEF ProcessMessages
  <2>2. agentPc' # "accept again"
    BY <2>1
  <2>. QED BY <2>2, Zenon
<1>3. CASE ReceiveFails
  <2>1. r' = 0 \/ r' = -1
    BY <1>3, Zenon DEF ReceiveFails
  <2>2. r' \in {0, -1} => r' \in Int /\ r' <= 0
    OBVIOUS
  <2>. QED BY <2>1, <2>2
<1>4. CASE UNCHANGED <<agentPc, r>>
  BY <1>4 DEF PeersInv
<1>5. ASSUME NEW c \in Clients, Connect(c) \/ Send(c) \/ Leave(c) \/ Reset(c)
      PROVE  UNCHANGED <<agentPc, r>>
  BY <1>5 DEF Connect, Send, Leave, Reset, agentVars
<1>6. CASE CloseServer \/ UNCHANGED <<agentVars, backlog, client, stream, agentHistory>>
  BY <1>4, <1>6 DEF CloseServer, agentVars
<1>. QED BY <1>1, <1>2, <1>3, <1>4, <1>5, <1>6, AgentMoves, Zenon

LEMMA BirthKept ==
  ASSUME BirthInv, [Next]_vars
  PROVE  BirthInv'
<1>1. CASE UNCHANGED <<mainPc, agentPc>>
  BY <1>1 DEF BirthInv
<1>2. CASE StartThreads \/ UserQuits \/ CloseServer \/ Stop \/ Join \/ Exit
  <2>1. mainPc' # "start"
    BY <1>2 DEF StartThreads, UserQuits, CloseServer, Stop, Join, Exit
  <2>. QED BY <2>1 DEF BirthInv
<1>3. CASE Accept \/ AcceptFails \/ TestStopped \/ Receive \/ ReceiveFails \/ ProcessMessages \/ Recorded
  <2>1. agentPc \in {"accept", "accept again", "loop", "receive", "process", "record"} /\ mainPc' = mainPc
    BY <1>3, Zenon
    DEF Accept, AcceptFails, TestStopped, Receive, ReceiveFails, ProcessMessages, Recorded, mainVars
  <2>. QED BY <2>1 DEF BirthInv
<1>4. CASE AgentRecords \/ MainRecords \/ UserToggles \/ UserPushes \/ RunAgentRecorder \/ SerializePushed
  BY <1>1, <1>4, Zenon
  DEF AgentRecords, MainRecords, UserToggles, UserPushes, RunAgentRecorder, SerializePushed, agentVars,
      mainVars
<1>5. CASE Peers
  BY <1>1, <1>5, Zenon DEF Peers, Connect, Send, Leave, Reset, agentVars, mainVars
<1>6. CASE UNCHANGED vars
  BY <1>1, <1>6, Zenon DEF vars, agentVars, mainVars
<1>. QED BY <1>2, <1>3, <1>4, <1>5, <1>6, Zenon DEF Next, AgentThread, MainThread, User, Finished

\* What neither receives nor processes leaves what is heard and told alone.
LEMMA Elsewhere ==
  ASSUME PeersType, PeersInv, BirthInv, [Next]_vars, ~Receive, ~ProcessMessages
  PROVE  /\ UNCHANGED <<alone, meant, unfit, pushed>>
         /\ Waiting' <=> Waiting
         /\ Waiting => buf' = buf
<1>1. CASE UNCHANGED <<agentPc, r, buf, alone, meant, unfit, pushed>>
  BY <1>1 DEF Waiting
<1>2. ASSUME NEW c \in Clients, Connect(c) \/ Send(c) \/ Leave(c) \/ Reset(c)
      PROVE  UNCHANGED <<agentPc, r, buf, alone, meant, unfit, pushed>>
  BY <1>2, Zenon DEF Connect, Send, Leave, Reset, agentVars, agentHistory
<1>3. CASE CloseServer \/ UNCHANGED <<agentVars, backlog, client, stream, agentHistory>>
  BY <1>1, <1>3, Zenon DEF CloseServer, agentVars, agentHistory
<1>4. CASE Accept
  <2>1. /\ r' = r
        /\ \/ agentPc = "accept" /\ agentPc' = "loop"
           \/ agentPc = "accept again"
    BY <1>4 DEF Accept
  <2>2. r \in Int /\ (agentPc = "accept again" => r <= 0)
    BY DEF PeersInv, PeersType
  <2>3. ~Waiting /\ ~Waiting'
    <3>1. CASE agentPc = "accept" /\ agentPc' = "loop"
      BY <3>1 DEF Waiting
    <3>2. CASE agentPc = "accept again"
      <4>1. r \in Int /\ r <= 0 /\ r' = r
        BY <2>1, <2>2, <3>2, Zenon
      <4>2. ~(r > 0)
        BY <4>1
      <4>3. ~(r' > 0)
        BY <4>1, <4>2, Zenon
      <4>. QED BY <4>2, <4>3, Zenon DEF Waiting
    <3>. QED BY <2>1, <3>1, <3>2
  <2>. QED BY <1>4, <2>3, Zenon DEF Accept, agentHistory
<1>5. CASE AcceptFails \/ TestStopped \/ ReceiveFails \/ Recorded \/ StartThreads
  <2>1. /\ agentPc \in {"accept", "accept again", "loop", "receive", "record"} \/ StartThreads
        /\ agentPc' \in {"ended", "receive", "accept again", "loop"} \/ StartThreads
    BY <1>5, Zenon DEF AcceptFails, TestStopped, ReceiveFails, Recorded
  <2>2. ~StartThreads => ~Waiting /\ ~Waiting'
    BY <2>1 DEF Waiting
  <2>3. UNCHANGED <<alone, meant, unfit, pushed>>
    BY <1>5, Zenon DEF AcceptFails, TestStopped, ReceiveFails, Recorded, StartThreads, agentHistory
  <2>4. CASE StartThreads
    <3>1. ~Waiting /\ ~Waiting'
      BY <2>4 DEF StartThreads, Waiting, BirthInv
    <3>. QED BY <2>3, <3>1, Zenon
  <2>. QED BY <2>2, <2>3, <2>4, Zenon
<1>. QED BY <1>1, <1>2, <1>3, <1>4, <1>5, AgentMoves, Zenon

LEMMA Received ==
  ASSUME PeersType, PeersInv, Receive, alone \in BOOLEAN, unfit \in BOOLEAN
  PROVE  /\ ~Waiting /\ Waiting'
         /\ alone' \in BOOLEAN /\ (alone' => alone /\ IsDocument(buf'))
         /\ unfit' \in BOOLEAN /\ (unfit => unfit')
         /\ IsDocument(buf') /\ Unfit(buf'[1][1]) => unfit'
         /\ meant' = IF IsDocument(buf') /\ ForDevice(buf'[1][1]) THEN Append(meant, buf'[1][1]) ELSE meant
         /\ pushed' = pushed
<1>1. agentPc = "receive" /\ agentPc' = "process" /\ pushed' = pushed
  BY DEF Receive
<1>2. r' \in Int /\ r' > 0
  <2>1. stream[control_socket] \in Seq(Pieces)
    BY <1>1 DEF PeersType, PeersInv
  <2>. QED BY <2>1 DEF Receive
<1>3. /\ alone' = (alone /\ IsDocument(buf'))
      /\ meant' = IF IsDocument(buf') /\ ForDevice(buf'[1][1]) THEN Append(meant, buf'[1][1]) ELSE meant
      /\ unfit' = (unfit \/ (IsDocument(buf') /\ Unfit(buf'[1][1])))
  BY Zenon DEF Receive
<1>4. ~Waiting /\ Waiting'
  BY <1>1, <1>2 DEF Waiting
<1>5. alone' \in BOOLEAN /\ (alone' => alone /\ IsDocument(buf'))
  BY <1>3, Zenon
<1>6. /\ unfit' \in BOOLEAN /\ (unfit => unfit')
      /\ IsDocument(buf') /\ Unfit(buf'[1][1]) => unfit'
  BY <1>3, Zenon
<1>. QED BY <1>1, <1>3, <1>4, <1>5, <1>6, Zenon

LEMMA Processed ==
  ASSUME ProcessMessages
  PROVE  /\ agentPc = "process" /\ ~Waiting'
         /\ UNCHANGED <<alone, meant, unfit, buf, r>>
         /\ \/ /\ Message \in {Nothing, Thrown} \/ Message.type \in {"START_RECORDING", "END_RECORDING"}
               /\ pushed' = pushed
            \/ /\ Message \notin {Nothing, Thrown}
               /\ Message.type \notin {"START_RECORDING", "END_RECORDING"}
               /\ pushed' = Append(pushed, Message)
         /\ Message # Thrown => crashed' = crashed
<1>1. agentPc = "process" /\ UNCHANGED <<alone, meant, unfit, buf, r>>
  BY Zenon DEF ProcessMessages
<1>2. ~Waiting'
  <2>1. agentPc' = "record" \/ agentPc' = "loop"
    BY Zenon DEF ProcessMessages
  <2>. QED BY <2>1 DEF Waiting
<1>. DEFINE msg == Message
<1>3. /\ msg.type = "START_RECORDING" => msg \notin {Nothing, Thrown} /\ msg.type # "END_RECORDING"
      /\ msg.type = "END_RECORDING" => msg \notin {Nothing, Thrown}
      /\ Nothing # Thrown
  BY DEF Nothing, Thrown
<1>4. CASE msg = Thrown
  BY <1>1, <1>2, <1>3, <1>4, Zenon DEF ProcessMessages
<1>5. CASE msg = Nothing
  BY <1>1, <1>2, <1>3, <1>5, Zenon DEF ProcessMessages, recorderVars
<1>6. CASE msg.type = "START_RECORDING"
  BY <1>1, <1>2, <1>3, <1>6, Zenon DEF ProcessMessages, StartRecordEvents
<1>7. CASE msg.type = "END_RECORDING"
  BY <1>1, <1>2, <1>3, <1>7, Zenon DEF ProcessMessages, StopRecordEvents
<1>8. CASE msg \notin {Nothing, Thrown} /\ msg.type \notin {"START_RECORDING", "END_RECORDING"}
  BY <1>1, <1>2, <1>3, <1>8, Zenon DEF ProcessMessages, recorderVars
<1>. QED BY <1>4, <1>5, <1>6, <1>7, <1>8, Zenon

LEMMA ReceivedKept ==
  ASSUME PeersType, PeersInv, BirthInv, alone \in BOOLEAN, unfit \in BOOLEAN, ReceivedInv, [Next]_vars
  PROVE  ReceivedInv' /\ unfit' \in BOOLEAN /\ (unfit => unfit')
<1>1. CASE Receive
  BY <1>1, Received, Zenon DEF ReceivedInv
<1>2. CASE ProcessMessages
  BY <1>2, Processed, Zenon DEF ReceivedInv
<1>3. CASE ~Receive /\ ~ProcessMessages
  <2>1. alone' = alone /\ unfit' = unfit /\ (Waiting' <=> Waiting) /\ (Waiting => buf' = buf)
    BY <1>3, Elsewhere, Zenon
  <2>2. CASE ~Waiting
    BY <2>1, <2>2, Zenon DEF ReceivedInv
  <2>3. CASE Waiting
    <3>1. buf' = buf
      BY <2>1, <2>3, Zenon
    <3>2. ReceivedInv'
      BY <2>1, <2>3, <3>1, Zenon DEF ReceivedInv, IsDocument
    <3>. QED BY <2>1, <3>2, Zenon
  <2>. QED BY <2>2, <2>3, Zenon
<1>. QED BY <1>1, <1>2, <1>3, Zenon

\* The message that is processed, when there is one for the device.
LEMMA Told ==
  ASSUME PeersType, ProcessMessages, Message \notin {Nothing, Thrown}
  PROVE  Waiting /\ IsDocument(buf) /\ Message = JsonDeserialize(buf[1][1]) /\ buf[1][1] \in AllDocuments
<1>1. r \in Int /\ r >= -1 /\ buf \in Seq(Pieces)
  BY DEF PeersType
<1>2. r > 0 /\ IsDocument(buf)
  <2>1. r = -1 \/ r >= 0
    BY <1>1
  <2>2. Message # Nothing /\ Message # Thrown
    BY Zenon
  <2>. QED BY <1>1, <2>1, <2>2, MessageRead, Zenon
<1>3. Message = JsonDeserialize(buf[1][1])
  BY <1>1, <1>2, MessageRead, Zenon
<1>4. buf[1][1] \in AllDocuments
  BY <1>1, <1>2, WholeDocument
<1>. QED BY <1>2, <1>3, <1>4, Processed, Zenon DEF Waiting

LEMMA ToldKept ==
  ASSUME SessionType, PeersType, PeersInv, BirthInv, unfit \in BOOLEAN, ReceivedInv, ToldInv, [Next]_vars
  PROVE  ToldInv'
<1>. DEFINE Told1 == /\ meant \in Seq(AllDocuments)
                     /\ pushed \in Seq({JsonDeserialize(doc) : doc \in AllDocuments})
            Told2 == /\ Len(meant) = Len(pushed) + (IF Late THEN 1 ELSE 0)
                     /\ Late => meant[Len(meant)] = buf[1][1]
                     /\ \A i \in DOMAIN pushed : Conforms(pushed[i], meant[i])
<1>0. alone \in BOOLEAN /\ Told1 /\ (alone => Told2)
  BY Zenon DEF ToldInv
<1>1. CASE Receive
  <2>1. /\ ~Waiting /\ Waiting'
        /\ alone' \in BOOLEAN /\ (alone' => alone /\ IsDocument(buf'))
        /\ meant' = IF IsDocument(buf') /\ ForDevice(buf'[1][1]) THEN Append(meant, buf'[1][1]) ELSE meant
        /\ pushed' = pushed
    BY <1>0, <1>1, Received, Zenon
  <2>2. buf' \in Seq(Pieces)
    BY PeersTyped DEF PeersType
  <2>3. IsDocument(buf') => buf'[1][1] \in AllDocuments
    BY <2>2, WholeDocument
  <2>4. Told1'
    BY <1>0, <2>1, <2>3
  <2>5. ASSUME alone'
        PROVE  Told2'
    <3>1. Told2 /\ ~Late /\ IsDocument(buf')
      BY <1>0, <2>1, <2>5, Zenon DEF Late
    <3>2. Late' <=> ForDevice(buf'[1][1])
      BY <2>1, Zenon DEF Late
    <3>3. \/ Late' /\ meant' = Append(meant, buf'[1][1])
          \/ ~Late' /\ meant' = meant
      BY <2>1, <3>1, <3>2, Zenon
    <3>4. Len(meant) = Len(pushed) /\ \A i \in DOMAIN pushed : Conforms(pushed[i], meant[i])
      BY <3>1
    <3>. HIDE DEF Late
    <3>5. CASE Late' /\ meant' = Append(meant, buf'[1][1])
      <4>1. Len(meant') = Len(meant) + 1 /\ meant'[Len(meant')] = buf'[1][1]
        BY <1>0, <3>5
      <4>2. \A i \in DOMAIN pushed : meant'[i] = meant[i]
        BY <1>0, <3>4, <3>5
      <4>. QED BY <2>1, <3>4, <3>5, <4>1, <4>2
    <3>6. CASE ~Late' /\ meant' = meant
      BY <1>0, <2>1, <3>4, <3>6
    <3>. QED BY <3>3, <3>5, <3>6
  <2>. QED BY <2>1, <2>4, <2>5, Zenon DEF ToldInv
<1>2. CASE ProcessMessages
  <2>1. ~Waiting' /\ UNCHANGED <<alone, meant, buf>>
    BY <1>2, Processed, Zenon
  <2>2. ~Late'
    BY <2>1, Zenon DEF Late
  <2>3. CASE /\ Message \in {Nothing, Thrown} \/ Message.type \in {"START_RECORDING", "END_RECORDING"}
             /\ pushed' = pushed
    <3>1. ASSUME alone
          PROVE  ~Late
      <4>1. ASSUME Late
            PROVE  FALSE
        <5>1. Waiting /\ IsDocument(buf) /\ ForDevice(buf[1][1])
          BY <3>1, <4>1, Zenon DEF Late, ReceivedInv
        <5>2. buf[1][1] \in AllDocuments
          BY <5>1, WholeDocument DEF PeersType
        <5>3. Message = JsonDeserialize(buf[1][1])
          BY <5>1, MessageRead, Zenon DEF PeersType, Waiting
        <5>4. IsTold(buf[1][1])
          BY <5>1, <5>2, Deserialized, Zenon DEF IsNotTold
        <5>. QED BY <2>3, <5>3, <5>4, Zenon DEF IsTold
      <4>. QED BY <4>1, Zenon
    <3>2. Told1'
      BY <1>0, <2>1, <2>3, Zenon
    <3>3. ASSUME alone
          PROVE  Told2'
      <4>1. Told2 /\ ~Late
        BY <1>0, <3>1, <3>3, Zenon
      <4>. HIDE DEF Late
      <4>. QED BY <2>1, <2>2, <2>3, <4>1
    <3>. QED BY <1>0, <2>1, <3>2, <3>3, Zenon DEF ToldInv
  <2>4. CASE /\ Message \notin {Nothing, Thrown}
             /\ Message.type \notin {"START_RECORDING", "END_RECORDING"}
             /\ pushed' = Append(pushed, Message)
    <3>1. Waiting /\ IsDocument(buf) /\ Message = JsonDeserialize(buf[1][1]) /\ buf[1][1] \in AllDocuments
      BY <1>2, <2>4, Told, Zenon
    <3>2. ForDevice(buf[1][1]) /\ Conforms(Message, buf[1][1])
      BY <2>4, <3>1, Deserialized, Zenon DEF IsTold, IsNotTold
    <3>3. Late
      BY <3>1, <3>2, Zenon DEF Late
    <3>4. Message \in {JsonDeserialize(doc) : doc \in AllDocuments}
      BY <3>1
    <3>. HIDE DEF Late
    <3>5. Told1'
      BY <1>0, <2>1, <2>4, <3>4
    <3>6. ASSUME alone
          PROVE  Told2'
      <4>1. /\ Len(meant) = Len(pushed) + 1 /\ meant[Len(meant)] = buf[1][1]
            /\ \A i \in DOMAIN pushed : Conforms(pushed[i], meant[i])
        BY <1>0, <3>3, <3>6
      <4>2. /\ Len(pushed') = Len(meant)
            /\ \A i \in DOMAIN pushed : pushed'[i] = pushed[i]
            /\ DOMAIN pushed' = DOMAIN pushed \cup {Len(meant)}
            /\ pushed'[Len(meant)] = Message
        BY <1>0, <2>4, <4>1
      <4>3. \A i \in DOMAIN pushed' : Conforms(pushed'[i], meant[i])
        BY <3>2, <4>1, <4>2
      <4>4. Len(meant') = Len(pushed')
        BY <2>1, <4>2
      <4>5. Len(pushed') \in Nat
        BY <3>5
      <4>. QED BY <2>1, <2>2, <4>3, <4>4, <4>5
    <3>. QED BY <1>0, <2>1, <3>5, <3>6, Zenon DEF ToldInv
  <2>. QED BY <1>2, <2>3, <2>4, Processed, Zenon
<1>3. CASE ~Receive /\ ~ProcessMessages
  <2>1. UNCHANGED <<alone, meant, pushed>> /\ (Late' <=> Late) /\ (Late => buf' = buf)
    BY <1>3, Elsewhere, Zenon DEF Late
  <2>2. Told1'
    BY <1>0, <2>1, Zenon
  <2>3. Told2 => Told2'
    <3>. HIDE DEF Late
    <3>. QED BY <2>1
  <2>. QED BY <1>0, <2>1, <2>2, <2>3, Zenon DEF ToldInv
<1>. QED BY <1>1, <1>2, <1>3, Zenon

\* Who may crash.
LEMMA CrashEffects ==
  ASSUME [Next]_vars
  PROVE  \/ crashed' = crashed
         \/ ~crashed /\ \E t \in Threads : RecorderStep(t)
         \/ ~crashed /\ ProcessMessages /\ Message = Thrown
         \/ ~crashed /\ SerializePushed
<1>. USE Zenon
<1>1. CASE crashed
  <2>1. crashed' = crashed
    BY <1>1 DEF Next, Over, Finished, vars, recorderVars
  <2>. QED BY <2>1
<1>2. CASE AgentRecords \/ MainRecords
  BY <1>1, <1>2 DEF AgentRecords, MainRecords, Threads
<1>3. CASE UserToggles \/ UserPushes
  BY <1>3
  DEF UserToggles, UserPushes, ToggleRecording, StartRecordEvents, StopRecordEvents, PushInput, recorderVars
<1>4. CASE ProcessMessages
  BY <1>1, <1>4, Processed
<1>5. CASE Accept \/ AcceptFails \/ TestStopped \/ Receive \/ ReceiveFails \/ Recorded
  BY <1>5 DEF Accept, AcceptFails, TestStopped, Receive, ReceiveFails, Recorded, recorderVars
<1>6. CASE RunAgentRecorder \/ StartThreads \/ CloseServer \/ Stop \/ Join \/ UserQuits
  BY <1>6 DEF RunAgentRecorder, StartThreads, CloseServer, Stop, Join, UserQuits, recorderVars
<1>9. CASE SerializePushed \/ Exit
  BY <1>1, <1>9 DEF Exit, FlushFiles
<1>7. CASE Peers
  BY <1>7 DEF Peers, Connect, Send, Leave, Reset, recorderVars
<1>8. CASE UNCHANGED vars
  BY <1>8 DEF vars, recorderVars
<1>. QED
  BY <1>2, <1>3, <1>4, <1>5, <1>6, <1>7, <1>8, <1>9 DEF Next, AgentThread, MainThread, User, Finished

\* A document makes the thread throw only if a connection was reset or the
\* document is unfit.
LEMMA Throws ==
  ASSUME PeersType, PeersInv, ReceivedInv, wasReset \in BOOLEAN, unfit \in BOOLEAN,
         ProcessMessages, Message = Thrown
  PROVE  wasReset \/ unfit
<1>1. r \in Int /\ r >= -1 /\ buf \in Seq(Pieces) /\ agentPc = "process"
  BY Processed DEF PeersType
<1>2. CASE r = -1
  <2>1. ~Unharmed
    BY <1>2 DEF Unharmed
  <2>. QED BY <2>1, Zenon DEF PeersInv
<1>3. CASE r >= 0 /\ ~(r > 0 /\ IsDocument(buf))
  <2>1. Nothing # Thrown
    BY DEF Nothing, Thrown
  <2>. QED BY <1>1, <1>3, <2>1, MessageRead, Zenon
<1>4. CASE r > 0 /\ IsDocument(buf)
  <2>1. Waiting
    BY <1>1, <1>4, Zenon DEF Waiting
  <2>2. Message = JsonDeserialize(buf[1][1]) /\ buf[1][1] \in AllDocuments
    BY <1>1, <1>4, MessageRead, WholeDocument, Zenon
  <2>3. Unfit(buf[1][1])
    BY <2>2, Deserialized, Zenon
  <2>. QED BY <1>4, <2>1, <2>3, Zenon DEF ReceivedInv
<1>5. r = -1 \/ r >= 0
  BY <1>1
<1>. QED BY <1>2, <1>3, <1>4, <1>5, Zenon

LEMMA PushedKept ==
  ASSUME PeersType, PeersInv, BirthInv, alone \in BOOLEAN, unfit \in BOOLEAN, ReceivedInv, ToldInv,
         PushedInv, [Next]_vars
  PROVE  PushedInv'
<1>1. unfit => unfit'
  BY ReceivedKept, Zenon
<1>2. CASE pushed' = pushed
  BY <1>1, <1>2, Zenon DEF PushedInv
<1>3. CASE Receive
  BY <1>2, <1>3, Received, Zenon
<1>4. CASE ~Receive /\ ~ProcessMessages
  BY <1>2, <1>4, Elsewhere, Zenon
<1>5. CASE ProcessMessages /\ Message \notin {Nothing, Thrown} /\ pushed' = Append(pushed, Message)
  <2>1. Waiting /\ IsDocument(buf) /\ Message = JsonDeserialize(buf[1][1]) /\ buf[1][1] \in AllDocuments
    BY <1>5, Told, Zenon
  <2>2. Fatal(Message) => unfit
    <3>1. Message # Thrown
      BY <1>5
    <3>2. Fatal(Message) => Unfit(buf[1][1])
      BY <2>1, <3>1, Deserialized, Zenon
    <3>. QED BY <2>1, <3>2, Zenon DEF ReceivedInv
  <2>3. pushed \in Seq({JsonDeserialize(doc) : doc \in AllDocuments})
    BY Zenon DEF ToldInv
  <2>4. Message \in {JsonDeserialize(doc) : doc \in AllDocuments}
    BY <2>1
  <2>5. \A i \in DOMAIN pushed' : pushed'[i] = Message \/ \E j \in DOMAIN pushed : pushed'[i] = pushed[j]
    BY <1>5, <2>3, <2>4
  <2>. QED BY <1>1, <2>2, <2>5, Zenon DEF PushedInv
<1>. QED BY <1>2, <1>3, <1>4, <1>5, Processed, Zenon

LEMMA CrashKept ==
  ASSUME PointerType, DoingType, FilesType, FlagsInv, TurnsInv, PushingInv, PeersType, PeersInv, BirthInv,
         alone \in BOOLEAN, ReceivedInv, PushedInv, CrashInv, [Next]_vars
  PROVE  CrashInv'
<1>1. /\ raced \in BOOLEAN /\ noFile \in BOOLEAN /\ misused \in BOOLEAN
      /\ wasReset \in BOOLEAN /\ unfit \in BOOLEAN
  BY Zenon DEF FlagsInv
<1>2. (raced => raced') /\ (noFile => noFile') /\ (misused => misused')
  BY <1>1, RecorderEffects, FlagsGrow, Zenon
<1>3. (wasReset => wasReset') /\ (unfit => unfit') /\ (IsInput(Text(TooLong)) => IsInput(Text(TooLong))')
  BY <1>1, ResetsKept, ReceivedKept, RecorderEffects, InputsGrow, Zenon
<1>4. CASE crashed' = crashed
  BY <1>2, <1>3, <1>4, Zenon DEF CrashInv
<1>5. ASSUME ~crashed, NEW t \in Threads, RecorderStep(t), ~OverflowTemp
      PROVE  CrashInv'
  BY <1>1, <1>2, <1>5, RecorderCrashes, Zenon DEF CrashInv
<1>6. CASE ProcessMessages /\ Message = Thrown
  BY <1>1, <1>3, <1>6, Throws, Zenon DEF CrashInv
<1>7. CASE SerializePushed
  <2>1. unfit
    BY <1>7, Zenon DEF SerializePushed, PushedInv
  <2>. QED BY <1>3, <2>1, Zenon DEF CrashInv
<1>8. CASE OverflowTemp
  <2>1. IsInput(Text(TooLong))
    <3>1. IsInput(pushing) /\ pushing = Text(TooLong)
      BY <1>8, Zenon DEF OverflowTemp, PushingInv
    <3>. QED BY <3>1, Zenon DEF IsInput
  <2>. QED BY <1>3, <2>1, Zenon DEF CrashInv
<1>. QED BY <1>4, <1>5, <1>6, <1>7, <1>8, CrashEffects, Zenon

----------------------------------------------------------------------------
(* The invariant of the whole, and what follows from it. *)

TypeInv == PointerType /\ DoingType /\ FilesType /\ SessionType /\ PeersType /\ FlagsInv

Inv ==
  /\ TypeInv
  /\ TurnsInv /\ ContentsInv /\ DiskInv /\ PushingInv
  /\ BirthInv /\ PeersInv
  /\ ReceivedInv /\ ToldInv /\ PushedInv
  /\ CrashInv

LEMMA Initially ==
  ASSUME Init
  PROVE  Inv
<1>1. TypeInv
  <2>1. PointerType /\ DoingType
    BY EventRecorderAssumption
    DEF Init, RecorderInit, PointerType, DoingType, NoFile, Steps, Threads
  <2>2. FilesType
    BY DEF Init, RecorderInit, FilesType
  <2>3. PeersType
    BY DEF Init, PeersType
  <2>4. FlagsInv /\ SessionType
    BY Zenon DEF Init, RecorderInit, FlagsInv, SessionType
  <2>. QED BY <2>1, <2>2, <2>3, <2>4, Zenon DEF TypeInv
<1>2. TurnsInv
  <2>1. OneActive /\ Active = "idle" /\ closed = {}
    BY DEF Init, RecorderInit, OneActive, Active, Threads
  <2>2. /\ Active # "clear" => fp_events \notin closed
        /\ Active = "write start" => fp_events # NoFile \/ noFile
        /\ Active = "write event" => fp_events # NoFile
        /\ Active \in {"write end", "close"} => fp_events # NoFile \/ misused
    BY <2>1
  <2>. QED BY <2>1, <2>2, Zenon DEF TurnsInv
<1>3. ContentsInv
  <2>1. closed = {} /\ fp_events \notin Files
    BY EventRecorderAssumption DEF Init, RecorderInit, NoFile, Files
  <2>. QED BY <2>1 DEF ContentsInv
<1>8. DiskInv /\ PushingInv /\ PushedInv
  <2>1. /\ fp_events = NoFile /\ opened = 0 /\ doing = [t \in Threads |-> "idle"] /\ pushed = <<>>
    BY DEF Init, RecorderInit
  <2>. QED BY <2>1 DEF DiskInv, AllClosed, PushingInv, PushedInv, Threads
<1>4. BirthInv /\ PeersInv
  <2>1. /\ backlog = <<>> /\ agentPc = "unborn" /\ r = 0
        /\ \A c \in Clients : client[c] = "away"
    BY DEF Init
  <2>. QED BY <2>1 DEF BirthInv, PeersInv, Unharmed
<1>5. ReceivedInv /\ ~Late
  <2>1. ~Waiting
    BY DEF Init, Waiting
  <2>. QED BY <2>1, Zenon DEF ReceivedInv, Late
<1>6. ToldInv
  <2>1. alone \in BOOLEAN /\ meant = <<>> /\ pushed = <<>>
    BY Zenon DEF Init
  <2>. HIDE DEF Late
  <2>. QED BY <1>5, <2>1 DEF ToldInv
<1>7. CrashInv
  BY Zenon DEF Init, RecorderInit, CrashInv
<1>. QED BY <1>1, <1>2, <1>3, <1>4, <1>5, <1>6, <1>7, <1>8, Zenon DEF Inv

LEMMA Inductive ==
  ASSUME Inv, [Next]_vars
  PROVE  Inv'
<1>. USE Zenon
<1>1. /\ PointerType /\ DoingType /\ FilesType /\ SessionType /\ PeersType /\ FlagsInv
      /\ TurnsInv /\ ContentsInv /\ DiskInv /\ PushingInv
      /\ BirthInv /\ PeersInv /\ ReceivedInv /\ ToldInv /\ PushedInv /\ CrashInv
      /\ raced \in BOOLEAN /\ noFile \in BOOLEAN /\ misused \in BOOLEAN
      /\ wasReset \in BOOLEAN /\ unfit \in BOOLEAN /\ alone \in BOOLEAN
  BY DEF Inv, TypeInv, FlagsInv, ToldInv
<1>2. RecorderEffect
  BY RecorderEffects
<1>3. TypeInv'
  <2>1. PointerType' /\ DoingType' /\ FilesType' /\ SessionType' /\ PeersType'
    BY <1>1, <1>2, PointerTyped, DoingTyped, FilesTyped, SessionTyped, PeersTyped
  <2>2. FlagsInv'
    BY <1>1, <1>2, FlagsGrow, ResetsKept, ReceivedKept DEF FlagsInv
  <2>. QED BY <2>1, <2>2 DEF TypeInv
<1>4. TurnsInv' /\ ContentsInv' /\ DiskInv' /\ PushingInv'
  BY <1>1, <1>2, TurnsKept, ContentsKept, DiskKept, PushingKept
<1>5. PeersInv'
  BY <1>1, BacklogKept, ServedKept, ResetsKept, LengthsKept DEF PeersInv
<1>6. BirthInv' /\ ReceivedInv' /\ ToldInv' /\ PushedInv' /\ CrashInv'
  BY <1>1, BirthKept, ReceivedKept, ToldKept, PushedKept, CrashKept
<1>. QED BY <1>3, <1>4, <1>5, <1>6 DEF Inv

LEMMA Invariance == Spec => []Inv
<1>1. Init => Inv
  BY Initially
<1>2. Inv /\ [Next]_vars => Inv'
  BY Inductive
<1>. QED BY <1>1, <1>2, PTL DEF Spec

\* Once a recording has ended, events.json holds the messages that were pushed since
\* the last start, all of them and in their order, between the two ends, also after the
\* program has exited: however often the user and the agents begin and end a recording,
\* as long as the two threads did not use fp_events at the same time and none was begun
\* while another one was on (agent_manager.cpp:86-103, 252-259).
THEOREM RecordingsAreWellFormed == Spec => []RecordingWellFormed
<1>1. ASSUME Inv, ~raced, Lost = {}, opened \in closed
      PROVE  disk = Whole(inputs[opened])
  <2>1. opened \in 1..opened /\ NoFile = 0 /\ fp_events \in {NoFile, opened}
    BY <1>1 DEF Inv, TypeInv, PointerType, DiskInv, NoFile
  <2>2. AllClosed
    BY <1>1, <2>1 DEF AllClosed, Lost
  <2>3. disk = written[opened] /\ written[opened] = Whole(inputs[opened])
    BY <1>1, <2>2, Zenon DEF Inv, DiskInv, ContentsInv
  <2>. QED BY <2>3, Zenon
<1>2. Inv => RecordingWellFormed
  BY <1>1, Zenon DEF Whole, Begun, Serial, RecordingWellFormed
<1>. QED BY <1>2, Invariance, PTL

\* The program crashes only if the two threads met at fp_events, the file could
\* not be opened, the end of a recording was asked for when there was none, an
\* unfit document was received, a client reset its connection, or a text was recorded
\* that does not fit into temp[256]: neither half a document, nor a client that leaves
\* and whose end is taken for a length, nor Ctrl+e does so
\* (agent_controller.cpp:86-115, 157-165; agent_manager.cpp:86-103; control_msg.cpp:217-357).
THEOREM CrashesHaveAReason == Spec => []CrashesForAReason
<1>1. Inv => CrashesForAReason
  BY Zenon DEF Inv, CrashInv, IsInput, CrashesForAReason
<1>. QED BY <1>1, Invariance, PTL

\* While each recv returns one whole document, the device is told what the
\* documents say, all of it and in their order, across any number of clients that
\* come and go (agent_controller.cpp:96-115, 140-169).
THEOREM DocumentsAreActedOn == Spec => []ActedWhenAlone
<1>1. ASSUME Inv
      PROVE  ActedWhenAlone
  <2>. DEFINE late == IF agentPc = "process" /\ r > 0 /\ ForDevice(buf[1][1]) THEN 1 ELSE 0
  <2>1. late = IF Late THEN 1 ELSE 0
    BY Zenon DEF Late, Waiting
  <2>2. ASSUME alone
        PROVE  /\ Len(pushed) = Len(meant) - late
               /\ \A i \in DOMAIN pushed : Conforms(pushed[i], meant[i])
    <3>1. /\ Len(meant) = Len(pushed) + (IF Late THEN 1 ELSE 0)
          /\ \A i \in DOMAIN pushed : Conforms(pushed[i], meant[i])
          /\ meant \in Seq(AllDocuments)
          /\ pushed \in Seq({JsonDeserialize(doc) : doc \in AllDocuments})
      BY <1>1, <2>2, Zenon DEF Inv, ToldInv
    <3>. HIDE DEF Late, late
    <3>2. Len(pushed) = Len(meant) - (IF Late THEN 1 ELSE 0)
      BY <3>1
    <3>. QED BY <2>1, <3>1, <3>2, Zenon
  <2>. QED BY <2>2, Zenon DEF ActedWhenAlone, Conforms
<1>2. Inv => ActedWhenAlone
  BY <1>1
<1>. QED BY <1>2, Invariance, PTL
=============================================================================
