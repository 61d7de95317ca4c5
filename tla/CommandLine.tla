----------------------------- MODULE CommandLine -----------------------------
(***************************************************************************)
(* The command line (IRobotCore::ParseArgs and its conversions, and the    *)
(* integers of str_util.cpp).  getopt delivers one option after the other, *)
(* in any order and any number of times; the options that are only copied  *)
(* (a serial, a title, a crop, a flag of the window) are left out.         *)
(***************************************************************************)
EXTENDS Integers

CONSTANT LongMax    \* LONG_MAX: 2^31 - 1 where a long has 32 bits (mingw)

ASSUME LongAssumption == LongMax \in Nat

LongMin == -LongMax - 1

VARIABLES
  options,     \* the fields that the constructor and ParseArgs set
  written      \* history: the number that was written last, and for which field

commandVars == <<options, written>>

(* The fields with a number, and what each accepts.  Only a bit rate may have a suffix. *)
Position == {"window_x", "window_y"}
Dimension == {"window_width", "window_height", "screen_width", "screen_height"}
Fields == Position \cup Dimension \cup {"bit_rate", "max_size", "max_fps", "port"}

Least(field) == IF field \in Position THEN -1 ELSE 0

BugGreatest(field) ==   \* a bug: one too many
  CASE field \in Position   -> 32768
    [] field = "max_fps"    -> 1000
    [] field = "bit_rate"   -> 2147483647
    [] field \in Dimension \cup {"max_size", "port"} -> 65536

Greatest(field) ==
  CASE field \in Position   -> 32767
    [] field = "max_fps"    -> 1000
    [] field = "bit_rate"   -> 2147483647
    [] field \in Dimension \cup {"max_size", "port"} -> 65535

\* How a field holds a value: in 16 bits with a sign, in 16 or in 32 without.
\* No value of a bit rate that fits a long of 32 bits needs the last.
Stored(field, value) ==
  CASE field \in Position  -> ((value + 32768) % 65536) - 32768
    [] field = "bit_rate"  -> value
    [] field \in Fields \ (Position \cup {"bit_rate"}) -> value % 65536

----------------------------------------------------------------------------
(* str_util.cpp: the integers.  A text is what strtol makes of it, and what   *)
(* follows; strtol stops at the first character, or sets errno to ERANGE.   *)

\* Division in C truncates.
Quotient(a, b) == IF a >= 0 \/ a % b = 0 THEN a \div b ELSE a \div b + 1

Multiplier(suffix) == CASE suffix = "" -> 1 [] suffix = "K" -> 1000 [] suffix = "M" -> 1000000

\* The test of parse_integer_with_suffix before it multiplies.
Refused(value, mul) ==
  \/ value < 0 /\ Quotient(LongMin, mul) > value
  \/ value > 0 /\ Quotient(LongMax, mul) < value

ParsesInteger(text) == text.strtol = "ok" /\ text.suffix = ""

ParsesIntegerWithSuffix(text) ==
  /\ text.strtol = "ok"
  /\ text.suffix \in {"", "K", "M"}
  /\ ~Refused(text.value, Multiplier(text.suffix))

\* ParseIntegerArg, ParseBitRate, ParseMaxSize and the others.
Parses(field, text) ==
  /\ IF field = "bit_rate" THEN ParsesIntegerWithSuffix(text) ELSE ParsesInteger(text)
  /\ text.value * Multiplier(text.suffix) \in Least(field)..Greatest(field)

----------------------------------------------------------------------------
(* ParseArgs. *)

Unset == "unset"

\* The constructor.  number stands for the field that is written, if any.
Defaults ==
  [display |-> TRUE, control |-> TRUE, record_filename |-> Unset, record_format |-> "auto",
   headless |-> FALSE, show_touches |-> FALSE, turn_screen_off |-> FALSE, fullscreen |-> FALSE,
   help |-> FALSE, version |-> FALSE, extra |-> FALSE, number |-> 0]

NotWritten == [field |-> "none"]

CommandInit == options = Defaults /\ written = NotWritten

\* Texts with the values at the boundaries of the fields and of the suffixes.
Values == {LongMin, -2147484, -2, -1, 0, 1, 1000, 1001, 2147, 2148,
           32767, 32768, 65535, 65536, 2147483, 2147484, LongMax}
Texts == [strtol : {"ok"}, value : Values, suffix : {"", "K", "M", "other"}]
         \cup {[strtol |-> "none", value |-> 0, suffix |-> "other"],
               [strtol |-> "ERANGE", value |-> LongMax, suffix |-> ""]}

\* What an option without a number does.  An argument that is no option is
\* counted, as getopt moves it to the end.
Flags == {"fullscreen", "help", "no-control", "no-display", "show-touches", "turn-screen-off",
          "version", "headless", "extra", "mp4", "file.mp4", "file"}

Set(flag) ==
  CASE flag = "no-control" -> [options EXCEPT !.control = FALSE]
    [] flag = "no-display" -> [options EXCEPT !.display = FALSE]
    [] flag = "show-touches" -> [options EXCEPT !.show_touches = TRUE]
    [] flag = "turn-screen-off" -> [options EXCEPT !.turn_screen_off = TRUE]
    [] flag = "mp4" -> [options EXCEPT !.record_format = "mp4"]
    [] flag \in {"file.mp4", "file"} -> [options EXCEPT !.record_filename = flag]
    [] flag \in {"fullscreen", "help", "version", "headless", "extra"} -> [options EXCEPT ![flag] = TRUE]

\* Bounds: a command line has either one number or flags.
TakeFlag ==
  /\ written = NotWritten
  /\ \E flag \in Flags : options' = Set(flag)
  /\ UNCHANGED written

TakeNumber(field, text) ==
  /\ options = Defaults
  /\ Parses(field, text)
  /\ options' = [options EXCEPT !.number = Stored(field, text.value * Multiplier(text.suffix))]
  /\ written' = [field |-> field, text |-> text]

RefuseNumber(field, text) ==
  /\ options = Defaults
  /\ ~Parses(field, text)
  /\ UNCHANGED commandVars

\* An option that getopt does not know, or a format that ParseRecordFormat does not.
RefuseOption == UNCHANGED commandVars

BugConsistent ==   \* a bug: turning the screen off is not compared with control
  /\ ~options.display => options.record_filename # Unset /\ ~options.fullscreen
  /\ ~options.extra
  /\ options.record_format # "auto" => options.record_filename # Unset
  /\ options.record_filename # Unset =>
       options.record_format # "auto" \/ options.record_filename = "file.mp4"

\* What ParseArgs tests at the end; a format that is not given is guessed from
\* the name of the file.
Consistent ==
  /\ ~options.display => options.record_filename # Unset /\ ~options.fullscreen
  /\ ~options.extra
  /\ options.record_format # "auto" => options.record_filename # Unset
  /\ options.record_filename # Unset =>
       options.record_format # "auto" \/ options.record_filename = "file.mp4"
  /\ ~options.control => ~options.turn_screen_off

\* The options that decide which steps of Start run; the others go to SDL, to
\* the device and to the recorder as they are.
Selected(o) ==
  [display |-> o.display, control |-> o.control, record |-> o.record_filename # Unset,
   headless |-> o.headless, show_touches |-> o.show_touches, turn_screen_off |-> o.turn_screen_off]
----------------------------------------------------------------------------
\* A number is accepted only when its field holds it: what Start reads is the
\* number that was written, times its suffix (irobot_core.cpp:614-707,
\* str_util.cpp:74-123).
NumbersKept ==
  written # NotWritten /\ "number" \in DOMAIN options =>
    options.number = written.text.value * Multiplier(written.text.suffix)
=============================================================================
