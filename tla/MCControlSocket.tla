--------------------------- MODULE MCControlSocket ---------------------------
(***************************************************************************)
(* The control socket with one input of each kind (a key, the mouse, a     *)
(* finger, the wheel, the power, the way back), and texts of up to two     *)
(* characters, a and €.                                                    *)
(***************************************************************************)
EXTENDS ControlSocket

Somewhere == [x |-> 100, y |-> -1, width |-> 1080, height |-> 65535]

MCInputs ==
  {[type |-> INJECT_KEYCODE, action |-> 1, keycode |-> 66, metastate |-> 1048576],
   [type |-> INJECT_TOUCH_EVENT, action |-> 0, pointer_id |-> -1, position |-> Somewhere,
    pressure |-> 65536, buttons |-> 1],
   [type |-> INJECT_TOUCH_EVENT, action |-> 2, pointer_id |-> 305419896, position |-> Somewhere,
    pressure |-> 32768, buttons |-> 0],
   [type |-> INJECT_SCROLL_EVENT, position |-> Somewhere, hscroll |-> 1, vscroll |-> -1],
   [type |-> SET_SCREEN_POWER_MODE, mode |-> 2],
   [type |-> BACK_OR_SCREEN_ON]}

Characters == {<<97>>, <<226, 130, 172>>}
MCUserTexts == {<<>>} \cup Characters \cup {c \o d : c \in Characters, d \in Characters}
=============================================================================
