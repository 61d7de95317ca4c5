------------------------------- MODULE Screen -------------------------------
(***************************************************************************)
(* The window: src/ui/screen.cpp.  A Screen remembers the size its window  *)
(* has when it is neither maximized nor fullscreen, and whether it is      *)
(* maximized, from the events the window manager sends; the events arrive  *)
(* after the window has changed.                                           *)
(*                                                                         *)
(* The window itself is SDL's and the window manager's: what the program   *)
(* may ask of it, and what its user may do to it, is external and modelled *)
(* here because the events follow from it.                                 *)
(***************************************************************************)
EXTENDS Integers, Sequences

CONSTANTS
  FrameWidth, FrameHeight,       \* the device's screen, held upright
  DisplayWidth, DisplayHeight,   \* the computer's screen, without the margins
  UserLengths                    \* widths and heights the user gives the window

MaxLength == 65535   \* of an uint16_t

ASSUME ScreenAssumption ==
  /\ {FrameWidth, FrameHeight, DisplayWidth, DisplayHeight} \subseteq 1..MaxLength
  /\ UserLengths \subseteq 1..MaxLength

VARIABLES
  windowed_window_size,
  windowed_window_size_backup,
  fullscreen,
  maximized,
  frame_size,
  texture,        \* the size of the texture, NoTexture when there is none
  logicalSize,    \* the renderer's logical size
  normalSize,     \* the window: its size when it is neither maximized nor fullscreen
  wmMaximized,    \* the window: the window manager has maximized it
  vanished,       \* history: a size computed for the window had no width or no height
  events          \* SDL's event queue

frameVars == <<frame_size, texture, logicalSize, vanished>>
screenVars == <<windowed_window_size, windowed_window_size_backup, fullscreen, maximized,
                frameVars, normalSize, wmMaximized>>

Size(w, h) == [width |-> w, height |-> h]

NoSize == Size(0, 0)
NoTexture == Size(-1, -1)

\* Sizes are rounded down: a small one turned, or fitted to the frame, may vanish.
Vanishes(size) == size.width = 0 \/ size.height = 0

\* A device can be turned.
FrameSizes == {Size(FrameWidth, FrameHeight), Size(FrameHeight, FrameWidth)}

DisplaySize == Size(DisplayWidth, DisplayHeight)

\* GetPreferredDisplayBounds: SDL may not know them.
DisplayBounds == {DisplaySize, NoSize}

Smaller(a, b) == IF a < b THEN a ELSE b

Uint16(n) == n % (MaxLength + 1)

----------------------------------------------------------------------------
(* The events, and the window they tell about. *)

WindowEvent(e) == [type |-> "SDL_WINDOWEVENT", what |-> e]

SizeChanged == WindowEvent("SIZE_CHANGED")
Maximized == WindowEvent("MAXIMIZED")
Restored == WindowEvent("RESTORED")

\* GetWindowSize: the size now, whatever the events in the queue say.
GetWindowSize ==
  IF fullscreen \/ wmMaximized THEN DisplaySize ELSE normalSize

\* SDL_CreateWindow makes a window of at least one pixel; SDL_SetWindowSize
\* refuses less, and the window manager keeps a maximized window as it is.
SizeWhenCreated(size) ==
  Size(IF size.width = 0 THEN 1 ELSE size.width, IF size.height = 0 THEN 1 ELSE size.height)

SizeAfterRequest(size, max) == IF max \/ Vanishes(size) THEN normalSize ELSE size

ChangeEvents(from, to) == IF from = to THEN <<>> ELSE <<SizeChanged>>

\* SDL_RestoreWindow, or the user: the two events come in either order.
RestoreEvents ==
  IF wmMaximized THEN {<<SizeChanged, Restored>>, <<Restored, SizeChanged>>} ELSE {<<>>}

----------------------------------------------------------------------------
(* Sizes. *)

\* The largest size in the current one, and in the display, of the frame's shape.
GetOptimalSize(current, frame, bounds) ==
  LET w == IF bounds = NoSize THEN current.width ELSE Smaller(current.width, bounds.width)
      h == IF bounds = NoSize THEN current.height ELSE Smaller(current.height, bounds.height)
  IN  IF frame.width = 0 \/ frame.height = 0 THEN current
      ELSE IF frame.width * h > frame.height * w
           THEN Size(w, (frame.height * w) \div frame.width)
           ELSE Size((frame.width * h) \div frame.height, h)

\* The size the user asked for, completed in the frame's shape.
GetInitialOptimalSize(frame, req_width, req_height, bounds) ==
  IF req_width = 0 /\ req_height = 0 THEN GetOptimalSize(frame, frame, bounds)
  ELSE Size(IF req_width # 0 THEN req_width
            ELSE Uint16((req_height * frame.width) \div frame.height),
            IF req_height # 0 THEN req_height
            ELSE Uint16((req_width * frame.height) \div frame.width))

GetWindowedWindowSize ==
  IF fullscreen \/ maximized THEN windowed_window_size ELSE GetWindowSize

ScreenInit ==
  /\ frame_size \in FrameSizes
  /\ \E w, h \in UserLengths \cup {0}, b \in DisplayBounds :
       windowed_window_size = GetInitialOptimalSize(frame_size, w, h, b)
  /\ windowed_window_size_backup = NoSize
  /\ fullscreen = FALSE
  /\ maximized = FALSE
  /\ texture = frame_size
  /\ logicalSize = frame_size
  /\ normalSize = SizeWhenCreated(windowed_window_size)
  /\ wmMaximized = FALSE
  /\ vanished = Vanishes(windowed_window_size)
  /\ events = <<>>

\* ApplyWindowedSize, given the flags and the size it is called with, once the
\* other events of the handler, sent, are in the queue rest.
ApplyWindowedSize(full, max, size, rest) ==
  IF ~full /\ ~max
  THEN /\ normalSize' = SizeAfterRequest(size, wmMaximized)
       /\ events' = rest \o ChangeEvents(normalSize, SizeAfterRequest(size, wmMaximized))
  ELSE /\ events' = rest
       /\ UNCHANGED normalSize

----------------------------------------------------------------------------
(* PrepareForFrame, for a frame that differs in size. *)

SameSize(new_frame_size) ==
  /\ frame_size = new_frame_size
  /\ UNCHANGED <<screenVars, events>>

\* SDL_RenderSetLogicalSize fails before anything is changed.
LogicalSizeFails(new_frame_size) ==
  /\ frame_size # new_frame_size
  /\ UNCHANGED <<screenVars, events>>

\* The texture is destroyed, the window follows the frame, and the new texture
\* may not be created; it is never tried again for the same size.
ResizeForFrame(new_frame_size, bounds) ==
  LET size   == GetWindowedWindowSize
      target == Size(Uint16((size.width * new_frame_size.width) \div frame_size.width),
                     Uint16((size.height * new_frame_size.height) \div frame_size.height))
      best   == GetOptimalSize(target, new_frame_size, bounds)
  IN  /\ frame_size # new_frame_size
      /\ logicalSize' = new_frame_size
      /\ windowed_window_size' = best
      /\ ApplyWindowedSize(fullscreen, maximized, best, events)
      /\ frame_size' = new_frame_size
      /\ texture' \in {new_frame_size, NoTexture}
      /\ vanished' = (vanished \/ Vanishes(best))
      /\ UNCHANGED <<windowed_window_size_backup, fullscreen, maximized, wmMaximized>>

----------------------------------------------------------------------------
(* HandleWindowEvent.  Each takes the event off the queue. *)

BugHandleSizeChanged ==   \* a bug: the previous size is not kept
  /\ events' = Tail(events)
  /\ windowed_window_size' = IF fullscreen \/ maximized THEN windowed_window_size
                             ELSE GetWindowSize
  /\ UNCHANGED <<windowed_window_size_backup, fullscreen, maximized, frameVars, normalSize,
                 wmMaximized>>

HandleSizeChanged ==
  /\ events' = Tail(events)
  /\ IF fullscreen \/ maximized
     THEN UNCHANGED <<windowed_window_size, windowed_window_size_backup>>
     ELSE /\ windowed_window_size_backup' = windowed_window_size
          /\ windowed_window_size' = GetWindowSize
  /\ UNCHANGED <<fullscreen, maximized, frameVars, normalSize, wmMaximized>>

\* The assertion on the backup; without NDEBUG the backup is reset as well.
BackupIsSet ==
  windowed_window_size_backup.width # 0 /\ windowed_window_size_backup.height # 0

HandleMaximized ==
  /\ BackupIsSet
  /\ events' = Tail(events)
  /\ windowed_window_size' = windowed_window_size_backup
  /\ windowed_window_size_backup' = NoSize
  /\ maximized' = TRUE
  /\ UNCHANGED <<fullscreen, frameVars, normalSize, wmMaximized>>

BugHandleRestored ==   \* a bug: the window keeps its size
  /\ maximized' = FALSE
  /\ events' = Tail(events)
  /\ UNCHANGED <<windowed_window_size, windowed_window_size_backup, fullscreen, frameVars,
                 normalSize, wmMaximized>>

HandleRestored ==
  /\ maximized' = FALSE
  /\ ApplyWindowedSize(fullscreen, FALSE, windowed_window_size, Tail(events))
  /\ UNCHANGED <<windowed_window_size, windowed_window_size_backup, fullscreen, frameVars,
                 wmMaximized>>

----------------------------------------------------------------------------
(* The shortcuts, called with the key's event at the head of the queue. *)

\* SDL_SetWindowFullscreen, which may fail: leaving fullscreen shows the window
\* as it was, and then ApplyWindowedSize corrects it.
SwitchFullscreen ==
  /\ \/ /\ fullscreen' = ~fullscreen
        /\ ApplyWindowedSize(~fullscreen, maximized, windowed_window_size,
                             Append(Tail(events), SizeChanged))
     \/ /\ events' = Tail(events)
        /\ UNCHANGED <<fullscreen, normalSize>>
  /\ UNCHANGED <<windowed_window_size, windowed_window_size_backup, maximized, frameVars,
                 wmMaximized>>

\* The sizes the window may tell: one that is being restored, still its old size.
SizesToRead == {GetWindowSize, IF maximized THEN normalSize ELSE GetWindowSize}

\* What ResizeToFit and ResizeToPixelPerfect have in common: nothing in
\* fullscreen; a maximized window is restored; then the size wanted, which may
\* depend on the one it tells, is requested.
Resize(wanted) ==
  IF fullscreen
  THEN events' = Tail(events) /\ UNCHANGED screenVars
  ELSE /\ maximized' = FALSE
       /\ wmMaximized' = (wmMaximized /\ ~maximized)
       /\ \E now \in SizesToRead, sent \in IF maximized THEN RestoreEvents ELSE {<<>>} :
            /\ normalSize' = SizeAfterRequest(wanted[now], wmMaximized')
            /\ events' = Tail(events) \o sent \o ChangeEvents(normalSize, normalSize')
       /\ UNCHANGED <<windowed_window_size, windowed_window_size_backup, fullscreen,
                      frameVars>>

ResizeToFit ==
  \E bounds \in DisplayBounds :
    Resize([size \in SizesToRead |-> GetOptimalSize(size, frame_size, bounds)])

ResizeToPixelPerfect == Resize([size \in SizesToRead |-> frame_size])

----------------------------------------------------------------------------
(* What the user does to the window itself. *)

UserResizes(size) ==
  /\ ~fullscreen
  /\ ~wmMaximized
  /\ size # normalSize
  /\ normalSize' = size
  /\ events' = Append(events, SizeChanged)
  /\ UNCHANGED <<windowed_window_size, windowed_window_size_backup, fullscreen, maximized,
                 frameVars, wmMaximized>>

UserMaximizes ==
  /\ ~fullscreen
  /\ ~wmMaximized
  /\ wmMaximized' = TRUE
  /\ events' = events \o <<SizeChanged, Maximized>>
  /\ UNCHANGED <<windowed_window_size, windowed_window_size_backup, fullscreen, maximized,
                 frameVars, normalSize>>

UserRestores ==
  /\ ~fullscreen
  /\ wmMaximized
  /\ wmMaximized' = FALSE
  /\ \E sent \in RestoreEvents : events' = events \o sent
  /\ UNCHANGED <<windowed_window_size, windowed_window_size_backup, fullscreen, maximized,
                 frameVars, normalSize>>

Sizes == [width : 0..MaxLength, height : 0..MaxLength]

ScreenTypeOK ==
  /\ windowed_window_size \in Sizes
  /\ windowed_window_size_backup \in Sizes
  /\ fullscreen \in BOOLEAN
  /\ maximized \in BOOLEAN
  /\ frame_size \in FrameSizes
  /\ texture \in FrameSizes \cup {NoTexture}
  /\ logicalSize \in FrameSizes
  /\ normalSize \in Sizes
  /\ wmMaximized \in BOOLEAN
  /\ vanished \in BOOLEAN

\* What the Screen remembers is what its window is, once the events that tell
\* about it are handled, whatever the user, the shortcuts and the rotations of
\* the device did in between: the flag, the size to come back to, and a picture
\* of the size of the frames (screen.hpp:36-46).  A size that vanished is
\* remembered, but no window has it.
ScreenMatchesWindow ==
  /\ events = <<>> => /\ maximized = wmMaximized
                      /\ ~fullscreen /\ ~maximized /\ ~Vanishes(windowed_window_size)
                           => windowed_window_size = normalSize
  /\ logicalSize = frame_size
  /\ texture \in {frame_size, NoTexture}
============================================================================
