---------------------------- MODULE FrameMailbox ----------------------------
(***************************************************************************)
(* What a VideoBuffer promises to its two users, without threads, locks,   *)
(* buffers or events: a mailbox that holds at most one frame, the one      *)
(* offered last.  Frames are numbered in the order they are offered.       *)
(***************************************************************************)
EXTENDS Naturals

VARIABLES
  blocking,  \* an offer waits for the previous frame to be taken; it never changes
  offered,   \* number of the frame offered last
  pending,   \* the frame in the mailbox, 0 for none
  taken,     \* the frame taken last
  closed     \* offers do not wait any more

mailboxVars == <<blocking, offered, pending, taken, closed>>

MailboxInit ==
  /\ blocking \in BOOLEAN
  /\ offered = 0
  /\ pending = 0
  /\ taken = 0
  /\ closed = FALSE

Offer ==
  /\ ~blocking \/ closed \/ pending = 0
  /\ offered' = offered + 1
  /\ pending' = offered + 1
  /\ UNCHANGED <<blocking, taken, closed>>

Take ==
  /\ pending # 0
  /\ taken' = pending
  /\ pending' = 0
  /\ UNCHANGED <<blocking, offered, closed>>

Close ==
  /\ blocking
  /\ closed' = TRUE
  /\ UNCHANGED <<blocking, offered, pending, taken>>

MailboxNext == Offer \/ Take \/ Close

MailboxSpec == MailboxInit /\ [][MailboxNext]_mailboxVars

\* The frame in the mailbox is the newest one, and newer than what was taken; a
\* blocking mailbox that is not closed loses none (video_buffer.cpp:79-84).
NothingLost ==
  /\ pending \in {0, offered}
  /\ taken <= offered
  /\ pending # 0 => taken < pending
  /\ blocking /\ ~closed => offered = taken + (IF pending = 0 THEN 0 ELSE 1)
=============================================================================
