------------------------------- MODULE Mailbox -------------------------------
(***************************************************************************)
(* What triple buffering promises to a task that draws: a mailbox for one  *)
(* frame.  Putting a frame in replaces the one that waits; showing takes   *)
(* the newest.  No buffer, pointer or flag is copied here.                 *)
(*                                                                         *)
(* The promise holds while the mailbox is intact: nobody has changed the   *)
(* mode of buffering, and no two tasks have been in the pointers at once.  *)
(***************************************************************************)
EXTENDS Naturals

VARIABLES
    last,       \* the number of frames handed over, which is the newest one's
    shown,      \* the frame on the display
    waiting,    \* a frame waits to be shown
    intact      \* the promise still holds

vars == <<last, shown, waiting, intact>>

Init == last = 0 /\ shown = 0 /\ waiting = FALSE /\ intact = TRUE

Put == last' = last + 1 /\ waiting' = TRUE /\ shown' = shown

Show == waiting /\ shown' = last /\ waiting' = FALSE /\ last' = last

Kept == UNCHANGED <<last, shown, waiting>>

(* Nothing is promised of a step that breaks the mailbox, nor ever after. *)
Next == intact' => intact /\ (Put \/ Show \/ Kept)

SafetySpec == Init /\ [][Next]_vars

-----------------------------------------------------------------------------
(* No frame is lost but to a newer one: when none waits, the display shows *)
(* the last that was handed over.                                          *)
NothingLost == intact => shown <= last /\ (~waiting => shown = last)

(* The display never goes back to an older frame. *)
NeverGoesBack == [][intact' => shown <= shown']_vars

=============================================================================
