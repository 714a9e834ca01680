------------------------------- MODULE Animation -------------------------------
(***************************************************************************)
(* Animation sequences (main/Animation.c): a frame is shown for its hold   *)
(* count of updates, one with a negative count for ever.  Frames are       *)
(* numbered from 0.                                                        *)
(***************************************************************************)
EXTENDS Integers, Sequences

Sequence(frames) == [current_frame : 0 .. Len(frames) - 1, idx : Nat]

animation_sequence_reset == [current_frame |-> 0, idx |-> 0]

animation_sequence_set_frame(seq, frames, frame_idx) ==
    IF frame_idx < Len(frames) THEN [current_frame |-> frame_idx, idx |-> 1] ELSE seq

animation_sequence_update(seq, frames) ==
    LET hold_cnt == frames[seq.current_frame + 1]
    IN IF hold_cnt < 0 THEN seq
       ELSE IF seq.idx >= hold_cnt
            THEN [current_frame |-> (seq.current_frame + 1) % Len(frames), idx |-> 1]
            ELSE [seq EXCEPT !.idx = @ + 1]
=============================================================================
