------------------------------- MODULE FftBuffer -------------------------------
(***************************************************************************)
(* The double buffer between the A2DP data callback and the FFT task       *)
(* (main/FFT/FFT_task.c).  read_data_stream() writes sample by sample into *)
(* one half; when it is full it swaps the halves and gives a binary        *)
(* semaphore.  process_fft() takes the semaphore and copies the half that  *)
(* fft_read points to at that moment; neither side locks.                  *)
(*                                                                         *)
(* A sample is the number of its frame.  Lag is how many samples may       *)
(* arrive while the task copies: N samples take 93 ms and the copy of them *)
(* microseconds, so they are less than two frames.                         *)
(***************************************************************************)
EXTENDS Naturals

CONSTANTS
    N,           \* FFT_N
    Lag,         \* samples that may arrive during one copy
    MaxFrames    \* bound: frames in the stream

SizeAssumption ==
    /\ N \in Nat \ {0} /\ MaxFrames \in Nat \ {0}
    /\ Lag \in 0 .. 2 * N

Halves == {0, 1}
Cells == 0 .. N - 1

VARIABLES
    buf,         \* buf0 and buf1
    fft_read,    \* the half to read
    widx,        \* the next cell of the other half
    frame,       \* the frame being written
    giving,      \* the halves are swapped, the semaphore is not yet given
    sem,         \* xDataReadySem
    task,        \* "take", "copy" or "execute"
    source,      \* the half being copied
    ridx,        \* the next cell to copy
    fft_input,   \* the copy
    arrived,     \* history: samples that came during the copy
    times        \* history: how often a copy of each frame has begun

writer == <<buf, fft_read, widx, frame, giving>>
reader == <<task, source, ridx, fft_input>>
vars == <<writer, sem, reader, arrived, times>>

Frames == 0 .. MaxFrames

TypeOK ==
    /\ buf \in [Halves -> [Cells -> Frames]]
    /\ fft_read \in Halves
    /\ widx \in Cells
    /\ frame \in 1 .. MaxFrames + 1
    /\ giving \in BOOLEAN /\ sem \in BOOLEAN
    /\ task \in {"take", "copy", "execute"}
    /\ source \in Halves
    /\ ridx \in 0 .. N
    /\ fft_input \in [Cells -> Frames]
    /\ arrived \in 0 .. Lag
    /\ times \in [Frames -> Nat]

Init ==
    /\ buf = [h \in Halves |-> [i \in Cells |-> 0]]
    /\ fft_read = 0
    /\ widx = 0
    /\ frame = 1
    /\ giving = FALSE
    /\ sem = FALSE
    /\ task = "take"
    /\ source = 0
    /\ ridx = 0
    /\ fft_input = [i \in Cells |-> 0]
    /\ arrived = 0
    /\ times = [f \in Frames |-> 0]

-----------------------------------------------------------------------------
(* read_data_stream                                                          *)

\* Mutant of Swap: the half is filled again without a swap.
SwapForgotten == fft_read' = fft_read

\* swap_fft_buffers
Swap == fft_read' = 1 - fft_read

Sample ==
    /\ ~giving /\ frame <= MaxFrames
    /\ task = "copy" => arrived < Lag
    /\ arrived' = IF task = "copy" THEN arrived + 1 ELSE arrived
    /\ buf' = [buf EXCEPT ![1 - fft_read] = [@ EXCEPT ![widx] = frame]]
    /\ \/ /\ widx + 1 < N
          /\ widx' = widx + 1
          /\ UNCHANGED <<fft_read, frame, giving>>
       \/ /\ widx + 1 >= N
          /\ Swap
          /\ widx' = 0
          /\ frame' = frame + 1
          /\ giving' = TRUE
    /\ UNCHANGED <<sem, reader, times>>

\* A semaphore that is already given stays so.
Give ==
    /\ giving
    /\ giving' = FALSE
    /\ sem' = TRUE
    /\ UNCHANGED <<buf, fft_read, widx, frame, reader, arrived, times>>

-----------------------------------------------------------------------------
(* process_fft                                                               *)

Take ==
    /\ task = "take" /\ sem
    /\ sem' = FALSE
    /\ task' = "execute"
    /\ ridx' = 0
    /\ UNCHANGED <<writer, source, fft_input, arrived, times>>

\* memcpy is called with the half that is to be read now.
BeginCopy ==
    /\ task = "execute" /\ ridx = 0
    /\ task' = "copy"
    /\ source' = fft_read
    /\ arrived' = 0
    /\ times' = [times EXCEPT ![frame - 1] = @ + 1]
    /\ UNCHANGED <<writer, sem, ridx, fft_input>>

Copy ==
    /\ task = "copy" /\ ridx < N
    /\ fft_input' = [fft_input EXCEPT ![ridx] = buf[source][ridx]]
    /\ ridx' = ridx + 1
    /\ task' = IF ridx + 1 = N THEN "execute" ELSE "copy"
    /\ UNCHANGED <<writer, sem, source, arrived, times>>

\* fft_execute and the drawing of the result.
Execute ==
    /\ task = "execute" /\ ridx = N
    /\ task' = "take"
    /\ UNCHANGED <<writer, sem, source, ridx, fft_input, arrived, times>>

-----------------------------------------------------------------------------
FftTask == Take \/ BeginCopy \/ Copy \/ Execute

Next == Sample \/ Give \/ FftTask

\* The callback returns and the FFT task is scheduled at last.
Spec == Init /\ [][Next]_vars /\ WF_vars(Give) /\ WF_vars(FftTask)

-----------------------------------------------------------------------------
Copied == task = "execute" /\ ridx = N

(* The input of the FFT is one frame, up to the samples that overtook the   *)
(* copy: they are of the frame after next, since a half is refilled only    *)
(* after two swaps, and they are its first, fewer than those that arrived   *)
(* (118-136, 279).                                                          *)
InputAlmostWhole ==
    Copied =>
        \E f \in 1 .. MaxFrames : \A i \in Cells :
            fft_input[i] = f \/ (fft_input[i] = f + 2 /\ i + 1 < arrived)

(* A frame is taken three times at most: by a task that waited between its *)
(* take and its copy while the halves were swapped, on the give of the      *)
(* frame before, still pending then, and on its own.  Only swapped halves   *)
(* are copied (130, 271-279).                                               *)
ThriceAtMost == times[0] = 0 /\ \A f \in Frames : times[f] <= 3

Behind ==
    \E f \in 1 .. MaxFrames : frame > f /\ \A g \in f .. MaxFrames : times[g] = 0

(* Every frame that has been written is processed, or a later one is, when  *)
(* the task was busy with another as it was announced (130, 271): the task  *)
(* catches up.                                                              *)
FramesProcessed == Behind ~> ~Behind

-----------------------------------------------------------------------------
(* What is inductive: the halves hold the frames in turn; a copy of frame f *)
(* is up to three frames behind the writer, who is in the half that is      *)
(* copied with frame f + 2 only; and every copy still to come of the last   *)
(* whole frame has its token.                                               *)
HalvesInTurn ==
    \A i \in Cells :
        /\ buf[fft_read][i] = frame - 1
        /\ i < widx => buf[1 - fft_read][i] = frame
        /\ i >= widx /\ frame > 1 => buf[1 - fft_read][i] = frame - 2

Copying(f) ==
    \/ /\ frame = f + 1 /\ source = fft_read /\ arrived <= widx
       /\ \A i \in 0 .. ridx - 1 : fft_input[i] = f
    \/ /\ frame = f + 2 /\ source = 1 - fft_read /\ arrived > widx
       /\ \A i \in 0 .. ridx - 1 : fft_input[i] = f \/ (fft_input[i] = f + 2 /\ i < widx)
    \/ /\ frame = f + 3 /\ source = fft_read /\ arrived > N + widx
       /\ \A i \in 0 .. ridx - 1 : fft_input[i] \in {f, f + 2}

Tokens ==
    (IF sem THEN 1 ELSE 0) + (IF giving THEN 1 ELSE 0)
        + (IF task = "execute" /\ ridx = 0 THEN 1 ELSE 0)

CopiesCounted ==
    /\ times[frame - 1] + Tokens <= 3
    /\ \A f \in Frames : times[f] <= 3 /\ (f >= frame => times[f] = 0)
    /\ times[0] = 0
    /\ frame = 1 => Tokens = 0 /\ task = "take"

IInv ==
    /\ TypeOK /\ HalvesInTurn /\ CopiesCounted
    /\ task = "copy" => ridx < N /\ \E f \in 1 .. MaxFrames : Copying(f)
    /\ InputAlmostWhole
=============================================================================
