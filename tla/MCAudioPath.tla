------------------------------ MODULE MCAudioPath ------------------------------
(***************************************************************************)
(* Where the samples of the A2DP data callback go: the ring buffer to the  *)
(* I2S task (I2sRingbuf) and the double buffer to the FFT task             *)
(* (FftBuffer).  The two share no variable: each behaviour is one of one   *)
(* of them, chosen at the start, and the other stays in its initial state. *)
(***************************************************************************)
EXTENDS I2sRingbuf

CONSTANTS N, Lag, MaxFrames

VARIABLES
    part,
    buf, fft_read, widx, frame, giving, ready_sem, task, source, ridx, fft_input,
    arrived, times

B == INSTANCE FftBuffer WITH sem <- ready_sem

ASSUME SizeAssumption == B!SizeAssumption

bufferVars == <<buf, fft_read, widx, frame, giving, ready_sem, task, source, ridx,
                fft_input, arrived, times>>

MCInit == part \in {"i2s", "buffer"} /\ Init /\ B!Init

\* The stream of the model ends; the I2S task may not.
MCNext ==
    /\ UNCHANGED part
    /\ \/ part = "i2s" /\ Next /\ UNCHANGED bufferVars
       \/ part = "buffer" /\ B!Next /\ UNCHANGED vars
       \/ part # "i2s" /\ UNCHANGED <<vars, bufferVars>>

MCSpec ==
    /\ MCInit /\ [][MCNext]_<<part, vars, bufferVars>>
    /\ WF_vars(part = "i2s" /\ I2sTask)
    /\ WF_vars(part = "i2s" /\ WriteSteps("bt"))
    /\ WF_vars(part = "i2s" /\ WriteSteps("sfx"))
    /\ WF_vars(part = "i2s" /\ FlushSteps)
    /\ WF_bufferVars(part = "buffer" /\ B!Give)
    /\ WF_bufferVars(part = "buffer" /\ B!FftTask)

-----------------------------------------------------------------------------
(* The FFT takes a frame three times at most, and the input it takes is one *)
(* frame, up to the samples that overtook the copy, which are of the frame  *)
(* after next (FFT_task.c 118-136, 271-279).                                *)
BlocksTaken == B!TypeOK /\ B!InputAlmostWhole /\ B!ThriceAtMost

(* A sound effect is heard to its end (i2s_task.c, flush_ringbuf), and      *)
(* every frame that was written is processed, or a later one (FFT_task.c    *)
(* 130, 271).                                                               *)
SamplesProcessed == SoundEffectHeard /\ (part = "buffer" => B!FramesProcessed)
===============================================================================
