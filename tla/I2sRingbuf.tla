----------------------------- MODULE I2sRingbuf -----------------------------
(***************************************************************************)
(* The ring buffer between the producers of audio and the I2S task         *)
(* (bluetooth_audio/i2s_task.c).  Two tasks write to it at once, neither   *)
(* knowing of the other: the Bluetooth stack's data callback ("bt") and    *)
(* the audio manager, which plays a sound effect chunk by chunk, retries a *)
(* dropped chunk and flushes at the end ("sfx").  ringbuffer_mode is read  *)
(* and written by all three tasks without a lock; only the ring buffer and *)
(* the semaphore are atomic.  Each access to one of them is an action.     *)
(*                                                                         *)
(* The unit of data is one write: 4 KiB of a sound effect, about one A2DP  *)
(* packet.  HighWater and Prefetch count those units.                      *)
(***************************************************************************)
EXTENDS Naturals

CONSTANTS
    HighWater,  \* RINGBUF_HIGHEST_WATER_LEVEL
    Prefetch,   \* RINGBUF_PREFETCH_WATER_LEVEL
    SfxChunks,  \* chunks of one sound effect
    Sounds      \* sound effects played (bound)

ASSUME WaterLevels == HighWater \in Nat /\ Prefetch \in 1..HighWater
ASSUME SoundBounds == SfxChunks \in Nat \ {0} /\ Sounds \in Nat

VARIABLES
    mode,       \* ringbuffer_mode
    level,      \* bytes waiting in s_ringbuf_i2s
    held,       \* the I2S task holds an item it has not returned
    sem,        \* s_i2s_write_semaphore is available
    i2s_pc,     \* where bt_i2s_task_handler is
    pc,         \* where each writer is in write_ringbuf or flush_ringbuf
    done,       \* its local `done`
    chunks,     \* chunks the sound effect has still to write
    sounds,     \* sound effects started
    sfx_tail,   \* units to play up to the end of the last sound effect
    overflowed  \* history: some send has failed

vars == <<mode, level, held, sem, i2s_pc, pc, done, chunks, sounds, sfx_tail,
          overflowed>>
i2sVars == <<held, i2s_pc>>
sfxVars == <<chunks, sounds, sfx_tail>>

Writers == {"bt", "sfx"}
Modes == {"PROCESSING", "PREFETCHING", "DROPPING"}
WriterPC == {"idle", "read_mode", "drop", "resume", "send", "overflow", "check",
             "info", "start", "give", "flush", "flush_give"}

TypeOK ==
    /\ mode \in Modes
    /\ level \in 0..HighWater
    /\ held \in BOOLEAN /\ sem \in BOOLEAN
    /\ i2s_pc \in {"take", "receive", "write", "underflow"}
    /\ pc \in [Writers -> WriterPC]
    /\ done \in [Writers -> BOOLEAN]
    /\ chunks \in 0..SfxChunks
    /\ sounds \in 0..Sounds
    /\ sfx_tail \in 0..HighWater
    /\ overflowed \in BOOLEAN

-----------------------------------------------------------------------------
(* bt_i2s_task_start_up(); both producers start after it. *)
Init ==
    /\ mode = "PREFETCHING"
    /\ level = 0 /\ held = FALSE
    /\ sem = FALSE
    /\ i2s_pc = "take"
    /\ pc = [w \in Writers |-> "idle"]
    /\ done = [w \in Writers |-> FALSE]
    /\ chunks = 0 /\ sounds = 0 /\ sfx_tail = 0
    /\ overflowed = FALSE

-----------------------------------------------------------------------------
(* bt_i2s_task_handler(). *)

Take ==
    /\ i2s_pc = "take" /\ sem
    /\ sem' = FALSE
    /\ i2s_pc' = "receive"
    /\ UNCHANGED <<mode, level, held, pc, done, sfxVars, overflowed>>

(* An item received is no longer waiting, but keeps its place in the buffer. *)
Receive ==
    /\ i2s_pc = "receive" /\ level > 0
    /\ level' = level - 1
    /\ held' = TRUE
    /\ sfx_tail' = IF sfx_tail > 0 THEN sfx_tail - 1 ELSE 0
    /\ i2s_pc' = "write"
    /\ UNCHANGED <<mode, sem, pc, done, chunks, sounds, overflowed>>

(* i2s_write() has handed the item to the DMA; it is returned. *)
WriteAndReturn ==
    /\ i2s_pc = "write"
    /\ held' = FALSE
    /\ i2s_pc' = "receive"
    /\ UNCHANGED <<mode, level, sem, pc, done, sfxVars, overflowed>>

(* Nothing arrived for 5 ms. *)
ReceiveTimesOut ==
    /\ i2s_pc = "receive" /\ level = 0
    /\ i2s_pc' = "underflow"
    /\ UNCHANGED <<mode, level, held, sem, pc, done, sfxVars, overflowed>>

(* Mutant of Underflow: the mode is left alone. *)
UnderflowKeepingMode ==
    /\ i2s_pc = "underflow"
    /\ i2s_pc' = "take"
    /\ UNCHANGED <<mode, level, held, sem, pc, done, sfxVars, overflowed>>

(* Mutant of Underflow: it also takes back a wake-up that came too early. *)
UnderflowDropsWakeUp ==
    /\ i2s_pc = "underflow"
    /\ mode' = "PREFETCHING"
    /\ i2s_pc' = "take"
    /\ sem' = FALSE
    /\ UNCHANGED <<level, held, pc, done, sfxVars, overflowed>>

Underflow ==
    /\ i2s_pc = "underflow"
    /\ mode' = "PREFETCHING"
    /\ i2s_pc' = "take"
    /\ UNCHANGED <<level, held, sem, pc, done, sfxVars, overflowed>>

-----------------------------------------------------------------------------
(* write_ringbuf(). *)

Goto(w, next) == pc' = [pc EXCEPT ![w] = next]

(* write_ringbuf() returns size if ok and 0 otherwise.  The data callback  *)
(* ignores the result; the audio manager repeats a failed write after      *)
(* 85 ms and goes on to the next chunk, or the flush, after a good one.    *)
ReturnWritten(w, ok) ==
    \/ w = "bt" /\ Goto(w, "idle") /\ UNCHANGED chunks
    \/ w = "sfx" /\ ~ok /\ Goto(w, "read_mode") /\ UNCHANGED chunks
    \/ /\ w = "sfx" /\ ok
       /\ chunks' = chunks - 1
       /\ Goto(w, IF chunks = 1 THEN "flush" ELSE "read_mode")

(* The peer's next packet, or the next request of the audio manager. *)
BtPacket ==
    /\ pc["bt"] = "idle"
    /\ Goto("bt", "read_mode")
    /\ UNCHANGED <<mode, level, i2sVars, sem, done, sfxVars, overflowed>>

SfxRequest ==
    /\ pc["sfx"] = "idle" /\ sounds < Sounds
    /\ Goto("sfx", "read_mode")
    /\ sounds' = sounds + 1
    /\ chunks' = SfxChunks
    /\ UNCHANGED <<mode, level, i2sVars, sem, done, sfx_tail, overflowed>>

ReadMode(w) ==
    /\ pc[w] = "read_mode"
    /\ Goto(w, IF mode = "DROPPING" THEN "drop" ELSE "send")
    /\ UNCHANGED <<mode, level, i2sVars, sem, done, sfxVars, overflowed>>

(* The dropping branch: this packet is lost; the level it reads decides    *)
(* whether the next one is kept.                                           *)
Drop(w) ==
    /\ pc[w] = "drop"
    /\ \/ level <= Prefetch /\ Goto(w, "resume") /\ UNCHANGED chunks
       \/ level > Prefetch /\ ReturnWritten(w, FALSE)
    /\ UNCHANGED <<mode, level, i2sVars, sem, done, sounds, sfx_tail, overflowed>>

Resume(w) ==
    /\ pc[w] = "resume"
    /\ mode' = "PROCESSING"
    /\ ReturnWritten(w, FALSE)
    /\ UNCHANGED <<level, i2sVars, sem, done, sounds, sfx_tail, overflowed>>

Full == level + (IF held THEN 1 ELSE 0) >= HighWater

Send(w) ==
    /\ pc[w] = "send"
    /\ done' = [done EXCEPT ![w] = ~Full]
    /\ IF Full
       THEN Goto(w, "overflow") /\ overflowed' = TRUE /\ UNCHANGED <<level, sfx_tail>>
       ELSE /\ Goto(w, "check")
            /\ level' = level + 1
            /\ sfx_tail' = IF w = "sfx" THEN level + 1 ELSE sfx_tail
            /\ UNCHANGED overflowed
    /\ UNCHANGED <<mode, i2sVars, sem, chunks, sounds>>

Overflow(w) ==
    /\ pc[w] = "overflow"
    /\ mode' = "DROPPING"
    /\ Goto(w, "check")
    /\ UNCHANGED <<level, i2sVars, sem, done, sfxVars, overflowed>>

CheckMode(w) ==
    /\ pc[w] = "check"
    /\ \/ mode = "PREFETCHING" /\ Goto(w, "info") /\ UNCHANGED chunks
       \/ mode # "PREFETCHING" /\ ReturnWritten(w, done[w])
    /\ UNCHANGED <<mode, level, i2sVars, sem, done, sounds, sfx_tail, overflowed>>

CheckLevel(w) ==
    /\ pc[w] = "info"
    /\ \/ level >= Prefetch /\ Goto(w, "start") /\ UNCHANGED chunks
       \/ level < Prefetch /\ ReturnWritten(w, done[w])
    /\ UNCHANGED <<mode, level, i2sVars, sem, done, sounds, sfx_tail, overflowed>>

StartPlaying(w) ==
    /\ pc[w] = "start"
    /\ mode' = "PROCESSING"
    /\ Goto(w, "give")
    /\ UNCHANGED <<level, i2sVars, sem, done, sfxVars, overflowed>>

Give(w) ==
    /\ pc[w] = "give"
    /\ sem' = TRUE
    /\ ReturnWritten(w, done[w])
    /\ UNCHANGED <<mode, level, i2sVars, done, sounds, sfx_tail, overflowed>>

-----------------------------------------------------------------------------
(* flush_ringbuf(), called by the audio manager after the last chunk. *)

Flush ==
    /\ pc["sfx"] = "flush"
    /\ mode' = "PROCESSING"
    /\ Goto("sfx", "flush_give")
    /\ UNCHANGED <<level, i2sVars, sem, done, sfxVars, overflowed>>

FlushGive ==
    /\ pc["sfx"] = "flush_give"
    /\ sem' = TRUE
    /\ Goto("sfx", "idle")
    /\ UNCHANGED <<mode, level, i2sVars, done, sfxVars, overflowed>>

-----------------------------------------------------------------------------
I2sTask == Take \/ Receive \/ WriteAndReturn \/ ReceiveTimesOut \/ Underflow

WriteSteps(w) ==
    \/ ReadMode(w) \/ Drop(w) \/ Resume(w) \/ Send(w) \/ Overflow(w)
    \/ CheckMode(w) \/ CheckLevel(w) \/ StartPlaying(w) \/ Give(w)

FlushSteps == Flush \/ FlushGive

Next ==
    \/ I2sTask
    \/ BtPacket \/ SfxRequest
    \/ \E w \in Writers : WriteSteps(w)
    \/ FlushSteps

(* Every task runs when it is ready; packets and requests may stop. *)
Fairness ==
    /\ WF_vars(I2sTask)
    /\ WF_vars(WriteSteps("bt"))
    /\ WF_vars(WriteSteps("sfx"))
    /\ WF_vars(FlushSteps)

SafetySpec == Init /\ [][Next]_vars
Spec == SafetySpec /\ Fairness

-----------------------------------------------------------------------------
(* Properties. *)

(* Someone is about to wake the I2S task, or already has. *)
WakeUpComing == sem \/ \E w \in Writers : pc[w] \in {"give", "flush_give"}

(* The mode says the I2S task plays, and it sleeps: writers that read the  *)
(* mode will never wake it.                                                *)
Stalled == i2s_pc = "take" /\ mode # "PREFETCHING" /\ ~WakeUpComing

(* As long as no send has found the buffer full, no interleaving of the    *)
(* two writers, the flush and the underflow loses the wake-up.             *)
StallOnlyAfterOverflow == Stalled => overflowed

(* The buffer holds what it can hold, and without an overflow nobody loses *)
(* the I2S task's wake-up (i2s_task.c 84, 198, flush_ringbuf).             *)
WakeUpsKept == TypeOK /\ StallOnlyAfterOverflow

(* i2s_task.c:31 says "I2S is working" of PROCESSING.  A writer that read *)
(* DROPPING before the underflow breaks it: it stores PROCESSING over the  *)
(* PREFETCHING of the underflow and gives no semaphore.                    *)
WorkingWhileProcessing == mode = "PROCESSING" => ~Stalled

(* The strengthening that makes it inductive: a mode other than            *)
(* PREFETCHING is only stored by one who then gives the semaphore, except  *)
(* on the three steps of the dropping branch.                              *)
NoDropping ==
    ~overflowed =>
        /\ mode # "DROPPING"
        /\ \A w \in Writers : pc[w] \notin {"drop", "resume", "overflow"}
        /\ ~Stalled

(* A sound effect being written has chunks left. *)
ChunksLeft == pc["sfx"] \notin {"idle", "flush", "flush_give"} => chunks > 0

(* What is flushed is played: a sound effect shorter than the prefetch     *)
(* level is heard to its end, whatever the Bluetooth stream does meanwhile.*)
SoundEffectHeard == pc["sfx"] = "flush" ~> sfx_tail = 0
=============================================================================
