--------------------------- MODULE AudioPath_proof ---------------------------
(***************************************************************************)
(* Proofs about the two ways of the samples: the ring buffer, for every    *)
(* buffer size, prefetch level and sound effect, and the double buffer of  *)
(* the FFT, for every block size and stream.                               *)
(***************************************************************************)
EXTENDS Integers, MCAudioPath, TLAPS

-----------------------------------------------------------------------------
(* Returning from write_ringbuf keeps the types and the count of chunks.   *)
LEMMA ReturnWrittenType ==
    ASSUME TypeOK, ChunksLeft, NEW w \in Writers, NEW ok \in BOOLEAN,
           pc[w] \notin {"idle", "flush", "flush_give"}, ReturnWritten(w, ok)
    PROVE  /\ pc' \in [Writers -> WriterPC]
           /\ chunks' \in 0..SfxChunks
           /\ ChunksLeft'
           /\ \A v \in Writers : pc'[v] \in {pc[v], "idle", "read_mode", "flush"}
BY SoundBounds DEF TypeOK, ChunksLeft, ReturnWritten, Goto, Writers, WriterPC

(* A step of one writer keeps the types. *)
LEMMA WriteStepsType ==
    ASSUME TypeOK, ChunksLeft, NEW w \in Writers, WriteSteps(w)
    PROVE  TypeOK' /\ ChunksLeft'
<1>1. CASE ReadMode(w)
  BY <1>1 DEF ReadMode, Goto, TypeOK, ChunksLeft, WriterPC, i2sVars, sfxVars
<1>2. CASE Drop(w)
  <2>1. CASE ReturnWritten(w, FALSE)
    BY <1>2, <2>1, ReturnWrittenType DEF Drop, TypeOK, i2sVars
  <2>2. CASE Goto(w, "resume") /\ UNCHANGED chunks
    BY <1>2, <2>2 DEF Drop, Goto, TypeOK, ChunksLeft, WriterPC, i2sVars
  <2>. QED
    BY <1>2, <2>1, <2>2 DEF Drop
<1>3. CASE Resume(w)
  BY <1>3, ReturnWrittenType DEF Resume, TypeOK, Modes, i2sVars
<1>4. CASE Send(w)
  <2>1. level' \in 0..HighWater /\ sfx_tail' \in 0..HighWater
    <3>1. CASE Full
      BY <1>4, <3>1 DEF Send, TypeOK
    <3>2. CASE ~Full
      <4>1. level + 1 \in 0..HighWater
        BY <3>2, WaterLevels DEF Full, TypeOK
      <4>. QED
        BY <1>4, <3>2, <4>1 DEF Send, TypeOK
    <3>. QED
      BY <3>1, <3>2
  <2>2. pc' \in [Writers -> WriterPC] /\ ChunksLeft'
    <3>1. pc[w] = "send" /\ chunks' = chunks
          /\ (Goto(w, "overflow") \/ Goto(w, "check"))
      BY <1>4 DEF Send
    <3>. QED
      BY <3>1 DEF Goto, TypeOK, ChunksLeft, Writers, WriterPC
  <2>3. overflowed' \in BOOLEAN /\ done' \in [Writers -> BOOLEAN]
    <3>1. done' = [done EXCEPT ![w] = ~Full] /\ (overflowed' = TRUE \/ overflowed' = overflowed)
      BY <1>4 DEF Send
    <3>. QED
      BY <3>1, Zenon DEF TypeOK
  <2>. QED
    BY <1>4, <2>1, <2>2, <2>3 DEF Send, TypeOK, i2sVars
<1>5. CASE Overflow(w)
  BY <1>5 DEF Overflow, Goto, TypeOK, ChunksLeft, WriterPC, Modes, i2sVars, sfxVars
<1>6. CASE CheckMode(w)
  <2>1. CASE ReturnWritten(w, done[w])
    BY <1>6, <2>1, ReturnWrittenType DEF CheckMode, TypeOK, i2sVars
  <2>2. CASE Goto(w, "info") /\ UNCHANGED chunks
    BY <1>6, <2>2 DEF CheckMode, Goto, TypeOK, ChunksLeft, WriterPC, i2sVars
  <2>. QED
    BY <1>6, <2>1, <2>2 DEF CheckMode
<1>7. CASE CheckLevel(w)
  <2>1. CASE ReturnWritten(w, done[w])
    BY <1>7, <2>1, ReturnWrittenType DEF CheckLevel, TypeOK, i2sVars
  <2>2. CASE Goto(w, "start") /\ UNCHANGED chunks
    BY <1>7, <2>2 DEF CheckLevel, Goto, TypeOK, ChunksLeft, WriterPC, i2sVars
  <2>. QED
    BY <1>7, <2>1, <2>2 DEF CheckLevel
<1>8. CASE StartPlaying(w)
  BY <1>8 DEF StartPlaying, Goto, TypeOK, ChunksLeft, WriterPC, Modes, i2sVars, sfxVars
<1>9. CASE Give(w)
  BY <1>9, ReturnWrittenType DEF Give, TypeOK, i2sVars
<1>. QED
  BY <1>1, <1>2, <1>3, <1>4, <1>5, <1>6, <1>7, <1>8, <1>9 DEF WriteSteps

(* Every variable keeps its type: the buffer never holds more than its     *)
(* size, and no chunk is counted twice.                                    *)
THEOREM TypeCorrect == SafetySpec => [](TypeOK /\ ChunksLeft)
<1>1. Init => TypeOK /\ ChunksLeft
  <2> SUFFICES ASSUME Init PROVE TypeOK /\ ChunksLeft
    OBVIOUS
  <2>1. /\ level \in 0..HighWater /\ sfx_tail \in 0..HighWater
        /\ chunks \in 0..SfxChunks /\ sounds \in 0..Sounds
    BY WaterLevels, SoundBounds DEF Init
  <2>2. pc \in [Writers -> WriterPC] /\ done \in [Writers -> BOOLEAN] /\ ChunksLeft
    BY DEF Init, ChunksLeft, Writers, WriterPC
  <2>. QED
    BY <2>1, <2>2 DEF Init, TypeOK, Modes
<1>2. TypeOK /\ ChunksLeft /\ [Next]_vars => TypeOK' /\ ChunksLeft'
  <2> SUFFICES ASSUME TypeOK, ChunksLeft, [Next]_vars
               PROVE  TypeOK' /\ ChunksLeft'
    OBVIOUS
  <2>1. CASE I2sTask
    <3>1. CASE Receive
      <4>1. level' \in 0..HighWater /\ sfx_tail' \in 0..HighWater
        BY <3>1, WaterLevels DEF Receive, TypeOK
      <4>. QED
        BY <3>1, <4>1 DEF Receive, TypeOK, ChunksLeft
    <3>2. CASE Take \/ WriteAndReturn \/ ReceiveTimesOut \/ Underflow
      BY <3>2 DEF Take, WriteAndReturn, ReceiveTimesOut, Underflow,
                  TypeOK, ChunksLeft, Modes, sfxVars
    <3>. QED
      BY <2>1, <3>1, <3>2 DEF I2sTask
  <2>2. CASE BtPacket \/ SfxRequest
    BY <2>2, SoundBounds DEF BtPacket, SfxRequest, Goto, TypeOK, ChunksLeft, Writers, WriterPC,
                i2sVars, sfxVars
  <2>3. ASSUME NEW w \in Writers, WriteSteps(w)
        PROVE  TypeOK' /\ ChunksLeft'
    BY <2>3, WriteStepsType
  <2>4. CASE FlushSteps
    BY <2>4 DEF FlushSteps, Flush, FlushGive, Goto, TypeOK, ChunksLeft, Writers, WriterPC,
                Modes, i2sVars, sfxVars
  <2>5. CASE UNCHANGED vars
    BY <2>5 DEF vars, TypeOK, ChunksLeft
  <2>. QED
    BY <2>1, <2>2, <2>3, <2>4, <2>5 DEF Next
<1>. QED
  BY <1>1, <1>2, PTL DEF SafetySpec

-----------------------------------------------------------------------------
(* A step of one writer loses no wake-up unless a send has failed.         *)
LEMMA WriteStepsNoDropping ==
    ASSUME TypeOK, ChunksLeft, NoDropping, NEW w \in Writers, WriteSteps(w)
    PROVE  NoDropping'
<1>. USE DEF NoDropping, Stalled, WakeUpComing
<1>1. ASSUME NEW ok \in BOOLEAN, ReturnWritten(w, ok),
             pc[w] \notin {"idle", "flush", "flush_give"}
      PROVE  /\ \A v \in Writers : pc'[v] \in {pc[v], "idle", "read_mode", "flush"}
             /\ \A v \in Writers \ {w} : pc'[v] = pc[v]
  BY <1>1, ReturnWrittenType DEF ReturnWritten, Goto, TypeOK
<1>2. CASE ReadMode(w)
  BY <1>2 DEF ReadMode, Goto, TypeOK, i2sVars
<1>3. CASE Drop(w)
  BY <1>3 DEF Drop
<1>4. CASE Resume(w)
  BY <1>4 DEF Resume
<1>5. CASE Send(w)
  BY <1>5 DEF Send, Goto, TypeOK, i2sVars
<1>6. CASE Overflow(w)
  BY <1>6 DEF Overflow
<1>7. CASE CheckMode(w)
  <2>1. CASE ReturnWritten(w, done[w])
    BY <1>1, <1>7, <2>1 DEF CheckMode, TypeOK, i2sVars
  <2>2. CASE Goto(w, "info")
    BY <1>7, <2>2 DEF CheckMode, Goto, TypeOK, i2sVars
  <2>. QED
    BY <1>7, <2>1, <2>2 DEF CheckMode
<1>8. CASE CheckLevel(w)
  <2>1. CASE ReturnWritten(w, done[w])
    BY <1>1, <1>8, <2>1 DEF CheckLevel, TypeOK, i2sVars
  <2>2. CASE Goto(w, "start")
    BY <1>8, <2>2 DEF CheckLevel, Goto, TypeOK, i2sVars
  <2>. QED
    BY <1>8, <2>1, <2>2 DEF CheckLevel
<1>9. CASE StartPlaying(w)
  BY <1>9 DEF StartPlaying, Goto, TypeOK, i2sVars
<1>10. CASE Give(w)
  BY <1>1, <1>10 DEF Give, TypeOK, i2sVars
<1>. QED
  BY <1>2, <1>3, <1>4, <1>5, <1>6, <1>7, <1>8, <1>9, <1>10 DEF WriteSteps

(* The wake-up of the I2S task is lost only in the dropping branch: a      *)
(* buffer that has never overflowed never stalls.                          *)
THEOREM NoStallWithoutOverflow == SafetySpec => []StallOnlyAfterOverflow
<1>1. Init => NoDropping
  BY DEF Init, NoDropping, Stalled
<1>2. TypeOK /\ ChunksLeft /\ NoDropping /\ [Next]_vars => NoDropping'
  <2> SUFFICES ASSUME TypeOK, ChunksLeft, NoDropping, [Next]_vars
               PROVE  NoDropping'
    OBVIOUS
  <2>. USE DEF NoDropping, Stalled, WakeUpComing
  <2>1. CASE I2sTask
    BY <2>1 DEF I2sTask, Take, Receive, WriteAndReturn, ReceiveTimesOut, Underflow, sfxVars
  <2>2. CASE BtPacket \/ SfxRequest
    BY <2>2 DEF BtPacket, SfxRequest, Goto, TypeOK, Writers, i2sVars, sfxVars
  <2>3. ASSUME NEW w \in Writers, WriteSteps(w)
        PROVE  NoDropping'
    BY <2>3, WriteStepsNoDropping
  <2>4. CASE FlushSteps
    BY <2>4 DEF FlushSteps, Flush, FlushGive, Goto, TypeOK, Writers, i2sVars, sfxVars
  <2>5. CASE UNCHANGED vars
    BY <2>5 DEF vars
  <2>. QED
    BY <2>1, <2>2, <2>3, <2>4, <2>5 DEF Next
<1>3. NoDropping => StallOnlyAfterOverflow
  BY DEF NoDropping, StallOnlyAfterOverflow
<1>. QED
  BY <1>1, <1>2, <1>3, TypeCorrect, PTL DEF SafetySpec

(* The buffer's levels keep their ranges and, as long as no send has       *)
(* failed, the wake-up of the I2S task is not lost.                        *)
THEOREM NoWakeUpLost == SafetySpec => []WakeUpsKept
BY TypeCorrect, NoStallWithoutOverflow, PTL DEF WakeUpsKept

-----------------------------------------------------------------------------
(* The double buffer of the FFT. *)

LEMMA BufferTypes ==
    /\ N \in Nat \ {0} /\ MaxFrames \in Nat \ {0} /\ Lag \in 0 .. 2 * N
    /\ B!TypeOK => frame - 1 \in B!Frames
BY SizeAssumption DEF B!SizeAssumption, B!TypeOK, B!Frames

-----------------------------------------------------------------------------
(* A sample arrives. *)

LEMMA SampleTypes ==
    ASSUME B!TypeOK, B!Sample
    PROVE  B!TypeOK'
<1>1. /\ frame \in B!Frames /\ 1 - fft_read \in B!Halves /\ widx \in B!Cells
      /\ arrived' \in 0 .. Lag
  BY BufferTypes DEF B!Sample, B!TypeOK, B!Frames, B!Halves, B!Cells
<1>2. buf' \in [B!Halves -> [B!Cells -> B!Frames]]
  BY <1>1 DEF B!Sample, B!TypeOK
<1>3. widx' \in B!Cells /\ frame' \in 1 .. MaxFrames + 1 /\ fft_read' \in B!Halves /\ giving' \in BOOLEAN
  <2>1. CASE widx + 1 < N
    <3>1. widx' = widx + 1 /\ UNCHANGED <<fft_read, frame, giving>>
      BY <1>1, <2>1, BufferTypes DEF B!Sample, B!Cells
    <3>. QED
      BY <1>1, <2>1, <3>1, BufferTypes DEF B!TypeOK, B!Cells
  <2>2. CASE ~(widx + 1 < N)
    <3>1. widx' = 0 /\ frame' = frame + 1 /\ fft_read' = 1 - fft_read /\ giving' = TRUE
      BY <2>2 DEF B!Sample, B!Swap
    <3>2. frame \in 1 .. MaxFrames
      BY BufferTypes DEF B!Sample, B!TypeOK
    <3>. QED
      BY <1>1, <3>1, <3>2, BufferTypes DEF B!TypeOK, B!Cells
  <2>. QED
    BY <2>1, <2>2
<1>. QED
  BY <1>1, <1>2, <1>3 DEF B!Sample, B!TypeOK, B!reader

LEMMA SampleStored ==
    ASSUME B!TypeOK, B!HalvesInTurn, B!Sample
    PROVE  /\ fft_read \in {0, 1} /\ widx \in 0 .. N - 1 /\ frame \in 1 .. MaxFrames
           /\ \A i \in B!Cells :
                 /\ buf'[fft_read][i] = frame - 1
                 /\ i <= widx => buf'[1 - fft_read][i] = frame
                 /\ i > widx /\ frame > 1 => buf'[1 - fft_read][i] = frame - 2
<1>1. /\ fft_read \in {0, 1} /\ 1 - fft_read \in B!Halves /\ fft_read # 1 - fft_read
      /\ widx \in 0 .. N - 1 /\ frame \in 1 .. MaxFrames /\ fft_read \in B!Halves
  BY BufferTypes DEF B!Sample, B!TypeOK, B!Halves, B!Cells
<1>2. /\ buf'[fft_read] = buf[fft_read]
      /\ buf'[1 - fft_read] = [buf[1 - fft_read] EXCEPT ![widx] = frame]
  BY <1>1 DEF B!Sample, B!TypeOK
<1>3. \A i \in B!Cells :
         /\ i = widx => buf'[1 - fft_read][i] = frame
         /\ i # widx => buf'[1 - fft_read][i] = buf[1 - fft_read][i]
  BY <1>1, <1>2 DEF B!TypeOK
<1>. QED
  BY <1>1, <1>2, <1>3 DEF B!HalvesInTurn, B!Cells

LEMMA SampleHalves ==
    ASSUME B!TypeOK, B!HalvesInTurn, B!Sample
    PROVE  B!HalvesInTurn'
<1>1. /\ fft_read \in {0, 1} /\ widx \in 0 .. N - 1 /\ frame \in 1 .. MaxFrames
      /\ N \in Nat \ {0}
      /\ \A i \in B!Cells :
            /\ buf'[fft_read][i] = frame - 1
            /\ i <= widx => buf'[1 - fft_read][i] = frame
            /\ i > widx /\ frame > 1 => buf'[1 - fft_read][i] = frame - 2
  BY SampleStored, BufferTypes
<1>2. CASE widx + 1 < N
  <2>1. widx' = widx + 1 /\ fft_read' = fft_read /\ frame' = frame
    BY <1>1, <1>2 DEF B!Sample
  <2>2. \A i \in B!Cells : (i < widx' => i <= widx) /\ (i >= widx' => i > widx)
    BY <1>1, <2>1 DEF B!Cells
  <2>. QED
    BY <1>1, <2>1, <2>2 DEF B!HalvesInTurn
<1>3. CASE ~(widx + 1 < N)
  <2>1. widx' = 0 /\ frame' = frame + 1 /\ fft_read' = 1 - fft_read
    BY <1>3 DEF B!Sample, B!Swap
  <2>2. 1 - fft_read' = fft_read /\ frame' - 1 = frame /\ frame' - 2 = frame - 1
    BY <1>1, <2>1
  <2>3. \A i \in B!Cells : i <= widx /\ ~(i < 0)
    BY <1>1, <1>3 DEF B!Cells
  <2>. QED
    BY <1>1, <2>1, <2>2, <2>3 DEF B!HalvesInTurn
<1>. QED
  BY <1>2, <1>3

(* The writer goes on and the copy stays behind it by less than Lag. *)
LEMMA SampleWhileCopying ==
    ASSUME B!TypeOK, B!Sample, task = "copy", NEW f \in 1 .. MaxFrames, B!Copying(f)
    PROVE  B!Copying(f)'
<1>1. /\ fft_read \in {0, 1} /\ widx \in 0 .. N - 1 /\ frame \in 1 .. MaxFrames
      /\ arrived \in 0 .. Lag /\ arrived < Lag /\ arrived' = arrived + 1
      /\ UNCHANGED <<source, ridx, fft_input>> /\ N \in Nat \ {0} /\ Lag \in 0 .. 2 * N
  BY BufferTypes DEF B!Sample, B!TypeOK, B!Halves, B!Cells, B!reader
<1>2. CASE widx + 1 < N
  <2>1. widx' = widx + 1 /\ UNCHANGED <<fft_read, frame>>
    BY <1>1, <1>2 DEF B!Sample
  <2>2. \A i \in 0 .. ridx - 1 : i < widx => i < widx'
    BY <1>1, <2>1
  <2>. QED
    BY <1>1, <2>1, <2>2 DEF B!Copying
<1>3. CASE ~(widx + 1 < N)
  <2>1. widx' = 0 /\ frame' = frame + 1 /\ fft_read' = 1 - fft_read /\ widx = N - 1
    BY <1>1, <1>3 DEF B!Sample, B!Swap
  <2>2. CASE /\ frame = f + 1 /\ source = fft_read /\ arrived <= widx
             /\ \A i \in 0 .. ridx - 1 : fft_input[i] = f
    BY <1>1, <2>1, <2>2 DEF B!Copying
  <2>3. CASE /\ frame = f + 2 /\ source = 1 - fft_read /\ arrived > widx
             /\ \A i \in 0 .. ridx - 1 : fft_input[i] = f \/ (fft_input[i] = f + 2 /\ i < widx)
    <3>1. arrived' > N + widx' /\ frame' = f + 3 /\ source' = fft_read'
      BY <1>1, <2>1, <2>3
    <3>2. \A i \in 0 .. ridx' - 1 : fft_input'[i] \in {f, f + 2}
      BY <1>1, <2>3
    <3>. QED
      BY <3>1, <3>2 DEF B!Copying
  <2>4. CASE arrived > N + widx
    BY <1>1, <2>1, <2>4
  <2>. QED
    BY <2>2, <2>3, <2>4 DEF B!Copying
<1>. QED
  BY <1>2, <1>3

LEMMA SampleCounts ==
    ASSUME B!TypeOK, B!CopiesCounted, B!Sample
    PROVE  B!CopiesCounted'
<1>2a. frame \in 1 .. MaxFrames /\ widx \in 0 .. N - 1 /\ N \in Nat
  BY BufferTypes DEF B!Sample, B!TypeOK, B!Cells
<1>2b. ~giving /\ times \in [B!Frames -> Nat]
  BY DEF B!Sample, B!TypeOK
<1>2c. frame - 1 \in B!Frames /\ frame \in B!Frames
  BY <1>2a, BufferTypes DEF B!Frames
<1>1. /\ frame \in 1 .. MaxFrames /\ ~giving /\ times \in [B!Frames -> Nat]
      /\ widx \in 0 .. N - 1 /\ N \in Nat
      /\ frame - 1 \in B!Frames /\ frame \in B!Frames
  BY <1>2a, <1>2b, <1>2c
<1>0. UNCHANGED <<ready_sem, task, ridx, times>>
  BY DEF B!Sample, B!reader
<1>2. CASE widx + 1 < N
  <2>1. UNCHANGED <<frame, giving>>
    BY <1>1, <1>2 DEF B!Sample
  <2>. QED
    BY <1>0, <1>1, <2>1 DEF B!CopiesCounted, B!Tokens
<1>3. CASE ~(widx + 1 < N)
  <2>1. frame' = frame + 1 /\ giving' = TRUE /\ frame' - 1 = frame
    BY <1>1, <1>3 DEF B!Sample
  <2>2. times'[frame' - 1] = 0
    BY <1>0, <1>1, <2>1 DEF B!CopiesCounted
  <2>3. B!Tokens' <= 3
    BY <1>0, <1>1, <2>1 DEF B!Tokens
  <2>4. \A f \in B!Frames : f >= frame' => f >= frame
    BY <1>1, <2>1 DEF B!Frames
  <2>5. frame' # 1
    BY <1>1, <2>1
  <2>6. (times[frame - 1] + B!Tokens <= 3)'
    BY <2>2, <2>3 DEF B!Tokens
  <2>. QED
    BY <1>0, <1>1, <2>4, <2>5, <2>6 DEF B!CopiesCounted
<1>. QED
  BY <1>2, <1>3

LEMMA SampleStep ==
    ASSUME B!IInv, B!Sample
    PROVE  B!IInv'
<1>1. B!TypeOK' /\ B!HalvesInTurn' /\ B!CopiesCounted'
  BY SampleTypes, SampleHalves, SampleCounts DEF B!IInv
<1>2. UNCHANGED <<task, ridx, fft_input>>
  BY DEF B!Sample, B!reader
<1>3. task' = "copy" => ridx' < N /\ \E f \in 1 .. MaxFrames : B!Copying(f)'
  BY <1>2, SampleWhileCopying DEF B!IInv
<1>4. B!InputAlmostWhole'
  <2>1. B!Copied => arrived' = arrived
    BY DEF B!Copied, B!Sample
  <2>. QED
    BY <1>2, <2>1 DEF B!IInv, B!InputAlmostWhole, B!Copied
<1>. QED
  BY <1>1, <1>3, <1>4 DEF B!IInv

-----------------------------------------------------------------------------
(* The copy. *)

(* A copy that begins takes the last whole frame, and its token.            *)
LEMMA BeginCopyStep ==
    ASSUME B!IInv, B!BeginCopy
    PROVE  B!IInv'
<1>. /\ UNCHANGED <<buf, fft_read, widx, frame, giving, ready_sem, ridx, fft_input>>
     /\ task = "execute" /\ ridx = 0 /\ task' = "copy" /\ source' = fft_read /\ arrived' = 0
     /\ times' = [times EXCEPT ![frame - 1] = @ + 1]
  BY DEF B!BeginCopy, B!writer
<1>1. /\ B!TypeOK /\ times \in [B!Frames -> Nat] /\ frame - 1 \in B!Frames /\ N \in Nat \ {0}
      /\ frame \in 1 .. MaxFrames + 1 /\ Lag \in Nat /\ fft_read \in B!Halves
      /\ widx \in 0 .. N - 1
  BY BufferTypes DEF B!IInv, B!TypeOK, B!Cells
<1>2. B!TypeOK'
  <2>1. times' \in [B!Frames -> Nat] /\ arrived' \in 0 .. Lag
    BY <1>1
  <2>. QED
    BY <1>1, <2>1 DEF B!TypeOK
<1>3. B!HalvesInTurn'
  BY DEF B!IInv, B!HalvesInTurn
<1>4. frame # 1
  BY DEF B!IInv, B!CopiesCounted
<1>5. B!CopiesCounted'
  <2>1. /\ times'[frame - 1] = times[frame - 1] + 1
        /\ \A f \in B!Frames : f # frame - 1 => times'[f] = times[f]
    BY <1>1
  <2>2. B!Tokens = B!Tokens' + 1 /\ B!Tokens' \in 0 .. 2
    BY DEF B!Tokens
  <2>3. times[frame - 1] + B!Tokens <= 3 /\ times[0] = 0
        /\ \A f \in B!Frames : times[f] <= 3 /\ (f >= frame => times[f] = 0)
    BY DEF B!IInv, B!CopiesCounted
  <2>4. times[frame - 1] \in Nat
    BY <1>1
  <2>5. times'[frame - 1] + B!Tokens' <= 3 /\ times'[frame - 1] <= 3
    <3>. HIDE DEF B!Tokens
    <3>. QED
      BY <2>1, <2>2, <2>3, <2>4
  <2>6. 0 \in B!Frames /\ 0 # frame - 1 /\ \A f \in B!Frames : f >= frame => f # frame - 1
    BY <1>1, <1>4, BufferTypes DEF B!Frames
  <2>7. \A f \in B!Frames : times'[f] <= 3 /\ (f >= frame => times'[f] = 0)
    BY <2>1, <2>3, <2>5, <2>6
  <2>8. times'[0] = 0
    BY <2>1, <2>3, <2>6
  <2>9. (times[frame - 1] + B!Tokens <= 3)'
    BY <2>5
  <2>. QED
    BY <1>4, <2>7, <2>8, <2>9 DEF B!CopiesCounted
<1>6. PICK f \in 1 .. MaxFrames : f = frame - 1
  BY <1>1, <1>4, BufferTypes
<1>6a. B!Copying(f)'
  <2>1. frame' = f + 1 /\ arrived' <= widx' /\ 0 .. ridx' - 1 = {}
    BY <1>1, <1>6
  <2>. QED
    BY <2>1 DEF B!Copying
<1>7. ridx' < N /\ ~B!Copied'
  BY <1>1 DEF B!Copied
<1>8. B!InputAlmostWhole'
  BY <1>7 DEF B!InputAlmostWhole
<1>9. task' = "copy" => ridx' < N /\ \E g \in 1 .. MaxFrames : B!Copying(g)'
  BY <1>6a, <1>7
<1>. QED
  BY <1>2, <1>3, <1>5, <1>8, <1>9 DEF B!IInv

(* One cell is copied: of frame f or, where the writer is past it, f + 2.   *)
LEMMA CellCopied ==
    ASSUME B!TypeOK, B!HalvesInTurn, B!Copy, NEW f \in 1 .. MaxFrames, B!Copying(f)
    PROVE  B!Copying(f)'
<1>. /\ UNCHANGED <<buf, fft_read, widx, frame, giving, ready_sem, source, arrived, times>>
     /\ ridx < N /\ ridx' = ridx + 1
     /\ fft_input' = [fft_input EXCEPT ![ridx] = buf[source][ridx]]
  BY DEF B!Copy, B!writer
<1>1. ridx \in B!Cells /\ fft_input \in [B!Cells -> B!Frames] /\ ridx \in 0 .. N - 1 /\ N \in Nat
      /\ fft_read \in {0, 1} /\ widx \in 0 .. N - 1 /\ frame \in Nat /\ MaxFrames \in Nat
  BY BufferTypes DEF B!TypeOK, B!Cells, B!Halves
<1>2. /\ fft_input'[ridx] = buf[source][ridx]
      /\ \A i \in 0 .. ridx - 1 : fft_input'[i] = fft_input[i]
      /\ \A i \in 0 .. ridx' - 1 : i = ridx \/ i \in 0 .. ridx - 1
  <2>1. \A i \in 0 .. ridx - 1 : i \in B!Cells /\ i # ridx
    BY <1>1 DEF B!Cells
  <2>2. \A i \in 0 .. ridx' - 1 : i = ridx \/ i \in 0 .. ridx - 1
    BY <1>1
  <2>. QED
    BY <1>1, <2>1, <2>2
<1>3. /\ buf[fft_read][ridx] = frame - 1
      /\ ridx < widx => buf[1 - fft_read][ridx] = frame
      /\ ~(ridx < widx) /\ frame > 1 => buf[1 - fft_read][ridx] = frame - 2
  BY <1>1 DEF B!HalvesInTurn
<1>4. CASE /\ frame = f + 1 /\ source = fft_read /\ arrived <= widx
           /\ \A i \in 0 .. ridx - 1 : fft_input[i] = f
  <2>1. fft_input'[ridx] = f
    BY <1>1, <1>2, <1>3, <1>4
  <2>2. \A i \in 0 .. ridx' - 1 : fft_input'[i] = f
    BY <1>2, <1>4, <2>1
  <2>. QED
    BY <1>4, <2>2 DEF B!Copying
<1>5. CASE /\ frame = f + 2 /\ source = 1 - fft_read /\ arrived > widx
           /\ \A i \in 0 .. ridx - 1 : fft_input[i] = f \/ (fft_input[i] = f + 2 /\ i < widx)
  <2>1. fft_input'[ridx] = f \/ (fft_input'[ridx] = f + 2 /\ ridx < widx)
    BY <1>1, <1>2, <1>3, <1>5
  <2>2. \A i \in 0 .. ridx' - 1 : fft_input'[i] = f \/ (fft_input'[i] = f + 2 /\ i < widx)
    BY <1>2, <1>5, <2>1
  <2>. QED
    BY <1>5, <2>2 DEF B!Copying
<1>6. CASE /\ frame = f + 3 /\ source = fft_read /\ arrived > N + widx
           /\ \A i \in 0 .. ridx - 1 : fft_input[i] \in {f, f + 2}
  <2>1. fft_input'[ridx] = f + 2
    BY <1>1, <1>2, <1>3, <1>6
  <2>2. \A i \in 0 .. ridx' - 1 : fft_input'[i] \in {f, f + 2}
    BY <1>2, <1>6, <2>1
  <2>. QED
    BY <1>6, <2>2 DEF B!Copying
<1>. QED
  BY <1>4, <1>5, <1>6 DEF B!Copying

(* The last cell: what overtook the copy came after it began.               *)
LEMMA CopyCompletes ==
    ASSUME B!TypeOK', NEW f \in 1 .. MaxFrames, B!Copying(f)', ridx' = N
    PROVE  B!InputAlmostWhole'
<1>1. /\ N \in Nat \ {0} /\ widx' \in 0 .. N - 1 /\ arrived' \in Nat
      /\ \A i \in B!Cells : i \in 0 .. ridx' - 1 /\ i \in 0 .. N - 1
  BY BufferTypes DEF B!TypeOK, B!Cells
<1>2. CASE \A i \in 0 .. ridx' - 1 : fft_input'[i] = f
  BY <1>1, <1>2 DEF B!InputAlmostWhole
<1>3. CASE /\ arrived' > widx'
           /\ \A i \in 0 .. ridx' - 1 : fft_input'[i] = f \/ (fft_input'[i] = f + 2 /\ i < widx')
  <2>1. \A i \in B!Cells : i < widx' => i + 1 < arrived'
    BY <1>1, <1>3
  <2>. QED
    BY <1>1, <1>3, <2>1 DEF B!InputAlmostWhole
<1>4. CASE /\ arrived' > N + widx'
           /\ \A i \in 0 .. ridx' - 1 : fft_input'[i] \in {f, f + 2}
  <2>1. PICK w \in Nat : w = widx'
    BY <1>1
  <2>2. PICK a \in Nat : a = arrived'
    BY <1>1
  <2>3. a > N + w /\ N \in Nat
    BY <1>1, <1>4, <2>1, <2>2
  <2>4. \A i \in B!Cells : i + 1 < a
    BY <2>3 DEF B!Cells
  <2>. QED
    BY <1>1, <1>4, <2>2, <2>4 DEF B!InputAlmostWhole
<1>. QED
  BY <1>2, <1>3, <1>4 DEF B!Copying

LEMMA CopyStep ==
    ASSUME B!IInv, B!Copy
    PROVE  B!IInv'
<1>. /\ UNCHANGED <<buf, fft_read, widx, frame, giving, ready_sem, source, arrived, times>>
     /\ task = "copy" /\ ridx < N /\ ridx' = ridx + 1
     /\ fft_input' = [fft_input EXCEPT ![ridx] = buf[source][ridx]]
     /\ task' = IF ridx + 1 = N THEN "execute" ELSE "copy"
  BY DEF B!Copy, B!writer
<1>1. B!TypeOK /\ ridx \in 0 .. N - 1 /\ N \in Nat \ {0}
  BY BufferTypes DEF B!IInv, B!TypeOK
<1>2. PICK f \in 1 .. MaxFrames : B!Copying(f)
  BY DEF B!IInv
<1>3. B!Copying(f)'
  BY <1>2, CellCopied DEF B!IInv
<1>4. B!TypeOK'
  <2>1. ridx' \in 0 .. N /\ ridx \in B!Cells
    BY <1>1 DEF B!Cells
  <2>2. buf[source][ridx] \in B!Frames
    BY <1>1, <2>1 DEF B!TypeOK
  <2>3. fft_input' \in [B!Cells -> B!Frames]
    BY <1>1, <2>1, <2>2 DEF B!TypeOK
  <2>. QED
    BY <1>1, <2>1, <2>3 DEF B!TypeOK
<1>5. B!HalvesInTurn'
  BY DEF B!IInv, B!HalvesInTurn
<1>6. B!CopiesCounted'
  <2>1. ridx' # 0 /\ frame # 1
    BY <1>1 DEF B!IInv, B!CopiesCounted
  <2>2. B!Tokens' = B!Tokens
    BY <2>1 DEF B!Tokens
  <2>. QED
    BY <2>1, <2>2 DEF B!IInv, B!CopiesCounted
<1>7. B!InputAlmostWhole'
  <2>1. CASE ridx' = N
    BY <1>3, <1>4, <2>1, CopyCompletes
  <2>2. CASE ridx' # N
    BY <2>2 DEF B!InputAlmostWhole, B!Copied
  <2>. QED
    BY <2>1, <2>2
<1>8. task' = "copy" => ridx' < N
  BY <1>1
<1>. QED
  BY <1>3, <1>4, <1>5, <1>6, <1>7, <1>8 DEF B!IInv

-----------------------------------------------------------------------------
(* The semaphore. *)
LEMMA TokenStep ==
    ASSUME B!IInv, B!Give \/ B!Take \/ B!Execute
    PROVE  B!IInv'
<1>1. CASE B!Give
  <2>1. /\ giving /\ giving' = FALSE /\ ready_sem' = TRUE
        /\ UNCHANGED <<buf, fft_read, widx, frame, task, source, ridx, fft_input, arrived, times>>
    BY <1>1 DEF B!Give, B!reader
  <2>2. B!TypeOK' /\ B!HalvesInTurn'
    BY <2>1 DEF B!IInv, B!TypeOK, B!HalvesInTurn
  <2>3. B!CopiesCounted'
    <3>1. frame # 1 /\ B!Tokens' <= B!Tokens /\ B!Tokens \in Nat /\ B!Tokens' \in Nat
      BY <2>1 DEF B!IInv, B!CopiesCounted, B!Tokens
    <3>2. times[frame - 1] \in Nat
      BY BufferTypes DEF B!IInv, B!TypeOK
    <3>3. (times[frame - 1] + B!Tokens <= 3)'
      <4>1. times[frame - 1] + B!Tokens <= 3 /\ times'[frame' - 1] = times[frame - 1]
        BY <2>1 DEF B!IInv, B!CopiesCounted
      <4>. QED
        BY <3>1, <3>2, <4>1
    <3>. QED
      BY <2>1, <3>1, <3>3 DEF B!IInv, B!CopiesCounted
  <2>4. B!InputAlmostWhole'
    BY <2>1 DEF B!IInv, B!InputAlmostWhole, B!Copied
  <2>5. task' = "copy" => ridx' < N /\ \E f \in 1 .. MaxFrames : B!Copying(f)'
    BY <2>1 DEF B!IInv, B!Copying
  <2>. QED
    BY <2>2, <2>3, <2>4, <2>5 DEF B!IInv
<1>2. CASE B!Take \/ B!Execute
  <2>1. /\ UNCHANGED <<buf, fft_read, widx, frame, giving, source, fft_input, arrived, times>>
        /\ \/ /\ ready_sem /\ ready_sem' = FALSE /\ task' = "execute" /\ ridx' = 0
              /\ task = "take"
           \/ /\ task' = "take" /\ task = "execute" /\ ridx = N /\ ridx' = ridx
              /\ ready_sem' = ready_sem
    BY <1>2 DEF B!Take, B!Execute, B!writer
  <2>2. B!TypeOK'
    <3>1. B!TypeOK /\ 0 \in 0 .. N
      BY BufferTypes DEF B!IInv
    <3>2. ready_sem' \in BOOLEAN /\ task' \in {"take", "copy", "execute"} /\ ridx' \in 0 .. N
      BY <2>1, <3>1 DEF B!TypeOK
    <3>. QED
      BY <2>1, <3>1, <3>2 DEF B!TypeOK
  <2>3. B!HalvesInTurn'
    BY <2>1 DEF B!IInv, B!HalvesInTurn
  <2>4. B!Tokens' = B!Tokens /\ frame # 1
    BY <2>1, BufferTypes DEF B!Tokens, B!IInv, B!CopiesCounted
  <2>5. B!CopiesCounted'
    BY <2>1, <2>4 DEF B!IInv, B!CopiesCounted
  <2>6. ~B!Copied'
    BY <2>1, BufferTypes DEF B!Copied
  <2>. QED
    BY <2>1, <2>2, <2>3, <2>5, <2>6 DEF B!IInv, B!InputAlmostWhole
<1>. QED
  BY <1>1, <1>2

LEMMA BufferInit == B!Init => B!IInv
<1>. SUFFICES ASSUME B!Init PROVE B!IInv
  OBVIOUS
<1>. USE DEF B!Init
<1>1. /\ N \in Nat \ {0} /\ 0 \in B!Frames /\ 0 \in B!Cells /\ 0 \in 0 .. Lag /\ 0 \in 0 .. N
      /\ 1 \in 1 .. MaxFrames + 1
  BY BufferTypes DEF B!Frames, B!Cells
<1>2. B!TypeOK
  BY <1>1 DEF B!TypeOK, B!Halves
<1>3. B!HalvesInTurn
  BY <1>1 DEF B!HalvesInTurn, B!Halves, B!Cells
<1>4. B!CopiesCounted
  <2>1. B!Tokens = 0
    BY DEF B!Tokens
  <2>2. \A f \in B!Frames : times[f] = 0
    OBVIOUS
  <2>. QED
    BY <1>1, <2>1, <2>2 DEF B!CopiesCounted
<1>5. B!InputAlmostWhole
  BY DEF B!InputAlmostWhole, B!Copied
<1>. QED
  BY <1>2, <1>3, <1>4, <1>5 DEF B!IInv

(* What the FFT takes is one frame, up to the samples that overtook the     *)
(* copy, and at most three times the same: BlocksTaken of every run, for    *)
(* every block size and every stream, as long as less than two frames come  *)
(* during one copy.                                                         *)
THEOREM WholeBlocksTaken == MCSpec => []BlocksTaken
<1>1. MCInit => B!IInv
  BY BufferInit DEF MCInit
<1>2. B!IInv /\ [MCNext]_<<part, vars, bufferVars>> => B!IInv'
  <2>. SUFFICES ASSUME B!IInv, [MCNext]_<<part, vars, bufferVars>> PROVE B!IInv'
    OBVIOUS
  <2>1. CASE B!Next
    BY <2>1, SampleStep, TokenStep, BeginCopyStep, CopyStep DEF B!Next, B!FftTask
  <2>2. CASE UNCHANGED bufferVars
    BY <2>2 DEF bufferVars, B!IInv, B!TypeOK, B!HalvesInTurn, B!CopiesCounted, B!Tokens,
       B!Copying, B!InputAlmostWhole, B!Copied
  <2>. QED
    BY <2>1, <2>2 DEF MCNext
<1>3. B!IInv => BlocksTaken
  BY DEF B!IInv, BlocksTaken, B!CopiesCounted, B!ThriceAtMost
<1>. QED
  BY <1>1, <1>2, <1>3, PTL DEF MCSpec
===============================================================================
