---------------------------- MODULE FrameBuffer ----------------------------
(***************************************************************************)
(* The display's three buffers (FrameBuffer.c) between the tasks that draw *)
(* (the main task in every state, the FFT task while STREAMING) and the    *)
(* display task, which copies one row per timer tick and swaps buffers     *)
(* before row 0.  The pointers rbuf, wbuf and ibuf and the flags update    *)
(* and triple_buffering are plain variables, accessed by both cores        *)
(* without a lock: every statement that touches them is an action.         *)
(*                                                                         *)
(* A buffer's pixels are abstracted to the number of the frame they belong *)
(* to and whether they are that whole frame.                               *)
(***************************************************************************)
EXTENDS Naturals

CONSTANTS
    Rows,       \* FRAME_BUF_ROWS
    MaxFrames,  \* frames drawn (bound)
    Presses     \* short presses of the pair button, which runs select_action (bound)

ASSUME RowsAssumption == Rows \in Nat \ {0}
ASSUME BoundsAssumption == MaxFrames \in Nat /\ Presses \in Nat

VARIABLES
    rbuf, wbuf, ibuf,       \* the buffer shown, the one drawn to, the spare one
    update,                 \* buffer->update: ibuf holds a frame not yet shown
    triple_buffering,       \* buffer->triple_buffering
    content,                \* what every buffer holds
    pc,                     \* where each drawing task is
    temp,                   \* its local `temp` of buffer_update
    mine,                   \* the frame it draws
    drawn,                  \* frames begun
    display_pc,             \* where the display task is
    display_temp,           \* its local `temp` of buffer_start_of_frame
    row_idx,                \* the row it copies next
    scan,                   \* what the rows copied since row 0 held
    presses,                \* presses left
    next_triple,            \* select_action's static triple_buffering
    raced,                  \* history: two tasks were in the pointers at once
    overrun                 \* history: a frame was begun or handed over too early

pointers == <<rbuf, wbuf, ibuf>>
drawVars == <<content, pc, temp, mine, drawn>>
displayVars == <<display_pc, display_temp, row_idx, scan>>
selectVars == <<triple_buffering, presses, next_triple>>
vars == <<pointers, update, drawVars, displayVars, selectVars, raced, overrun>>

Buffers == {"buf0", "buf1", "buf2"}
Writers == {"main", "fft"}
Contents == [frame : 0..MaxFrames, whole : BOOLEAN]

TypeOK ==
    /\ rbuf \in Buffers /\ wbuf \in Buffers /\ ibuf \in Buffers
    /\ update \in BOOLEAN
    /\ triple_buffering \in BOOLEAN
    /\ content \in [Buffers -> Contents]
    /\ pc \in [Writers -> {"idle", "draw", "update", "store_i", "store_w",
                           "announce", "store_r", "store_wr"}]
    /\ temp \in [Writers -> Buffers]
    /\ mine \in [Writers -> 0..MaxFrames]
    /\ drawn \in 0..MaxFrames
    /\ display_pc \in {"row", "clear", "take", "store_i", "store_r", "copy"}
    /\ display_temp \in Buffers
    /\ row_idx \in 0..(Rows - 1)
    /\ scan \subseteq Contents
    /\ presses \in 0..Presses
    /\ next_triple \in BOOLEAN
    /\ raced \in BOOLEAN /\ overrun \in BOOLEAN

-----------------------------------------------------------------------------
(* buffer_reset(). *)
Init ==
    /\ rbuf = "buf0" /\ wbuf = "buf1" /\ ibuf = "buf2"
    /\ update = FALSE /\ triple_buffering = TRUE
    /\ content = [b \in Buffers |-> [frame |-> 0, whole |-> TRUE]]
    /\ pc = [w \in Writers |-> "idle"]
    /\ temp = [w \in Writers |-> "buf0"]
    /\ mine = [w \in Writers |-> 0]
    /\ drawn = 0
    /\ display_pc = "row" /\ display_temp = "buf0" /\ row_idx = 0
    /\ scan = {}
    /\ presses = Presses /\ next_triple = TRUE
    /\ raced = FALSE /\ overrun = FALSE

-----------------------------------------------------------------------------
(* The drawing tasks. *)

Goto(w, next) == pc' = [pc EXCEPT ![w] = next]

(* buffer_clear(): a new frame is begun in whatever buffer wbuf is. *)
Clear(w) ==
    /\ pc[w] = "idle" /\ drawn < MaxFrames
    /\ Goto(w, "draw")
    /\ drawn' = drawn + 1
    /\ mine' = [mine EXCEPT ![w] = drawn + 1]
    /\ content' = [content EXCEPT ![wbuf] = [frame |-> drawn + 1, whole |-> FALSE]]
    /\ overrun' = (overrun \/ \E v \in Writers : pc[v] # "idle")
    /\ UNCHANGED <<pointers, update, temp, displayVars, selectVars>>

(* buffer_set_pixel() and the other drawing calls: the frame is whole if it*)
(* all went into one buffer and nobody else drew there.                    *)
Draw(w) ==
    /\ pc[w] = "draw"
    /\ Goto(w, "update")
    /\ content' = [content EXCEPT ![wbuf] =
                      [frame |-> mine[w], whole |-> content[wbuf].frame = mine[w]]]
    /\ UNCHANGED <<pointers, update, temp, mine, drawn, displayVars, selectVars, overrun>>

(* Mutant of UpdateTake: a frame is dropped while one is waiting. *)
UpdateUnlessPending(w) ==
    /\ pc[w] = "update"
    /\ overrun' = (overrun \/ update \/ display_pc \notin {"row", "copy"})
    /\ IF update THEN temp' = temp /\ Goto(w, "idle")
       ELSE IF triple_buffering THEN temp' = [temp EXCEPT ![w] = ibuf] /\ Goto(w, "store_i")
       ELSE temp' = [temp EXCEPT ![w] = rbuf] /\ Goto(w, "store_r")
    /\ UNCHANGED <<pointers, update, content, mine, drawn, displayVars, selectVars>>

(* buffer_update(): first the mode and the pointer to give away. *)
UpdateTake(w) ==
    /\ pc[w] = "update"
    /\ overrun' = (overrun \/ update \/ display_pc \notin {"row", "copy"})
    /\ \/ triple_buffering
          /\ temp' = [temp EXCEPT ![w] = ibuf] /\ Goto(w, "store_i")
       \/ ~triple_buffering
          /\ temp' = [temp EXCEPT ![w] = rbuf] /\ Goto(w, "store_r")
    /\ UNCHANGED <<pointers, update, content, mine, drawn, displayVars, selectVars>>

StoreI(w) ==
    /\ pc[w] = "store_i"
    /\ ibuf' = wbuf
    /\ Goto(w, "store_w")
    /\ UNCHANGED <<rbuf, wbuf, update, content, temp, mine, drawn, displayVars,
                   selectVars, overrun>>

(* Mutant of StoreW: the spare buffer is not taken for drawing. *)
StoreWForgotten(w) ==
    /\ pc[w] \in {"store_w", "store_wr"}
    /\ Goto(w, IF pc[w] = "store_w" THEN "announce" ELSE "idle")
    /\ UNCHANGED <<pointers, update, content, temp, mine, drawn, displayVars,
                   selectVars, overrun>>

(* wbuf = temp, the last pointer of both modes. *)
StoreW(w) ==
    /\ pc[w] \in {"store_w", "store_wr"}
    /\ wbuf' = temp[w]
    /\ Goto(w, IF pc[w] = "store_w" THEN "announce" ELSE "idle")
    /\ UNCHANGED <<rbuf, ibuf, update, content, temp, mine, drawn, displayVars,
                   selectVars, overrun>>

Announce(w) ==
    /\ pc[w] = "announce"
    /\ update' = TRUE
    /\ Goto(w, "idle")
    /\ UNCHANGED <<pointers, content, temp, mine, drawn, displayVars, selectVars, overrun>>

(* Double buffering swaps the buffer being shown. *)
StoreR(w) ==
    /\ pc[w] = "store_r"
    /\ rbuf' = wbuf
    /\ Goto(w, "store_wr")
    /\ UNCHANGED <<wbuf, ibuf, update, content, temp, mine, drawn, displayVars,
                   selectVars, overrun>>

-----------------------------------------------------------------------------
(* The display task, update_display(). *)

(* A timer tick; before row 0 buffer_start_of_frame() looks for a frame.   *)
StartOfFrame ==
    /\ display_pc = "row"
    /\ display_pc' = IF row_idx = 0 /\ triple_buffering /\ update THEN "clear" ELSE "copy"
    /\ UNCHANGED <<pointers, update, drawVars, display_temp, row_idx, scan, selectVars,
                   overrun>>

(* Mutant of SwapClear: update stays set. *)
SwapKeepingUpdate ==
    /\ display_pc = "clear"
    /\ display_pc' = "take"
    /\ UNCHANGED <<pointers, update, drawVars, display_temp, row_idx, scan, selectVars,
                   overrun>>

SwapClear ==
    /\ display_pc = "clear"
    /\ update' = FALSE
    /\ display_pc' = "take"
    /\ UNCHANGED <<pointers, drawVars, display_temp, row_idx, scan, selectVars, overrun>>

SwapTake ==
    /\ display_pc = "take"
    /\ display_temp' = ibuf
    /\ display_pc' = "store_i"
    /\ UNCHANGED <<pointers, update, drawVars, row_idx, scan, selectVars, overrun>>

SwapStoreI ==
    /\ display_pc = "store_i"
    /\ ibuf' = rbuf
    /\ display_pc' = "store_r"
    /\ UNCHANGED <<rbuf, wbuf, update, drawVars, display_temp, row_idx, scan,
                   selectVars, overrun>>

SwapStoreR ==
    /\ display_pc = "store_r"
    /\ rbuf' = display_temp
    /\ display_pc' = "copy"
    /\ UNCHANGED <<wbuf, ibuf, update, drawVars, display_temp, row_idx, scan,
                   selectVars, overrun>>

(* One row is copied to the shift registers.  Double buffering may change  *)
(* frames at any row, so there the rows before are forgotten.              *)
CopyRow ==
    /\ display_pc = "copy"
    /\ scan' = (IF row_idx = 0 \/ ~triple_buffering THEN {} ELSE scan) \cup {content[rbuf]}
    /\ row_idx' = (row_idx + 1) % Rows
    /\ display_pc' = "row"
    /\ UNCHANGED <<pointers, update, drawVars, display_temp, selectVars, overrun>>

(* select_action(), run by the event manager: its first press enables what *)
(* is enabled already.                                                     *)
Select ==
    /\ presses > 0
    /\ presses' = presses - 1
    /\ triple_buffering' = next_triple
    /\ next_triple' = ~next_triple
    /\ scan' = {}
    /\ UNCHANGED <<pointers, update, drawVars, display_pc, display_temp, row_idx, overrun>>

-----------------------------------------------------------------------------
DrawSteps(w) ==
    \/ Clear(w) \/ Draw(w)
    \/ UpdateTake(w) \/ StoreI(w) \/ StoreW(w) \/ Announce(w) \/ StoreR(w)

DisplaySteps ==
    \/ StartOfFrame \/ SwapClear \/ SwapTake \/ SwapStoreI \/ SwapStoreR \/ CopyRow

(* Two tasks are in the pointers at once: both drawing tasks, the display  *)
(* task in its swap and one of them in buffer_update(), or a swap of the   *)
(* shown buffer left over from double buffering.                           *)
Overlap ==
    \/ \A w \in Writers : pc[w] # "idle"
    \/ /\ display_pc \in {"take", "store_i", "store_r"}
       /\ \E w \in Writers : pc[w] \notin {"idle", "draw", "update"}
    \/ triple_buffering /\ \E w \in Writers : pc[w] = "store_r"

Next ==
    /\ DisplaySteps \/ Select \/ \E w \in Writers : DrawSteps(w)
    /\ raced' = (raced \/ Overlap')

(* The display's timer ticks for ever; frames may stop. *)
Fairness == WF_vars(DisplaySteps /\ raced' = (raced \/ Overlap'))

SafetySpec == Init /\ [][Next]_vars
Spec == SafetySpec /\ Fairness

-----------------------------------------------------------------------------
(* Properties. *)

(* The display shows whole frames only, and one frame per scan, unless two *)
(* tasks were in the pointers at once: the swaps themselves hand over      *)
(* buffers correctly, in both modes and across the switch between them.    *)
NoTear ==
    ~raced => /\ \A c \in scan : c.whole
              /\ triple_buffering => \A c, d \in scan : c = d

(* No press has touched the buffering mode. *)
Untouched == presses = Presses

(* The swaps of the display and of a drawing task overlap only if a frame  *)
(* was handed over before the last one was shown, or begun while the other *)
(* task drew: one task that draws slower than the display scans is safe    *)
(* without a lock.                                                         *)
RaceNeedsOverrun == raced /\ Untouched => overrun

(* Whole frames are shown unless two tasks meet in the pointers, and it    *)
(* takes an early frame for them to meet (FrameBuffer.c 160-207).          *)
FramesWhole == TypeOK /\ NoTear /\ RaceNeedsOverrun

(* The newest frame that was handed over: all but the one in the hand of a *)
(* task that has begun it and not stored its buffer yet.                   *)
HandedOver ==
    IF \E w \in Writers : pc[w] \in {"draw", "update", "store_i"} THEN drawn - 1 ELSE drawn

(* A frame is on its way to the display, announced or taken. *)
OnItsWay ==
    \/ update \/ display_pc \in {"clear", "take", "store_i", "store_r"}
    \/ \E w \in Writers : pc[w] \in {"store_w", "announce"}

M == INSTANCE Mailbox WITH
         last <- HandedOver, shown <- content[rbuf].frame, waiting <- OnItsWay,
         intact <- Untouched /\ ~raced

(* With triple buffering the three buffers are a mailbox for one frame: a  *)
(* swap always shows the newest frame handed over, whenever it began, and  *)
(* no frame is lost but to a newer one (FrameBuffer.c 160-207).            *)
ImplementsMailbox == M!SafetySpec

(* When drawing stops the display comes to show the last frame drawn, even *)
(* if frames before it were overrun.                                       *)
LastFrameShown ==
    <>[](Untouched /\ ~raced /\ \A w \in Writers : pc[w] = "idle")
        => <>[](content[rbuf].frame = drawn)

-----------------------------------------------------------------------------
(* The inductive invariants. *)

Drawing == \E w \in Writers : pc[w] = "draw"
InUpdate(w) == pc[w] \in {"store_i", "store_w", "announce", "store_r", "store_wr"}
Distinct == rbuf # wbuf /\ wbuf # ibuf /\ ibuf # rbuf

(* Without an early frame, nobody swaps while a frame is handed over. *)
InTurn ==
    /\ Untouched => triple_buffering
    /\ Untouched /\ ~overrun =>
          /\ ~raced
          /\ \E w \in Writers : pc[w] = "idle"
          /\ \A w \in Writers : pc[w] \notin {"store_r", "store_wr"}
          /\ \A w \in Writers : InUpdate(w) =>
                ~update /\ display_pc \in {"row", "copy"}

(* Who holds which buffer, at every point of a swap that runs alone. *)
Handover ==
    /\ display_pc # "store_r" /\ (\A w \in Writers : pc[w] \notin {"store_w", "store_wr"})
          => Distinct
    /\ display_pc = "store_i" => display_temp = ibuf
    /\ display_pc = "store_r" =>
          ibuf = rbuf /\ rbuf # wbuf /\ display_temp \notin {rbuf, wbuf}
    /\ \A w \in Writers :
          /\ pc[w] = "store_i" => temp[w] = ibuf
          /\ pc[w] = "store_r" => temp[w] = rbuf
          /\ pc[w] = "store_w" => ibuf = wbuf /\ rbuf # wbuf /\ temp[w] \notin {rbuf, wbuf}
          /\ pc[w] = "store_wr" => rbuf = wbuf /\ ibuf # wbuf /\ temp[w] \notin {ibuf, wbuf}

(* Only the buffer being drawn to holds less than a whole frame. *)
WholeFrames ==
    /\ \A b \in Buffers : content[b].whole \/ (b = wbuf /\ Drawing)
    /\ \A w \in Writers : pc[w] = "draw" => content[wbuf].frame = mine[w]

(* The rows of a scan begun with triple buffering are those of rbuf. *)
ScanOfShown ==
    /\ display_pc \notin {"row", "copy"} => row_idx = 0
    /\ \A c \in scan : c.whole
    /\ triple_buffering => \A c, d \in scan : c = d
    /\ triple_buffering /\ row_idx # 0 => scan \subseteq {content[rbuf]}

NoTearInv ==
    ~raced => ~Overlap /\ Handover /\ WholeFrames /\ ScanOfShown

(* The newest frame is where the display will look for it, at every point  *)
(* of its way, and on the display when none is on the way; the one in the  *)
(* hand of a task is in the buffer that task draws to.                     *)
FrameOrder ==
    Untouched /\ ~raced =>
        /\ triple_buffering
        /\ display_pc \in {"take", "store_i", "store_r"} => ~update
        /\ \A w \in Writers :
              /\ pc[w] \notin {"store_r", "store_wr"}
              /\ pc[w] \in {"draw", "update", "store_i"} =>
                    mine[w] = drawn /\ content[wbuf].frame = drawn
        /\ (\/ update \/ display_pc \in {"clear", "take"}
            \/ \E w \in Writers : pc[w] \in {"store_w", "announce"})
              => content[ibuf].frame = HandedOver
        /\ display_pc \in {"store_i", "store_r"} => content[display_temp].frame = HandedOver
        /\ ~OnItsWay => content[rbuf].frame = HandedOver
=============================================================================
