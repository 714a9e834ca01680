---------------------------- MODULE PairingDisplay ----------------------------
(***************************************************************************)
(* What the speaker shows in PAIRING and PAIR_FAIL                          *)
(* (main/States/Pairing/pairing_state.c, main/States/PairingFail, and      *)
(* main/Animation.c).  PAIRING runs a state machine of its own, whose three *)
(* states share one counter: two scrolls of a text, blinking eyes, and     *)
(* scrolls of the Bluetooth name or the IP address.  When the main loop    *)
(* enters and leaves the two states is SpeakerStates' subject.             *)
(***************************************************************************)
EXTENDS Integers, Sequences

CONSTANTS
    Cols,          \* FRAME_BUF_COLS
    SearchWidth,   \* width of "SEARCHING FOR DEVICE"
    Names,         \* widths of the device name there may be
    Addresses,     \* widths of the IP address there may be
    EyeFrames,     \* hold counts of the eyes
    Closed,        \* the frame of the closed eyes: 2
    EyeUpdates,    \* updates after which the eyes may end: 500
    ArrowFrames,   \* hold counts of the arrows
    None

Widths == Names \cup Addresses \cup {SearchWidth}

PairingAssumption ==
    /\ Cols \in Nat \ {0} /\ SearchWidth \in Nat
    /\ Names \subseteq Nat /\ Addresses \subseteq Nat /\ None \notin Int
    /\ \E w \in Widths : \A v \in Widths : v <= w
    /\ EyeFrames \in Seq(Nat \ {0}) /\ Closed \in 0 .. Len(EyeFrames) - 1
    /\ ArrowFrames \in Seq(Nat \ {0}) /\ ArrowFrames # <<>>
    /\ EyeUpdates \in Nat

INSTANCE Animation

VARIABLES
    mode,      \* the main loop's state: "PAIRING", "PAIR_FAIL" or any "OTHER"
    sub,       \* pairing_state_manager's state
    idx,       \* state_ctx.idx, which its states share
    cnt,       \* search_cnt and code_cnt
    bt_name,   \* width of the name, or None for NULL
    address,   \* width of the address, or None while it is not valid
    eye,       \* state_ctx.eye_animation
    arrow,     \* arrow_animation
    entered,   \* history: sub has changed and drawn nothing yet
    at,        \* history: where the text was last drawn, or None
    held       \* history: how often the frame was drawn, or None before a change

names == <<bt_name, address>>
history == <<entered, at, held>>
vars == <<mode, sub, idx, cnt, names, eye, arrow, history>>

Widest == CHOOSE w \in Widths : \A v \in Widths : v <= w

TypeOK ==
    /\ mode \in {"PAIRING", "PAIR_FAIL", "OTHER"}
    /\ sub \in {"SEARCHING", "EYES", "CODE"}
    /\ sub # "EYES" => idx \in -2 * Widest .. 2 * Cols
    /\ idx \in Int
    /\ cnt \in [search : 0 .. 2, code : 0 .. 4]
    /\ bt_name \in Names \cup {None} /\ address \in Addresses \cup {None}
    /\ eye \in Sequence(EyeFrames) /\ eye.idx <= EyeFrames[eye.current_frame + 1]
    /\ arrow \in Sequence(ArrowFrames) /\ arrow.idx <= ArrowFrames[arrow.current_frame + 1]
    /\ entered \in BOOLEAN
    /\ at \in -Widest .. Cols \cup {None}
    /\ held \in [eye : Nat \cup {None}, arrow : Nat \cup {None}]

\* pairing_state_init and pairing_fail_state_init.
Init ==
    /\ mode = "OTHER"
    /\ sub = "SEARCHING"
    /\ idx = 2 * Cols
    /\ cnt = [search |-> 0, code |-> 0]
    /\ bt_name = None /\ address = None
    /\ eye = animation_sequence_reset
    /\ arrow = animation_sequence_reset
    /\ entered = TRUE
    /\ at = None
    /\ held = [eye |-> None, arrow |-> 0]

-----------------------------------------------------------------------------
\* C's division truncates: the last column is left for two updates each.
Half(i) == IF i >= 0 THEN i \div 2 ELSE -((-i) \div 2)

(* sm_change_state, with the on_enter functions of the three states.         *)

ToSearching ==
    /\ sub' = "SEARCHING"
    /\ idx' = 2 * Cols
    /\ cnt' = [cnt EXCEPT !.search = 0]
    /\ entered' = TRUE
    /\ UNCHANGED <<eye, held>>

ToEyes ==
    /\ sub' = "EYES"
    /\ idx' = 0
    /\ eye' = animation_sequence_set_frame(eye, EyeFrames, Closed)
    /\ held' = [held EXCEPT !.eye = None]
    /\ entered' = TRUE

\* Mutant of ToCode: the shared counter is left as the eyes leave it.
ToCodeKeepIdx ==
    /\ sub' = "CODE"
    /\ idx' = idx
    /\ cnt' = [cnt EXCEPT !.code = 0]
    /\ entered' = TRUE

ToCode ==
    /\ sub' = "CODE"
    /\ idx' = 2 * Cols
    /\ cnt' = [cnt EXCEPT !.code = 0]
    /\ entered' = TRUE

(* The main loop enters and leaves the states.                               *)

PairingEnter ==
    /\ mode = "OTHER"
    /\ mode' = "PAIRING"
    /\ bt_name' \in Names \cup {None}
    /\ address' \in Addresses \cup {None}
    /\ ToSearching
    /\ UNCHANGED <<arrow, at>>

\* WIFI_READY comes with an address, or with none.
WifiReady ==
    /\ mode = "PAIRING"
    /\ address' \in Addresses \cup {None}
    /\ UNCHANGED <<mode, sub, idx, cnt, bt_name, eye, arrow, history>>

PairingExit ==
    /\ mode = "PAIRING"
    /\ mode' \in {"PAIR_FAIL", "OTHER"}
    /\ UNCHANGED <<sub, idx, cnt, names, eye, arrow, history>>

FailExit ==
    /\ mode = "PAIR_FAIL"
    /\ mode' = "OTHER"
    /\ UNCHANGED <<sub, idx, cnt, names, eye, arrow, history>>

-----------------------------------------------------------------------------
(* The updates.                                                              *)

Draw == at' = Half(idx)
GoOn == entered' = FALSE /\ UNCHANGED <<sub, eye, held>>

\* One step of a scroll; Over when the text has left the display.
Over(width) == Half(idx - 1) <= -width

SearchingUpdate ==
    /\ mode = "PAIRING" /\ sub = "SEARCHING"
    /\ Draw
    /\ \/ /\ ~Over(SearchWidth)
          /\ idx' = idx - 1
          /\ GoOn /\ UNCHANGED cnt
       \/ /\ Over(SearchWidth) /\ cnt.search < 1
          /\ idx' = 2 * Cols
          /\ cnt' = [cnt EXCEPT !.search = @ + 1]
          /\ GoOn
       \/ /\ Over(SearchWidth) /\ cnt.search >= 1
          /\ cnt' = [cnt EXCEPT !.search = @ + 1]
          /\ ToEyes
    /\ UNCHANGED <<mode, names, arrow>>

\* The draws of the frame, counted from the first change of frame.
Advanced(seq, new, count) ==
    IF new.current_frame # seq.current_frame THEN 1
    ELSE IF count = None THEN None ELSE count + 1

EyesUpdate ==
    /\ mode = "PAIRING" /\ sub = "EYES"
    /\ eye' = animation_sequence_update(eye, EyeFrames)
    /\ held' = [held EXCEPT !.eye = Advanced(eye, eye', @)]
    /\ at' = None
    /\ IF idx + 1 >= EyeUpdates /\ eye'.current_frame = Closed
       THEN ToCode
       ELSE /\ idx' = idx + 1
            /\ entered' = FALSE
            /\ UNCHANGED <<sub, cnt>>
    /\ UNCHANGED <<mode, names, arrow>>

\* The name, or else the address: two scrolls of the one or five of the other.
CodeUpdate ==
    /\ mode = "PAIRING" /\ sub = "CODE"
    /\ LET width == IF bt_name # None THEN bt_name ELSE address
           turns == IF bt_name # None THEN 2 ELSE 5
       IN \/ /\ width = None
             /\ ToSearching /\ UNCHANGED at
          \/ /\ width # None /\ ~Over(width)
             /\ Draw
             /\ idx' = idx - 1
             /\ GoOn /\ UNCHANGED cnt
          \/ /\ width # None /\ Over(width) /\ cnt.code + 1 < turns
             /\ Draw
             /\ idx' = 2 * Cols
             /\ cnt' = [cnt EXCEPT !.code = @ + 1]
             /\ GoOn
          \/ /\ width # None /\ Over(width) /\ cnt.code + 1 >= turns
             /\ Draw
             /\ ToSearching
    /\ UNCHANGED <<mode, names, arrow>>

FailUpdate ==
    /\ mode = "PAIR_FAIL"
    /\ arrow' = animation_sequence_update(arrow, ArrowFrames)
    /\ held' = [held EXCEPT !.arrow = Advanced(arrow, arrow', @)]
    /\ UNCHANGED <<mode, sub, idx, cnt, names, eye, entered, at>>

-----------------------------------------------------------------------------
Update == SearchingUpdate \/ EyesUpdate \/ CodeUpdate \/ FailUpdate

Next ==
    \/ PairingEnter \/ PairingExit \/ FailExit \/ WifiReady
    \/ Update

\* The main loop updates its state again and again.
Spec == Init /\ [][Next]_vars /\ WF_vars(Update)

-----------------------------------------------------------------------------
(* A text enters the display from the right whenever PAIRING is entered or  *)
(* its state machine moves on, whatever the shared counter was used for     *)
(* (286-296, 331-343, 377-387).                                             *)
TextEntersRight ==
    [][sub # "EYES" /\ entered /\ ~entered' => at' = Cols]_vars

(* Every frame is drawn as often as its hold count says, but the closed     *)
(* eyes with which EYES begins (30-53, 341, 357), however often PAIRING and *)
(* PAIR_FAIL are left and entered in between.                               *)
FramesHeld ==
    [][/\ eye'.current_frame # eye.current_frame /\ sub = "EYES" /\ held.eye # None =>
              held.eye = EyeFrames[eye.current_frame + 1]
       /\ arrow'.current_frame # arrow.current_frame =>
              held.arrow = ArrowFrames[arrow.current_frame + 1]]_vars

(* As long as PAIRING lasts the three displays take turns, also while the   *)
(* address comes and goes (313-322, 365-368, 400-437).                      *)
DisplaysTakeTurns ==
    <>[](mode = "PAIRING") =>
        []<>(sub = "SEARCHING") /\ []<>(sub = "EYES") /\ []<>(sub = "CODE")

-----------------------------------------------------------------------------
(* What is inductive: a text that is not drawn yet starts outside, the      *)
(* searches are counted to two, and an animation's counter is the number of *)
(* times its frame was drawn.                                               *)
IInv ==
    /\ TypeOK
    /\ sub # "EYES" /\ entered => idx = 2 * Cols
    /\ sub = "SEARCHING" => cnt.search <= 1
    /\ Len(EyeFrames) > 1 /\ held.eye # None => held.eye = eye.idx
    /\ Len(ArrowFrames) > 1 => held.arrow = arrow.idx
=============================================================================
