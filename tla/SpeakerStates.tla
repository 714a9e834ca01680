--------------------------- MODULE SpeakerStates ---------------------------
(***************************************************************************)
(* The top-level state machine of the speaker: app_main's loop calls       *)
(* sm_update() and sleeps for the state's delay, while other contexts run  *)
(* beside it:                                                              *)
(*   - the FreeRTOS timer daemon, which runs the one-shot callbacks of the *)
(*     four timed states and of the FFT task's idle timer;                 *)
(*   - BtAppTask, which sets active_connection and pushes BT events;       *)
(*   - the FFT task, which pushes FIRST_AUDIO_PACKET for every block of    *)
(*     audio it sees outside STREAMING and restarts its idle timer;        *)
(*   - the GPIO interrupts of the buttons.                                 *)
(* They share the main loop's event queue, the `*_timeout` flags, the      *)
(* timers and the Bluetooth flags, none of them under a lock.              *)
(*                                                                         *)
(* Time.  A timer counts through the phases fresh, aged and due, one per   *)
(* vTaskDelay of the main loop, and may fire when due: every timer lasts   *)
(* 5 s or more, a loop period at most 50 ms, so at least two periods fit.  *)
(* Bluetooth start-up and teardown take less than the shortest timer, so   *)
(* they age no timer.  Two calls have no time-out and may outlast any of   *)
(* them, or never end: the sleep sound, and bt_audio_deinit() when the     *)
(* STACK_DOWN it waits for was not dispatched.                             *)
(***************************************************************************)
EXTENDS Naturals, Sequences

CONSTANTS
    QueueLen,   \* MAX_EVENTS: the capacity of the main loop's event queue
    Burst       \* events that can arrive between two drains of that queue

ASSUME QueueLenAssumption == QueueLen \in Nat
ASSUME BurstAssumption == Burst \in Nat /\ Burst < QueueLen

VARIABLES
    pc,                 \* where the main task is (see MainPC)
    current_state,      \* state_manager.current_state
    delay_ms,           \* ctx->delay_ms
    time_idx,           \* the menu's set_time_state_t
    queue,              \* ctx->event_queue
    pushed,             \* events pushed since the last drain (bounded by Burst)
    seen,               \* the local flags the running update() has set
    bt_snapshot,        \* its local `bluetooth_connected`
    timer,              \* phase of the timer of every timed state
    timeout,            \* the `*_timeout` flag of every timed state
    audio_enabled,      \* bt_audio.c: audio_enabled
    active_connection,  \* active_connection
    bt_up,              \* the A2DP sink is up: its callbacks are registered
    stop_failed,        \* history: a bt_audio_deinit() has returned early
    audio,              \* the peer is sending audio (environment)
    fft_pc,             \* where the FFT task is
    idle_timer          \* phase of the FFT task's idle timer

mainVars == <<pc, current_state, delay_ms, time_idx, seen, bt_snapshot>>
queueVars == <<queue, pushed>>
timerVars == <<timer, timeout>>
btVars == <<audio_enabled, active_connection, bt_up, stop_failed>>
fftVars == <<audio, fft_pc, idle_timer>>
vars == <<mainVars, queueVars, timerVars, btVars, fftVars>>

-----------------------------------------------------------------------------
(* system_states_t without BOOT_STATE_, which is never registered. *)
TimedStates == {"PAIRING", "PAIR_SUCCESS", "PAIR_FAIL", "IDLE"}
States == TimedStates \cup {"STREAMING", "MENU", "DISPLAY_OFF", "SLEEP"}

(* em_system_event_t as the states tell them apart: the two volume buttons *)
(* act alike, and events no state looks at only take a slot of the queue.  *)
Buttons == {"PAIR_LONG_PRESS", "PAIR_SHORT_PRESS", "VOL_SHORT_PRESS"}
Events == Buttons \cup {"BT_AUDIO_CONNECTED", "BT_AUDIO_DISCONNECTED",
                        "FIRST_AUDIO_PACKET", "STREAMING_TIMEOUT"}

(* The events an update() has a local flag for. *)
Heard(s) ==
    CASE s = "PAIRING"     -> {"PAIR_LONG_PRESS", "BT_AUDIO_CONNECTED"}
      [] s = "IDLE"        -> Buttons \cup {"FIRST_AUDIO_PACKET"}
      [] s = "MENU"        -> {"PAIR_LONG_PRESS", "PAIR_SHORT_PRESS"}
      [] s = "DISPLAY_OFF" -> Buttons \cup {"FIRST_AUDIO_PACKET"}
      [] s = "STREAMING"   -> {"STREAMING_TIMEOUT"}
      [] OTHER             -> {}

(* The loop proper, and the calls that block inside on_enter or update. *)
LoopPC == {"delay", "drain", "decide"}
CallPC == {"bt_init", "fail_deinit", "fail_teardown", "sleep_sfx",
           "pm_deinit", "pm_teardown", "no_stop", "light_sleep"}
MainPC == LoopPC \cup CallPC
Phases == {"off", "fresh", "aged", "due"}

DEFAULT_STATE_DELAY_MS == 20
IDLE_DELAY_MS == 50

TypeOK ==
    /\ pc \in MainPC
    /\ current_state \in States
    /\ delay_ms \in {DEFAULT_STATE_DELAY_MS, IDLE_DELAY_MS}
    /\ time_idx \in {"SET_TIME_IDLE", "SET_TIME_HOURS", "SET_TIME_MINUTES"}
    /\ queue \in Seq(Events) /\ Len(queue) <= QueueLen
    /\ pushed \in Nat
    /\ seen \subseteq Events
    /\ bt_snapshot \in BOOLEAN
    /\ timer \in [TimedStates -> Phases]
    /\ timeout \in [TimedStates -> BOOLEAN]
    /\ audio_enabled \in BOOLEAN
    /\ active_connection \in BOOLEAN
    /\ bt_up \in BOOLEAN
    /\ stop_failed \in BOOLEAN
    /\ audio \in BOOLEAN
    /\ fft_pc \in {"wait", "push", "arm"}
    /\ idle_timer \in Phases

-----------------------------------------------------------------------------
(* Helpers. *)
Awake == pc # "light_sleep"
InLoop == pc \in LoopPC

(* One queue's share of push_event(): a full queue drops the event. *)
Offer(e) == queue' = IF Len(queue) < QueueLen THEN Append(queue, e) ELSE queue

(* Between two drains at most Burst events arrive: the loop period is      *)
(* 20-50 ms, an FFT block lasts as long and a button is debounced for      *)
(* 50 ms.  While the main task is inside a blocking call there is no bound.*)
Push(e) ==
    /\ InLoop => pushed < Burst
    /\ pushed' = IF InLoop THEN pushed + 1 ELSE pushed
    /\ Offer(e)

Older(phase) ==
    CASE phase = "fresh" -> "aged"
      [] phase = "aged"  -> "due"
      [] OTHER           -> phase

(* on_exit of state s stops its timer. *)
Stopped(s) == IF s \in TimedStates THEN [timer EXCEPT ![s] = "off"] ELSE timer

(* Mutant of Arm: on_enter leaves the flag of the last visit set. *)
ArmKeepingFlag(s, t) ==
    /\ timer' = IF s \in TimedStates THEN [t EXCEPT ![s] = "fresh"] ELSE t
    /\ UNCHANGED timeout

(* Starts the timer of state s and clears its flag, from timers t. *)
Arm(s, t) ==
    /\ timer' = IF s \in TimedStates THEN [t EXCEPT ![s] = "fresh"] ELSE t
    /\ timeout' = IF s \in TimedStates THEN [timeout EXCEPT ![s] = FALSE] ELSE timeout

(* Mutant of EntryCall: the teardown does not ask whether there is a session.*)
EntryCallUnasked(s) ==
    CASE s = "PAIRING" /\ ~audio_enabled  -> "bt_init"
      [] s = "PAIR_FAIL"                  -> "fail_deinit"
      [] s = "SLEEP"                      -> "sleep_sfx"
      [] OTHER                            -> "delay"

(* The call on_enter of state s blocks in before it arms its timer. *)
EntryCall(s) ==
    CASE s = "PAIRING" /\ ~audio_enabled  -> "bt_init"
      [] s = "PAIR_FAIL" /\ audio_enabled -> "fail_deinit"
      [] s = "SLEEP"                      -> "sleep_sfx"
      [] OTHER                            -> "delay"

(* The locals of update() die with it. *)
EndUpdate == seen' = {} /\ bt_snapshot' = FALSE

(* sm_change_state(): on_exit of the old state, on_enter of the new one.   *)
(* The part of on_enter after a blocking call is an action of its own.     *)
sm_change_state(next) ==
    /\ current_state' = next
    /\ delay_ms' = IF next = "IDLE" THEN IDLE_DELAY_MS ELSE DEFAULT_STATE_DELAY_MS
    /\ pc' = EntryCall(next)
    /\ EndUpdate
    /\ IF EntryCall(next) = "delay"
       THEN Arm(next, Stopped(current_state))
       ELSE timer' = Stopped(current_state) /\ UNCHANGED timeout

-----------------------------------------------------------------------------
(* app_main has brought Bluetooth up (or failed to) before it calls        *)
(* init_system_states(), so a peer may already be connected; sm_init()     *)
(* runs pairing_state_on_enter(), which retries a failed start-up.         *)
Init ==
    /\ current_state = "PAIRING"
    /\ delay_ms = DEFAULT_STATE_DELAY_MS
    /\ time_idx = "SET_TIME_IDLE"
    /\ queue = <<>> /\ pushed = 0 /\ seen = {}
    /\ bt_snapshot = FALSE
    /\ bt_up \in BOOLEAN
    /\ audio_enabled = bt_up
    /\ active_connection \in {FALSE, bt_up}
    /\ stop_failed = FALSE
    /\ audio = FALSE /\ fft_pc = "wait" /\ idle_timer = "off"
    /\ pc = EntryCall("PAIRING")
    /\ timer = [s \in TimedStates |->
                    IF s = "PAIRING" /\ pc = "delay" THEN "fresh" ELSE "off"]
    /\ timeout = [s \in TimedStates |-> FALSE]

-----------------------------------------------------------------------------
(* The main task: vTaskDelay, then sm_update(). *)

(* vTaskDelay ends and update() starts: it reads bt_audio_connected()      *)
(* before it looks at the queue.                                           *)
BeginUpdate ==
    /\ pc = "delay"
    /\ pc' = "drain"
    /\ bt_snapshot' = active_connection
    /\ seen' = {}
    /\ timer' = [s \in TimedStates |-> Older(timer[s])]
    /\ idle_timer' = Older(idle_timer)
    /\ UNCHANGED <<current_state, delay_ms, time_idx, queueVars, timeout, btVars,
                   audio, fft_pc>>

(* One round of `while (xQueueReceive(event_queue, &event, 0) == pdTRUE)`. *)
ReceiveEvent ==
    /\ pc = "drain"
    /\ queue # <<>>
    /\ seen' = seen \cup ({Head(queue)} \cap Heard(current_state))
    /\ queue' = Tail(queue)
    /\ UNCHANGED <<pc, current_state, delay_ms, time_idx, bt_snapshot, pushed,
                   timerVars, btVars, fftVars>>

QueueEmpty ==
    /\ pc = "drain"
    /\ queue = <<>>
    /\ pc' = "decide"
    /\ pushed' = 0
    /\ UNCHANGED <<current_state, delay_ms, time_idx, seen, bt_snapshot, queue,
                   timerVars, btVars, fftVars>>

(* update() returns without a change of state. *)
Return ==
    /\ pc' = "delay"
    /\ EndUpdate
    /\ UNCHANGED <<current_state, delay_ms>>

(* pairing_state_update: a connection wins over the timeout and the button.*)
PairingUpdate ==
    LET connected == "BT_AUDIO_CONNECTED" \in seen \/ bt_snapshot
        failed == timeout["PAIRING"] \/ "PAIR_LONG_PRESS" \in seen
    IN
    /\ pc = "decide" /\ current_state = "PAIRING"
    /\ \/ connected /\ sm_change_state("PAIR_SUCCESS")
       \/ ~connected /\ failed /\ sm_change_state("PAIR_FAIL")
       \/ ~connected /\ ~failed /\ Return /\ UNCHANGED timerVars
    /\ UNCHANGED <<time_idx, queueVars, btVars, fftVars>>

(* pairing_success_state_update and pairing_fail_state_update. *)
PairResultUpdate ==
    /\ pc = "decide" /\ current_state \in {"PAIR_SUCCESS", "PAIR_FAIL"}
    /\ \/ timeout[current_state] /\ sm_change_state("IDLE")
       \/ ~timeout[current_state] /\ Return /\ UNCHANGED timerVars
    /\ UNCHANGED <<time_idx, queueVars, btVars, fftVars>>

(* idle_state_update.  A press that leads nowhere restarts the timer; the  *)
(* flag idle_timeout is cleared by on_enter alone.                         *)
IdleUpdate ==
    LET button_pressed == seen \cap Buttons # {}
        quiet == seen = {}
        off == IF bt_snapshot THEN "DISPLAY_OFF" ELSE "SLEEP"
    IN
    /\ pc = "decide" /\ current_state = "IDLE"
    /\ \/ /\ "PAIR_LONG_PRESS" \in seen
          /\ sm_change_state("PAIRING") /\ UNCHANGED time_idx
       \/ /\ "PAIR_LONG_PRESS" \notin seen /\ "FIRST_AUDIO_PACKET" \in seen
          /\ sm_change_state("STREAMING") /\ UNCHANGED time_idx
       \/ /\ {"PAIR_LONG_PRESS", "FIRST_AUDIO_PACKET"} \cap seen = {}
          /\ "PAIR_SHORT_PRESS" \in seen
          /\ sm_change_state("MENU") /\ time_idx' = "SET_TIME_HOURS"
       \/ /\ quiet /\ timeout["IDLE"]
          /\ sm_change_state(off) /\ UNCHANGED time_idx
       \/ /\ quiet /\ ~timeout["IDLE"]
          /\ Return /\ UNCHANGED <<time_idx, timerVars>>
       \/ /\ seen = {"VOL_SHORT_PRESS"}
          /\ Return
          /\ timer' = [timer EXCEPT !["IDLE"] = "fresh"]
          /\ UNCHANGED <<time_idx, timeout>>
    /\ UNCHANGED <<queueVars, btVars, fftVars>>

(* menu_state_update: the short press selects hours, minutes, then leaves. *)
(* The long press leaves time_idx as it is; outside the menu nobody reads  *)
(* it and on_enter overwrites it, so it counts as SET_TIME_IDLE there.     *)
MenuUpdate ==
    /\ pc = "decide" /\ current_state = "MENU"
    /\ \/ /\ "PAIR_SHORT_PRESS" \in seen
          /\ \/ /\ time_idx = "SET_TIME_IDLE"
                /\ time_idx' = "SET_TIME_HOURS"
                /\ Return /\ UNCHANGED timerVars
             \/ /\ time_idx = "SET_TIME_HOURS"
                /\ time_idx' = "SET_TIME_MINUTES"
                /\ Return /\ UNCHANGED timerVars
             \/ /\ time_idx = "SET_TIME_MINUTES"
                /\ time_idx' = "SET_TIME_IDLE"
                /\ sm_change_state("IDLE")
       \/ /\ "PAIR_SHORT_PRESS" \notin seen /\ "PAIR_LONG_PRESS" \in seen
          /\ sm_change_state("IDLE") /\ time_idx' = "SET_TIME_IDLE"
       \/ seen = {} /\ Return /\ UNCHANGED <<time_idx, timerVars>>
    /\ UNCHANGED <<queueVars, btVars, fftVars>>

(* display_off_state_update: buttons first, then the connection, then audio. *)
DisplayOffUpdate ==
    LET pressed == seen \cap Buttons # {} IN
    /\ pc = "decide" /\ current_state = "DISPLAY_OFF"
    /\ \/ pressed /\ sm_change_state("IDLE")
       \/ ~pressed /\ ~bt_snapshot /\ sm_change_state("SLEEP")
       \/ ~pressed /\ bt_snapshot /\ seen # {} /\ sm_change_state("STREAMING")
       \/ ~pressed /\ bt_snapshot /\ seen = {} /\ Return /\ UNCHANGED timerVars
    /\ UNCHANGED <<time_idx, queueVars, btVars, fftVars>>

(* streaming_state_update: only the FFT task's timeout ends STREAMING. *)
StreamingUpdate ==
    /\ pc = "decide" /\ current_state = "STREAMING"
    /\ \/ "STREAMING_TIMEOUT" \in seen /\ sm_change_state("IDLE")
       \/ "STREAMING_TIMEOUT" \notin seen /\ Return /\ UNCHANGED timerVars
    /\ UNCHANGED <<time_idx, queueVars, btVars, fftVars>>

(* sleep_state_update up to pm_enter_sleep()'s bt_sleep handler, which     *)
(* shuts Bluetooth down if it is enabled.                                  *)
SleepUpdate ==
    /\ pc = "decide" /\ current_state = "SLEEP"
    /\ pc' = IF audio_enabled THEN "pm_deinit" ELSE "light_sleep"
    /\ EndUpdate
    /\ UNCHANGED <<current_state, delay_ms, time_idx, queueVars, timerVars, btVars,
                   fftVars>>

-----------------------------------------------------------------------------
(* The blocking calls. *)

(* Mutant of BtInitReturns: on_enter gives up when bt_audio_init() fails. *)
BtInitFailureReturnsEarly ==
    /\ pc = "bt_init"
    /\ pc' = "delay"
    /\ \/ bt_up' = TRUE /\ audio_enabled' = TRUE /\ Arm("PAIRING", timer)
       \/ UNCHANGED <<bt_up, audio_enabled, timerVars>>
    /\ UNCHANGED <<current_state, delay_ms, time_idx, seen, bt_snapshot, queueVars,
                   active_connection, stop_failed, fftVars>>

(* bt_audio_init() in pairing_state_on_enter: it may fail half-way, which  *)
(* leaves audio_enabled FALSE; on_enter goes on all the same.              *)
BtInitReturns ==
    /\ pc = "bt_init"
    /\ \E ok \in BOOLEAN : bt_up' = ok /\ audio_enabled' = ok
    /\ pc' = "delay"
    /\ Arm("PAIRING", timer)
    /\ UNCHANGED <<current_state, delay_ms, time_idx, seen, bt_snapshot, queueVars,
                   active_connection, stop_failed, fftVars>>

Stopping == pc \in {"fail_deinit", "pm_deinit"}
TearingDown == pc \in {"fail_teardown", "pm_teardown"}

(* bt_audio_deinit() dispatches STACK_DOWN and waits for it with           *)
(* portMAX_DELAY.  The queue refuses it when it is full, and is gone after *)
(* a teardown that failed: the main task then waits for ever.              *)
StackDownRefused ==
    /\ Stopping
    /\ pc' = "no_stop"
    /\ UNCHANGED <<current_state, delay_ms, time_idx, seen, bt_snapshot, queueVars,
                   timerVars, btVars, fftVars>>

(* BtAppTask has handled STACK_DOWN: the callbacks of the sink are gone,   *)
(* the messages they queued before are not.                                *)
StackDown ==
    /\ Stopping /\ bt_up
    /\ pc' = IF pc = "fail_deinit" THEN "fail_teardown" ELSE "pm_teardown"
    /\ bt_up' = FALSE
    /\ audio' = FALSE
    /\ UNCHANGED <<current_state, delay_ms, time_idx, seen, bt_snapshot, queueVars,
                   timerVars, audio_enabled, active_connection, stop_failed, fft_pc,
                   idle_timer>>

(* bt_audio_deinit() is back in its caller: the end of                     *)
(* pairing_fail_state_on_enter, or the way into light sleep.               *)
AfterDeinit ==
    \/ pc = "fail_teardown" /\ pc' = "delay" /\ Arm("PAIR_FAIL", timer)
    \/ pc = "pm_teardown" /\ pc' = "light_sleep" /\ UNCHANGED timerVars

(* Mutant of DeinitReturns: active_connection is left as it was. *)
DeinitKeepsConnection ==
    /\ TearingDown /\ AfterDeinit
    /\ audio_enabled' = FALSE
    /\ UNCHANGED <<current_state, delay_ms, time_idx, seen, bt_snapshot, queueVars,
                   active_connection, bt_up, stop_failed, fftVars>>

(* The rest of bt_audio_deinit(), when every call into the stack succeeds. *)
DeinitReturns ==
    /\ TearingDown /\ AfterDeinit
    /\ active_connection' = FALSE
    /\ audio_enabled' = FALSE
    /\ UNCHANGED <<current_state, delay_ms, time_idx, seen, bt_snapshot, queueVars,
                   bt_up, stop_failed, fftVars>>

(* One of its four calls fails: it returns with both flags as they were.   *)
(* It returns nothing, and its callers go on.                              *)
DeinitFails ==
    /\ TearingDown /\ AfterDeinit
    /\ stop_failed' = TRUE
    /\ UNCHANGED <<current_state, delay_ms, time_idx, seen, bt_snapshot, queueVars,
                   audio_enabled, active_connection, bt_up, fftVars>>

(* The calls without a time-out take as long as they take; timers run on. *)
LongWait ==
    /\ pc \in {"sleep_sfx", "no_stop"}
    /\ idle_timer' = Older(idle_timer)
    /\ idle_timer' # idle_timer
    /\ UNCHANGED <<mainVars, queueVars, timerVars, btVars, audio, fft_pc>>

(* play_audio_sfx_blocking() in sleep_state_on_enter ends with the sound. *)
SleepSfxReturns ==
    /\ pc = "sleep_sfx"
    /\ pc' = "delay"
    /\ UNCHANGED <<current_state, delay_ms, time_idx, seen, bt_snapshot, queueVars,
                   timerVars, btVars, fftVars>>

(* The VOL_M line wakes the chip: the wake handlers run (none restarts     *)
(* Bluetooth) and sleep_state_update changes to IDLE.                      *)
WakeUp ==
    /\ pc = "light_sleep"
    /\ sm_change_state("IDLE")
    /\ UNCHANGED <<time_idx, queueVars, btVars, fftVars>>

-----------------------------------------------------------------------------
(* The timer daemon. *)

(* pairing_timeout_func and the callbacks of the other timed states. *)
StateTimerFires(s) ==
    /\ Awake
    /\ timer[s] = "due"
    /\ timer' = [timer EXCEPT ![s] = "off"]
    /\ timeout' = [timeout EXCEPT ![s] = TRUE]
    /\ UNCHANGED <<mainVars, queueVars, btVars, fftVars>>

(* idle_timer_func of the FFT task: one shot, lost if the queue is full or *)
(* the state is not STREAMING yet.                                         *)
IdleTimerFires ==
    /\ Awake
    /\ idle_timer = "due"
    /\ idle_timer' = "off"
    /\ IF current_state = "STREAMING"
       THEN Offer("STREAMING_TIMEOUT") /\ pushed' = pushed + 1
       ELSE UNCHANGED queueVars
    /\ UNCHANGED <<mainVars, timerVars, btVars, audio, fft_pc>>

-----------------------------------------------------------------------------
(* BtAppTask and the buttons. *)

(* BtAppTask has connection events to handle: until it is deleted it works *)
(* off its queue, even behind STACK_DOWN.                                  *)
BtAppTaskRuns == bt_up \/ TearingDown

(* bt_av_hdl_a2d_evt, ESP_A2D_CONNECTION_STATE_CONNECTED. *)
BtConnected ==
    /\ Awake /\ BtAppTaskRuns /\ ~active_connection
    /\ active_connection' = TRUE
    /\ Push("BT_AUDIO_CONNECTED")
    /\ UNCHANGED <<mainVars, timerVars, audio_enabled, bt_up, stop_failed, fftVars>>

(* bt_av_hdl_a2d_evt, ESP_A2D_CONNECTION_STATE_DISCONNECTED. *)
BtDisconnected ==
    /\ Awake /\ BtAppTaskRuns /\ active_connection
    /\ active_connection' = FALSE
    /\ audio' = FALSE
    /\ Push("BT_AUDIO_DISCONNECTED")
    /\ UNCHANGED <<mainVars, timerVars, audio_enabled, bt_up, stop_failed, fft_pc,
                   idle_timer>>

(* The peer starts or pauses playback. *)
PeerPlays ==
    /\ Awake /\ bt_up /\ active_connection
    /\ audio' = ~audio
    /\ UNCHANGED <<mainVars, queueVars, timerVars, btVars, fft_pc, idle_timer>>

(* The button interrupts and the volume timer push their events. *)
ButtonPress(e) ==
    /\ Awake
    /\ Push(e)
    /\ UNCHANGED <<mainVars, timerVars, btVars, fftVars>>

-----------------------------------------------------------------------------
(* The FFT task, process_fft(). *)

(* Mutant of FftReadState: only the first block after a silence is pushed. *)
FftReadStateOncePerBurst ==
    /\ Awake /\ audio
    /\ fft_pc = "wait"
    /\ fft_pc' = IF current_state # "STREAMING" /\ idle_timer = "off"
                 THEN "push" ELSE "arm"
    /\ UNCHANGED <<mainVars, queueVars, timerVars, btVars, audio, idle_timer>>

(* A block of samples is ready; the task reads the system state. *)
FftReadState ==
    /\ Awake /\ audio
    /\ fft_pc = "wait"
    /\ fft_pc' = IF current_state # "STREAMING" THEN "push" ELSE "arm"
    /\ UNCHANGED <<mainVars, queueVars, timerVars, btVars, audio, idle_timer>>

FftPushFirstPacket ==
    /\ Awake
    /\ fft_pc = "push"
    /\ fft_pc' = "arm"
    /\ Push("FIRST_AUDIO_PACKET")
    /\ UNCHANGED <<mainVars, timerVars, btVars, audio, idle_timer>>

FftStartTimer ==
    /\ Awake
    /\ fft_pc = "arm"
    /\ fft_pc' = "wait"
    /\ idle_timer' = "fresh"
    /\ UNCHANGED <<mainVars, queueVars, timerVars, btVars, audio>>

-----------------------------------------------------------------------------
MainLoop ==
    \/ BeginUpdate \/ ReceiveEvent \/ QueueEmpty
    \/ PairingUpdate \/ PairResultUpdate \/ IdleUpdate \/ MenuUpdate
    \/ DisplayOffUpdate \/ StreamingUpdate \/ SleepUpdate

BtCall ==
    BtInitReturns \/ StackDown \/ StackDownRefused \/ DeinitReturns \/ DeinitFails

MainCall == BtCall \/ SleepSfxReturns

TimerDaemon == IdleTimerFires \/ \E s \in TimedStates : StateTimerFires(s)

FftTask == FftReadState \/ FftPushFirstPacket \/ FftStartTimer

Environment ==
    \/ LongWait \/ WakeUp
    \/ BtConnected \/ BtDisconnected \/ PeerPlays
    \/ \E e \in Buttons : ButtonPress(e)

Next == MainLoop \/ MainCall \/ TimerDaemon \/ FftTask \/ Environment

(* FreeRTOS schedules every ready task, and a due timer's callback runs.   *)
(* Bluetooth start-up returns; so does its teardown, or else its STACK_DOWN*)
(* was refused: one that is queued is handled (DeinitEnds of BtAudio).  The*)
(* sleep sound, whose wait is unlimited too, need not end, and no button,  *)
(* peer or wake-up is promised.                                            *)
Fairness ==
    /\ WF_vars(MainLoop)
    /\ WF_vars(BtCall)
    /\ WF_vars(IdleTimerFires)
    /\ \A s \in TimedStates : WF_vars(StateTimerFires(s))
    /\ WF_vars(FftReadState)
    /\ SF_vars(FftPushFirstPacket)
    /\ WF_vars(FftStartTimer)

SafetySpec == Init /\ [][Next]_vars
Spec == SafetySpec /\ Fairness

-----------------------------------------------------------------------------
(* Properties. *)

(* The elements of a sequence of events. *)
Contents(q) == {q[i] : i \in DOMAIN q}

(* A timed state can always end: once on_enter has returned, its timer is  *)
(* counting or its flag is set.  Violated, the speaker would stay in       *)
(* PAIR_SUCCESS, PAIR_FAIL or PAIRING, which ignore most buttons, forever. *)
TimedStateHasWayOut ==
    InLoop /\ current_state \in TimedStates =>
        timer[current_state] # "off" \/ timeout[current_state]

(* Only the current state's timer runs: a timer that outlived its state    *)
(* would set the flag of a later visit.                                    *)
OnlyCurrentTimerRuns ==
    \A s \in TimedStates : timer[s] # "off" => s = current_state

(* STREAMING ignores every button, so its end hangs on one lossy event:    *)
(* the FFT task's timer is counting or about to be restarted, or its       *)
(* STREAMING_TIMEOUT is on the way.                                        *)
StreamingHasWayOut ==
    current_state = "STREAMING" =>
        \/ idle_timer # "off" \/ fft_pc = "arm"
        \/ "STREAMING_TIMEOUT" \in Contents(queue) \cup seen

(* The chip enters light sleep with the profiles down, even if a peer      *)
(* connected between the decision to sleep and the teardown; Bluetooth is  *)
(* left enabled only by a teardown that failed.                            *)
AsleepBtDown ==
    pc = "light_sleep" =>
        ~bt_up /\ (audio_enabled \/ active_connection => stop_failed)

(* PAIR_SUCCESS is shown only while a peer can be connected: no stale      *)
(* BT_AUDIO_CONNECTED of an earlier session is taken for a new one.  Only  *)
(* what a failed teardown leaves in the flags passes for a connection.     *)
PairSuccessMeansUp == current_state = "PAIR_SUCCESS" => bt_up \/ stop_failed

(* A result screen stays for its whole period: it is left only after its   *)
(* own timer has fired in this visit.                                      *)
ResultShownFullPeriod ==
    [][\A s \in {"PAIR_SUCCESS", "PAIR_FAIL"} :
          current_state = s /\ current_state' # s => timer[s] = "off"]_vars

(* idle_state.c:208 says "Button pressed, resetting idle timer": IDLE turns*)
(* the display off or sleeps only when its timer is not counting.          *)
IdleLeftOnlyWhenTimerExpired ==
    [][current_state = "IDLE" /\ current_state' \in {"DISPLAY_OFF", "SLEEP"}
          => timer["IDLE"] = "off"]_vars

(* Pairing ends: in success or in failure, whatever the peer does. *)
PairingEnds == current_state = "PAIRING" ~> current_state # "PAIRING"

(* Result screens give way to the clock, unless the teardown that PAIR_FAIL*)
(* begins with waits for a STACK_DOWN that was refused.                    *)
ResultEnds ==
    current_state \in {"PAIR_SUCCESS", "PAIR_FAIL"}
        ~> current_state = "IDLE" \/ pc = "no_stop"

(* When the audio stops for good the speaker leaves STREAMING, and stays   *)
(* out of it.                                                              *)
StreamingEnds == <>[](~audio) => <>[](current_state # "STREAMING")

(* Audio that never stops reaches the display once the user leaves the     *)
(* buttons alone, unless in the menu, which has no timeout, or while the   *)
(* main task waits for ever in a call without a time-out.                  *)
AudioReachesDisplay ==
    (/\ <>[](audio /\ seen \cap Buttons = {} /\ current_state # "MENU")
     /\ []<>(pc \notin {"sleep_sfx", "no_stop"}))
        => []<>(current_state = "STREAMING")

(* No state is a trap: a timed state has its own timer or flag, and        *)
(* STREAMING the one event that ends it, whatever fires, is pressed or is  *)
(* dropped by a full queue meanwhile (pairing_state.c 166,                 *)
(* pairing_success_state.c 52, FFT_task.c 342).                            *)
NoTrap ==
    TypeOK /\ TimedStateHasWayOut /\ OnlyCurrentTimerRuns /\ StreamingHasWayOut

(* Bluetooth is as the state needs it: down in light sleep, up while a new *)
(* connection is announced (display_off_state.c 79, pairing_state.c 258),  *)
(* unless a teardown failed, which nobody is told of (bt_audio.c 291).     *)
BtFollowsStates == AsleepBtDown /\ PairSuccessMeansUp

(* The states that should end do, and audio that goes on is shown.         *)
StatesMoveOn == PairingEnds /\ ResultEnds /\ StreamingEnds /\ AudioReachesDisplay

-----------------------------------------------------------------------------
(* The inductive invariant behind the safety properties. *)

(* A blocking call belongs to the state whose on_enter or update makes it. *)
CallMatchesState ==
    /\ pc = "bt_init" => current_state = "PAIRING"
    /\ pc \in {"fail_deinit", "fail_teardown"} => current_state = "PAIR_FAIL"
    /\ pc \in {"sleep_sfx", "pm_deinit", "pm_teardown", "light_sleep"}
          => current_state = "SLEEP"
    /\ pc = "no_stop" => current_state \in {"PAIR_FAIL", "SLEEP"}

(* What update() has read is only in use while it runs, and is what its    *)
(* state listens to.                                                       *)
LocalsInScope ==
    /\ seen # {} \/ bt_snapshot => pc \in {"drain", "decide"}
    /\ seen \subseteq Heard(current_state)

(* The Bluetooth flags agree outside start-up and teardown, and an enabled *)
(* session without callbacks is what a failed teardown has left.           *)
BtFlagsAgree ==
    /\ active_connection \/ bt_up \/ bt_snapshot => audio_enabled
    /\ audio_enabled => bt_up \/ stop_failed \/ TearingDown
    /\ stop_failed => audio_enabled /\ ~bt_up
    /\ pc = "bt_init" => ~audio_enabled
    /\ Stopping \/ TearingDown \/ pc = "no_stop" => audio_enabled
    /\ TearingDown => ~bt_up /\ ~stop_failed

(* With Bluetooth off, a BT_AUDIO_CONNECTED left over from before is only  *)
(* found where an update() that ignores it drains it.                      *)
NoStaleConnected ==
    ~audio_enabled =>
        /\ "BT_AUDIO_CONNECTED" \in Contents(queue) =>
              \/ pc = "light_sleep"
              \/ current_state \in {"PAIR_FAIL", "IDLE"} /\ pc \in {"delay", "drain"}
        /\ "BT_AUDIO_CONNECTED" \notin seen

(* A pending FIRST_AUDIO_PACKET was pushed with the idle timer: unless the *)
(* state is about to throw it away, the timer has most of its time left.   *)
FirstPacketTimed ==
    /\ "FIRST_AUDIO_PACKET" \in Contents(queue)
          /\ ~(current_state = "SLEEP" /\ pc \in {"sleep_sfx", "delay", "drain"})
          /\ pc # "no_stop"
        => \/ fft_pc = "arm" \/ idle_timer = "fresh"
           \/ pc = "drain" /\ idle_timer = "aged"
    /\ "FIRST_AUDIO_PACKET" \in seen
        => fft_pc = "arm" \/ idle_timer \in {"fresh", "aged"}

(* The queue has room for a STREAMING_TIMEOUT when the idle timer fires. *)
TimeoutFits ==
    /\ pc = "decide" \/ current_state = "STREAMING" => Len(queue) <= pushed
    /\ pushed > Burst =>
          /\ \/ idle_timer \in {"off", "fresh"}
             \/ idle_timer = "aged" /\ pc = "drain"
          /\ \/ current_state = "STREAMING"
             \/ current_state = "IDLE" /\ pc \in {"delay", "drain"}

(* In the loop of a result screen its flag is set only once its timer is   *)
(* off: on_enter clears the flag of an earlier visit as it starts it.      *)
FlagIsOfThisVisit ==
    InLoop /\ current_state \in {"PAIR_SUCCESS", "PAIR_FAIL"} /\ timeout[current_state]
        => timer[current_state] = "off"

TimerInv == CallMatchesState /\ TimedStateHasWayOut /\ OnlyCurrentTimerRuns
BtInv == CallMatchesState /\ LocalsInScope /\ BtFlagsAgree /\ NoStaleConnected
            /\ AsleepBtDown /\ PairSuccessMeansUp
StreamInv == CallMatchesState /\ LocalsInScope /\ FirstPacketTimed /\ TimeoutFits
                /\ StreamingHasWayOut

-----------------------------------------------------------------------------
(* The Bluetooth session of the states. *)
Stage ==
    CASE pc = "bt_init" -> "starting"
      [] Stopping \/ pc = "no_stop" -> "stopping"
      [] TearingDown -> "down"
      [] OTHER -> IF ~audio_enabled THEN "off" ELSE IF bt_up THEN "on" ELSE "stuck"

S == INSTANCE BtSession WITH
         StopFaults <- TRUE, stage <- Stage, enabled <- audio_enabled,
         connected <- active_connection, up <- bt_up

(* The states use Bluetooth as a session whose stop may fail or never end: *)
(* whatever arrives while they run or block, they start it only when it is *)
(* off and stop it only when it is enabled, and expect of its flags no more*)
(* than a session promises                                                 *)
(* (pairing_state.c 157, pairing_fail_state.c 72, daftpunk_speaker.c 60).  *)
UsesSession == S!SafetySpec
=============================================================================
